--------------------------- MODULE MediaPipeProofs ---------------------------
(***************************************************************************)
(* Theorems about MediaPipe, for every length of the queues, number of     *)
(* bytes and plan of the application, and for both kinds of priorities.    *)
(***************************************************************************)
EXTENDS MediaPipe, SequenceTheorems, WellFoundedInduction, TLAPS

----------------------------------------------------------------------------
(* The calls of the controller.                                            *)

States == <<state["src"], state["int"], state["snk"]>>

\* The states the components can have together while no call is executed.  The
\* last two come from taking down a stream that runs (ExInt is then READY).
Rest ==
  {<<"reset", "reset", "reset">>, <<"init", "init", "init">>, <<"ready", "ready", "ready">>,
   <<"running", "running", "running">>, <<"reset", "ready", "reset">>, <<"init", "ready", "reset">>}

\* ... and after call o has been obeyed by k components.
AfterInit(k) ==
  {t \in {<<"init", "reset", "reset">>, <<"init", "ready", "reset">>} : k = 1}
  \cup {t \in {<<"init", "init", "reset">>} : k = 2}
  \cup {t \in {<<"init", "init", "init">>} : k = 3}

AfterConfig(k) ==
  {t \in {<<"ready", "init", "init">>, <<"ready", "ready", "reset">>} : k = 1}
  \cup {t \in {<<"ready", "ready", "init">>, <<"ready", "ready", "reset">>} : k = 2}
  \cup {t \in {<<"ready", "ready", "ready">>} : k = 3}

AfterStart(k) ==
  {t \in {<<"ready", "ready", "running">>} : k = 1}
  \cup {t \in {<<"ready", "running", "running">>} : k = 2}
  \cup {t \in {<<"running", "running", "running">>} : k = 3}

AfterStop(k) ==
  {t \in {<<"ready", "running", "running">>} : k = 1}
  \cup {t \in {<<"ready", "ready", "running">>} : k = 2}
  \cup {t \in {<<"ready", "ready", "ready">>} : k = 3}

AfterDeinit(k) ==
  {t \in {<<"reset", "init", "init">>, <<"reset", "ready", "ready">>,
          <<"reset", "running", "running">>, <<"reset", "ready", "reset">>} : k = 1}
  \cup {t \in {<<"reset", "reset", "init">>, <<"reset", "reset", "ready">>,
               <<"reset", "ready", "running">>, <<"reset", "reset", "reset">>} : k = 2}
  \cup {t \in {<<"reset", "reset", "reset">>, <<"reset", "ready", "reset">>} : k = 3}

\* How many components have obeyed the call.
Count == IF cmd[Target] = "ok" THEN at ELSE at - 1

Lockstep ==
  /\ op = "none" => at = 1 /\ ~waiting /\ States \in Rest
  /\ Count = 0 => States \in Rest
  /\ Count > 0 => States \in
       CASE op = "init" -> AfterInit(Count) [] op = "config" -> AfterConfig(Count)
         [] op = "start" -> AfterStart(Count) [] op = "stop" -> AfterStop(Count)
         [] op = "deinit" -> AfterDeinit(Count) [] OTHER -> {}

\* One command or response at a time, of the call and in the target's queue.
OneCommand ==
  /\ \A c \in Comp : cmd[c] # "none" => waiting /\ c = Target
  /\ waiting => op \in Op /\ cmd[Target] \in {op, "ok", "refused"}
  /\ waiting /\ cmd[Target] = "refused" =>
       States \in Rest /\ \A m \in Moves(Target) : m[1] = state[Target] => m[2] # op

\* A task exists from INIT to the end of the pass that led to RESET; it is
\* where its state says.
Tasks ==
  /\ \A c \in Comp : pc[c] = "off" => state[c] = "reset"
  /\ \A c \in Comp : state[c] = "reset" /\ pc[c] # "off" => cmd[c] = "init"
  /\ \A c \in Comp : pc[c] \notin {"off", "wait", "cmd"} => state[c] = "running"
  /\ \A c \in Sink : pc[c] = "cancel" => cmd[c] \in {"stop", "deinit"}
  /\ pc["src"] \in {"off", "wait", "cmd", "data", "get", "put"}
  /\ pc["int"] # "data"
  /\ pc["snk"] \notin {"data", "get", "put"}

----------------------------------------------------------------------------
(* The connections.                                                        *)

\* The slot k places behind slot w, and how far slot s is behind it: 1 is the
\* newest message of a queue whose write index is w.
Behind(w, k) == IF k <= w THEN w - k ELSE w - k + Depth + 1
Age(w, s)    == IF s < w THEN w - s ELSE w - s + Depth + 1

\* The queue holds as many messages as there are handles, the newest behind the
\* write index; the older are completed first; and both the indices in the
\* light queue and the headers they stand for go round the ring.
Ring(p) ==
  /\ \A s \in Slot : p.st[s] # "init" <=> Age(p.wr, s) <= Len(p.fullQ)
  /\ \A s, t \in Slot :
       p.st[s] # "init" /\ Age(p.wr, t) < Age(p.wr, s) /\ p.st[t] \in {"processing", "completed"}
         => p.st[s] = "completed"
  /\ \A i \in 1 .. Len(p.fullQ) :
       /\ p.fullQ[i] = Behind(NextHandle(p.fullQ), Len(p.fullQ) - i + 1)
       /\ p.msgHdr[p.fullQ[i]] = Behind(p.wr, Len(p.fullQ) - i + 1)

Connections ==
  \A c \in Sink :
    /\ Ring(port[c])
    /\ cnt[c] <= Len(port[c].fullQ)
    /\ pc[c] = "cancel" => cnt[c] = Len(port[c].fullQ)
    /\ state[c] # "running" => port[c].fullQ = <<>>
    /\ \A s \in Slot : port[c].st[s] = "processing" => pc[Up(c)] = "put" /\ hold[Up(c)] = s
    /\ pc[Up(c)] = "put" => hold[Up(c)] \in Slot /\ port[c].st[hold[Up(c)]] = "processing"

Sending ==
  pc["int"] = "put" => circ # <<>>

IInv == TypeOK /\ Lockstep /\ OneCommand /\ Tasks /\ Connections /\ Sending

----------------------------------------------------------------------------
(* The ring of slots.                                                      *)

LEMMA AfterIs ==
  ASSUME NEW s \in Slot
  PROVE  /\ After(s) = IF s = Depth THEN 0 ELSE s + 1
         /\ After(s) \in Slot
BY DepthAssumption DEF After, Slot

LEMMA FarIs ==
  ASSUME NEW s \in Slot, NEW t \in Slot
  PROVE  /\ Far(t, s) = IF s < t THEN s - t + Depth + 1 ELSE s - t
         /\ Far(t, s) = Depth + 1 - Age(t, s)
         /\ Far(t, s) \in Nat
<1>1. CASE s < t
  <2>1. -(Depth + 1) <= s - t /\ s - t < 0 /\ s - t \in Int
    BY <1>1, DepthAssumption DEF Slot
  <2>2. (s - t) % (Depth + 1) = s - t + Depth + 1
    BY <2>1, DepthAssumption
  <2> QED
    BY <1>1, <2>1, <2>2, DepthAssumption DEF Far, Age, Slot
<1>2. CASE ~(s < t)
  <2>1. s - t \in 0 .. Depth
    BY <1>2, DepthAssumption DEF Slot
  <2>2. (s - t) % (Depth + 1) = s - t
    BY <2>1, DepthAssumption
  <2> QED
    BY <1>2, <2>1, <2>2, DepthAssumption DEF Far, Age, Slot
<1> QED
  BY <1>1, <1>2

LEMMA BehindIs ==
  ASSUME NEW w \in Slot, NEW n \in 0 .. Depth, NEW i \in 1 .. n
  PROVE  /\ (w - (n - i) - 1) % (Depth + 1) = Behind(w, n - i + 1)
         /\ Behind(w, n - i + 1) \in Slot
         /\ Age(w, Behind(w, n - i + 1)) = n - i + 1
<1> DEFINE x == w - (n - i) - 1
<1>1. x \in Int /\ -(Depth + 1) <= x /\ x <= Depth
  BY DepthAssumption DEF Slot
<1>2. CASE x < 0
  <2>1. x % (Depth + 1) = x + Depth + 1
    <3> HIDE DEF x
    <3> QED  BY <1>1, <1>2, DepthAssumption
  <2> QED
    BY <1>1, <1>2, <2>1, DepthAssumption DEF Behind, Age, Slot
<1>3. CASE ~(x < 0)
  <2>1. x % (Depth + 1) = x
    <3> HIDE DEF x
    <3> QED  BY <1>1, <1>3, DepthAssumption
  <2> QED
    BY <1>1, <1>3, <2>1, DepthAssumption DEF Behind, Age, Slot
<1> QED
  BY <1>2, <1>3

\* Ages and slots correspond, whatever the write index.
LEMMA Ages ==
  ASSUME NEW w \in Slot
  PROVE  /\ \A s \in Slot : Age(w, s) \in 1 .. Depth + 1 /\ Behind(w, Age(w, s)) = s
         /\ \A s, t \in Slot : Age(w, s) = Age(w, t) => s = t
         /\ Age(w, w) = Depth + 1
         /\ Age(After(w), w) = 1
         /\ \A s \in Slot \ {w} : Age(After(w), s) = Age(w, s) + 1
<1>1. Depth \in Nat /\ (w = Depth => After(w) = 0) /\ (w # Depth => After(w) = w + 1)
  BY AfterIs, DepthAssumption
<1> QED
  BY <1>1 DEF Age, Behind, Slot

LEMMA Backs ==
  ASSUME NEW w \in Slot, NEW k \in 1 .. Depth
  PROVE  /\ Behind(After(w), k + 1) = Behind(w, k)
         /\ Behind(After(w), 1) = w
         /\ Behind(w, k) # w
         /\ Behind(w, k) \in Slot
         /\ Age(w, Behind(w, k)) = k
<1>1. Depth \in Nat /\ (w = Depth => After(w) = 0) /\ (w # Depth => After(w) = w + 1)
  BY AfterIs, DepthAssumption
<1> QED
  BY <1>1 DEF Age, Behind, Slot

Smaller == {ss \in Nat \X Nat : ss[1] < ss[2]}

LEMMA SmallerIsWellFounded == IsWellFoundedOn(Smaller, Nat)
BY NatLessThanWellFounded DEF OpToRel, Smaller

\* A nonempty set of slots has one that is nearest to w, going up.
LEMMA NearestExists ==
  ASSUME NEW w \in Slot, NEW T, T \subseteq Slot, T # {}
  PROVE  \E s \in T : \A t \in T : Far(w, s) <= Far(w, t)
<1> DEFINE D == {Far(w, s) : s \in T}
<1>1. D \subseteq Nat /\ D # {}
  BY FarIs
<1>2. PICK x \in D : \A y \in D : <<y, x>> \notin Smaller
  <2> HIDE DEF D
  <2> QED  BY <1>1, WFMin, SmallerIsWellFounded
<1>3. ASSUME NEW y \in D
      PROVE  x <= y
  <2>1. ~(y < x)
    BY <1>1, <1>2 DEF Smaller
  <2> QED
    BY <1>1, <2>1
<1>4. PICK s \in T : x = Far(w, s)
  OBVIOUS
<1> QED
  BY <1>3, <1>4

----------------------------------------------------------------------------
(* What the operations of a connection keep.                               *)

LEMMA ConnectionIs ==
  ASSUME NEW p \in Connection
  PROVE  /\ p.st \in [Slot -> Status] /\ p.buf \in [Slot -> Buf] /\ p.wr \in Slot
         /\ p.msgHdr \in [Slot -> Slot \cup {NoSlot}]
         /\ p.fullQ \in Seq(Slot) /\ Len(p.fullQ) \in 0 .. Depth
<1>1. PICK n \in 0 .. Depth : p.fullQ \in [1 .. n -> Slot]
  BY DEF Connection
<1>2. p.fullQ \in Seq(Slot) /\ Len(p.fullQ) = n
  <2>1. n \in Nat
    BY DepthAssumption
  <2>2. p.fullQ \in Seq(Slot)
    BY <1>1, <2>1, SeqDef
  <2> QED
    BY <1>1, <2>1, <2>2, LenProperties
<1> QED
  BY <1>2 DEF Connection

LEMMA QueueIs ==
  ASSUME NEW q \in Seq(Slot), Len(q) <= Depth
  PROVE  q \in UNION {[1 .. n -> Slot] : n \in 0 .. Depth}
<1>1. Len(q) \in 0 .. Depth /\ q \in [1 .. Len(q) -> Slot]
  BY LenProperties, DepthAssumption
<1> QED
  BY <1>1

LEMMA InPortInitGood ==
  ASSUME NEW p \in Connection, Ring(p), p.fullQ = <<>>
  PROVE  /\ InPortInit(p) \in Connection
         /\ Ring(InPortInit(p))
         /\ InPortInit(p).fullQ = <<>>
         /\ InPortInit(p).st = p.st
<1>1. <<>> \in UNION {[1 .. n -> Slot] : n \in 0 .. Depth}
  BY QueueIs, EmptySeq, DepthAssumption
<1>2. InPortInit(p) \in Connection
  BY <1>1 DEF InPortInit, Connection
<1>3. /\ InPortInit(p).fullQ = <<>> /\ InPortInit(p).st = p.st /\ InPortInit(p).wr = p.wr
  BY DEF InPortInit, Connection
<1> DEFINE r == InPortInit(p)
<1>4. Ring(r)
  <2> HIDE DEF r
  <2> QED  BY <1>3, EmptySeq DEF Ring, r
<1> QED
  BY <1>2, <1>3, <1>4

LEMMA NewConnectionGood ==
  /\ NewConnection \in Connection
  /\ Ring(NewConnection)
  /\ NewConnection.fullQ = <<>>
  /\ \A s \in Slot : NewConnection.st[s] = "init"
<1> DEFINE p == [st |-> [s \in Slot |-> "init"], buf |-> [s \in Slot |-> 0], wr |-> 0,
                 fullQ |-> <<>>, msgHdr |-> [h \in Slot |-> NoSlot]]
<1>1. <<>> \in UNION {[1 .. n -> Slot] : n \in 0 .. Depth}
  BY QueueIs, EmptySeq, DepthAssumption
<1>2. p \in Connection
  BY <1>1, DepthAssumption DEF Connection, Slot, Buf, Status
<1>3. 0 \in Slot /\ Len(<<>>) = 0 /\ \A i \in 1 .. Len(<<>>) : FALSE
  BY EmptySeq, DepthAssumption DEF Slot
<1>4. p.fullQ = <<>> /\ p.wr = 0 /\ \A s \in Slot : p.st[s] = "init"
  OBVIOUS
<1>5. \A s \in Slot : ~(Age(0, s) <= 0)
  BY <1>3, Ages
<1>6. Ring(p)
  <2> HIDE DEF p
  <2> QED  BY <1>3, <1>4, <1>5 DEF Ring
<1>7. InPortInit(p) = NewConnection
  BY DEF NewConnection
<1> HIDE DEF p
<1> QED
  BY <1>2, <1>4, <1>6, <1>7, InPortInitGood

\* The head of the light queue is the oldest message.
LEMMA HeadMsgIs ==
  ASSUME NEW p \in Connection, Ring(p), Len(p.fullQ) > 0
  PROVE  /\ HeadMsg(p) \in Slot
         /\ p.st[HeadMsg(p)] # "init"
         /\ Age(p.wr, HeadMsg(p)) = Len(p.fullQ)
<1> DEFINE n == Len(p.fullQ)
<1>1. n \in 1 .. Depth /\ p.fullQ \in Seq(Slot) /\ p.wr \in Slot
  BY ConnectionIs
<1>2. 1 \in 1 .. n /\ Head(p.fullQ) = p.fullQ[1]
  BY <1>1
<1>3. HeadMsg(p) = Behind(p.wr, n)
  BY <1>1, <1>2 DEF HeadMsg, Ring
<1>4. Behind(p.wr, n) \in Slot /\ Age(p.wr, Behind(p.wr, n)) = n
  BY <1>1, Backs
<1> QED
  BY <1>1, <1>3, <1>4 DEF Ring

LEMMA TakeHeadGood ==
  ASSUME NEW p \in Connection, Ring(p), Len(p.fullQ) > 0
  PROVE  /\ TakeHead(p) \in Connection
         /\ Ring(TakeHead(p))
         /\ Len(TakeHead(p).fullQ) = Len(p.fullQ) - 1
         /\ TakeHead(p).st = [p.st EXCEPT ![HeadMsg(p)] = "init"]
<1> DEFINE n == Len(p.fullQ)
           m == HeadMsg(p)
           q == Tail(p.fullQ)
           r == TakeHead(p)
<1>1. n \in 1 .. Depth /\ p.fullQ \in Seq(Slot) /\ p.wr \in Slot /\ p.st \in [Slot -> Status]
  BY ConnectionIs
<1>2. m \in Slot /\ p.st[m] # "init" /\ Age(p.wr, m) = n
  BY HeadMsgIs
<1>3. q \in Seq(Slot) /\ Len(q) = n - 1 /\ \A i \in 1 .. n - 1 : q[i] = p.fullQ[i + 1]
  BY <1>1, HeadTailProperties
<1>4. q \in UNION {[1 .. k -> Slot] : k \in 0 .. Depth}
  <2> HIDE DEF q
  <2>1. Len(q) <= Depth
    BY <1>1, <1>3, DepthAssumption
  <2> QED
    BY <1>3, <2>1, QueueIs
<1>5. /\ r \in Connection
      /\ r.st = [p.st EXCEPT ![m] = "init"] /\ r.fullQ = q /\ r.wr = p.wr /\ r.msgHdr = p.msgHdr
  BY <1>4 DEF TakeHead, Connection, Status
<1> HIDE DEF m, q, r
<1>6. \A s \in Slot : r.st[s] # "init" <=> Age(r.wr, s) <= Len(r.fullQ)
  <2>1. \A s \in Slot : Age(p.wr, s) \in Int /\ (Age(p.wr, s) = n => s = m)
    BY <1>1, <1>2, Ages
  <2>2. \A s \in Slot : p.st[s] # "init" <=> Age(p.wr, s) <= n
    BY DEF Ring
  <2> QED
    BY <1>1, <1>2, <1>3, <1>5, <2>1, <2>2
<1>7. \A s, t \in Slot :
        r.st[s] # "init" /\ Age(r.wr, t) < Age(r.wr, s) /\ r.st[t] \in {"processing", "completed"}
          => r.st[s] = "completed"
  BY <1>1, <1>2, <1>5 DEF Ring
<1>8. n > 1 => NextHandle(q) = NextHandle(p.fullQ)
  <2>1. n > 1 => q # <<>> /\ q[n - 1] = p.fullQ[n]
    BY <1>1, <1>3, EmptySeq
  <2>2. p.fullQ # <<>>
    BY <1>1, EmptySeq
  <2> QED
    BY <1>1, <1>3, <2>1, <2>2 DEF NextHandle
<1>9. ASSUME NEW i \in 1 .. Len(q)
      PROVE  /\ q[i] = Behind(NextHandle(q), Len(q) - i + 1)
             /\ p.msgHdr[q[i]] = Behind(p.wr, Len(q) - i + 1)
  <2>1. i + 1 \in 1 .. n /\ n - (i + 1) + 1 = Len(q) - i + 1 /\ n > 1
    BY <1>1, <1>3
  <2>2. q[i] = p.fullQ[i + 1]
    BY <1>3
  <2>3. /\ p.fullQ[i + 1] = Behind(NextHandle(p.fullQ), n - (i + 1) + 1)
        /\ p.msgHdr[p.fullQ[i + 1]] = Behind(p.wr, n - (i + 1) + 1)
    BY <2>1 DEF Ring
  <2> QED
    BY <1>8, <2>1, <2>2, <2>3
<1> QED
  BY <1>3, <1>5, <1>6, <1>7, <1>9 DEF Ring, m, r

LEMMA NextHandleIs ==
  ASSUME NEW q \in Seq(Slot)
  PROVE  NextHandle(q) \in Slot
<1>1. CASE q = <<>>
  BY <1>1, DepthAssumption DEF NextHandle, Slot
<1>2. CASE q # <<>>
  <2>1. Len(q) \in 1 .. Len(q)
    BY <1>2, EmptySeq, LenProperties
  <2>2. q[Len(q)] \in Slot
    BY <2>1, ElementOfSeq
  <2> QED
    BY <1>2, <2>2, AfterIs DEF NextHandle
<1> QED
  BY <1>1, <1>2

LEMMA FillBufferGood ==
  ASSUME NEW p \in Connection, NEW b \in Buf, Ring(p), CanFill(p)
  PROVE  /\ FillBuffer(p, b) \in Connection
         /\ Ring(FillBuffer(p, b))
         /\ Len(FillBuffer(p, b).fullQ) = Len(p.fullQ) + 1
         /\ FillBuffer(p, b).st = [p.st EXCEPT ![p.wr] = "posted"]
         /\ p.wr \in Slot /\ p.st[p.wr] = "init"
<1> DEFINE n == Len(p.fullQ)
           h == NextHandle(p.fullQ)
           w == p.wr
           q == Append(p.fullQ, h)
           r == FillBuffer(p, b)
<1>1. /\ n \in 0 .. Depth /\ p.fullQ \in Seq(Slot) /\ w \in Slot /\ p.st \in [Slot -> Status]
      /\ p.msgHdr \in [Slot -> Slot \cup {NoSlot}]
      /\ p.buf \in [Slot -> Buf]
  BY ConnectionIs
<1>2. h \in Slot /\ After(w) \in Slot
  BY <1>1, NextHandleIs, AfterIs
<1>3. n < Depth /\ p.st[w] = "init"
  BY DEF CanFill
<1>4. /\ q \in Seq(Slot) /\ Len(q) = n + 1 /\ q # <<>> /\ q[n + 1] = h
      /\ \A i \in 1 .. n : q[i] = p.fullQ[i]
  BY <1>1, <1>2, AppendProperties
<1>5. q \in UNION {[1 .. k -> Slot] : k \in 0 .. Depth}
  <2> HIDE DEF q
  <2>1. Len(q) <= Depth
    BY <1>1, <1>3, <1>4, DepthAssumption
  <2> QED
    BY <1>4, <2>1, QueueIs
<1>6. /\ r.st = [p.st EXCEPT ![w] = "posted"] /\ r.wr = After(w)
      /\ r.msgHdr = [p.msgHdr EXCEPT ![h] = w] /\ r.fullQ = q
      /\ r \in Connection
  <2> HIDE DEF q, h
  <2>1. r = [p EXCEPT !.st = [p.st EXCEPT ![w] = "posted"], !.buf = [p.buf EXCEPT ![w] = b],
                      !.wr = After(w), !.msgHdr = [p.msgHdr EXCEPT ![h] = w],
                      !.fullQ = Append(p.fullQ, h)]
    BY DEF FillBuffer, Connection, h
  <2>2. /\ [p.st EXCEPT ![w] = "posted"] \in [Slot -> Status]
        /\ [p.buf EXCEPT ![w] = b] \in [Slot -> Buf]
        /\ [p.msgHdr EXCEPT ![h] = w] \in [Slot -> Slot \cup {NoSlot}]
    BY <1>1, <1>2 DEF Status
  <2> QED
    BY <1>2, <1>5, <2>1, <2>2 DEF Connection, q
<1> HIDE DEF h, q, r
<1>7. \A s \in Slot : r.st[s] # "init" <=> Age(r.wr, s) <= Len(r.fullQ)
  <2>1. \A s \in Slot : p.st[s] # "init" <=> Age(w, s) <= n
    BY DEF Ring
  <2>2. ASSUME NEW s \in Slot, s # w
        PROVE  r.st[s] # "init" <=> Age(r.wr, s) <= Len(r.fullQ)
    <3>1. Age(After(w), s) = Age(w, s) + 1 /\ Age(w, s) \in Int
      BY <1>1, <2>2, Ages
    <3> QED
      BY <1>1, <1>4, <1>6, <2>1, <2>2, <3>1
  <2>3. r.st[w] # "init" /\ Age(r.wr, w) <= Len(r.fullQ)
    <3>1. Age(After(w), w) = 1
      BY <1>1, Ages
    <3> QED
      BY <1>1, <1>4, <1>6, <3>1
  <2> QED
    BY <2>2, <2>3
<1>8. ASSUME NEW s \in Slot, NEW t \in Slot,
             r.st[s] # "init", Age(r.wr, t) < Age(r.wr, s), r.st[t] \in {"processing", "completed"}
      PROVE  r.st[s] = "completed"
  <2>1. t # w /\ r.st[t] = p.st[t]
    BY <1>1, <1>6, <1>8
  <2>2. /\ Age(r.wr, t) \in 1 .. Depth + 1 /\ Age(r.wr, s) \in 1 .. Depth + 1
        /\ Age(r.wr, w) = 1
    BY <1>1, <1>2, <1>6, Ages
  <2>3. s # w /\ r.st[s] = p.st[s]
    BY <1>1, <1>6, <1>8, <2>2
  <2>4. /\ Age(r.wr, t) = Age(w, t) + 1 /\ Age(r.wr, s) = Age(w, s) + 1
        /\ Age(w, t) \in Int /\ Age(w, s) \in Int
    BY <1>1, <1>6, <2>1, <2>3, Ages
  <2>5. Age(w, t) < Age(w, s)
    BY <1>8, <2>4
  <2> QED
    BY <1>8, <2>1, <2>3, <2>5 DEF Ring
<1>9. NextHandle(q) = After(h)
  BY <1>1, <1>4 DEF NextHandle
<1>10. ASSUME NEW i \in 1 .. Len(q)
       PROVE  /\ q[i] = Behind(NextHandle(q), Len(q) - i + 1)
              /\ r.msgHdr[q[i]] = Behind(r.wr, Len(q) - i + 1)
  <2>1. CASE i = n + 1
    <3>1. Behind(After(h), 1) = h /\ Behind(After(w), 1) = w
      BY <1>1, <1>2, Backs, DepthAssumption
    <3>2. Len(q) - i + 1 = 1
      BY <1>1, <1>4, <2>1
    <3> QED
      BY <1>1, <1>2, <1>4, <1>6, <1>9, <2>1, <3>1, <3>2
  <2>2. CASE i # n + 1
    <3> DEFINE k == n - i + 1
    <3>1. i \in 1 .. n /\ k \in 1 .. Depth /\ Len(q) - i + 1 = k + 1
      BY <1>1, <1>4, <2>2, DepthAssumption
    <3>2. p.fullQ[i] = Behind(h, k) /\ p.msgHdr[p.fullQ[i]] = Behind(w, k)
      BY <3>1 DEF Ring, h
    <3> HIDE DEF k
    <3>3. Behind(After(h), k + 1) = Behind(h, k) /\ Behind(After(w), k + 1) = Behind(w, k)
          /\ Behind(h, k) # h /\ Behind(h, k) \in Slot
      BY <1>1, <1>2, <3>1, Backs
    <3>4. r.msgHdr[p.fullQ[i]] = p.msgHdr[p.fullQ[i]]
      BY <1>1, <1>6, <3>2, <3>3
    <3> QED
      BY <1>4, <1>6, <1>9, <3>1, <3>2, <3>3, <3>4
  <2> QED
    BY <2>1, <2>2
<1> QED
  BY <1>1, <1>3, <1>4, <1>6, <1>7, <1>8, <1>10 DEF Ring, r

\* The server's next message is the oldest that is not completed: all older
\* ones are completed, and all newer ones posted.
LEMMA MsgIdxIs ==
  ASSUME NEW p \in Connection, Ring(p), Pending(p) # {}
  PROVE  /\ MsgIdx(p) \in Pending(p)
         /\ \A s \in Slot : p.st[s] # "init" /\ Age(p.wr, MsgIdx(p)) < Age(p.wr, s)
                              => p.st[s] = "completed"
         /\ \A s \in Slot : p.st[s] # "init" /\ Age(p.wr, s) < Age(p.wr, MsgIdx(p))
                              => p.st[s] = "posted"
<1> DEFINE m == MsgIdx(p)
<1>1. p.wr \in Slot /\ p.st \in [Slot -> Status]
  BY ConnectionIs
<1>2. Pending(p) \subseteq Slot
  BY DEF Pending
<1>3. \E s \in Pending(p) : \A t \in Pending(p) : Far(p.wr, s) <= Far(p.wr, t)
  BY <1>1, <1>2, NearestExists
<1>4. m \in Pending(p) /\ \A t \in Pending(p) : Far(p.wr, m) <= Far(p.wr, t)
  BY <1>3 DEF MsgIdx
<1>5. m \in Slot
  BY <1>2, <1>4
<1> HIDE DEF m
<1>6. ASSUME NEW s \in Slot, p.st[s] # "init", Age(p.wr, m) < Age(p.wr, s)
      PROVE  p.st[s] = "completed"
  <2>1. /\ Far(p.wr, m) = Depth + 1 - Age(p.wr, m) /\ Far(p.wr, s) = Depth + 1 - Age(p.wr, s)
        /\ Age(p.wr, m) \in 1 .. Depth + 1 /\ Age(p.wr, s) \in 1 .. Depth + 1
    BY <1>1, <1>5, FarIs, Ages
  <2>2. s \notin Pending(p)
    BY <1>4, <1>6, <2>1, DepthAssumption
  <2> QED
    BY <1>1, <1>6, <2>2 DEF Pending, Status
<1>7. ASSUME NEW s \in Slot, p.st[s] # "init", Age(p.wr, s) < Age(p.wr, m)
      PROVE  p.st[s] = "posted"
  <2>1. p.st[m] \in {"posted", "processing"}
    BY <1>4 DEF Pending
  <2>2. p.st[s] \notin {"processing", "completed"}
    BY <1>5, <1>7, <2>1 DEF Ring
  <2> QED
    BY <1>1, <1>7, <2>2 DEF Status
<1> QED
  BY <1>4, <1>6, <1>7 DEF m

LEMMA GetMsgIdxGood ==
  ASSUME NEW p \in Connection, Ring(p), Pending(p) # {}
  PROVE  /\ GetMsgIdx(p) \in Connection
         /\ Ring(GetMsgIdx(p))
         /\ MsgIdx(p) \in Slot
         /\ GetMsgIdx(p).st = [p.st EXCEPT ![MsgIdx(p)] = "processing"]
         /\ GetMsgIdx(p).fullQ = p.fullQ
<1> DEFINE m == MsgIdx(p)
           r == GetMsgIdx(p)
<1>1. p.wr \in Slot /\ p.st \in [Slot -> Status]
  BY ConnectionIs
<1>2. m \in Slot /\ p.st[m] \in {"posted", "processing"}
  BY MsgIdxIs DEF Pending
<1>3. /\ r \in Connection
      /\ r.st = [p.st EXCEPT ![m] = "processing"] /\ r.wr = p.wr
      /\ r.fullQ = p.fullQ /\ r.msgHdr = p.msgHdr
  BY <1>2 DEF GetMsgIdx, Connection, Status
<1>4. /\ \A s \in Slot : p.st[s] # "init" /\ Age(p.wr, m) < Age(p.wr, s)
                           => p.st[s] = "completed"
      /\ \A s \in Slot : p.st[s] # "init" /\ Age(p.wr, s) < Age(p.wr, m)
                           => p.st[s] = "posted"
  BY MsgIdxIs
<1> HIDE DEF m, r
<1>5. \A s \in Slot : r.st[s] # "init" <=> Age(r.wr, s) <= Len(r.fullQ)
  BY <1>1, <1>2, <1>3 DEF Ring
<1>6. ASSUME NEW s \in Slot, NEW t \in Slot,
             r.st[s] # "init", Age(r.wr, t) < Age(r.wr, s), r.st[t] \in {"processing", "completed"}
      PROVE  r.st[s] = "completed"
  <2>1. CASE t = m
    <3>1. s # m
      BY <1>1, <1>3, <1>6, <2>1, Ages
    <3> QED
      BY <1>1, <1>2, <1>3, <1>4, <1>6, <2>1, <3>1
  <2>2. CASE t # m
    <3>1. p.st[t] = r.st[t] /\ p.st[s] # "init"
      BY <1>1, <1>2, <1>3, <1>6, <2>2
    <3>2. p.st[s] = "completed"
      BY <1>3, <1>6, <3>1 DEF Ring
    <3> QED
      BY <1>1, <1>2, <1>3, <3>2
  <2> QED
    BY <2>1, <2>2
<1> QED
  BY <1>2, <1>3, <1>5, <1>6 DEF Ring, m, r

LEMMA NothingPending ==
  ASSUME NEW p \in Connection, Ring(p), p.fullQ = <<>>
  PROVE  /\ \A s \in Slot : p.st[s] = "init"
         /\ Pending(p) = {}
         /\ GetMsgIdx(p) = p
<1>1. p.wr \in Slot /\ Len(p.fullQ) = 0
  BY ConnectionIs, EmptySeq
<1>2. \A s \in Slot : ~(Age(p.wr, s) <= 0)
  BY <1>1, Ages
<1>3. \A s \in Slot : p.st[s] = "init"
  BY <1>1, <1>2 DEF Ring
<1>4. Pending(p) = {}
  BY <1>3 DEF Pending
<1> QED
  BY <1>3, <1>4 DEF GetMsgIdx

LEMMA CompleteGood ==
  ASSUME NEW p \in Connection, Ring(p), NEW m \in Slot, p.st[m] = "processing"
  PROVE  /\ CompleteMsgIdx(p, m) \in Connection
         /\ Ring(CompleteMsgIdx(p, m))
         /\ CompleteMsgIdx(p, m).st = [p.st EXCEPT ![m] = "completed"]
         /\ CompleteMsgIdx(p, m).fullQ = p.fullQ
<1> DEFINE r == CompleteMsgIdx(p, m)
<1>1. p.wr \in Slot /\ p.st \in [Slot -> Status]
  BY ConnectionIs
<1>2. /\ r \in Connection
      /\ r.st = [p.st EXCEPT ![m] = "completed"] /\ r.wr = p.wr
      /\ r.fullQ = p.fullQ /\ r.msgHdr = p.msgHdr
  BY DEF CompleteMsgIdx, Connection, Status
<1> HIDE DEF r
<1>3. \A s \in Slot : r.st[s] # "init" <=> Age(r.wr, s) <= Len(r.fullQ)
  BY <1>1, <1>2 DEF Ring
<1>4. ASSUME NEW s \in Slot, NEW t \in Slot,
             r.st[s] # "init", Age(r.wr, t) < Age(r.wr, s), r.st[t] \in {"processing", "completed"}
      PROVE  r.st[s] = "completed"
  <2>1. CASE s = m
    BY <1>1, <1>2, <2>1
  <2>2. CASE s # m
    <3>1. p.st[s] = r.st[s] /\ p.st[t] \in {"processing", "completed"}
      BY <1>1, <1>2, <1>4, <2>2
    <3> QED
      BY <1>2, <1>4, <3>1 DEF Ring
  <2> QED
    BY <2>1, <2>2
<1> QED
  BY <1>2, <1>3, <1>4 DEF Ring, r

\* The ring is as the properties say.
LEMMA RingFollows ==
  ASSUME NEW p \in Connection, Ring(p)
  PROVE  FollowsTheRing(p) /\ CompletedFirst(p)
<1> DEFINE n == Len(p.fullQ)
<1>1. n \in 0 .. Depth /\ p.wr \in Slot /\ p.st \in [Slot -> Status]
  BY ConnectionIs
<1>2. ASSUME NEW i \in 1 .. n
      PROVE  /\ Handles(p)[i] = Behind(p.wr, n - i + 1)
             /\ Handles(p)[i] = (p.wr - (n - i) - 1) % (Depth + 1)
             /\ Handles(p)[i] \in Slot
             /\ Age(p.wr, Handles(p)[i]) = n - i + 1
             /\ p.st[Handles(p)[i]] # "init"
  <2>1. Handles(p)[i] = Behind(p.wr, n - i + 1)
    BY DEF Handles, Ring
  <2>2. /\ (p.wr - (n - i) - 1) % (Depth + 1) = Behind(p.wr, n - i + 1)
        /\ Behind(p.wr, n - i + 1) \in Slot
        /\ Age(p.wr, Behind(p.wr, n - i + 1)) = n - i + 1
    BY <1>1, BehindIs
  <2>3. n - i + 1 <= n
    BY <1>1
  <2> QED
    BY <2>1, <2>2, <2>3 DEF Ring
<1>3. ASSUME NEW s \in Slot, p.st[s] # "init"
      PROVE  \E i \in 1 .. n : s = Handles(p)[i]
  <2> DEFINE k == Age(p.wr, s)
  <2>1. k \in 1 .. Depth + 1 /\ Behind(p.wr, k) = s /\ k <= n
    BY <1>1, <1>3, Ages DEF Ring
  <2> HIDE DEF k
  <2>2. n - k + 1 \in 1 .. n /\ n - (n - k + 1) + 1 = k
    BY <1>1, <2>1
  <2> QED
    BY <1>2, <2>1, <2>2
<1>4. {Handles(p)[i] : i \in 1 .. n} = {s \in Slot : p.st[s] # "init"}
  BY <1>2, <1>3
<1>5. FollowsTheRing(p)
  BY <1>2, <1>4 DEF FollowsTheRing
<1>6. ASSUME NEW i \in 1 .. n, NEW j \in 1 .. n, i < j, p.st[Handles(p)[j]] # "posted"
      PROVE  p.st[Handles(p)[i]] = "completed"
  <2>1. p.st[Handles(p)[j]] \in {"processing", "completed"}
    BY <1>1, <1>2, <1>6 DEF Status
  <2>2. Age(p.wr, Handles(p)[j]) < Age(p.wr, Handles(p)[i])
    BY <1>1, <1>2, <1>6
  <2> QED
    BY <1>2, <2>1, <2>2 DEF Ring
<1> QED
  BY <1>5, <1>6 DEF CompletedFirst

----------------------------------------------------------------------------
(* The commands.                                                           *)

LEMMA TargetIs ==
  ASSUME TypeOK
  PROVE  /\ Target \in Comp
         /\ op = "start" => Target = (IF at = 1 THEN "snk" ELSE IF at = 2 THEN "int" ELSE "src")
         /\ op # "start" => Target = (IF at = 1 THEN "src" ELSE IF at = 2 THEN "int" ELSE "snk")
<1>1. at = 1 \/ at = 2 \/ at = 3
  BY DEF TypeOK
<1> QED
  BY <1>1 DEF Target, Chain, Comp

\* Steps that leave the commands alone.
LEMMA SameCommands ==
  ASSUME Lockstep, OneCommand, UNCHANGED <<state, cmd, op, at, waiting>>
  PROVE  Lockstep' /\ OneCommand'
<1>1. States' = States /\ Target' = Target /\ Count' = Count
  BY DEF States, Target, Count, Chain
<1>2. Lockstep'
  BY <1>1 DEF Lockstep
<1>3. OneCommand'
  BY <1>1 DEF OneCommand, Moves, SourceMoves
<1> QED
  BY <1>2, <1>3

\* What c's task obeys is the call, and c is its target.
LEMMA ObeyIsForTarget ==
  ASSUME TypeOK, OneCommand, NEW c \in Comp, cmd[c] \in Op
  PROVE  /\ waiting /\ c = Target /\ op \in Op /\ cmd[c] = op
         /\ Count = at - 1
BY DEF OneCommand, Op, Count, TypeOK

LEMMA ObeyedLockstep ==
  ASSUME TypeOK, Lockstep, OneCommand, Tasks, NEW c \in Comp, pc[c] # "off",
         NEW m \in Move(c), state' = [state EXCEPT ![c] = m[3]],
         cmd' = [cmd EXCEPT ![c] = "ok"], UNCHANGED <<op, at, waiting>>
  PROVE  Lockstep' /\ OneCommand'
<1>1. m \in Moves(c) /\ m[1] = state[c] /\ m[2] = cmd[c] /\ cmd[c] \in Op
  BY DEF Move, Moves, SourceMoves, Op
<1>2. waiting /\ c = Target /\ op \in Op /\ cmd[c] = op /\ Count = at - 1
  BY <1>1, ObeyIsForTarget
<1>3. Target' = c /\ Count' = at /\ waiting' /\ op' = op /\ at' = at /\ at \in {1, 2, 3}
  BY <1>2 DEF Target, Count, TypeOK, Chain
<1>4. state[c] = "reset" => op = "init"
  BY <1>2 DEF Tasks
<1>5. States' \in
       CASE op = "init" -> AfterInit(at) [] op = "config" -> AfterConfig(at)
         [] op = "start" -> AfterStart(at) [] op = "stop" -> AfterStop(at)
         [] op = "deinit" -> AfterDeinit(at) [] OTHER -> {}
  <2>1. CASE op = "init"
    BY <1>1, <1>2, <1>3, <1>4, <2>1, TargetIs
    DEF Lockstep, Moves, SourceMoves, States, Rest, AfterInit, Comp, Sink, TypeOK
  <2>2. CASE op = "config"
    BY <1>1, <1>2, <1>3, <1>4, <2>2, TargetIs
    DEF Lockstep, Moves, SourceMoves, States, Rest, AfterConfig, Comp, Sink, TypeOK
  <2>3. CASE op = "start"
    BY <1>1, <1>2, <1>3, <1>4, <2>3, TargetIs
    DEF Lockstep, Moves, SourceMoves, States, Rest, AfterStart, Comp, Sink, TypeOK
  <2>4. CASE op = "stop"
    BY <1>1, <1>2, <1>3, <1>4, <2>4, TargetIs
    DEF Lockstep, Moves, SourceMoves, States, Rest, AfterStop, Comp, Sink, TypeOK
  <2>5. CASE op = "deinit"
    BY <1>1, <1>2, <1>3, <1>4, <2>5, TargetIs
    DEF Lockstep, Moves, SourceMoves, States, Rest, AfterDeinit, Comp, Sink, TypeOK
  <2> QED
    BY <1>2, <2>1, <2>2, <2>3, <2>4, <2>5 DEF Op
<1>6. Lockstep'
  BY <1>2, <1>3, <1>5 DEF Lockstep, Op
<1>7. OneCommand'
  BY <1>2, <1>3 DEF OneCommand, TypeOK
<1> QED
  BY <1>6, <1>7

\* A component only gets INIT while the sink behind it holds no requests, ...
LEMMA InitFindsSinkAtRest ==
  ASSUME TypeOK, Lockstep, OneCommand, Tasks, NEW c \in Comp, pc[c] # "off", cmd[c] = "init",
         state[c] = "reset"
  PROVE  \A d \in Sink : d = c \/ Up(d) = c => state[d] # "running"
<1>1. waiting /\ c = Target /\ op = "init" /\ Count = at - 1
  BY ObeyIsForTarget DEF Op
<1>2. at \in {1, 2, 3}
  BY DEF TypeOK
<1> QED
  BY <1>1, <1>2, TargetIs DEF Lockstep, Rest, AfterInit, States, Sink, Comp, Up

\* ... and cancels its requests only when the source has been stopped.
LEMMA CancelFindsSourceAtRest ==
  ASSUME TypeOK, Lockstep, OneCommand, Tasks, NEW c \in Sink, pc[c] = "cancel"
  PROVE  state[Up(c)] # "running"
<1>1. cmd[c] \in {"stop", "deinit"} /\ c \in Comp /\ cmd[c] \in Op /\ state[c] = "running"
  BY DEF Tasks, Sink, Comp, Op
<1>2. waiting /\ c = Target /\ op = cmd[c] /\ Count = at - 1
  BY <1>1, ObeyIsForTarget
<1>3. at \in {1, 2, 3}
  BY DEF TypeOK
<1> QED
  BY <1>1, <1>2, <1>3, TargetIs
  DEF Lockstep, AfterStop, AfterDeinit, States, Sink, Comp, Up

----------------------------------------------------------------------------
(* The scheduler.                                                          *)

LEMMA EnqueueType ==
  ASSUME TypeOK, NEW c \in Comp, Enqueue(c)
  PROVE  ready' \in Seq(Comp)
BY AppendProperties DEF TypeOK, Enqueue

LEMMA SetEventType ==
  ASSUME TypeOK, NEW c \in Comp, SetEvent(c)
  PROVE  ev' \in [Comp -> BOOLEAN] /\ ready' \in Seq(Comp)
<1>1. ev' \in [Comp -> BOOLEAN]
  <2>1. PICK x \in BOOLEAN : x = (pc[c] # "off")
    OBVIOUS
  <2>2. ev' = [ev EXCEPT ![c] = x]
    BY <2>1 DEF SetEvent
  <2> QED
    BY <2>2 DEF TypeOK
<1>2. ready' \in Seq(Comp)
  BY EnqueueType DEF SetEvent, TypeOK
<1> QED
  BY <1>1, <1>2

LEMMA SleepType ==
  ASSUME TypeOK, NEW c \in Comp, NEW e \in BOOLEAN, equal => ready # <<>>, Sleep(c, e)
  PROVE  /\ pc' = [pc EXCEPT ![c] = "wait"]
         /\ ev' \in [Comp -> BOOLEAN] /\ ready' \in Seq(Comp)
<1>1. ready # <<>> => Tail(ready) \in Seq(Comp)
  BY HeadTailProperties DEF TypeOK
<1> QED
  BY <1>1 DEF Sleep, Goto, TypeOK

LEMMA EndPassType ==
  ASSUME TypeOK, NEW c \in Comp, NEW s, NEW e \in BOOLEAN, equal => ready # <<>>,
         EndPass(c, s, e)
  PROVE  /\ pc' = [pc EXCEPT ![c] = IF s = "reset" THEN "off" ELSE "wait"]
         /\ ev' \in [Comp -> BOOLEAN] /\ ready' \in Seq(Comp)
<1>1. CASE s = "reset" /\ Terminate(c)
  <2>1. ready # <<>> => Tail(ready) \in Seq(Comp)
    BY HeadTailProperties DEF TypeOK
  <2> QED
    BY <1>1, <2>1 DEF Terminate, Goto, TypeOK
<1>2. CASE s # "reset" /\ Sleep(c, e)
  BY <1>2, SleepType
<1> QED
  BY <1>1, <1>2 DEF EndPass

LEMMA GoOnType ==
  ASSUME TypeOK, NEW c \in Comp, equal => ready # <<>>, GoOn(c)
  PROVE  /\ pc' = [pc EXCEPT ![c] = IF state[c] = "running"
                                    THEN IF c = "src" THEN "data" ELSE "fill"
                                    ELSE IF state[c] = "reset" THEN "off" ELSE "wait"]
         /\ ev' \in [Comp -> BOOLEAN] /\ ready' \in Seq(Comp)
<1>1. CASE state[c] = "running"
  BY <1>1 DEF GoOn, Goto, NoEvent, TypeOK
<1>2. CASE state[c] # "running"
  <2>1. EndPass(c, state[c], ev[c]) /\ ev[c] \in BOOLEAN
    BY <1>2 DEF GoOn, TypeOK
  <2> QED
    BY <1>2, <2>1, EndPassType
<1> QED
  BY <1>1, <1>2

----------------------------------------------------------------------------
(* The initial state.                                                      *)

LEMMA InitInv == Init => IInv
<1> SUFFICES ASSUME Init
             PROVE  IInv
  OBVIOUS
<1>1. \A c \in Sink : port[c] = NewConnection
  BY DEF Init
<1>2. TypeOK
  <2>1. plan \in Seq(Op)
    BY PlansAssumption DEF Init
  <2>2. <<>> \in Seq(Comp) /\ <<>> \in Seq(Nat) /\ Len(<<>>) <= Depth
    BY EmptySeq, DepthAssumption
  <2>3. port \in [Sink -> Connection]
    BY NewConnectionGood DEF Init
  <2>4. 0 \in Buf /\ 0 \in 0 .. Depth
    BY DepthAssumption DEF Buf
  <2>5. equal \in BOOLEAN /\ alarm \in BOOLEAN /\ waiting \in BOOLEAN
    BY DEF Init
  <2>6. mem \in [Sink -> [Buf -> Nat]] /\ next \in [Sink -> Buf] /\ cnt \in [Sink -> 0 .. Depth]
    BY <2>4 DEF Init
  <2>7. /\ state \in [Comp -> {"reset", "init", "ready", "running"}]
        /\ pc \in [Comp -> {"off", "wait", "cmd", "cancel", "fill", "take", "data", "get", "put"}]
        /\ ev \in [Comp -> BOOLEAN]
        /\ cmd \in [Comp -> Op \cup {"none", "ok", "refused"}]
        /\ hold \in [{"src", "int"} -> Slot \cup {NoSlot}]
    BY DEF Init
  <2>8. /\ ready \in Seq(Comp) /\ circ \in Seq(Nat) /\ Len(circ) <= Depth /\ tx \in Nat
        /\ rx \in Seq(Nat) /\ op \in Op \cup {"none"} /\ at \in 1 .. 3
    BY <2>2 DEF Init
  <2> QED
    BY <2>1, <2>3, <2>5, <2>6, <2>7, <2>8 DEF TypeOK
<1>3. Lockstep /\ OneCommand
  BY TargetIs, <1>2 DEF Init, Lockstep, OneCommand, Count, States, Rest, Comp, Op
<1>4. Tasks
  BY DEF Init, Tasks, Comp, Sink
<1>5. Connections
  <2>1. \A c \in Sink : Len(port[c].fullQ) = 0 /\ cnt[c] = 0
    BY <1>1, NewConnectionGood, EmptySeq DEF Init
  <2>2. \A c \in Sink : Up(c) \in Comp /\ pc[c] = "off" /\ pc[Up(c)] = "off"
    BY DEF Init, Sink, Comp, Up
  <2> QED
    BY <1>1, <2>1, <2>2, NewConnectionGood DEF Connections
<1>6. Sending
  BY DEF Init, Sending, Comp
<1> QED
  BY <1>2, <1>3, <1>4, <1>5, <1>6 DEF IInv

----------------------------------------------------------------------------
(* The steps of the controller.                                            *)

\* Steps that leave the connections alone, and move no task into or out of the
\* places that concern them.
LEMMA SameConnections ==
  ASSUME Connections, UNCHANGED <<port, cnt, hold>>,
         \A c \in Sink : pc'[c] = "cancel" => pc[c] = "cancel",
         \A c \in Comp : pc'[c] = "put" <=> pc[c] = "put",
         \A c \in Sink : state'[c] # "running" => port[c].fullQ = <<>>
  PROVE  Connections'
<1>1. \A c \in Sink : Up(c) \in Comp
  BY DEF Sink, Up, Comp
<1> QED
  BY <1>1 DEF Connections, Ring, Age, Behind, NextHandle, After

LEMMA CallInv == IInv /\ Call => IInv'
<1> SUFFICES ASSUME IInv, Call
             PROVE  IInv'
  OBVIOUS
<1>1. TypeOK /\ Lockstep /\ OneCommand /\ Tasks /\ Connections /\ Sending
  BY DEF IInv
<1>2. /\ op = "none" /\ plan # <<>> /\ op' = Head(plan) /\ plan' = Tail(plan)
      /\ UNCHANGED <<equal, comps, data, at, waiting>>
  BY DEF Call
<1>3. Head(plan) \in Op /\ Tail(plan) \in Seq(Op)
  BY <1>1, <1>2, HeadTailProperties DEF TypeOK
<1>4. TypeOK'
  BY <1>1, <1>2, <1>3 DEF TypeOK, comps, data
<1>5. at = 1 /\ ~waiting /\ States \in Rest /\ \A c \in Comp : cmd[c] = "none"
  BY <1>1, <1>2 DEF Lockstep, OneCommand
<1>6. States' = States /\ cmd' = cmd /\ Count' = 0
  <2>1. Target' \in Comp
    <3>1. at' = 1
      BY <1>2, <1>5
    <3> QED
      BY <3>1 DEF Target, Chain, Comp
  <2> QED
    BY <1>2, <1>5, <2>1 DEF States, Count, comps
<1>7. Lockstep'
  BY <1>2, <1>3, <1>5, <1>6 DEF Lockstep, Op
<1>8. OneCommand'
  BY <1>2, <1>5 DEF OneCommand, comps
<1>9. Tasks' /\ Sending'
  BY <1>1, <1>2 DEF Tasks, Sending, comps, data
<1>10. Connections'
  <2>1. \A c \in Sink : state'[c] # "running" => port[c].fullQ = <<>>
    BY <1>1, <1>2 DEF Connections, comps
  <2> QED
    BY <1>1, <1>2, <2>1, SameConnections DEF comps, data
<1> QED
  BY <1>4, <1>7, <1>8, <1>9, <1>10 DEF IInv

LEMMA SendCmdInv == IInv /\ SendCmd => IInv'
<1> SUFFICES ASSUME IInv, SendCmd
             PROVE  IInv'
  OBVIOUS
<1> DEFINE t == Target
           on == op = "init" /\ pc[t] = "off"
<1>1. TypeOK /\ Lockstep /\ OneCommand /\ Tasks /\ Connections /\ Sending
  BY DEF IInv
<1>2. /\ op \in Op /\ ~waiting /\ waiting' = TRUE
      /\ cmd' = [cmd EXCEPT ![t] = op]
      /\ pc' = IF on THEN [pc EXCEPT ![t] = "wait"] ELSE pc
      /\ ev' = [ev EXCEPT ![t] = on \/ pc[t] # "off"]
      /\ Enqueue(t) \/ UNCHANGED ready
      /\ UNCHANGED <<equal, state, data, plan, op, at>>
  BY DEF SendCmd
<1>3. t \in Comp
  BY <1>1, TargetIs
<1>4. Target' = t
  BY <1>2 DEF Target, Chain
<1> HIDE DEF t
<1>5. \A c \in Comp : cmd[c] = "none"
  BY <1>1, <1>2 DEF OneCommand
<1>6. TypeOK'
  <2>1. PICK x \in BOOLEAN : x = (on \/ pc[t] # "off")
    OBVIOUS
  <2>2. ev' \in [Comp -> BOOLEAN]
    BY <1>1, <1>2, <2>1 DEF TypeOK
  <2>3. ready' \in Seq(Comp)
    BY <1>1, <1>2, <1>3, EnqueueType DEF TypeOK
  <2>4. pc' \in [Comp -> {"off", "wait", "cmd", "cancel", "fill", "take", "data", "get", "put"}]
    BY <1>1, <1>2 DEF TypeOK
  <2>5. cmd' \in [Comp -> Op \cup {"none", "ok", "refused"}]
    BY <1>1, <1>2 DEF TypeOK
  <2> QED
    BY <1>1, <1>2, <2>2, <2>3, <2>4, <2>5 DEF TypeOK, data
<1>7. Lockstep'
  <2>1. Count' = Count
    BY <1>1, <1>2, <1>3, <1>4, <1>5 DEF Count, TypeOK, Op, t
  <2>2. States' = States
    BY <1>2 DEF States
  <2> QED
    BY <1>1, <1>2, <2>1, <2>2 DEF Lockstep, Op
<1>8. OneCommand'
  BY <1>1, <1>2, <1>3, <1>4, <1>5 DEF OneCommand, TypeOK, Op
<1>9. Tasks'
  BY <1>1, <1>2, <1>3, <1>5 DEF Tasks, TypeOK, Sink, Comp
<1>10. Sending'
  BY <1>1, <1>2, <1>3 DEF Sending, TypeOK, data, Comp
<1>11. Connections'
  <2>1. \A c \in Sink : state'[c] # "running" => port[c].fullQ = <<>>
    BY <1>1, <1>2 DEF Connections
  <2>2. \A c \in Comp : /\ pc'[c] = "cancel" => pc[c] = "cancel"
                        /\ pc'[c] = "put" <=> pc[c] = "put"
    BY <1>1, <1>2, <1>3 DEF TypeOK
  <2>3. Sink \subseteq Comp
    BY DEF Sink, Comp
  <2> QED
    BY <1>1, <1>2, <2>1, <2>2, <2>3, SameConnections DEF data
<1> QED
  BY <1>6, <1>7, <1>8, <1>9, <1>10, <1>11 DEF IInv

LEMMA RespondedInv ==
  ASSUME IInv, NEW r \in {"ok", "refused"}, Responded(r),
         \/ r = "ok" /\ at < 3 /\ at' = at + 1 /\ op' = op
         \/ r = "ok" /\ at = 3 /\ at' = 1 /\ op' = "none"
         \/ r = "refused" /\ at' = 1 /\ op' = "none"
  PROVE  IInv'
<1> DEFINE t == Target
<1>1. TypeOK /\ Lockstep /\ OneCommand /\ Tasks /\ Connections /\ Sending
  BY DEF IInv
<1>2. /\ waiting /\ cmd[t] = r /\ waiting' = FALSE
      /\ cmd' = [cmd EXCEPT ![t] = "none"]
      /\ UNCHANGED <<equal, state, pc, ev, ready, data, plan>>
  BY DEF Responded
<1>3. t \in Comp /\ op \in Op
  BY <1>1, <1>2, TargetIs DEF OneCommand
<1>4. Count = IF r = "ok" THEN at ELSE at - 1
  BY <1>2 DEF Count
<1>5. r = "refused" => States \in Rest
  BY <1>1, <1>2 DEF OneCommand
<1> HIDE DEF t
<1>6. \A c \in Comp : cmd'[c] = "none"
  BY <1>1, <1>2, <1>3 DEF OneCommand, TypeOK, t
<1>7. TypeOK'
  <2>1. at' \in 1 .. 3 /\ (op' = op \/ op' = "none")
    BY <1>1 DEF TypeOK
  <2>2. cmd' \in [Comp -> Op \cup {"none", "ok", "refused"}]
    BY <1>1, <1>2 DEF TypeOK
  <2> QED
    BY <1>1, <1>2, <1>3, <2>1, <2>2 DEF TypeOK, data
<1>8. Count' = at' - 1 /\ at \in {1, 2, 3}
  <2>1. Target' \in Comp
    <3>1. at' = 1 \/ at' = 2 \/ at' = 3
      BY <1>7 DEF TypeOK
    <3> QED
      BY <3>1 DEF Target, Chain, Comp
  <2> QED
    BY <1>1, <1>6, <2>1 DEF Count, TypeOK
<1>9. States' = States
  BY <1>2 DEF States
<1>10. Lockstep'
  <2>1. CASE r = "ok" /\ at < 3 /\ at' = at + 1 /\ op' = op
    BY <1>1, <1>2, <1>3, <1>4, <1>8, <1>9, <2>1 DEF Lockstep, Op
  <2>2. CASE r = "ok" /\ at = 3 /\ at' = 1 /\ op' = "none"
    <3>1. States \in AfterInit(3) \cup AfterConfig(3) \cup AfterStart(3) \cup AfterStop(3)
                     \cup AfterDeinit(3)
      BY <1>1, <1>3, <1>4, <2>2 DEF Lockstep, Op
    <3>2. States \in Rest
      BY <3>1 DEF Rest, AfterInit, AfterConfig, AfterStart, AfterStop, AfterDeinit
    <3> QED
      BY <1>2, <1>8, <1>9, <2>2, <3>2 DEF Lockstep
  <2>3. CASE r = "refused" /\ at' = 1 /\ op' = "none"
    BY <1>2, <1>5, <1>8, <1>9, <2>3 DEF Lockstep
  <2> QED
    BY <2>1, <2>2, <2>3
<1>11. OneCommand'
  BY <1>2, <1>6 DEF OneCommand
<1>12. Tasks'
  BY <1>1, <1>2, <1>3 DEF Tasks, TypeOK, Sink, Comp
<1>13. Sending'
  BY <1>1, <1>2 DEF Sending, data
<1>14. Connections'
  <2>1. \A c \in Sink : state'[c] # "running" => port[c].fullQ = <<>>
    BY <1>1, <1>2 DEF Connections
  <2> QED
    BY <1>1, <1>2, <2>1, SameConnections DEF data
<1> QED
  BY <1>7, <1>10, <1>11, <1>12, <1>13, <1>14 DEF IInv

LEMMA ControllerInv == IInv /\ Controller => IInv'
<1>1. IInv /\ RecvResp => IInv'
  BY RespondedInv DEF RecvResp
<1>2. IInv /\ RecvError => IInv'
  BY RespondedInv DEF RecvError
<1> QED
  BY <1>1, <1>2, CallInv, SendCmdInv DEF Controller

LEMMA DataAlarmInv == IInv /\ DataAlarm => IInv'
<1> SUFFICES ASSUME IInv, DataAlarm
             PROVE  IInv'
  OBVIOUS
<1>1. TypeOK /\ Lockstep /\ OneCommand /\ Tasks /\ Connections /\ Sending
  BY DEF IInv
<1>2. /\ alarm' = TRUE /\ SetEvent("src")
      /\ UNCHANGED <<equal, state, pc, cmd, port, mem, next, cnt, hold, circ, tx, rx, ctl>>
  BY DEF DataAlarm
<1>3. ev' \in [Comp -> BOOLEAN] /\ ready' \in Seq(Comp)
  BY <1>1, <1>2, SetEventType DEF Comp
<1>4. TypeOK'
  BY <1>1, <1>2, <1>3 DEF TypeOK, ctl
<1>5. Lockstep' /\ OneCommand'
  BY <1>1, <1>2, SameCommands DEF ctl
<1>6. Tasks' /\ Sending'
  BY <1>1, <1>2 DEF Tasks, Sending
<1>7. Connections'
  BY <1>1, <1>2 DEF Connections, Ring, Age, Behind, NextHandle, After
<1> QED
  BY <1>4, <1>5, <1>6, <1>7 DEF IInv

----------------------------------------------------------------------------
(* The steps of a component: its commands.                                 *)

LEMMA WakeInv == ASSUME NEW c \in Comp PROVE IInv /\ Wake(c) => IInv'
<1> SUFFICES ASSUME IInv, Wake(c)
             PROVE  IInv'
  OBVIOUS
<1>1. TypeOK /\ Lockstep /\ OneCommand /\ Tasks /\ Connections /\ Sending
  BY DEF IInv
<1>2. /\ pc[c] = "wait" /\ pc' = [pc EXCEPT ![c] = "cmd"] /\ ev' = [ev EXCEPT ![c] = FALSE]
      /\ UNCHANGED <<equal, state, ready, cmd, data, ctl>>
  BY DEF Wake, RunsAt, Goto
<1>3. TypeOK'
  BY <1>1, <1>2 DEF TypeOK, data, ctl
<1>4. Lockstep' /\ OneCommand'
  BY <1>1, <1>2, SameCommands DEF ctl
<1>5. Tasks' /\ Sending'
  BY <1>1, <1>2 DEF Tasks, Sending, TypeOK, Sink, Comp, data
<1>6. Connections'
  <2>1. \A d \in Sink : state'[d] # "running" => port[d].fullQ = <<>>
    BY <1>1, <1>2 DEF Connections
  <2>2. \A d \in Comp : /\ pc'[d] = "cancel" => pc[d] = "cancel"
                        /\ pc'[d] = "put" <=> pc[d] = "put"
    BY <1>1, <1>2 DEF TypeOK
  <2>3. Sink \subseteq Comp
    BY DEF Sink, Comp
  <2> QED
    BY <1>1, <1>2, <2>1, <2>2, <2>3, SameConnections DEF data
<1> QED
  BY <1>3, <1>4, <1>5, <1>6 DEF IInv

\* The moves, by state.
LEMMA MovesAre ==
  ASSUME NEW c \in Comp, NEW s, NEW o, \A m \in Moves(c) : m[1] = s => m[2] # o
  PROVE  /\ s = "reset" => o # "init"
         /\ s = "init" => o \notin {"config", "deinit"}
         /\ s = "ready" => o \notin {"start", "deinit"}
         /\ s = "ready" /\ c \in Sink => o # "config"
         /\ s = "running" => o \notin {"stop", "deinit"}
<1>1. /\ <<"reset", "init", "init">> \in Moves(c) /\ <<"init", "config", "ready">> \in Moves(c)
      /\ <<"init", "deinit", "reset">> \in Moves(c) /\ <<"ready", "start", "running">> \in Moves(c)
      /\ <<"ready", "deinit", "reset">> \in Moves(c) /\ <<"running", "stop", "ready">> \in Moves(c)
      /\ c \in Sink => <<"ready", "config", "ready">> \in Moves(c)
  BY DEF Moves, SourceMoves
<1>2. <<"running", "deinit", IF c = "int" THEN "ready" ELSE "reset">> \in Moves(c)
  BY DEF Moves
<1>3. ASSUME NEW x, NEW y, NEW z, <<x, y, z>> \in Moves(c)
      PROVE  s = x => o # y
  <2> DEFINE m == <<x, y, z>>
  <2>1. m[1] = x /\ m[2] = y
    OBVIOUS
  <2> HIDE DEF m
  <2> QED
    BY <1>3, <2>1 DEF m
<1> HIDE DEF Moves
<1>4. /\ s = "reset" => o # "init"
      /\ s = "init" => o # "config"
      /\ s = "init" => o # "deinit"
      /\ s = "ready" => o # "start"
      /\ s = "ready" => o # "deinit"
      /\ s = "running" => o # "stop"
      /\ s = "ready" /\ c \in Sink => o # "config"
  BY <1>1, <1>3
<1>5. s = "running" => o # "deinit"
  BY <1>2, <1>3
<1> QED
  BY <1>4, <1>5

\* The pass goes on, with the command in the queue or its refusal.
LEMMA GoOnInv ==
  ASSUME IInv, NEW c \in Comp, RunsAt(c, "cmd"), GoOn(c), NEW r, cmd' = [cmd EXCEPT ![c] = r],
         \/ r = cmd[c] /\ r # "init"
         \/ r = cmd[c] /\ state[c] = "running"
         \/ r = "refused" /\ cmd[c] \in Op /\ Move(c) = {},
         UNCHANGED <<equal, state, data, ctl>>
  PROVE  IInv'
<1>1. TypeOK /\ Lockstep /\ OneCommand /\ Tasks /\ Connections /\ Sending
  BY DEF IInv
<1>2. /\ pc[c] = "cmd" /\ (equal => ready # <<>>)
      /\ UNCHANGED <<equal, state, port, mem, next, cnt, hold, circ, alarm, tx, rx,
                     plan, op, at, waiting>>
  BY DEF RunsAt, data, ctl
<1>3. /\ pc' = [pc EXCEPT ![c] = IF state[c] = "running"
                                 THEN IF c = "src" THEN "data" ELSE "fill"
                                 ELSE IF state[c] = "reset" THEN "off" ELSE "wait"]
      /\ ev' \in [Comp -> BOOLEAN] /\ ready' \in Seq(Comp)
  BY <1>1, <1>2, GoOnType
<1>4. r \in Op \cup {"none", "ok", "refused"}
  BY <1>1 DEF TypeOK
<1>5. TypeOK'
  <2>1. pc' \in [Comp -> {"off", "wait", "cmd", "cancel", "fill", "take", "data", "get", "put"}]
    BY <1>1, <1>3 DEF TypeOK
  <2>2. cmd' \in [Comp -> Op \cup {"none", "ok", "refused"}]
    BY <1>1, <1>4 DEF TypeOK
  <2> QED
    BY <1>1, <1>2, <1>3, <2>1, <2>2 DEF TypeOK
<1>6. Lockstep' /\ OneCommand'
  <2>1. CASE r = cmd[c]
    <3>1. cmd' = cmd
      BY <1>1, <2>1 DEF TypeOK
    <3> QED
      BY <1>1, <1>2, <3>1, SameCommands
  <2>2. CASE r = "refused" /\ cmd[c] \in Op /\ Move(c) = {}
    <3>1. waiting /\ c = Target /\ op \in Op /\ cmd[c] = op /\ Count = at - 1
      BY <1>1, <2>2, ObeyIsForTarget
    <3>2. Target' = c /\ cmd'[c] = "refused"
      BY <1>1, <1>2, <2>2, <3>1 DEF Target, Chain, TypeOK
    <3>3. Count' = Count /\ States' = States
      BY <1>2, <3>1, <3>2 DEF Count, States
    <3>4. state[c] # "reset" \/ op = "init"
      BY <1>1, <1>2, <3>1 DEF Tasks
    <3>5. \A m \in Moves(c) : m[1] = state[c] => m[2] # op
      BY <2>2, <3>1 DEF Move
    <3>10. /\ state[c] = "reset" => op # "init"
           /\ state[c] = "init" => op \notin {"config", "deinit"}
           /\ state[c] = "ready" => op \notin {"start", "deinit"}
           /\ state[c] = "ready" /\ c \in Sink => op # "config"
           /\ state[c] = "running" => op \notin {"stop", "deinit"}
      BY <3>5, MovesAre
    <3>6. at \in {1, 2, 3}
      BY <1>1 DEF TypeOK
    <3>7. States \in Rest
      <4>1. CASE op = "init"
        BY <1>1, <3>1, <3>4, <3>6, <3>10, <4>1, TargetIs
        DEF Lockstep, States, Rest, AfterInit, Sink
      <4>2. CASE op = "config"
        BY <1>1, <3>1, <3>4, <3>6, <3>10, <4>2, TargetIs
        DEF Lockstep, States, Rest, AfterConfig, Sink
      <4>3. CASE op = "start"
        BY <1>1, <3>1, <3>4, <3>6, <3>10, <4>3, TargetIs
        DEF Lockstep, States, Rest, AfterStart, Sink
      <4>4. CASE op = "stop"
        BY <1>1, <3>1, <3>4, <3>6, <3>10, <4>4, TargetIs
        DEF Lockstep, States, Rest, AfterStop, Sink
      <4>5. CASE op = "deinit"
        BY <1>1, <3>1, <3>4, <3>6, <3>10, <4>5, TargetIs
        DEF Lockstep, States, Rest, AfterDeinit, Sink
      <4> QED
        BY <3>1, <4>1, <4>2, <4>3, <4>4, <4>5 DEF Op
    <3>8. Lockstep'
      BY <1>1, <1>2, <3>3 DEF Lockstep
    <3>9. OneCommand'
      <4>1. \A d \in Comp : cmd'[d] # "none" => waiting' /\ d = Target'
        BY <1>1, <1>2, <3>1, <3>2 DEF OneCommand, TypeOK
      <4>2. \A m \in Moves(c)' : m[1] = state'[c] => m[2] # op'
        BY <1>2, <3>5 DEF Moves, SourceMoves
      <4> QED
        BY <1>2, <3>1, <3>2, <3>3, <3>7, <4>1, <4>2 DEF OneCommand, Moves, SourceMoves
    <3> QED
      BY <3>8, <3>9
  <2> QED
    BY <2>1, <2>2
<1>7. Tasks'
  <2>1. state[c] = "reset" => pc'[c] = "off"
    BY <1>1, <1>3 DEF TypeOK
  <2>2. pc'[c] = "off" => state[c] = "reset"
    BY <1>1, <1>3 DEF TypeOK
  <2>3. pc'[c] \notin {"off", "wait", "cmd"} => state[c] = "running"
    BY <1>1, <1>3 DEF TypeOK
  <2>4. /\ pc'[c] # "cancel" /\ (c = "src" => pc'[c] \in {"off", "wait", "data"})
        /\ (c # "src" => pc'[c] \in {"off", "wait", "fill"})
    BY <1>1, <1>3 DEF TypeOK
  <2>5. \A d \in Comp : d # c => pc'[d] = pc[d] /\ cmd'[d] = cmd[d]
    BY <1>1, <1>3 DEF TypeOK
  <2> QED
    BY <1>1, <1>2, <2>1, <2>2, <2>3, <2>4, <2>5 DEF Tasks, Sink, Comp
<1>8. Sending'
  BY <1>1, <1>2, <1>3 DEF Sending, TypeOK, Comp
<1>9. Connections'
  <2>1. \A d \in Sink : state'[d] # "running" => port[d].fullQ = <<>>
    BY <1>1, <1>2 DEF Connections
  <2>2. \A d \in Comp : /\ pc'[d] = "cancel" => pc[d] = "cancel"
                        /\ pc'[d] = "put" <=> pc[d] = "put"
    BY <1>1, <1>2, <1>3 DEF TypeOK
  <2>3. Sink \subseteq Comp
    BY DEF Sink, Comp
  <2> QED
    BY <1>1, <1>2, <2>1, <2>2, <2>3, SameConnections
<1> QED
  BY <1>5, <1>6, <1>7, <1>8, <1>9 DEF IInv

LEMMA NoCmdInv == ASSUME NEW c \in Comp PROVE IInv /\ NoCmd(c) => IInv'
<1> SUFFICES ASSUME IInv, NoCmd(c)
             PROVE  IInv'
  OBVIOUS
<1>1. /\ RunsAt(c, "cmd") /\ cmd[c] \notin Op /\ GoOn(c)
      /\ UNCHANGED <<equal, state, cmd, data, ctl>>
  BY DEF NoCmd
<1>2. cmd' = [cmd EXCEPT ![c] = cmd[c]]
  BY <1>1 DEF IInv, TypeOK
<1>3. cmd[c] # "init"
  BY <1>1 DEF Op
<1> QED
  BY <1>1, <1>2, <1>3, GoOnInv

LEMMA DeferInv == ASSUME NEW c \in Comp PROVE IInv /\ Defer(c) => IInv'
<1> SUFFICES ASSUME IInv, Defer(c)
             PROVE  IInv'
  OBVIOUS
<1>1. /\ RunsAt(c, "cmd") /\ state[c] = "running" /\ GoOn(c)
      /\ UNCHANGED <<equal, state, cmd, data, ctl>>
  BY DEF Defer, Deferred
<1>2. cmd' = [cmd EXCEPT ![c] = cmd[c]]
  BY <1>1 DEF IInv, TypeOK
<1> QED
  BY <1>1, <1>2, GoOnInv

LEMMA RefuseInv == ASSUME NEW c \in Comp PROVE IInv /\ Refuse(c) => IInv'
BY GoOnInv DEF Refuse

\* INIT finds both ports without requests.
LEMMA PortsInitIs ==
  ASSUME TypeOK, Connections, NEW c \in Comp, PortsInit(c),
         \A d \in Sink : d = c \/ Up(d) = c => state[d] # "running"
  PROVE  /\ port' \in [Sink -> Connection]
         /\ \A d \in Sink : /\ Ring(port'[d])
                            /\ port'[d].fullQ = port[d].fullQ
                            /\ port'[d].st = port[d].st
<1>1. \A d \in Sink : port[d] \in Connection /\ Ring(port[d])
  BY DEF TypeOK, Connections
<1>2. ASSUME NEW d \in Sink
      PROVE  /\ port'[d] \in Connection /\ Ring(port'[d])
             /\ port'[d].fullQ = port[d].fullQ /\ port'[d].st = port[d].st
  <2>1. CASE d = c
    <3>1. port'[d] = InPortInit(port[d])
      <4>1. Up(d) # d
        BY DEF Up, Sink
      <4> QED
        BY <2>1, <4>1 DEF PortsInit
    <3>2. port[d].fullQ = <<>>
      BY <2>1 DEF Connections
    <3> QED
      BY <1>1, <3>1, <3>2, InPortInitGood
  <2>2. CASE d # c /\ Up(d) = c
    <3>1. port'[d] = GetMsgIdx(port[d])
      BY <2>2 DEF PortsInit
    <3>2. port[d].fullQ = <<>>
      BY <2>2 DEF Connections
    <3>3. GetMsgIdx(port[d]) = port[d]
      BY <1>1, <3>2, NothingPending
    <3> QED
      BY <1>1, <3>1, <3>3
  <2>3. CASE d # c /\ Up(d) # c
    <3>1. port'[d] = port[d]
      BY <2>3 DEF PortsInit
    <3> QED
      BY <1>1, <3>1
  <2> QED
    BY <2>1, <2>2, <2>3
<1>3. port' = [d \in Sink |-> port'[d]]
  BY DEF PortsInit
<1> QED
  BY <1>2, <1>3

\* The tasks, when c obeys.
LEMMA ObeyedTasks ==
  ASSUME TypeOK, Tasks, NEW c \in Comp, pc[c] # "off", NEW m \in Move(c), cmd[c] \in Op,
         state' = [state EXCEPT ![c] = m[3]], cmd' = [cmd EXCEPT ![c] = "ok"],
         pc' = [pc EXCEPT ![c] = IF m[3] = "reset" THEN "off" ELSE "wait"]
  PROVE  Tasks' /\ m[3] \in {"reset", "init", "ready", "running"}
<1>1. m[3] \in {"reset", "init", "ready", "running"}
  BY DEF Move, Moves, SourceMoves
<1>2. pc'[c] \in {"off", "wait"} /\ (pc'[c] = "off" <=> m[3] = "reset") /\ state'[c] = m[3]
  BY DEF TypeOK
<1>3. \A d \in Comp : d # c => pc'[d] = pc[d] /\ cmd'[d] = cmd[d] /\ state'[d] = state[d]
  BY DEF TypeOK
<1> QED
  BY <1>1, <1>2, <1>3 DEF Tasks, Sink, Comp

LEMMA ObeyInv == ASSUME NEW c \in Comp PROVE IInv /\ Obey(c) => IInv'
<1> SUFFICES ASSUME IInv, Obey(c)
             PROVE  IInv'
  OBVIOUS
<1>1. TypeOK /\ Lockstep /\ OneCommand /\ Tasks /\ Connections /\ Sending
  BY DEF IInv
<1>2. PICK m \in Move(c) :
        /\ Obeyed(c, m)
        /\ IF m[2] = "init" THEN PortsInit(c) ELSE UNCHANGED port
  BY DEF Obey
<1>3. /\ pc[c] = "cmd" /\ (equal => ready # <<>>) /\ ~Cancels(c)
      /\ UNCHANGED <<equal, mem, next, cnt, hold, circ, alarm, tx, rx, plan, op, at, waiting>>
  BY DEF Obey, RunsAt, ctl
<1>4. /\ m \in Moves(c) /\ m[1] = state[c] /\ m[2] = cmd[c] /\ cmd[c] \in Op
  BY DEF Move, Moves, SourceMoves, Op
<1>5. /\ state' = [state EXCEPT ![c] = m[3]] /\ cmd' = [cmd EXCEPT ![c] = "ok"]
      /\ pc' = [pc EXCEPT ![c] = IF m[3] = "reset" THEN "off" ELSE "wait"]
      /\ ev' \in [Comp -> BOOLEAN] /\ ready' \in Seq(Comp)
  <2>1. PICK x \in BOOLEAN : x = (ev[c] \/ m[2] = "start")
    BY <1>1 DEF TypeOK
  <2>2. EndPass(c, m[3], x)
    BY <1>2, <2>1 DEF Obeyed
  <2> QED
    BY <1>1, <1>2, <1>3, <2>2, EndPassType DEF Obeyed
<1>6. Lockstep' /\ OneCommand'
  BY <1>1, <1>3, <1>5, ObeyedLockstep
<1>7. Tasks' /\ m[3] \in {"reset", "init", "ready", "running"}
  BY <1>1, <1>3, <1>4, <1>5, ObeyedTasks
<1>8. /\ port' \in [Sink -> Connection]
      /\ \A d \in Sink : /\ Ring(port'[d])
                         /\ port'[d].fullQ = port[d].fullQ
                         /\ port'[d].st = port[d].st
  <2>1. CASE m[2] = "init"
    <3>1. state[c] = "reset" /\ cmd[c] = "init"
      BY <1>4, <2>1 DEF Moves, SourceMoves
    <3>2. \A d \in Sink : d = c \/ Up(d) = c => state[d] # "running"
      BY <1>1, <1>3, <3>1, InitFindsSinkAtRest
    <3> QED
      BY <1>1, <1>2, <2>1, <3>2, PortsInitIs
  <2>2. CASE m[2] # "init"
    BY <1>1, <1>2, <2>2 DEF TypeOK, Connections
  <2> QED
    BY <2>1, <2>2
<1>9. TypeOK'
  <2>1. /\ state' \in [Comp -> {"reset", "init", "ready", "running"}]
        /\ pc' \in [Comp -> {"off", "wait", "cmd", "cancel", "fill", "take", "data", "get", "put"}]
        /\ cmd' \in [Comp -> Op \cup {"none", "ok", "refused"}]
    BY <1>1, <1>5, <1>7 DEF TypeOK
  <2> QED
    BY <1>1, <1>3, <1>5, <1>8, <2>1 DEF TypeOK
<1>10. Connections'
  <2>1. \A d \in Comp : /\ pc'[d] = "cancel" => pc[d] = "cancel"
                        /\ pc'[d] = "put" <=> pc[d] = "put"
    BY <1>1, <1>3, <1>5 DEF TypeOK
  <2>2. \A d \in Sink : d \in Comp /\ Up(d) \in Comp
    BY DEF Sink, Comp, Up
  <2>3. \A d \in Sink : state'[d] # "running" => port[d].fullQ = <<>>
    BY <1>1, <1>3, <1>5, <2>2 DEF Connections, Cancels, TypeOK
  <2> QED
    BY <1>1, <1>3, <1>8, <2>1, <2>2, <2>3 DEF Connections
<1>11. Sending'
  BY <1>1, <1>3, <1>5 DEF Sending, TypeOK, Comp
<1> QED
  BY <1>6, <1>7, <1>9, <1>10, <1>11 DEF IInv

----------------------------------------------------------------------------
(* The steps of a component: its in-port.                                  *)

LEMMA CancelAllInv == ASSUME NEW c \in Sink PROVE IInv /\ CancelAll(c) => IInv'
<1> SUFFICES ASSUME IInv, CancelAll(c)
             PROVE  IInv'
  OBVIOUS
<1>1. TypeOK /\ Lockstep /\ OneCommand /\ Tasks /\ Connections /\ Sending
  BY DEF IInv
<1>2. /\ pc[c] = "cmd" /\ state[c] = "running" /\ Move(c) # {} /\ c \in Comp
      /\ cnt' = [cnt EXCEPT ![c] = Len(port[c].fullQ)]
      /\ pc' = [pc EXCEPT ![c] = "cancel"]
      /\ UNCHANGED <<equal, state, ev, ready, cmd, port, mem, next, hold, circ, alarm, tx, rx,
                     plan, op, at, waiting>>
  BY DEF CancelAll, Cancels, RunsAt, Goto, ctl, Sink, Comp
<1>3. cmd[c] \in {"stop", "deinit"}
  BY <1>2 DEF Move, Moves, SourceMoves
<1>4. Len(port[c].fullQ) \in 0 .. Depth
  BY <1>1, ConnectionIs DEF TypeOK
<1>5. TypeOK'
  BY <1>1, <1>2, <1>4 DEF TypeOK
<1>6. Lockstep' /\ OneCommand'
  BY <1>1, <1>2, SameCommands
<1>7. Tasks' /\ Sending'
  BY <1>1, <1>2, <1>3 DEF Tasks, Sending, TypeOK, Sink, Comp
<1>8. Connections'
  <2>1. \A d \in Comp : /\ pc'[d] = "cancel" => pc[d] = "cancel" \/ d = c
                        /\ pc'[d] = "put" <=> pc[d] = "put"
    BY <1>1, <1>2 DEF TypeOK
  <2>2. \A d \in Sink : /\ d \in Comp /\ Up(d) \in Comp
                        /\ cnt'[d] = IF d = c THEN Len(port[c].fullQ) ELSE cnt[d]
    BY <1>1, <1>2 DEF Sink, Comp, Up, TypeOK
  <2>3. cnt'[c] <= Len(port[c].fullQ)
    BY <1>4, <2>2
  <2> QED
    BY <1>1, <1>2, <2>1, <2>2, <2>3 DEF Connections
<1> QED
  BY <1>5, <1>6, <1>7, <1>8 DEF IInv

\* What a sink does with a byte it takes.
LEMMA FillBufferDoneType ==
  ASSUME TypeOK, NEW c \in Sink, Ring(port[c]), Len(port[c].fullQ) > 0, FillBufferDone(c)
  PROVE  /\ circ' \in Seq(Nat) /\ Len(circ') <= Depth /\ rx' \in Seq(Nat)
         /\ circ' # circ => circ' # <<>>
<1> DEFINE v == mem[c][HeadBuf(port[c])]
<1>1. v \in Nat
  <2>1. port[c] \in Connection
    BY DEF TypeOK
  <2>2. HeadMsg(port[c]) \in Slot
    BY <2>1, HeadMsgIs
  <2>3. HeadBuf(port[c]) \in Buf
    BY <2>1, <2>2 DEF HeadBuf, Connection
  <2> QED
    BY <2>3 DEF TypeOK
<1>2. /\ rx' = IF c = "snk" THEN Append(rx, v) ELSE rx
      /\ circ' = IF c = "int" /\ Len(circ) < Depth THEN Append(circ, v) ELSE circ
  BY DEF FillBufferDone
<1> HIDE DEF v
<1>3. rx \in Seq(Nat) /\ circ \in Seq(Nat) /\ Len(circ) <= Depth /\ Depth \in Nat
  BY DepthAssumption DEF TypeOK
<1>4. /\ Append(rx, v) \in Seq(Nat) /\ Append(circ, v) \in Seq(Nat)
      /\ Len(Append(circ, v)) = Len(circ) + 1 /\ Append(circ, v) # <<>>
  BY <1>1, <1>3, AppendProperties
<1>5. Len(circ) \in Nat
  BY <1>3, LenProperties
<1>6. rx' \in Seq(Nat)
  BY <1>2, <1>3, <1>4
<1>7. CASE circ' = circ
  BY <1>3, <1>6, <1>7
<1>8. CASE Len(circ) < Depth /\ circ' = Append(circ, v)
  <2>1. Len(Append(circ, v)) <= Depth
    BY <1>3, <1>4, <1>5, <1>8
  <2>2. circ' \in Seq(Nat) /\ Len(circ') <= Depth /\ circ' # <<>>
    BY <1>4, <1>8, <2>1
  <2> QED
    BY <1>6, <2>2
<1> QED
  BY <1>2, <1>7, <1>8

\* The head of the light queue leaves: of a stopped sink, or a completed one.
LEMMA HeadLeaves ==
  ASSUME IInv, NEW c \in Sink, Len(port[c].fullQ) > 0,
         HeadStatus(c) # "processing",
         port' = [port EXCEPT ![c] = TakeHead(@)],
         cnt' = [cnt EXCEPT ![c] = @ - 1], cnt[c] > 0,
         UNCHANGED <<state, pc, hold>>
  PROVE  port' \in [Sink -> Connection] /\ cnt' \in [Sink -> 0 .. Depth] /\ Connections'
<1> DEFINE p == port[c]
           r == TakeHead(p)
<1>1. TypeOK /\ Connections
  BY DEF IInv
<1>2. p \in Connection /\ Ring(p)
  BY <1>1 DEF TypeOK, Connections
<1>3. /\ r \in Connection /\ Ring(r) /\ Len(r.fullQ) = Len(p.fullQ) - 1
      /\ r.st = [p.st EXCEPT ![HeadMsg(p)] = "init"]
  BY <1>2, TakeHeadGood
<1>4. HeadMsg(p) \in Slot /\ p.st \in [Slot -> Status] /\ Len(p.fullQ) \in Nat
  BY <1>2, HeadMsgIs, ConnectionIs
<1>5. p.st[HeadMsg(p)] # "processing"
  BY DEF HeadStatus
<1>6. port' = [port EXCEPT ![c] = r]
  OBVIOUS
<1> HIDE DEF p, r
<1>7. port' \in [Sink -> Connection]
  BY <1>1, <1>3, <1>6 DEF TypeOK
<1>8. cnt' \in [Sink -> 0 .. Depth]
  BY <1>1, DepthAssumption DEF TypeOK
<1>9. ASSUME NEW d \in Sink, d # c
      PROVE  port'[d] = port[d] /\ cnt'[d] = cnt[d]
  BY <1>1, <1>6, <1>9 DEF TypeOK
<1>10. port'[c] = r /\ cnt'[c] = cnt[c] - 1 /\ cnt[c] \in Int
  BY <1>1, <1>6 DEF TypeOK
<1>11. /\ cnt'[c] <= Len(r.fullQ)
       /\ pc[c] = "cancel" => cnt'[c] = Len(r.fullQ)
  BY <1>1, <1>3, <1>4, <1>10 DEF Connections, p
<1>12. state[c] # "running" => r.fullQ = <<>>
  <2>1. state[c] = "running"
    BY <1>1, EmptySeq DEF Connections
  <2> QED
    BY <2>1
<1>13. /\ \A s \in Slot : r.st[s] = "processing" => pc[Up(c)] = "put" /\ hold[Up(c)] = s
       /\ pc[Up(c)] = "put" => hold[Up(c)] \in Slot /\ r.st[hold[Up(c)]] = "processing"
  BY <1>1, <1>3, <1>4, <1>5 DEF Connections, p
<1>14. Connections'
  <2> SUFFICES ASSUME NEW d \in Sink
               PROVE  /\ Ring(port'[d])
                      /\ cnt'[d] <= Len(port'[d].fullQ)
                      /\ pc[d] = "cancel" => cnt'[d] = Len(port'[d].fullQ)
                      /\ state[d] # "running" => port'[d].fullQ = <<>>
                      /\ \A s \in Slot : port'[d].st[s] = "processing"
                           => pc[Up(d)] = "put" /\ hold[Up(d)] = s
                      /\ pc[Up(d)] = "put"
                           => hold[Up(d)] \in Slot /\ port'[d].st[hold[Up(d)]] = "processing"
    BY DEF Connections
  <2>1. CASE d = c
    BY <1>3, <1>10, <1>11, <1>12, <1>13, <2>1
  <2>2. CASE d # c
    BY <1>1, <1>9, <2>2 DEF Connections
  <2> QED
    BY <2>1, <2>2
<1> QED
  BY <1>7, <1>8, <1>14

LEMMA CancelInv == ASSUME NEW c \in Sink PROVE IInv /\ Cancel(c) => IInv'
<1> SUFFICES ASSUME IInv, Cancel(c)
             PROVE  IInv'
  OBVIOUS
<1>1. TypeOK /\ Lockstep /\ OneCommand /\ Tasks /\ Connections /\ Sending
  BY DEF IInv
<1>2. /\ pc[c] = "cancel" /\ cnt[c] > 0 /\ c \in Comp /\ Up(c) \in Comp
      /\ UNCHANGED <<equal, state, pc, cmd, mem, next, hold, alarm, tx, plan, op, at, waiting>>
  BY DEF Cancel, RunsAt, ctl, Sink, Comp, Up
<1>3. cnt[c] = Len(port[c].fullQ) /\ Ring(port[c]) /\ port[c] \in Connection
  BY <1>1, <1>2 DEF Connections, TypeOK
<1>4. HeadStatus(c) # "processing"
  <2>1. HeadMsg(port[c]) \in Slot
    BY <1>2, <1>3, HeadMsgIs
  <2>2. state[Up(c)] # "running"
    BY <1>1, <1>2, CancelFindsSourceAtRest
  <2>3. pc[Up(c)] # "put"
    BY <1>1, <1>2, <2>2 DEF Tasks
  <2> QED
    BY <1>1, <2>1, <2>3 DEF HeadStatus, Connections
<1>5. /\ port' = [port EXCEPT ![c] = TakeHead(@)]
      /\ cnt' = [cnt EXCEPT ![c] = @ - 1]
      /\ FillBufferDone(c) \/ UNCHANGED <<circ, rx>>
      /\ SetEvent(Up(c))
  BY <1>4 DEF Cancel, CancelHead, HeadStatus
<1>6. /\ ev' \in [Comp -> BOOLEAN] /\ ready' \in Seq(Comp)
  BY <1>1, <1>2, <1>5, SetEventType
<1>7. port' \in [Sink -> Connection] /\ cnt' \in [Sink -> 0 .. Depth] /\ Connections'
  BY <1>2, <1>3, <1>4, <1>5, HeadLeaves
<1>8. /\ circ' \in Seq(Nat) /\ Len(circ') <= Depth /\ rx' \in Seq(Nat)
      /\ circ' # circ => circ' # <<>>
  <2>1. CASE FillBufferDone(c)
    BY <1>1, <1>2, <1>3, <2>1, FillBufferDoneType
  <2>2. CASE UNCHANGED <<circ, rx>>
    BY <1>1, <2>2 DEF TypeOK
  <2> QED
    BY <1>5, <2>1, <2>2
<1>9. TypeOK'
  BY <1>1, <1>2, <1>6, <1>7, <1>8 DEF TypeOK
<1>10. Lockstep' /\ OneCommand'
  BY <1>1, <1>2, SameCommands
<1>11. Tasks' /\ Sending'
  BY <1>1, <1>2, <1>8 DEF Tasks, Sending
<1> QED
  BY <1>7, <1>9, <1>10, <1>11 DEF IInv

LEMMA CancelledInv == ASSUME NEW c \in Sink PROVE IInv /\ Cancelled(c) => IInv'
<1> SUFFICES ASSUME IInv, Cancelled(c)
             PROVE  IInv'
  OBVIOUS
<1>1. TypeOK /\ Lockstep /\ OneCommand /\ Tasks /\ Connections /\ Sending
  BY DEF IInv
<1>2. PICK m \in Move(c) : Obeyed(c, m)
  BY DEF Cancelled
<1>3. /\ pc[c] = "cancel" /\ (equal => ready # <<>>) /\ cnt[c] = 0 /\ c \in Comp
      /\ UNCHANGED <<equal, port, mem, next, cnt, hold, circ, alarm, tx, rx, plan, op, at, waiting>>
  BY DEF Cancelled, RunsAt, data, ctl, Sink, Comp
<1>4. cmd[c] \in {"stop", "deinit"} /\ cmd[c] \in Op
  BY <1>1, <1>3 DEF Tasks, Op
<1>5. /\ state' = [state EXCEPT ![c] = m[3]] /\ cmd' = [cmd EXCEPT ![c] = "ok"]
      /\ pc' = [pc EXCEPT ![c] = IF m[3] = "reset" THEN "off" ELSE "wait"]
      /\ ev' \in [Comp -> BOOLEAN] /\ ready' \in Seq(Comp)
  <2>1. PICK x \in BOOLEAN : x = (ev[c] \/ m[2] = "start")
    BY <1>1, <1>3 DEF TypeOK
  <2>2. EndPass(c, m[3], x)
    BY <1>2, <2>1 DEF Obeyed
  <2> QED
    BY <1>1, <1>2, <1>3, <2>2, EndPassType DEF Obeyed
<1>6. Lockstep' /\ OneCommand'
  BY <1>1, <1>3, <1>5, ObeyedLockstep
<1>7. Tasks' /\ m[3] \in {"reset", "init", "ready", "running"}
  BY <1>1, <1>3, <1>4, <1>5, ObeyedTasks
<1>8. TypeOK'
  <2>1. /\ state' \in [Comp -> {"reset", "init", "ready", "running"}]
        /\ pc' \in [Comp -> {"off", "wait", "cmd", "cancel", "fill", "take", "data", "get", "put"}]
        /\ cmd' \in [Comp -> Op \cup {"none", "ok", "refused"}]
    BY <1>1, <1>5, <1>7 DEF TypeOK
  <2> QED
    BY <1>1, <1>3, <1>5, <2>1 DEF TypeOK
<1>9. Connections'
  <2>1. \A d \in Comp : /\ pc'[d] = "cancel" => pc[d] = "cancel"
                        /\ pc'[d] = "put" <=> pc[d] = "put"
    BY <1>1, <1>3, <1>5 DEF TypeOK
  <2>2. port[c].fullQ = <<>>
    <3>1. Len(port[c].fullQ) = 0 /\ port[c].fullQ \in Seq(Slot)
      BY <1>1, <1>3, ConnectionIs DEF Connections, TypeOK
    <3> QED
      BY <3>1, EmptySeq
  <2>3. \A d \in Sink : state'[d] # "running" => port[d].fullQ = <<>>
    BY <1>1, <1>3, <1>5, <2>2 DEF Connections, TypeOK, Sink, Comp
  <2>4. Sink \subseteq Comp
    BY DEF Sink, Comp
  <2> QED
    BY <1>1, <1>3, <2>1, <2>3, <2>4, SameConnections
<1>10. Sending'
  BY <1>1, <1>3, <1>5 DEF Sending, TypeOK, Comp
<1> QED
  BY <1>6, <1>7, <1>8, <1>9, <1>10 DEF IInv

LEMMA FillInv == ASSUME NEW c \in Sink PROVE IInv /\ Fill(c) => IInv'
<1> SUFFICES ASSUME IInv, Fill(c)
             PROVE  IInv'
  OBVIOUS
<1> DEFINE p == port[c]
<1>1. TypeOK /\ Lockstep /\ OneCommand /\ Tasks /\ Connections /\ Sending
  BY DEF IInv
<1>2. /\ pc[c] = "fill" /\ state[c] = "running" /\ c \in Comp /\ Up(c) \in Comp
      /\ next' = [next EXCEPT ![c] = After(@)]
      /\ UNCHANGED <<equal, state, cmd, mem, hold, circ, alarm, tx, rx, plan, op, at, waiting>>
  BY <1>1 DEF Fill, RunsAt, ctl, Tasks, Sink, Comp, Up
<1>3. next[c] \in Buf /\ next' \in [Sink -> Buf]
  <2>1. \A s \in Buf : After(s) \in Buf
    BY AfterIs DEF Buf, Slot
  <2> QED
    BY <1>1, <1>2, <2>1 DEF TypeOK
<1>4. p \in Connection /\ Ring(p)
  BY <1>1 DEF TypeOK, Connections
<1>5. Lockstep' /\ OneCommand'
  BY <1>1, <1>2, SameCommands
<1>6. CASE /\ CanFill(p) /\ port' = [port EXCEPT ![c] = FillBuffer(@, next[c])]
           /\ SetEvent(Up(c)) /\ UNCHANGED <<pc, cnt>>
  <2> DEFINE r == FillBuffer(p, next[c])
  <2>1. /\ r \in Connection /\ Ring(r) /\ Len(r.fullQ) = Len(p.fullQ) + 1
        /\ r.st = [p.st EXCEPT ![p.wr] = "posted"] /\ p.wr \in Slot /\ p.st[p.wr] = "init"
    BY <1>3, <1>4, <1>6, FillBufferGood
  <2>2. port' = [port EXCEPT ![c] = r]
    BY <1>6
  <2>3. p.st \in [Slot -> Status] /\ Len(p.fullQ) \in Nat
    BY <1>4, ConnectionIs
  <2> HIDE DEF r, p
  <2>4. TypeOK'
    <3>1. port' \in [Sink -> Connection]
      BY <1>1, <2>1, <2>2 DEF TypeOK
    <3>2. /\ ev' \in [Comp -> BOOLEAN] /\ ready' \in Seq(Comp)
      BY <1>1, <1>2, <1>6, SetEventType
    <3> QED
      BY <1>1, <1>2, <1>3, <1>6, <3>1, <3>2 DEF TypeOK
  <2>5. Tasks' /\ Sending'
    BY <1>1, <1>2, <1>6 DEF Tasks, Sending
  <2>6. Connections'
    <3> SUFFICES ASSUME NEW d \in Sink
                 PROVE  /\ Ring(port'[d])
                        /\ cnt[d] <= Len(port'[d].fullQ)
                        /\ pc[d] = "cancel" => cnt[d] = Len(port'[d].fullQ)
                        /\ state[d] # "running" => port'[d].fullQ = <<>>
                        /\ \A s \in Slot : port'[d].st[s] = "processing"
                             => pc[Up(d)] = "put" /\ hold[Up(d)] = s
                        /\ pc[Up(d)] = "put"
                             => hold[Up(d)] \in Slot /\ port'[d].st[hold[Up(d)]] = "processing"
      BY <1>2, <1>6 DEF Connections
    <3>1. CASE d = c
      <4>1. port'[d] = r
        BY <1>1, <2>2, <3>1 DEF TypeOK
      <4>2. cnt[c] <= Len(r.fullQ)
        BY <1>1, <2>1, <2>3 DEF Connections, TypeOK, p
      <4> QED
        BY <1>1, <1>2, <2>1, <2>3, <3>1, <4>1, <4>2 DEF Connections, p
    <3>2. CASE d # c
      <4>1. port'[d] = port[d]
        BY <1>1, <2>2, <3>2 DEF TypeOK
      <4> QED
        BY <1>1, <4>1 DEF Connections
    <3> QED
      BY <3>1, <3>2
  <2> QED
    BY <1>5, <2>4, <2>5, <2>6 DEF IInv
<1>7. CASE /\ Goto(c, "take") /\ cnt' = [cnt EXCEPT ![c] = Len(p.fullQ)]
           /\ NoEvent /\ UNCHANGED port
  <2>1. Len(p.fullQ) \in 0 .. Depth
    BY <1>4, ConnectionIs
  <2>2. pc' = [pc EXCEPT ![c] = "take"] /\ UNCHANGED <<ev, ready>>
    BY <1>7 DEF Goto, NoEvent
  <2>3. TypeOK'
    BY <1>1, <1>2, <1>3, <1>7, <2>1, <2>2 DEF TypeOK
  <2>4. Tasks' /\ Sending'
    BY <1>1, <1>2, <1>7, <2>2 DEF Tasks, Sending, TypeOK, Sink, Comp
  <2>5. Connections'
    <3>1. \A d \in Comp : /\ pc'[d] = "cancel" => pc[d] = "cancel" /\ d # c
                          /\ pc'[d] = "put" <=> pc[d] = "put"
      BY <1>1, <1>2, <2>2 DEF TypeOK
    <3>2. \A d \in Sink : /\ d \in Comp /\ Up(d) \in Comp
                          /\ cnt'[d] = IF d = c THEN Len(port[c].fullQ) ELSE cnt[d]
      BY <1>1, <1>7 DEF Sink, Comp, Up, TypeOK
    <3>3. cnt'[c] <= Len(port[c].fullQ)
      BY <2>1, <3>2
    <3> QED
      BY <1>1, <1>2, <1>7, <3>1, <3>2, <3>3 DEF Connections
  <2> QED
    BY <1>5, <2>3, <2>4, <2>5 DEF IInv
<1> QED
  BY <1>6, <1>7 DEF Fill

LEMMA TakeInv == ASSUME NEW c \in Sink PROVE IInv /\ Take(c) => IInv'
<1> SUFFICES ASSUME IInv, Take(c)
             PROVE  IInv'
  OBVIOUS
<1>1. TypeOK /\ Lockstep /\ OneCommand /\ Tasks /\ Connections /\ Sending
  BY DEF IInv
<1>2. /\ pc[c] = "take" /\ cnt[c] > 0 /\ HeadStatus(c) = "completed"
      /\ c \in Comp /\ Up(c) \in Comp
      /\ port' = [port EXCEPT ![c] = TakeHead(@)]
      /\ cnt' = [cnt EXCEPT ![c] = @ - 1]
      /\ FillBufferDone(c) /\ SetEvent(Up(c))
      /\ UNCHANGED <<equal, state, pc, cmd, mem, next, hold, alarm, tx, plan, op, at, waiting>>
  BY DEF Take, Received, RunsAt, ctl, Sink, Comp, Up
<1>3. Len(port[c].fullQ) > 0 /\ Ring(port[c])
  <2>1. /\ cnt[c] <= Len(port[c].fullQ) /\ Ring(port[c]) /\ port[c] \in Connection
        /\ cnt[c] \in Int
    BY <1>1 DEF Connections, TypeOK
  <2>2. Len(port[c].fullQ) \in Int
    BY <2>1, ConnectionIs
  <2> QED
    BY <1>2, <2>1, <2>2
<1>4. /\ ev' \in [Comp -> BOOLEAN] /\ ready' \in Seq(Comp)
  BY <1>1, <1>2, SetEventType
<1>5. port' \in [Sink -> Connection] /\ cnt' \in [Sink -> 0 .. Depth] /\ Connections'
  BY <1>2, <1>3, HeadLeaves
<1>6. /\ circ' \in Seq(Nat) /\ Len(circ') <= Depth /\ rx' \in Seq(Nat)
      /\ circ' # circ => circ' # <<>>
  BY <1>1, <1>2, <1>3, FillBufferDoneType
<1>7. TypeOK'
  BY <1>1, <1>2, <1>4, <1>5, <1>6 DEF TypeOK
<1>8. Lockstep' /\ OneCommand'
  BY <1>1, <1>2, SameCommands
<1>9. Tasks' /\ Sending'
  BY <1>1, <1>2, <1>6 DEF Tasks, Sending
<1> QED
  BY <1>5, <1>7, <1>8, <1>9 DEF IInv

LEMMA TakenInv == ASSUME NEW c \in Sink PROVE IInv /\ Taken(c) => IInv'
<1> SUFFICES ASSUME IInv, Taken(c)
             PROVE  IInv'
  OBVIOUS
<1>1. TypeOK /\ Lockstep /\ OneCommand /\ Tasks /\ Connections /\ Sending
  BY DEF IInv
<1>2. /\ pc[c] = "take" /\ (equal => ready # <<>>) /\ state[c] = "running" /\ c \in Comp
      /\ cnt' = [cnt EXCEPT ![c] = 0]
      /\ UNCHANGED <<equal, state, cmd, port, mem, next, hold, circ, alarm, tx, rx,
                     plan, op, at, waiting>>
  BY <1>1 DEF Taken, RunsAt, ctl, Tasks, Sink, Comp
<1>3. /\ pc' = [pc EXCEPT ![c] = IF c = "int" THEN "get" ELSE "wait"]
      /\ ev' \in [Comp -> BOOLEAN] /\ ready' \in Seq(Comp)
  <2>1. CASE c = "int" /\ Goto(c, "get") /\ NoEvent
    BY <1>1, <2>1 DEF Goto, NoEvent, TypeOK
  <2>2. CASE c = "snk" /\ Sleep(c, ev[c])
    BY <1>1, <1>2, <2>2, SleepType DEF TypeOK
  <2> QED
    BY <2>1, <2>2 DEF Taken
<1>4. TypeOK'
  <2>1. cnt' \in [Sink -> 0 .. Depth]
    BY <1>1, <1>2, DepthAssumption DEF TypeOK
  <2>2. pc' \in [Comp -> {"off", "wait", "cmd", "cancel", "fill", "take", "data", "get", "put"}]
    BY <1>1, <1>3 DEF TypeOK
  <2> QED
    BY <1>1, <1>2, <1>3, <2>1, <2>2 DEF TypeOK
<1>5. Lockstep' /\ OneCommand'
  BY <1>1, <1>2, SameCommands
<1>6. Tasks' /\ Sending'
  BY <1>1, <1>2, <1>3 DEF Tasks, Sending, TypeOK, Sink, Comp
<1>7. Connections'
  <2>1. \A d \in Comp : /\ pc'[d] = "cancel" => pc[d] = "cancel" /\ d # c
                        /\ pc'[d] = "put" <=> pc[d] = "put"
    BY <1>1, <1>2, <1>3 DEF TypeOK
  <2>2. \A d \in Sink : /\ d \in Comp /\ Up(d) \in Comp
                        /\ cnt'[d] = IF d = c THEN 0 ELSE cnt[d]
    BY <1>1, <1>2 DEF Sink, Comp, Up, TypeOK
  <2>3. 0 <= Len(port[c].fullQ)
    BY <1>1, ConnectionIs DEF TypeOK
  <2> QED
    BY <1>1, <1>2, <2>1, <2>2, <2>3 DEF Connections
<1> QED
  BY <1>4, <1>5, <1>6, <1>7 DEF IInv

----------------------------------------------------------------------------
(* The steps of a component: its out-port.                                 *)

\* A sending task moves on, or ends its pass.
LEMMA SenderMoves ==
  ASSUME IInv, NEW c \in {"src", "int"}, NEW w \in {"wait", "get"}, pc[c] \in {"data", "get"},
         pc' = [pc EXCEPT ![c] = w], ev' \in [Comp -> BOOLEAN], ready' \in Seq(Comp),
         alarm' \in BOOLEAN,
         UNCHANGED <<equal, state, cmd, port, mem, next, cnt, hold, circ, tx, rx,
                     plan, op, at, waiting>>
  PROVE  IInv'
<1>1. TypeOK /\ Lockstep /\ OneCommand /\ Tasks /\ Connections /\ Sending
  BY DEF IInv
<1>2. c \in Comp /\ state[c] = "running"
  BY <1>1 DEF Comp, Tasks
<1>3. TypeOK'
  <2>1. pc' \in [Comp -> {"off", "wait", "cmd", "cancel", "fill", "take", "data", "get", "put"}]
    BY <1>1 DEF TypeOK
  <2> QED
    BY <1>1, <2>1 DEF TypeOK
<1>4. Lockstep' /\ OneCommand'
  BY <1>1, SameCommands
<1>5. Tasks' /\ Sending'
  BY <1>1, <1>2 DEF Tasks, Sending, TypeOK, Sink, Comp
<1>6. Connections'
  <2>1. \A d \in Comp : /\ pc'[d] = "cancel" => pc[d] = "cancel"
                        /\ pc'[d] = "put" <=> pc[d] = "put"
    BY <1>1, <1>2 DEF TypeOK
  <2>2. Sink \subseteq Comp
    BY DEF Sink, Comp
  <2>3. \A d \in Sink : state'[d] # "running" => port[d].fullQ = <<>>
    BY <1>1 DEF Connections
  <2> QED
    BY <1>1, <2>1, <2>2, <2>3, SameConnections
<1> QED
  BY <1>3, <1>4, <1>5, <1>6 DEF IInv

LEMMA ReadAlarmInv == IInv /\ ReadAlarm => IInv'
<1> SUFFICES ASSUME IInv, ReadAlarm
             PROVE  IInv'
  OBVIOUS
<1>1. TypeOK
  BY DEF IInv
<1>2. /\ pc["src"] = "data" /\ (equal => ready # <<>>) /\ alarm' = FALSE /\ "src" \in Comp
      /\ UNCHANGED <<equal, state, cmd, port, mem, next, cnt, hold, circ, tx, rx,
                     plan, op, at, waiting>>
  BY DEF ReadAlarm, RunsAt, ctl, Comp
<1>3. CASE Goto("src", "get") /\ NoEvent
  <2>1. pc' = [pc EXCEPT !["src"] = "get"] /\ ev' \in [Comp -> BOOLEAN] /\ ready' \in Seq(Comp)
    BY <1>1, <1>3 DEF Goto, NoEvent, TypeOK
  <2> QED
    BY <1>2, <2>1, SenderMoves
<1>4. CASE Sleep("src", ev["src"])
  <2>1. pc' = [pc EXCEPT !["src"] = "wait"] /\ ev' \in [Comp -> BOOLEAN] /\ ready' \in Seq(Comp)
    BY <1>1, <1>2, <1>4, SleepType DEF TypeOK
  <2> QED
    BY <1>2, <2>1, SenderMoves
<1> QED
  BY <1>3, <1>4 DEF ReadAlarm

LEMMA SentAllInv == ASSUME NEW c \in {"src", "int"} PROVE IInv /\ SentAll(c) => IInv'
<1> SUFFICES ASSUME IInv, SentAll(c)
             PROVE  IInv'
  OBVIOUS
<1>1. TypeOK
  BY DEF IInv
<1>2. /\ pc[c] = "get" /\ (equal => ready # <<>>) /\ c \in Comp /\ Sleep(c, ev[c])
      /\ UNCHANGED <<equal, state, cmd, port, mem, next, cnt, hold, circ, alarm, tx, rx,
                     plan, op, at, waiting>>
  BY DEF SentAll, RunsAt, data, ctl, Comp
<1>3. pc' = [pc EXCEPT ![c] = "wait"] /\ ev' \in [Comp -> BOOLEAN] /\ ready' \in Seq(Comp)
  BY <1>1, <1>2, SleepType DEF TypeOK
<1>4. alarm' \in BOOLEAN
  BY <1>1, <1>2 DEF TypeOK
<1> QED
  BY <1>2, <1>3, <1>4, SenderMoves

\* The connection a component sends on, and no other.
LEMMA DownIs ==
  ASSUME NEW c \in {"src", "int"}
  PROVE  /\ Down(c) \in Sink /\ c \in Comp /\ Up(Down(c)) = c /\ Down(c) # c
         /\ \A d \in Sink : d \in Comp /\ Up(d) \in Comp /\ (d # Down(c) => Up(d) # c)
BY DEF Down, Up, Sink, Comp

LEMMA GetInv == ASSUME NEW c \in {"src", "int"} PROVE IInv /\ Get(c) => IInv'
<1> SUFFICES ASSUME IInv, Get(c)
             PROVE  IInv'
  OBVIOUS
<1> DEFINE e == Down(c)
           p == port[e]
           r == GetMsgIdx(p)
           m == MsgIdx(p)
<1>1. TypeOK /\ Lockstep /\ OneCommand /\ Tasks /\ Connections /\ Sending
  BY DEF IInv
<1>2. /\ pc[c] = "get" /\ Sends(c)
      /\ hold' = [hold EXCEPT ![c] = m]
      /\ port' = [port EXCEPT ![e] = r]
      /\ pc' = [pc EXCEPT ![c] = "put"]
      /\ UNCHANGED <<ev, ready, equal, state, cmd, mem, next, cnt, circ, alarm, tx, rx,
                     plan, op, at, waiting>>
  BY DEF Get, RunsAt, Goto, NoEvent, ctl
<1>3. /\ e \in Sink /\ c \in Comp /\ Up(e) = c
      /\ \A d \in Sink : d \in Comp /\ Up(d) \in Comp /\ (d # e => Up(d) # c)
  BY DownIs
<1>4. p \in Connection /\ Ring(p) /\ Pending(p) # {} /\ (c = "int" => circ # <<>>)
  BY <1>1, <1>2, <1>3 DEF TypeOK, Connections, Sends, HasData
<1>5. /\ r \in Connection /\ Ring(r) /\ m \in Slot
      /\ r.st = [p.st EXCEPT ![m] = "processing"] /\ r.fullQ = p.fullQ
  BY <1>4, GetMsgIdxGood
<1>6. p.st \in [Slot -> Status]
  BY <1>4, ConnectionIs
<1> HIDE DEF e, p, r, m
<1>7. state[c] = "running"
  BY <1>1, <1>2, <1>3 DEF Tasks
<1>8. TypeOK'
  <2>1. port' \in [Sink -> Connection]
    BY <1>1, <1>2, <1>5 DEF TypeOK
  <2>2. hold' \in [{"src", "int"} -> Slot \cup {NoSlot}]
    BY <1>1, <1>2, <1>5 DEF TypeOK
  <2>3. pc' \in [Comp -> {"off", "wait", "cmd", "cancel", "fill", "take", "data", "get", "put"}]
    BY <1>1, <1>2 DEF TypeOK
  <2> QED
    BY <1>1, <1>2, <2>1, <2>2, <2>3 DEF TypeOK
<1>9. Lockstep' /\ OneCommand'
  BY <1>1, <1>2, SameCommands
<1>10. Tasks' /\ Sending'
  BY <1>1, <1>2, <1>4, <1>7 DEF Tasks, Sending, TypeOK, Sink, Comp
<1>11. Connections'
  <2>1. \A d \in Comp : pc'[d] = IF d = c THEN "put" ELSE pc[d]
    BY <1>1, <1>2 DEF TypeOK
  <2> SUFFICES ASSUME NEW d \in Sink
               PROVE  /\ Ring(port'[d])
                      /\ cnt[d] <= Len(port'[d].fullQ)
                      /\ pc'[d] = "cancel" => cnt[d] = Len(port'[d].fullQ)
                      /\ state[d] # "running" => port'[d].fullQ = <<>>
                      /\ \A s \in Slot : port'[d].st[s] = "processing"
                           => pc'[Up(d)] = "put" /\ hold'[Up(d)] = s
                      /\ pc'[Up(d)] = "put"
                           => hold'[Up(d)] \in Slot /\ port'[d].st[hold'[Up(d)]] = "processing"
    BY <1>2 DEF Connections
  <2>2. CASE d = e
    <3>1. port'[d] = r /\ hold'[Up(d)] = m /\ pc'[Up(d)] = "put"
      BY <1>1, <1>2, <1>3, <2>1, <2>2 DEF TypeOK
    <3>2. \A s \in Slot : p.st[s] # "processing"
      BY <1>1, <1>2, <1>3 DEF Connections, p
    <3>3. /\ cnt[d] <= Len(p.fullQ)
          /\ pc'[d] = "cancel" => cnt[d] = Len(p.fullQ)
          /\ state[d] # "running" => p.fullQ = <<>>
      BY <1>1, <1>3, <2>1, <2>2 DEF Connections, p
    <3> QED
      BY <1>5, <1>6, <3>1, <3>2, <3>3
  <2>3. CASE d # e
    <3>1. port'[d] = port[d] /\ Up(d) \in Comp /\ Up(d) # c /\ pc'[Up(d)] = pc[Up(d)]
      BY <1>1, <1>2, <1>3, <2>1, <2>3 DEF TypeOK
    <3>2. hold'[Up(d)] = hold[Up(d)]
      BY <1>1, <1>2, <3>1 DEF TypeOK, Up
    <3>3. pc'[d] = "cancel" => pc[d] = "cancel"
      BY <1>3, <2>1
    <3> QED
      BY <1>1, <3>1, <3>2, <3>3 DEF Connections
  <2> QED
    BY <2>2, <2>3
<1> QED
  BY <1>8, <1>9, <1>10, <1>11 DEF IInv

LEMMA PutInv == ASSUME NEW c \in {"src", "int"} PROVE IInv /\ Put(c) => IInv'
<1> SUFFICES ASSUME IInv, Put(c)
             PROVE  IInv'
  OBVIOUS
<1> DEFINE e == Down(c)
           p == port[e]
           m == hold[c]
           r == CompleteMsgIdx(p, m)
           v == IF c = "src" THEN tx + 1 ELSE Head(circ)
<1>1. TypeOK /\ Lockstep /\ OneCommand /\ Tasks /\ Connections /\ Sending
  BY DEF IInv
<1>2. /\ pc[c] = "put"
      /\ mem' = [mem EXCEPT ![e][p.buf[m]] = v]
      /\ port' = [port EXCEPT ![e] = r]
      /\ SetEvent(e)
      /\ tx' = (IF c = "src" THEN tx + 1 ELSE tx)
      /\ circ' = (IF c = "int" THEN Tail(circ) ELSE circ)
      /\ hold' = [hold EXCEPT ![c] = NoSlot]
      /\ pc' = [pc EXCEPT ![c] = "get"]
      /\ UNCHANGED <<equal, state, cmd, next, cnt, alarm, rx, plan, op, at, waiting>>
  BY DEF Put, RunsAt, Goto, ctl
<1>3. /\ e \in Sink /\ e \in Comp /\ c \in Comp /\ Up(e) = c
      /\ \A d \in Sink : d \in Comp /\ Up(d) \in Comp /\ (d # e => Up(d) # c)
  BY DownIs
<1>4. p \in Connection /\ Ring(p) /\ m \in Slot /\ p.st[m] = "processing"
  BY <1>1, <1>2, <1>3 DEF TypeOK, Connections
<1>5. /\ r \in Connection /\ Ring(r)
      /\ r.st = [p.st EXCEPT ![m] = "completed"] /\ r.fullQ = p.fullQ
  BY <1>4, CompleteGood
<1>6. p.st \in [Slot -> Status] /\ p.buf[m] \in Buf
  BY <1>4, ConnectionIs
<1>7. circ \in Seq(Nat) /\ Len(circ) <= Depth /\ tx \in Nat
  BY <1>1 DEF TypeOK
<1>8. c = "int" => /\ circ # <<>> /\ Head(circ) \in Nat /\ Tail(circ) \in Seq(Nat)
                   /\ Len(Tail(circ)) = Len(circ) - 1
  BY <1>1, <1>2, <1>7, HeadTailProperties DEF Sending
<1>9. v \in Nat
  BY <1>7, <1>8
<1> HIDE DEF e, p, r, m, v
<1>10. state[c] = "running"
  BY <1>1, <1>2, <1>3 DEF Tasks
<1>11. TypeOK'
  <2>1. port' \in [Sink -> Connection]
    BY <1>1, <1>2, <1>5 DEF TypeOK
  <2>2. hold' \in [{"src", "int"} -> Slot \cup {NoSlot}]
    BY <1>1, <1>2 DEF TypeOK
  <2>3. pc' \in [Comp -> {"off", "wait", "cmd", "cancel", "fill", "take", "data", "get", "put"}]
    BY <1>1, <1>2 DEF TypeOK
  <2>4. mem' \in [Sink -> [Buf -> Nat]]
    BY <1>1, <1>2, <1>6, <1>9 DEF TypeOK
  <2>5. ev' \in [Comp -> BOOLEAN] /\ ready' \in Seq(Comp)
    BY <1>1, <1>2, <1>3, SetEventType
  <2>6. circ' \in Seq(Nat) /\ Len(circ') <= Depth /\ tx' \in Nat
    <3>1. Len(circ) \in Nat /\ Depth \in Nat
      BY <1>7, LenProperties, DepthAssumption
    <3> QED
      BY <1>2, <1>7, <1>8, <3>1
  <2> QED
    BY <1>1, <1>2, <2>1, <2>2, <2>3, <2>4, <2>5, <2>6 DEF TypeOK
<1>12. Lockstep' /\ OneCommand'
  BY <1>1, <1>2, SameCommands
<1>13. Tasks'
  BY <1>1, <1>2, <1>10 DEF Tasks, TypeOK, Sink, Comp
<1>14. Sending'
  BY <1>1, <1>2, <1>3 DEF Sending, TypeOK, Comp
<1>15. Connections'
  <2>1. \A d \in Comp : pc'[d] = IF d = c THEN "get" ELSE pc[d]
    BY <1>1, <1>2 DEF TypeOK
  <2> SUFFICES ASSUME NEW d \in Sink
               PROVE  /\ Ring(port'[d])
                      /\ cnt[d] <= Len(port'[d].fullQ)
                      /\ pc'[d] = "cancel" => cnt[d] = Len(port'[d].fullQ)
                      /\ state[d] # "running" => port'[d].fullQ = <<>>
                      /\ \A s \in Slot : port'[d].st[s] = "processing"
                           => pc'[Up(d)] = "put" /\ hold'[Up(d)] = s
                      /\ pc'[Up(d)] = "put"
                           => hold'[Up(d)] \in Slot /\ port'[d].st[hold'[Up(d)]] = "processing"
    BY <1>2 DEF Connections
  <2>2. CASE d = e
    <3>1. port'[d] = r /\ pc'[Up(d)] # "put"
      BY <1>1, <1>2, <1>3, <2>1, <2>2 DEF TypeOK
    <3>2. \A s \in Slot : p.st[s] = "processing" => s = m
      BY <1>1, <1>3 DEF Connections, p, m
    <3>3. /\ cnt[d] <= Len(p.fullQ)
          /\ pc'[d] = "cancel" => cnt[d] = Len(p.fullQ)
          /\ state[d] # "running" => p.fullQ = <<>>
      BY <1>1, <1>3, <2>1, <2>2 DEF Connections, p
    <3> QED
      BY <1>4, <1>5, <1>6, <3>1, <3>2, <3>3
  <2>3. CASE d # e
    <3>1. port'[d] = port[d] /\ Up(d) \in Comp /\ Up(d) # c /\ pc'[Up(d)] = pc[Up(d)]
      BY <1>1, <1>2, <1>3, <2>1, <2>3 DEF TypeOK
    <3>2. hold'[Up(d)] = hold[Up(d)]
      BY <1>1, <1>2, <3>1 DEF TypeOK, Up
    <3>3. pc'[d] = "cancel" => pc[d] = "cancel"
      BY <1>3, <2>1
    <3> QED
      BY <1>1, <3>1, <3>2, <3>3 DEF Connections
  <2> QED
    BY <2>2, <2>3
<1> QED
  BY <1>11, <1>12, <1>13, <1>14, <1>15 DEF IInv

----------------------------------------------------------------------------
(* The theorems.                                                           *)

LEMMA StutterInv == IInv /\ UNCHANGED vars => IInv'
<1> SUFFICES ASSUME IInv, UNCHANGED vars
             PROVE  IInv'
  OBVIOUS
<1>1. TypeOK' /\ Lockstep' /\ OneCommand' /\ Tasks' /\ Sending'
  <2>1. Lockstep' /\ OneCommand'
    BY SameCommands DEF IInv, vars, comps, ctl
  <2> QED
    BY <2>1 DEF IInv, TypeOK, Tasks, Sending, vars, comps, data, ctl
<1>2. Connections'
  BY DEF IInv, Connections, vars, comps, data, Ring, Age, Behind, NextHandle, After
<1> QED
  BY <1>1, <1>2 DEF IInv

LEMMA NextInv == IInv /\ [Next]_vars => IInv'
<1> SUFFICES ASSUME IInv, [Next]_vars
             PROVE  IInv'
  OBVIOUS
<1>1. CASE Controller
  BY <1>1, ControllerInv
<1>2. CASE DataAlarm \/ ReadAlarm
  BY <1>2, DataAlarmInv, ReadAlarmInv
<1>3. ASSUME NEW c \in Comp, Command(c)
      PROVE  IInv'
  BY <1>3, WakeInv, NoCmdInv, DeferInv, RefuseInv, ObeyInv DEF Command
<1>4. ASSUME NEW c \in Sink, InPort(c)
      PROVE  IInv'
  BY <1>4, CancelAllInv, CancelInv, CancelledInv, FillInv, TakeInv, TakenInv DEF InPort
<1>5. ASSUME NEW c \in {"src", "int"}, OutPort(c)
      PROVE  IInv'
  BY <1>5, GetInv, SentAllInv, PutInv DEF OutPort
<1>6. CASE UNCHANGED vars
  BY <1>6, StutterInv
<1> QED
  BY <1>1, <1>2, <1>3, <1>4, <1>5, <1>6 DEF Next

\* The inductive invariant: the components are in step with the call of the
\* controller, a task is where its state says, and a connection is a ring of
\* requests whose oldest is the next to be completed, received or cancelled.
THEOREM Invariant == Spec => []IInv
BY InitInv, NextInv, PTL DEF Spec

\* Every reachable state is well typed, whatever calls an application makes: no
\* index leaves its queue, and no task writes a buffer of a message it does not
\* have (MSYS_OutPortPutBuf).
THEOREM TypeCorrect == Spec => []TypeOK
<1>1. IInv => TypeOK
  BY DEF IInv
<1> QED
  BY <1>1, Invariant, PTL

\* For every length of the queues, with any priorities, wherever in its work a
\* component is when it is stopped, and also when calls are misplaced: the
\* handles of a sink are the messages of its queue, in their order
\* (MSYS_FillBuffer, MSYS_InPortProcess, MSYS_InPortCancelAll).
THEOREM HandlesAreKept == Spec => []HandlesFollowTheRing
<1>1. IInv => HandlesFollowTheRing
  BY RingFollows DEF IInv, TypeOK, Connections, HandlesFollowTheRing
<1> QED
  BY <1>1, Invariant, PTL

\* In the same generality, the source completes the requests in the order in
\* which the sink takes them.
THEOREM RequestsCompleteInOrder == Spec => []CompletedInOrder
<1>1. IInv => CompletedInOrder
  BY RingFollows DEF IInv, TypeOK, Connections, CompletedInOrder
<1> QED
  BY <1>1, Invariant, PTL

----------------------------------------------------------------------------
(* Applications that stop a stream before they take it down.               *)

StopsFirst(q) ==
  \A j \in 1 .. Len(q) : q[j] = "deinit" => \E k \in 1 .. j - 1 : q[k] = "stop"

Orderly(q) ==
  \A i, j \in 1 .. Len(q) :
    i < j /\ q[i] = "start" /\ q[j] = "deinit" => \E k \in i + 1 .. j - 1 : q[k] = "stop"

OrderlyPlans == \A e \in BOOLEAN : \A q \in Plans[e] : Orderly(q)

\* What the components are in when a stream was taken down that runs.
Odd ==
  {<<"reset", "ready", "reset">>, <<"init", "ready", "reset">>, <<"ready", "ready", "reset">>,
   <<"reset", "running", "running">>, <<"reset", "ready", "running">>}

Planned ==
  /\ States \notin Odd
  /\ Orderly(plan)
  /\ op = "start" \/ (state["src"] = "running" /\ op # "stop") => StopsFirst(plan)
  /\ op = "deinit" => \A c \in Comp : state[c] # "running"

\* What a plan promises holds for the rest of it.
LEMMA OrderlyRest ==
  ASSUME NEW q \in Seq(Op), q # <<>>, Orderly(q)
  PROVE  /\ Orderly(Tail(q))
         /\ Head(q) = "start" => StopsFirst(Tail(q))
         /\ StopsFirst(q) => Head(q) # "deinit"
         /\ StopsFirst(q) /\ Head(q) # "stop" => StopsFirst(Tail(q))
<1> DEFINE r == Tail(q)
           n == Len(q)
<1>1. n \in Nat /\ n > 0 /\ Head(q) = q[1]
  BY EmptySeq, LenProperties
<1>2. r \in Seq(Op) /\ Len(r) = n - 1 /\ \A i \in 1 .. n - 1 : r[i] = q[i + 1]
  BY HeadTailProperties
<1> HIDE DEF r, n
<1>3. ASSUME NEW i \in 0 .. n - 1, NEW j \in 1 .. n - 1,
             \E k \in i + 2 .. j : q[k] = "stop"
      PROVE  \E k \in i + 1 .. j - 1 : r[k] = "stop"
  <2>1. PICK k \in i + 2 .. j : q[k] = "stop"
    BY <1>3
  <2>2. k - 1 \in i + 1 .. j - 1 /\ k - 1 \in 1 .. n - 1 /\ (k - 1) + 1 = k
    BY <1>1
  <2> QED
    BY <1>2, <2>1, <2>2
<1>4. Orderly(r)
  <2> SUFFICES ASSUME NEW i \in 1 .. Len(r), NEW j \in 1 .. Len(r), i < j,
                      r[i] = "start", r[j] = "deinit"
               PROVE  \E k \in i + 1 .. j - 1 : r[k] = "stop"
    BY DEF Orderly
  <2>1. /\ i \in 0 .. n - 1 /\ j \in 1 .. n - 1 /\ i + 1 \in 1 .. n /\ j + 1 \in 1 .. n
        /\ i + 1 < j + 1 /\ (i + 1) + 1 = i + 2 /\ (j + 1) - 1 = j
    BY <1>1, <1>2
  <2>2. q[i + 1] = "start" /\ q[j + 1] = "deinit"
    BY <1>2, <2>1
  <2>3. \E k \in i + 2 .. j : q[k] = "stop"
    BY <2>1, <2>2 DEF Orderly, n
  <2> QED
    BY <1>3, <2>1, <2>3
<1>5. ASSUME NEW j \in 1 .. n - 1, r[j] = "deinit", \E k \in 2 .. j : q[k] = "stop"
      PROVE  \E k \in 1 .. j - 1 : r[k] = "stop"
  <2>1. 0 \in 0 .. n - 1 /\ 0 + 2 = 2 /\ 0 + 1 = 1
    BY <1>1
  <2> QED
    BY <1>3, <1>5, <2>1
<1>6. Head(q) = "start" => StopsFirst(r)
  <2> SUFFICES ASSUME Head(q) = "start", NEW j \in 1 .. Len(r), r[j] = "deinit"
               PROVE  \E k \in 1 .. j - 1 : r[k] = "stop"
    BY DEF StopsFirst
  <2>1. /\ j \in 1 .. n - 1 /\ 1 \in 1 .. n /\ j + 1 \in 1 .. n /\ 1 < j + 1
        /\ (j + 1) - 1 = j /\ 1 + 1 = 2 /\ q[1] = "start" /\ q[j + 1] = "deinit"
    BY <1>1, <1>2
  <2>2. \E k \in 2 .. j : q[k] = "stop"
    BY <2>1 DEF Orderly, n
  <2> QED
    BY <1>5, <2>1, <2>2
<1>7. StopsFirst(q) => Head(q) # "deinit"
  BY <1>1 DEF StopsFirst, n
<1>8. StopsFirst(q) /\ Head(q) # "stop" => StopsFirst(r)
  <2> SUFFICES ASSUME StopsFirst(q), Head(q) # "stop", NEW j \in 1 .. Len(r), r[j] = "deinit"
               PROVE  \E k \in 1 .. j - 1 : r[k] = "stop"
    BY DEF StopsFirst
  <2>1. j \in 1 .. n - 1 /\ j + 1 \in 1 .. n /\ (j + 1) - 1 = j /\ q[j + 1] = "deinit"
    BY <1>1, <1>2
  <2>2. PICK k \in 1 .. j : q[k] = "stop"
    BY <2>1 DEF StopsFirst, n
  <2>3. k \in 2 .. j
    BY <1>1, <2>2
  <2> QED
    BY <1>5, <2>1, <2>2, <2>3
<1> QED
  BY <1>4, <1>6, <1>7, <1>8 DEF r

LEMMA PlannedInit == OrderlyPlans /\ Init => Planned
BY DEF OrderlyPlans, Init, Planned, States, Odd, Comp

LEMMA CallPlanned == IInv /\ Planned /\ Call => Planned'
<1> SUFFICES ASSUME IInv, Planned, Call
             PROVE  Planned'
  OBVIOUS
<1>1. /\ op = "none" /\ plan # <<>> /\ op' = Head(plan) /\ plan' = Tail(plan)
      /\ state' = state /\ plan \in Seq(Op)
  BY DEF Call, comps, IInv, TypeOK
<1>2. States' = States
  BY <1>1 DEF States
<1>3. /\ Orderly(plan')
      /\ op' = "start" => StopsFirst(plan')
      /\ StopsFirst(plan) => op' # "deinit"
      /\ StopsFirst(plan) /\ op' # "stop" => StopsFirst(plan')
  BY <1>1, OrderlyRest DEF Planned
<1>4. state["src"] = "running" => StopsFirst(plan)
  BY <1>1 DEF Planned
<1>5. state["src"] # "running" => \A c \in Comp : state[c] # "running"
  BY <1>1 DEF IInv, Lockstep, Planned, States, Rest, Odd, Comp
<1> QED
  BY <1>1, <1>2, <1>3, <1>4, <1>5 DEF Planned

LEMMA RespondedPlanned ==
  ASSUME IInv, Planned, RecvResp \/ RecvError
  PROVE  Planned'
<1>1. state' = state /\ plan' = plan
  BY DEF RecvResp, RecvError, Responded
<1>2. States' = States
  BY <1>1 DEF States
<1>3. CASE op' = op
  BY <1>1, <1>2, <1>3 DEF Planned
<1>4. CASE op' # op
  <2>1. op' = "none" /\ waiting
    BY <1>4 DEF RecvResp, RecvError, Responded
  <2>2. ASSUME op = "stop"
        PROVE  state["src"] # "running"
    <3>1. CASE RecvResp
      <4>1. at = 3 /\ Count = 3
        BY <1>4, <3>1 DEF RecvResp, Responded, Count
      <4>2. States \in AfterStop(3)
        BY <2>2, <4>1 DEF IInv, Lockstep
      <4> QED
        BY <4>2 DEF AfterStop, States
    <3>2. CASE RecvError
      <4>1. cmd[Target] = "refused" /\ Count = at - 1 /\ at \in {1, 2, 3}
        BY <3>2 DEF RecvError, Responded, Count, IInv, TypeOK
      <4>2. States \in Rest /\ \A m \in Moves(Target) : m[1] = state[Target] => m[2] # op
        BY <2>1, <4>1 DEF IInv, OneCommand
      <4>3. Target \in Comp /\ (at = 1 => Target = "src")
        BY <2>2, TargetIs DEF IInv
      <4>4. state[Target] # "running"
        BY <2>2, <4>2, <4>3, MovesAre
      <4>5. at = 1
        BY <2>2, <4>1, <4>2 DEF IInv, Lockstep, AfterStop, Rest
      <4> QED
        BY <4>3, <4>4, <4>5
    <3> QED
      BY <3>1, <3>2
  <2> QED
    BY <1>1, <1>2, <2>1, <2>2 DEF Planned
<1> QED
  BY <1>3, <1>4

LEMMA ObeyedPlanned ==
  ASSUME IInv, Planned, NEW c \in Comp, pc[c] # "off", NEW m \in Move(c), Obeyed(c, m),
         UNCHANGED <<plan, op>>
  PROVE  Planned'
<1>1. TypeOK /\ Lockstep /\ OneCommand /\ Tasks
  BY DEF IInv
<1>2. m \in Moves(c) /\ m[1] = state[c] /\ m[2] = cmd[c] /\ cmd[c] \in Op
  BY DEF Move, Moves, SourceMoves, Op
<1>3. waiting /\ c = Target /\ op \in Op /\ cmd[c] = op /\ Count = at - 1
  BY <1>1, <1>2, ObeyIsForTarget
<1>4. state' = [state EXCEPT ![c] = m[3]] /\ at \in {1, 2, 3}
  BY <1>1 DEF Obeyed, TypeOK
<1>5. state[c] = "reset" => op = "init"
  BY <1>1, <1>3 DEF Tasks
<1>6. m[3] = "running" => op = "start"
  BY <1>2, <1>3 DEF Moves, SourceMoves
<1>7. /\ States' \notin Odd
      /\ op = "deinit" => \A d \in Comp : state'[d] # "running"
  <2>1. CASE op = "init"
    BY <1>1, <1>2, <1>3, <1>4, <1>5, <2>1, TargetIs
    DEF Lockstep, Planned, Moves, SourceMoves, States, Rest, AfterInit, Odd, Comp, Sink, TypeOK
  <2>2. CASE op = "config"
    BY <1>1, <1>2, <1>3, <1>4, <1>5, <2>2, TargetIs
    DEF Lockstep, Planned, Moves, SourceMoves, States, Rest, AfterConfig, Odd, Comp, Sink, TypeOK
  <2>3. CASE op = "start"
    BY <1>1, <1>2, <1>3, <1>4, <1>5, <2>3, TargetIs
    DEF Lockstep, Planned, Moves, SourceMoves, States, Rest, AfterStart, Odd, Comp, Sink, TypeOK
  <2>4. CASE op = "stop"
    BY <1>1, <1>2, <1>3, <1>4, <1>5, <2>4, TargetIs
    DEF Lockstep, Planned, Moves, SourceMoves, States, Rest, AfterStop, Odd, Comp, Sink, TypeOK
  <2>5. CASE op = "deinit"
    <3>1. \A d \in Comp : state'[d] # "running"
      BY <1>1, <1>4, <1>6, <2>5 DEF Planned, TypeOK
    <3>2. States' \notin Odd
      BY <1>1, <1>2, <1>3, <1>4, <1>5, <2>5, <3>1, TargetIs
      DEF Lockstep, Planned, Moves, SourceMoves, States, Rest, AfterDeinit, Odd, Comp, Sink, TypeOK
    <3> QED
      BY <3>1, <3>2
  <2> QED
    BY <1>3, <2>1, <2>2, <2>3, <2>4, <2>5 DEF Op
<1>8. op = "start" \/ (state'["src"] = "running" /\ op # "stop") => StopsFirst(plan)
  BY <1>1, <1>4, <1>6 DEF Planned, TypeOK, Comp
<1> QED
  BY <1>7, <1>8 DEF Planned

LEMMA PlannedInv == IInv /\ Planned /\ [Next]_vars => Planned'
<1> SUFFICES ASSUME IInv, Planned, [Next]_vars
             PROVE  Planned'
  OBVIOUS
<1>1. ASSUME UNCHANGED <<state, plan, op>>
      PROVE  Planned'
  BY <1>1 DEF Planned, States
<1>2. CASE Controller
  <2>1. CASE SendCmd
    BY <1>1, <2>1 DEF SendCmd
  <2> QED
    BY <1>2, <2>1, CallPlanned, RespondedPlanned DEF Controller
<1>3. CASE DataAlarm \/ ReadAlarm
  BY <1>1, <1>3 DEF DataAlarm, ReadAlarm, ctl
<1>4. ASSUME NEW c \in Comp, Command(c)
      PROVE  Planned'
  <2>1. CASE Obey(c)
    BY <2>1, ObeyedPlanned DEF Obey, RunsAt, ctl
  <2>2. CASE Wake(c) \/ NoCmd(c) \/ Defer(c) \/ Refuse(c)
    BY <1>1, <2>2 DEF Wake, NoCmd, Defer, Refuse, ctl
  <2> QED
    BY <1>4, <2>1, <2>2 DEF Command
<1>5. ASSUME NEW c \in Sink, InPort(c)
      PROVE  Planned'
  <2>1. CASE Cancelled(c)
    BY <2>1, ObeyedPlanned DEF Cancelled, RunsAt, ctl, Sink, Comp
  <2>2. CASE CancelAll(c) \/ Cancel(c) \/ Fill(c) \/ Take(c) \/ Taken(c)
    BY <1>1, <2>2 DEF CancelAll, Cancel, Fill, Take, Taken, ctl
  <2> QED
    BY <1>5, <2>1, <2>2 DEF InPort
<1>6. ASSUME NEW c \in {"src", "int"}, OutPort(c)
      PROVE  Planned'
  BY <1>1, <1>6 DEF OutPort, Get, SentAll, Put, ctl
<1>7. CASE UNCHANGED vars
  BY <1>1, <1>7 DEF vars, comps, ctl
<1> QED
  BY <1>2, <1>3, <1>4, <1>5, <1>6, <1>7 DEF Next

\* The components never part, whatever an application calls in whatever order,
\* but for what the DEINIT of a running stream leaves behind (ex_int_comp.c:414).
THEOREM ComponentsAgree == Spec => []StatesAgree
<1>1. IInv => StatesAgree
  BY DEF IInv, Lockstep, StatesAgree, LeftReady, States, Rest, Comp
<1> QED
  BY <1>1, Invariant, PTL

\* An application that calls MSYS_Stop between MSYS_Start and MSYS_DeInit never
\* sees the components apart, whatever else it does.
THEOREM OrderlyPlansAgree ==
  ASSUME OrderlyPlans
  PROVE  Spec => [](op = "none" => \A c, d \in Comp : state[c] = state[d])
<1> DEFINE Together == op = "none" => \A c, d \in Comp : state[c] = state[d]
<1>1. Init => Planned
  BY PlannedInit
<1>2. IInv /\ Planned => Together
  BY DEF IInv, Lockstep, Planned, States, Rest, Odd, Comp
<1> HIDE DEF Together
<1>3. Spec => []Together
  BY <1>1, <1>2, Invariant, PlannedInv, PTL DEF Spec
<1> QED
  BY <1>3 DEF Together

-----------------------------------------------------------------------------
(* Tasks of one priority: who runs, and who comes before whom.             *)

AtWork(c) == pc[c] \notin {"off", "wait"}
Queued(c) == \E i \in 1 .. Len(ready) : ready[i] = c
Before(c, d) == \E i \in 1 .. Len(ready) : ready[i] = c /\ \A j \in 1 .. i : ready[j] # d

\* The controller is about to go on to the next component.
Switching == op \in Op /\ ((at > 1 /\ ~waiting) \/ cmd[Target] = "ok")

\* A task in the middle of a pass is the head of the queue.  ExInt gets no event
\* in its pass: the controller sends it a command when no pass is going on.
Turns ==
  /\ \A c \in Comp : AtWork(c) => ready # <<>> /\ Head(ready) = c
  /\ \A c \in Comp : Queued(c) <=> AtWork(c) \/ (pc[c] = "wait" /\ ev[c])
  /\ \A i, j \in 1 .. Len(ready) : ready[i] = ready[j] => i = j
  /\ \A c \in Comp : ev[c] => pc[c] # "off"
  /\ AtWork("int") => ~ev["int"]
  /\ Switching => \A c \in Comp : ~AtWork(c)

LEMMA Appended ==
  ASSUME ready \in Seq(Comp), NEW c \in Comp, ~Queued(c), ready' = Append(ready, c),
         \A i, j \in 1 .. Len(ready) : ready[i] = ready[j] => i = j
  PROVE  /\ \A i, j \in 1 .. Len(ready') : ready'[i] = ready'[j] => i = j
         /\ \A d : Queued(d)' <=> Queued(d) \/ d = c
         /\ ready # <<>> => Head(ready') = Head(ready)
         /\ ready' # <<>>
         /\ \A a, b : Before(a, b) /\ a # b => (b = c \/ Before(a, b)')
         /\ \A a : Queued(a) => Before(a, c)'
<1> DEFINE n == Len(ready)
<1>1. /\ n \in Nat /\ Len(ready') = n + 1 /\ ready'[n + 1] = c
      /\ \A i \in 1 .. n : ready'[i] = ready[i] /\ ready[i] # c
  BY AppendProperties, LenProperties DEF Queued
<1>2. ready' \in Seq(Comp) /\ ready' # <<>>
  BY AppendProperties
<1>3. \A i, j \in 1 .. Len(ready') : ready'[i] = ready'[j] => i = j
  BY <1>1
<1>4. \A d : Queued(d)' <=> Queued(d) \/ d = c
  BY <1>1 DEF Queued
<1>5. ready # <<>> => Head(ready') = Head(ready)
  BY <1>1, <1>2, EmptySeq
<1>6. \A a, b : Before(a, b) => (b = c \/ Before(a, b)')
  BY <1>1 DEF Before
<1>7. \A a : Queued(a) => Before(a, c)'
  BY <1>1 DEF Queued, Before
<1> QED
  BY <1>2, <1>3, <1>4, <1>5, <1>6, <1>7

LEMMA Removed ==
  ASSUME ready \in Seq(Comp), ready # <<>>, ready' = Tail(ready),
         \A i, j \in 1 .. Len(ready) : ready[i] = ready[j] => i = j
  PROVE  /\ \A i, j \in 1 .. Len(ready') : ready'[i] = ready'[j] => i = j
         /\ \A d : Queued(d)' <=> Queued(d) /\ d # Head(ready)
         /\ \A a, b : Before(a, b) /\ a # Head(ready) => Before(a, b)'
<1> DEFINE n == Len(ready)
<1>1. /\ n \in Nat \ {0} /\ Len(ready') = n - 1 /\ Head(ready) = ready[1]
      /\ \A i \in 1 .. n - 1 : ready'[i] = ready[i + 1]
  BY HeadTailProperties, LenProperties, EmptySeq
<1>2. \A i, j \in 1 .. Len(ready') : ready'[i] = ready'[j] => i = j
  BY <1>1
<1>3. ASSUME NEW d
      PROVE  Queued(d)' <=> Queued(d) /\ d # Head(ready)
  <2>1. Queued(d)' => Queued(d) /\ d # Head(ready)
    <3> SUFFICES ASSUME NEW i \in 1 .. n - 1, ready'[i] = d
                 PROVE  Queued(d) /\ d # Head(ready)
      BY <1>1 DEF Queued
    <3>1. i + 1 \in 1 .. n /\ 1 \in 1 .. n /\ ready[i + 1] = d /\ i + 1 # 1
      BY <1>1
    <3> QED
      BY <1>1, <3>1 DEF Queued
  <2>2. Queued(d) /\ d # Head(ready) => Queued(d)'
    <3> SUFFICES ASSUME NEW i \in 1 .. n, ready[i] = d, d # ready[1]
                 PROVE  Queued(d)'
      BY <1>1 DEF Queued
    <3>1. i - 1 \in 1 .. n - 1 /\ ready'[i - 1] = d
      BY <1>1
    <3> QED
      BY <1>1, <3>1 DEF Queued
  <2> QED
    BY <2>1, <2>2
<1>4. ASSUME NEW a, NEW b, Before(a, b), a # Head(ready)
      PROVE  Before(a, b)'
  <2>1. PICK i \in 1 .. n : ready[i] = a /\ \A j \in 1 .. i : ready[j] # b
    BY <1>4 DEF Before
  <2>2. i - 1 \in 1 .. n - 1 /\ ready'[i - 1] = a
    BY <1>1, <1>4, <2>1
  <2>3. \A j \in 1 .. i - 1 : ready'[j] # b
    BY <1>1, <2>1, <2>2
  <2> QED
    BY <1>1, <2>2, <2>3 DEF Before
<1> QED
  BY <1>2, <1>3, <1>4

LEMMA HeadIsFirst ==
  ASSUME ready \in Seq(Comp), ready # <<>>
  PROVE  /\ Queued(Head(ready))
         /\ \A d : d # Head(ready) => Before(Head(ready), d) /\ ~Before(d, Head(ready))
<1>1. Len(ready) \in Nat \ {0} /\ Head(ready) = ready[1]
  BY LenProperties, EmptySeq
<1> QED
  BY <1>1 DEF Queued, Before

LEMMA BeforeIsQueued ==
  ASSUME NEW a, NEW b
  PROVE  /\ Before(a, b) => Queued(a)
         /\ Queued(a) /\ ~Queued(b) => Before(a, b)
BY DEF Before, Queued

LEMMA EnqueueIs ==
  ASSUME equal, ready \in Seq(Comp), NEW c \in Comp, Enqueue(c),
         \A i, j \in 1 .. Len(ready) : ready[i] = ready[j] => i = j
  PROVE  /\ \A i, j \in 1 .. Len(ready') : ready'[i] = ready'[j] => i = j
         /\ \A d : Queued(d)' <=> Queued(d) \/ d = c
         /\ ready # <<>> => ready' # <<>> /\ Head(ready') = Head(ready)
         /\ \A a, b : Before(a, b) /\ a # b => Before(a, b)'
<1>1. CASE Queued(c)
  <2>1. ready' = ready
    BY <1>1 DEF Enqueue, Queued
  <2> QED
    BY <1>1, <2>1 DEF Queued, Before
<1>2. CASE ~Queued(c)
  <2>1. ready' = Append(ready, c)
    BY <1>2 DEF Enqueue, Queued
  <2> QED
    BY <1>2, <2>1, Appended, BeforeIsQueued
<1> QED
  BY <1>1, <1>2

\* A step of a pass that does not end it: at most one other task gets an event.
Signals(c) == NoEvent \/ \E d \in Comp \ {c} : SetEvent(d)

LEMMA PassGoesOn ==
  ASSUME TypeOK, equal, equal', Turns, NEW c \in Comp, AtWork(c), AtWork(c)', Signals(c),
         pc' = [pc EXCEPT ![c] = pc'[c]], ~Switching'
  PROVE  /\ Turns'
         /\ \A a, b : Before(a, b) /\ a # b => Before(a, b)'
         /\ \A d \in Comp : Queued(d)' => \/ Queued(d)
                                          \/ ~NoEvent /\ SetEvent(d) /\ pc[d] = "wait" /\ d # c
<1>1. /\ ready \in Seq(Comp) /\ ready # <<>> /\ Head(ready) = c /\ ev \in [Comp -> BOOLEAN]
      /\ pc \in [Comp -> {"off", "wait", "cmd", "cancel", "fill", "take", "data", "get", "put"}]
  BY DEF TypeOK, Turns
<1>2. \A d \in Comp \ {c} : pc'[d] = pc[d] /\ ~AtWork(d)
  BY <1>1 DEF Turns
<1>3. CASE NoEvent
  <2>1. /\ \A d : Queued(d)' <=> Queued(d)
        /\ \A a, b : Before(a, b)' <=> Before(a, b)
    BY <1>3 DEF NoEvent, Queued, Before
  <2>2. Turns'
    BY <1>1, <1>2, <1>3, <2>1 DEF Turns, NoEvent, AtWork, Comp
  <2> QED
    BY <2>1, <2>2
<1>4. ASSUME ~NoEvent, NEW d \in Comp \ {c}, SetEvent(d)
      PROVE  /\ Turns'
             /\ \A a, b : Before(a, b) /\ a # b => Before(a, b)'
             /\ \A x \in Comp : Queued(x)' => \/ Queued(x)
                                              \/ SetEvent(x) /\ pc[x] = "wait" /\ x # c
  <2>1. ev' = [ev EXCEPT ![d] = pc[d] # "off"]
    BY <1>4 DEF SetEvent
  <2>2. CASE pc[d] = "wait"
    <3>1. /\ \A i, j \in 1 .. Len(ready') : ready'[i] = ready'[j] => i = j
          /\ \A x : Queued(x)' <=> Queued(x) \/ x = d
          /\ ready # <<>> => ready' # <<>> /\ Head(ready') = Head(ready)
          /\ \A a, b : Before(a, b) /\ a # b => Before(a, b)'
      <4>1. Enqueue(d) /\ d \in Comp
        BY <1>4, <2>2 DEF SetEvent
      <4> QED
        BY <1>1, <4>1, EnqueueIs DEF Turns
    <3>2. Turns'
      BY <1>1, <1>2, <2>1, <2>2, <3>1 DEF Turns, AtWork, Comp
    <3> QED
      BY <1>4, <2>2, <3>1, <3>2
  <2>3. CASE pc[d] # "wait"
    <3>1. ready' = ready /\ pc[d] = "off" /\ ~ev[d]
      BY <1>1, <1>2, <1>4, <2>3 DEF SetEvent, AtWork, Turns
    <3>2. ev' = ev
      BY <1>1, <2>1, <3>1
    <3>3. /\ \A x : Queued(x)' <=> Queued(x)
          /\ \A a, b : Before(a, b)' <=> Before(a, b)
      BY <3>1 DEF Queued, Before
    <3>4. Turns'
      BY <1>1, <1>2, <3>1, <3>2, <3>3 DEF Turns, AtWork, Comp
    <3> QED
      BY <3>3, <3>4
  <2> QED
    BY <2>2, <2>3
<1> QED
  BY <1>3, <1>4 DEF Signals

LEMMA PassEnds ==
  ASSUME TypeOK, equal, equal', Turns, NEW c \in Comp, AtWork(c), NEW e \in BOOLEAN,
         Sleep(c, e) \/ Terminate(c), c = "int" /\ e => pc'[c] = "wait"
  PROVE  /\ Turns'
         /\ \A d \in Comp : ~AtWork(d)'
         /\ \A a, b : Before(a, b) /\ a # c => Before(a, b)'
         /\ \A d \in Comp \ {c} : Queued(d)' <=> Queued(d)
         /\ Queued(c)' <=> (Sleep(c, e) /\ e)
         /\ Sleep(c, e) /\ e => \A a, b : Before(a, b)' <=> Before(a, b)
<1>1. /\ ready \in Seq(Comp) /\ ready # <<>> /\ Head(ready) = c /\ ev \in [Comp -> BOOLEAN]
      /\ pc \in [Comp -> {"off", "wait", "cmd", "cancel", "fill", "take", "data", "get", "put"}]
      /\ Queued(c)
  BY HeadIsFirst DEF TypeOK, Turns
<1>2. \A d \in Comp \ {c} : pc'[d] = pc[d] /\ ev'[d] = ev[d] /\ ~AtWork(d)
  BY <1>1 DEF Turns, Sleep, Terminate, Goto
<1>3. CASE Sleep(c, e) /\ e
  <2>1. pc'[c] = "wait" /\ ev'[c] /\ ready' = ready
    BY <1>1, <1>3 DEF Sleep, Goto
  <2>2. /\ \A x : Queued(x)' <=> Queued(x)
        /\ \A a, b : Before(a, b)' <=> Before(a, b)
    BY <2>1 DEF Queued, Before
  <2>3. Turns' /\ \A d \in Comp : ~AtWork(d)'
    BY <1>1, <1>2, <2>1, <2>2 DEF Turns, AtWork, Comp
  <2> QED
    BY <1>1, <1>3, <2>2, <2>3
<1>4. CASE ~(Sleep(c, e) /\ e)
  <2>1. pc'[c] \in {"wait", "off"} /\ ~ev'[c] /\ ready' = Tail(ready)
    BY <1>1, <1>4 DEF Sleep, Terminate, Goto
  <2>2. /\ \A i, j \in 1 .. Len(ready') : ready'[i] = ready'[j] => i = j
        /\ \A d : Queued(d)' <=> Queued(d) /\ d # c
        /\ \A a, b : Before(a, b) /\ a # c => Before(a, b)'
    BY <1>1, <2>1, Removed DEF Turns
  <2>3. Turns' /\ \A d \in Comp : ~AtWork(d)'
    BY <1>1, <1>2, <2>1, <2>2 DEF Turns, AtWork, Comp
  <2> QED
    BY <1>4, <2>2, <2>3
<1> QED
  BY <1>3, <1>4

-----------------------------------------------------------------------------
(* Where the data is, when the components have one priority.               *)

\* The source has not begun with the messages; it is done with all of them;
\* there are as many as there can be, and it has not begun.
Untouched(p) == \A s \in Slot : p.st[s] \in {"init", "posted"}
Through(p)   == \A s \in Slot : p.st[s] \in {"init", "completed"}
Loaded(p)    == Len(p.fullQ) = Depth /\ Untouched(p)

\* No two messages have one buffer; the messages have the buffers before b.
Apart(p) ==
  \A s, t \in Slot : p.st[s] # "init" /\ p.st[t] # "init" /\ p.buf[s] = p.buf[t] => s = t
InTurn(p, b) ==
  \A s \in Slot : p.st[s] # "init" => p.buf[s] = Behind(b, Age(p.wr, s))

\* The k newest messages of a full queue are not completed; all others are.
Room(p, k) ==
  Len(p.fullQ) = Depth /\ \A s \in Slot : Age(p.wr, s) <= k => p.st[s] # "completed"
AllBut(p, k) ==
  \A s \in Slot : Age(p.wr, s) > k => p.st[s] \in {"init", "completed"}

\* The last byte has been sent, and has left the connection to c.
AllSent == ~(tx < MaxTx[equal])
Over(c) == AllSent /\ (c = "snk" => circ = <<>> /\ Untouched(port["int"]))

(* Until then a connection is used a batch at a time: all messages are     *)
(* posted in one pass of the sink, completed in one pass of the source,    *)
(* and received in one pass of the sink.                                   *)
Batch(c) ==
  ~Over(c) =>
    /\ Apart(port[c])
    /\ port[c].fullQ = <<>> \/ Len(port[c].fullQ) = Depth \/ pc[c] \in {"fill", "take", "cancel"}
    /\ pc[c] = "fill" /\ Len(port[c].fullQ) < Depth =>
         Untouched(port[c]) /\ InTurn(port[c], next[c])
    /\ pc[c] = "take" /\ Len(port[c].fullQ) < Depth => Through(port[c])
    /\ pc[Up(c)] \notin {"get", "put"} => Untouched(port[c]) \/ Through(port[c])
Batches == \A c \in Sink : Batch(c)

Taking == \A c \in Sink : pc[c] = "take" => cnt[c] = Len(port[c].fullQ)

(* The queue of ExInt is empty when a batch arrives, and takes it whole.   *)
QueueHasRoom ==
  ~Untouched(port["int"]) =>
    IF pc["int"] \in {"take", "cancel"} THEN Len(circ) + Len(port["int"].fullQ) <= Depth
    ELSE circ = <<>>
WholeBatch ==
  AllSent \/
    CASE pc["int"] \in {"take", "cancel"} ->
           \/ Through(port["int"]) /\ Len(circ) + Len(port["int"].fullQ) = Depth
           \/ Len(circ) \in {0, Depth} /\ Untouched(port["int"])
      [] pc["int"] \in {"get", "put"} -> TRUE
      [] OTHER -> Len(circ) \in {0, Depth}

\* ExInt sends it in one pass, if ExSnk has posted buffers, ...
PassingOn ==
  pc["int"] \in {"get", "put"} =>
    /\ Untouched(port["int"])
    /\ ~Over("snk") =>
         /\ \/ port["snk"].fullQ = <<>> /\ (Len(circ) \in {0, Depth} \/ AllSent)
            \/ circ = <<>> /\ Loaded(port["snk"])
            \/ Room(port["snk"], Len(circ)) /\ (AllBut(port["snk"], Len(circ)) \/ AllSent)
         /\ \A s \in Slot : port["snk"].st[s] = "completed" => Queued("snk")

\* ... and ExSnk receives it before ExInt runs again.
PassedOn ==
  ~Over("snk") /\ pc["int"] \notin {"get", "put"} /\ ~Untouched(port["snk"]) =>
    circ = <<>> /\ Before("snk", "int")

(* While the source runs, ExInt posts no buffers before it has sent what   *)
(* it has: it is woken for a pass only when ExSnk has posted some or will  *)
(* have before that.                                                       *)
Flowing == ~AllSent /\ (state["src"] = "running" \/ (op = "start" /\ state["snk"] = "running"))
Served == \/ Loaded(port["snk"])
          \/ Before("snk", "int") /\ pc["snk"] \in {"wait", "cmd", "fill"} /\ Untouched(port["snk"])
Asleep ==
  Flowing =>
    /\ op = "start" /\ state["int"] # "running" => Served
    /\ circ # <<>> =>
         CASE pc["int"] = "fill" -> Loaded(port["snk"])
           [] pc["int"] = "take" -> \/ Loaded(port["snk"]) /\ Untouched(port["int"])
                                    \/ Through(port["int"])
           [] pc["int"] = "cancel" -> TRUE
           [] pc["int"] \in {"get", "put"} ->
                port["int"].fullQ = <<>> \/ Room(port["snk"], Len(circ))
           [] OTHER -> port["int"].fullQ = <<>> /\ (Queued("int") => Served)

Flow == /\ Turns /\ Batches /\ Taking /\ QueueHasRoom /\ WholeBatch /\ PassingOn /\ PassedOn
        /\ Asleep

-----------------------------------------------------------------------------
(* What the operations of a connection do to a batch.                      *)

LEMMA EmptyPort ==
  ASSUME NEW p \in Connection, Ring(p), p.fullQ = <<>>
  PROVE  /\ Untouched(p) /\ Through(p) /\ Apart(p) /\ Len(p.fullQ) = 0
         /\ \A b : InTurn(p, b)
BY NothingPending, EmptySeq DEF Untouched, Through, Apart, InTurn

\* What is in use, by age.
LEMMA InUse ==
  ASSUME NEW p \in Connection, Ring(p)
  PROVE  /\ p.wr \in Slot /\ p.st \in [Slot -> Status] /\ Len(p.fullQ) \in 0 .. Depth
         /\ \A s \in Slot : /\ Age(p.wr, s) \in 1 .. Depth + 1
                            /\ p.st[s] # "init" <=> Age(p.wr, s) <= Len(p.fullQ)
         /\ \A k \in 1 .. Len(p.fullQ) : \E s \in Slot : Age(p.wr, s) = k
         /\ Len(p.fullQ) = 0 <=> p.fullQ = <<>>
<1>1. p.wr \in Slot /\ p.st \in [Slot -> Status] /\ Len(p.fullQ) \in 0 .. Depth
      /\ p.fullQ \in Seq(Slot)
  BY ConnectionIs
<1>2. ASSUME NEW k \in 1 .. Len(p.fullQ)
      PROVE  \E s \in Slot : Age(p.wr, s) = k
  <2>1. k \in 1 .. Depth
    BY <1>1, DepthAssumption
  <2> QED
    BY <1>1, <2>1, Backs
<1>3. Len(p.fullQ) = 0 <=> p.fullQ = <<>>
  BY <1>1, EmptySeq
<1> QED
  BY <1>1, <1>2, <1>3, Ages DEF Ring

LEMMA InTurnApart ==
  ASSUME NEW p \in Connection, Ring(p), NEW b \in Buf, InTurn(p, b)
  PROVE  Apart(p)
<1> SUFFICES ASSUME NEW s \in Slot, NEW t \in Slot, p.st[s] # "init", p.st[t] # "init",
                    p.buf[s] = p.buf[t]
             PROVE  s = t
  BY DEF Apart
<1> DEFINE x == Age(p.wr, s)
           y == Age(p.wr, t)
<1>1. p.wr \in Slot /\ x \in 1 .. Depth /\ y \in 1 .. Depth /\ (x = y => s = t)
  BY InUse, Ages, DepthAssumption
<1>2. Behind(b, x) = Behind(b, y) /\ b \in Slot
  BY DEF InTurn, Buf, Slot
<1> HIDE DEF x, y
<1>3. x = y
  BY <1>1, <1>2, Backs
<1> QED
  BY <1>1, <1>3

LEMMA FillKeepsBatch ==
  ASSUME NEW p \in Connection, NEW b \in Buf, Ring(p), CanFill(p)
  PROVE  /\ Untouched(p) => Untouched(FillBuffer(p, b))
         /\ Untouched(p) /\ InTurn(p, b) => InTurn(FillBuffer(p, b), After(b))
         /\ FillBuffer(p, b).fullQ # <<>>
         /\ FillBuffer(p, b).wr = After(p.wr)
         /\ FillBuffer(p, b).buf = [p.buf EXCEPT ![p.wr] = b]
         /\ Len(p.fullQ) < Depth
<1> DEFINE r == FillBuffer(p, b)
<1>1. /\ r \in Connection /\ Ring(r) /\ Len(r.fullQ) = Len(p.fullQ) + 1
      /\ r.st = [p.st EXCEPT ![p.wr] = "posted"] /\ p.wr \in Slot
  BY FillBufferGood
<1>2. /\ r.wr = After(p.wr) /\ r.buf = [p.buf EXCEPT ![p.wr] = b]
      /\ p.buf \in [Slot -> Buf] /\ p.st \in [Slot -> Status] /\ Len(p.fullQ) \in 0 .. Depth
      /\ r.fullQ \in Seq(Slot)
  BY <1>1, ConnectionIs DEF FillBuffer, Connection
<1> HIDE DEF r
<1>3. Untouched(p) => Untouched(r)
  BY <1>1, <1>2 DEF Untouched
<1>4. r.fullQ # <<>> /\ Len(p.fullQ) < Depth
  BY <1>1, <1>2, EmptySeq DEF CanFill
<1>5. ASSUME InTurn(p, b), NEW s \in Slot, r.st[s] # "init"
      PROVE  r.buf[s] = Behind(After(b), Age(r.wr, s))
  <2>1. b \in Slot
    BY DEF Buf, Slot
  <2>2. CASE s = p.wr
    <3>1. Age(r.wr, s) = 1 /\ Behind(After(b), 1) = b
      BY <1>1, <1>2, <2>1, <2>2, Ages, Backs, DepthAssumption
    <3> QED
      BY <1>1, <1>2, <2>2, <3>1
  <2>3. CASE s # p.wr
    <3> DEFINE x == Age(p.wr, s)
    <3>1. Age(r.wr, s) = x + 1 /\ p.st[s] # "init" /\ r.buf[s] = p.buf[s]
      BY <1>1, <1>2, <1>5, <2>3, Ages
    <3>2. x \in 1 .. Depth
      BY <3>1, InUse, DepthAssumption
    <3>3. p.buf[s] = Behind(b, x)
      BY <1>5, <3>1 DEF InTurn
    <3> HIDE DEF x
    <3>4. Behind(After(b), x + 1) = Behind(b, x)
      BY <2>1, <3>2, Backs
    <3> QED
      BY <3>1, <3>3, <3>4
  <2> QED
    BY <2>2, <2>3
<1> QED
  BY <1>2, <1>3, <1>4, <1>5 DEF InTurn, r

LEMMA CannotFill ==
  ASSUME NEW p \in Connection, Ring(p), ~CanFill(p)
  PROVE  Len(p.fullQ) = Depth
<1>1. p.wr \in Slot /\ Len(p.fullQ) \in 0 .. Depth /\ Age(p.wr, p.wr) = Depth + 1
  BY InUse, Ages
<1>2. p.st[p.wr] = "init"
  BY <1>1, DepthAssumption DEF Ring
<1> QED
  BY <1>1, <1>2, DepthAssumption DEF CanFill

LEMMA TakeKeepsBatch ==
  ASSUME NEW p \in Connection, Ring(p), Len(p.fullQ) > 0
  PROVE  /\ Untouched(p) => Untouched(TakeHead(p))
         /\ Through(p) => Through(TakeHead(p)) /\ p.st[HeadMsg(p)] = "completed"
         /\ Apart(p) => Apart(TakeHead(p))
         /\ TakeHead(p).buf = p.buf /\ TakeHead(p).wr = p.wr
         /\ p.st[HeadMsg(p)] # "completed" /\ (\A s \in Slot : p.st[s] # "processing")
              => Untouched(p)
<1> DEFINE r == TakeHead(p)
           m == HeadMsg(p)
<1>1. /\ r.st = [p.st EXCEPT ![m] = "init"]
      /\ p.st \in [Slot -> Status]
      /\ m \in Slot /\ p.st[m] # "init" /\ Age(p.wr, m) = Len(p.fullQ)
  BY TakeHeadGood, HeadMsgIs, ConnectionIs
<1>2. r.buf = p.buf /\ r.wr = p.wr
  BY DEF TakeHead, Connection
<1> HIDE DEF r, m
<1>3. (Untouched(p) => Untouched(r)) /\ (Through(p) => Through(r) /\ p.st[m] = "completed")
  BY <1>1 DEF Untouched, Through
<1>4. Apart(p) => Apart(r)
  BY <1>1, <1>2 DEF Apart
<1>5. ASSUME p.st[m] # "completed", \A s \in Slot : p.st[s] # "processing", NEW s \in Slot
      PROVE  p.st[s] \in {"init", "posted"}
  <2>1. p.st[s] # "init" => Age(p.wr, s) <= Age(p.wr, m)
    BY <1>1, InUse
  <2>2. p.st[s] # "init" /\ s # m => Age(p.wr, s) < Age(p.wr, m)
    BY <1>1, <2>1, InUse, Ages
  <2>3. s # m => p.st[s] # "completed"
    BY <1>1, <1>5, <2>2 DEF Ring
  <2> QED
    BY <1>1, <1>5, <2>3 DEF Status
<1> QED
  BY <1>2, <1>3, <1>4, <1>5 DEF Untouched, r, m

LEMMA GetKeepsBatch ==
  ASSUME NEW p \in Connection, Ring(p), Pending(p) # {}
  PROVE  /\ Apart(p) => Apart(GetMsgIdx(p))
         /\ \A k \in Nat : Room(p, k) => Room(GetMsgIdx(p), k)
         /\ \A k \in Nat : AllBut(p, k) => AllBut(GetMsgIdx(p), k) /\ Age(p.wr, MsgIdx(p)) <= k
         /\ GetMsgIdx(p).buf = p.buf /\ GetMsgIdx(p).wr = p.wr
         /\ \A s \in Slot : GetMsgIdx(p).st[s] = "completed" <=> p.st[s] = "completed"
         /\ p.fullQ # <<>>
<1> DEFINE r == GetMsgIdx(p)
           m == MsgIdx(p)
<1>1. /\ r.st = [p.st EXCEPT ![m] = "processing"] /\ r.fullQ = p.fullQ /\ m \in Slot
      /\ p.st \in [Slot -> Status] /\ p.st[m] \in {"posted", "processing"} /\ p.wr \in Slot
  BY GetMsgIdxGood, MsgIdxIs, ConnectionIs DEF Pending
<1>2. r.buf = p.buf /\ r.wr = p.wr
  BY DEF GetMsgIdx, Connection
<1>3. p.fullQ # <<>>
  BY NothingPending
<1> HIDE DEF r, m
<1>4. Apart(p) => Apart(r)
  BY <1>1, <1>2 DEF Apart
<1>5. \A s \in Slot : r.st[s] = "completed" <=> p.st[s] = "completed"
  BY <1>1
<1>6. \A k \in Nat : Room(p, k) => Room(r, k)
  BY <1>1, <1>2, <1>5 DEF Room
<1>7. ASSUME NEW k \in Nat, AllBut(p, k)
      PROVE  AllBut(r, k) /\ Age(p.wr, m) <= k
  <2>1. Age(p.wr, m) <= k
    <3>1. ~(Age(p.wr, m) > k)
      BY <1>1, <1>7 DEF AllBut
    <3> QED
      BY <1>1, <3>1, Ages
  <2>2. AllBut(r, k)
    BY <1>1, <1>2, <1>7, <2>1, Ages DEF AllBut
  <2> QED
    BY <2>1, <2>2
<1> QED
  BY <1>2, <1>3, <1>4, <1>5, <1>6, <1>7 DEF r, m

LEMMA LoadedHasRoom ==
  ASSUME NEW p \in Connection, Ring(p), Loaded(p)
  PROVE  /\ \A k \in Nat : Room(p, k)
         /\ AllBut(p, Depth)
<1>1. Len(p.fullQ) = Depth /\ \A s \in Slot : p.st[s] \in {"init", "posted"}
  BY DEF Loaded, Untouched
<1> QED
  BY <1>1, InUse DEF Room, AllBut

\* The message in the works is the oldest that is not completed.
LEMMA CompleteKeepsBatch ==
  ASSUME NEW p \in Connection, Ring(p), NEW m \in Slot, p.st[m] = "processing"
  PROVE  /\ Apart(p) => Apart(CompleteMsgIdx(p, m))
         /\ CompleteMsgIdx(p, m).buf = p.buf /\ CompleteMsgIdx(p, m).wr = p.wr
         /\ \A k \in Nat \ {0} :
              /\ Room(p, k) /\ k <= Depth => Room(CompleteMsgIdx(p, m), k - 1)
              /\ AllBut(p, k) /\ Room(p, k) /\ k <= Depth => AllBut(CompleteMsgIdx(p, m), k - 1)
<1> DEFINE r == CompleteMsgIdx(p, m)
<1>1. /\ r.st = [p.st EXCEPT ![m] = "completed"] /\ r.fullQ = p.fullQ
      /\ p.st \in [Slot -> Status] /\ p.wr \in Slot
  BY CompleteGood, ConnectionIs
<1>2. r.buf = p.buf /\ r.wr = p.wr
  BY DEF CompleteMsgIdx, Connection
<1> HIDE DEF r
<1>3. Apart(p) => Apart(r)
  BY <1>1, <1>2 DEF Apart
<1>4. ASSUME NEW k \in Nat \ {0}, Room(p, k), k <= Depth
      PROVE  Age(p.wr, m) >= k
  <2>1. PICK s \in Slot : Age(p.wr, s) = k
    BY <1>4, InUse DEF Room
  <2>2. p.st[s] # "completed" /\ p.st[s] # "init"
    BY <1>4, <2>1, InUse DEF Room
  <2>3. ~(Age(p.wr, m) < Age(p.wr, s))
    BY <2>2 DEF Ring
  <2> QED
    BY <1>1, <2>1, <2>3, Ages
<1>5. ASSUME NEW k \in Nat \ {0}, Room(p, k), k <= Depth
      PROVE  Room(r, k - 1)
  <2>1. Age(p.wr, m) >= k
    BY <1>4, <1>5
  <2> SUFFICES ASSUME NEW s \in Slot, Age(p.wr, s) <= k - 1
               PROVE  r.st[s] # "completed"
    BY <1>1, <1>2, <1>5 DEF Room
  <2>2. s # m /\ p.st[s] # "completed"
    BY <1>1, <1>5, <2>1, Ages DEF Room
  <2> QED
    BY <1>1, <2>2
<1>6. ASSUME NEW k \in Nat \ {0}, Room(p, k), k <= Depth, AllBut(p, k), NEW s \in Slot,
             Age(p.wr, s) > k - 1
      PROVE  r.st[s] \in {"init", "completed"}
  <2>1. Age(p.wr, m) >= k
    BY <1>4, <1>6
  <2>2. Age(p.wr, m) = k
    BY <1>1, <1>6, <2>1, Ages DEF AllBut
  <2>3. CASE s = m
    BY <1>1, <2>3
  <2>4. CASE s # m
    <3>1. Age(p.wr, s) > k
      BY <1>1, <1>6, <2>2, <2>4, Ages
    <3> QED
      BY <1>1, <1>6, <2>4, <3>1 DEF AllBut
  <2> QED
    BY <2>3, <2>4
<1> QED
  BY <1>2, <1>3, <1>5, <1>6 DEF AllBut, r

-----------------------------------------------------------------------------
(* What the steps have in common.                                          *)

LEMMA NotSwitching ==
  ASSUME TypeOK, OneCommand, equal, NEW c \in Comp, NEW w, RunsAt(c, w),
         UNCHANGED <<op, at, waiting>>,
         cmd' = cmd \/ cmd' = [cmd EXCEPT ![c] = "refused"]
  PROVE  ~Switching'
<1>1. Target' = Target /\ Target \in Comp
  BY TargetIs DEF Target, Chain
<1>2. /\ ~(op \in Op /\ ~waiting)
      /\ ~(waiting /\ \E d \in Comp : cmd[d] \in {"ok", "refused"})
  BY DEF RunsAt, CtlRuns
<1>3. op \in Op => cmd'[Target] # "ok"
  BY <1>1, <1>2 DEF TypeOK
<1> QED
  BY <1>1, <1>2, <1>3 DEF Switching

LEMMA OneAtWork ==
  ASSUME TypeOK, Turns, NEW c \in Comp, AtWork(c)
  PROVE  /\ \A d \in Comp \ {c} : ~AtWork(d)
         /\ Queued(c)
         /\ c = "int" => ~Before("snk", "int") /\ ~ev["int"]
         /\ c = "snk" => Before("snk", "int")
<1>1. ready \in Seq(Comp) /\ ready # <<>> /\ Head(ready) = c
  BY DEF TypeOK, Turns
<1>2. \A d \in Comp \ {c} : ~AtWork(d)
  BY <1>1 DEF Turns
<1> QED
  BY <1>1, <1>2, HeadIsFirst DEF Turns

LEMMA NothingInTheWorks ==
  ASSUME IInv, Turns, NEW c \in Sink, ~AtWork(Up(c))
  PROVE  /\ \A s \in Slot : port[c].st[s] # "processing"
         /\ pc[Up(c)] \notin {"get", "put"}
BY DEF IInv, Connections, AtWork

LEMMA SourceRunsLast ==
  ASSUME Lockstep, TypeOK
  PROVE  /\ state["src"] = "running" => state["int"] = "running" /\ state["snk"] = "running"
         /\ Flowing => state["snk"] = "running"
<1>1. at \in {1, 2, 3} /\ Count \in {0, 1, 2, 3} /\ op \in Op \cup {"none"}
  BY DEF TypeOK, Count
<1>2. state["src"] = "running" => state["int"] = "running" /\ state["snk"] = "running"
  BY <1>1
  DEF Lockstep, States, Rest, AfterInit, AfterConfig, AfterStart, AfterStop, AfterDeinit, Op
<1> QED
  BY <1>2 DEF Flowing

LEMMA Ports ==
  ASSUME IInv, NEW c \in Sink
  PROVE  /\ port[c] \in Connection /\ Ring(port[c]) /\ Up(c) \in Comp /\ c \in Comp /\ Up(c) # c
         /\ port[c].fullQ = <<>> <=> Len(port[c].fullQ) = 0
         /\ Len(port[c].fullQ) \in 0 .. Depth
         /\ state[c] # "running" => port[c].fullQ = <<>>
         /\ port[c].fullQ = <<>> => Untouched(port[c]) /\ Through(port[c])
<1>1. port[c] \in Connection /\ Ring(port[c]) /\ (state[c] # "running" => port[c].fullQ = <<>>)
  BY DEF IInv, TypeOK, Connections
<1>2. Up(c) \in Comp /\ c \in Comp /\ Up(c) # c
  BY DEF Up, Comp, Sink
<1> QED
  BY <1>1, <1>2, InUse, EmptyPort

\* Untouched and done with: then there is nothing.
LEMMA BothIsEmpty ==
  ASSUME NEW p \in Connection, Ring(p), Untouched(p), Through(p)
  PROVE  Len(p.fullQ) = 0 /\ p.fullQ = <<>>
<1>1. \A s \in Slot : p.st[s] = "init"
  BY DEF Untouched, Through
<1>2. Len(p.fullQ) \in 0 .. Depth /\ ~(Len(p.fullQ) \in 1 .. Depth)
  BY <1>1, InUse
<1> QED
  BY <1>2, InUse

\* The connections and the queue are as before.
SameData ==
  /\ UNCHANGED <<equal, circ, tx, next, cnt>>
  /\ \A c \in Sink : /\ port'[c].st = port[c].st /\ port'[c].fullQ = port[c].fullQ
                     /\ port'[c].wr = port[c].wr /\ port'[c].buf = port[c].buf

LEMMA SamePorts ==
  ASSUME SameData, NEW c \in Sink
  PROVE  /\ Untouched(port'[c]) <=> Untouched(port[c])
         /\ Through(port'[c]) <=> Through(port[c])
         /\ Loaded(port'[c]) <=> Loaded(port[c])
         /\ Apart(port'[c]) <=> Apart(port[c])
         /\ \A b : InTurn(port'[c], b) <=> InTurn(port[c], b)
         /\ \A k : Room(port'[c], k) <=> Room(port[c], k)
         /\ \A k : AllBut(port'[c], k) <=> AllBut(port[c], k)
         /\ Over(c)' <=> Over(c)
         /\ AllSent' <=> AllSent
<1>1. /\ port'[c].st = port[c].st /\ port'[c].fullQ = port[c].fullQ
      /\ port'[c].wr = port[c].wr /\ port'[c].buf = port[c].buf
  BY DEF SameData
<1>2. Over(c)' <=> Over(c)
  BY DEF SameData, Over, AllSent, Untouched, Sink
<1>3. AllSent' <=> AllSent
  BY DEF SameData, AllSent
<1> QED
  BY <1>1, <1>2, <1>3 DEF Untouched, Through, Loaded, Apart, InTurn, Room, AllBut

AtRest(c) == pc[c] \in {"off", "wait", "cmd", "data"}

LEMMA SameBatches ==
  ASSUME IInv, Flow, SameData,
         \A c \in Comp : pc'[c] = pc[c] \/ (AtRest(c) /\ AtRest(c)'),
         Untouched(port["snk"]) \/ (Before("snk", "int") => Before("snk", "int")'),
         pc["int"] \in {"get", "put"} => (Queued("snk") => Queued("snk")')
  PROVE  Batches' /\ Taking' /\ QueueHasRoom' /\ WholeBatch' /\ PassingOn' /\ PassedOn'
<1>1. "int" \in Sink /\ "snk" \in Sink /\ "int" \in Comp /\ "snk" \in Comp
  BY DEF Sink, Comp
<1>2. circ' = circ /\ next' = next /\ cnt' = cnt
  BY DEF SameData
<1>3. ASSUME NEW c \in Sink
      PROVE  /\ port'[c].fullQ = port[c].fullQ /\ port'[c].st = port[c].st
             /\ pc'[c] = pc[c] \/ (AtRest(c) /\ AtRest(c)')
             /\ pc'[Up(c)] = pc[Up(c)] \/ (AtRest(Up(c)) /\ AtRest(Up(c))')
             /\ Untouched(port'[c]) <=> Untouched(port[c])
             /\ Through(port'[c]) <=> Through(port[c])
             /\ Loaded(port'[c]) <=> Loaded(port[c])
             /\ Apart(port'[c]) <=> Apart(port[c])
             /\ \A b : InTurn(port'[c], b) <=> InTurn(port[c], b)
             /\ \A k : Room(port'[c], k) <=> Room(port[c], k)
             /\ \A k : AllBut(port'[c], k) <=> AllBut(port[c], k)
             /\ Over(c)' <=> Over(c)
             /\ AllSent' <=> AllSent
  BY SamePorts, Ports DEF SameData
<1>4. Batches'
  <2> SUFFICES ASSUME NEW c \in Sink
               PROVE  Batch(c)'
    BY DEF Batches
  <2> QED
    BY <1>2, <1>3 DEF Flow, Batches, Batch, AtRest
<1>5. Taking'
  BY <1>2, <1>3 DEF Flow, Taking, AtRest
<1>6. QueueHasRoom'
  BY <1>1, <1>2, <1>3 DEF Flow, QueueHasRoom, AtRest
<1>7. WholeBatch'
  BY <1>1, <1>2, <1>3 DEF Flow, WholeBatch, AtRest
<1>8. PassingOn'
  BY <1>1, <1>2, <1>3 DEF Flow, PassingOn, AtRest
<1>9. PassedOn'
  BY <1>1, <1>2, <1>3 DEF Flow, PassedOn, AtRest
<1> QED
  BY <1>4, <1>5, <1>6, <1>7, <1>8, <1>9

LEMMA SameAsleep ==
  ASSUME IInv, Flow, SameData,
         pc'["int"] = pc["int"] \/ (AtRest("int") /\ AtRest("int")'),
         Flowing' => Flowing,
         op' = "start" /\ state'["int"] # "running" => op = "start" /\ state["int"] # "running",
         Flowing' /\ Served => Served',
         Flowing' /\ Queued("int")' => Queued("int") \/ Served
  PROVE  Asleep'
<1>1. "int" \in Sink /\ "snk" \in Sink
  BY DEF Sink
<1>2. circ' = circ /\ \A c \in Sink : port'[c].fullQ = port[c].fullQ
  BY DEF SameData
<1>3. \A c \in Sink : /\ Untouched(port'[c]) <=> Untouched(port[c])
                      /\ Through(port'[c]) <=> Through(port[c])
                      /\ Loaded(port'[c]) <=> Loaded(port[c])
                      /\ \A k : Room(port'[c], k) <=> Room(port[c], k)
  BY SamePorts
<1> QED
  BY <1>1, <1>2, <1>3 DEF Flow, Asleep, AtRest

-----------------------------------------------------------------------------
(* The initial state and the controller.                                   *)

LEMMA InitFlow == Init => Flow
<1> SUFFICES ASSUME Init
             PROVE  Flow
  OBVIOUS
<1>1. IInv
  BY InitInv
<1>2. /\ \A c \in Comp : pc[c] = "off" /\ ~ev[c]
      /\ ready = <<>> /\ circ = <<>> /\ op = "none" /\ at = 1
      /\ \A c \in Comp : state[c] = "reset"
      /\ \A c \in Sink : port[c].fullQ = <<>> /\ Up(c) \in Comp /\ c \in Comp
  BY NewConnectionGood DEF Init, Sink, Comp, Up
<1>3. \A c \in Sink : Untouched(port[c]) /\ Through(port[c]) /\ Apart(port[c])
  BY <1>1, <1>2, Ports, EmptyPort
<1>4. "int" \in Sink /\ "snk" \in Sink /\ "src" \in Comp /\ "int" \in Comp /\ "snk" \in Comp
  BY DEF Sink, Comp
<1>5. Len(ready) = 0 /\ Len(circ) = 0 /\ \A c : ~Queued(c)
  BY <1>2, EmptySeq DEF Queued
<1>6. Turns
  <2>1. (\A c \in Comp : ~AtWork(c)) /\ ~Switching
    BY <1>2 DEF AtWork, Switching, Op
  <2>2. \A i, j \in 1 .. Len(ready) : ready[i] = ready[j] => i = j
    BY <1>5
  <2>3. \A c \in Comp : Queued(c) <=> AtWork(c) \/ (pc[c] = "wait" /\ ev[c])
    BY <1>2, <1>5, <2>1
  <2>4. (\A c \in Comp : ev[c] => pc[c] # "off") /\ (AtWork("int") => ~ev["int"])
    BY <1>2, <1>4
  <2> QED
    BY <2>1, <2>2, <2>3, <2>4 DEF Turns
<1>7. Batches
  BY <1>2, <1>3 DEF Batches, Batch
<1>8. Taking /\ QueueHasRoom /\ WholeBatch /\ PassingOn /\ PassedOn
  BY <1>2, <1>3, <1>4, <1>5 DEF Taking, QueueHasRoom, WholeBatch, PassingOn, PassedOn
<1>9. Asleep
  BY <1>2, <1>4 DEF Asleep, Flowing
<1> QED
  BY <1>6, <1>7, <1>8, <1>9 DEF Flow

LEMMA CallFlow ==
  ASSUME IInv, equal, Flow, Call
  PROVE  Flow'
<1>1. TypeOK /\ Lockstep /\ OneCommand
  BY DEF IInv
<1>2. /\ op = "none" /\ at = 1 /\ ~waiting
      /\ UNCHANGED <<equal, state, pc, ev, ready, cmd, port, mem, next, cnt, hold, circ, alarm,
                     tx, rx, at, waiting>>
  BY <1>1 DEF Call, comps, data, Lockstep
<1>3. SameData
  BY <1>2 DEF SameData
<1>4. Turns'
  <2>1. \A c \in Comp : cmd[c] # "ok"
    BY <1>1, <1>2 DEF OneCommand
  <2>2. ~Switching'
    <3>1. Target' \in Comp
      BY <1>2 DEF Target, Chain, Comp
    <3> QED
      BY <1>2, <2>1, <3>1 DEF Switching
  <2> QED
    BY <1>2, <2>2 DEF Flow, Turns, AtWork, Queued
<1>5. Batches' /\ Taking' /\ QueueHasRoom' /\ WholeBatch' /\ PassingOn' /\ PassedOn'
  BY <1>2, <1>3, SameBatches DEF Before, Queued
<1>6. Asleep'
  <2>1. Flowing' => Flowing
    <3>1. CASE state["src"] = "running"
      BY <1>2, <1>3, <3>1 DEF Flowing, AllSent
    <3>2. CASE state["src"] # "running"
      <4>1. States \in Rest
        BY <1>1, <1>2 DEF Lockstep
      <4>2. state["snk"] # "running"
        BY <3>2, <4>1 DEF States, Rest
      <4> QED
        BY <1>2, <3>2, <4>2 DEF Flowing
    <3> QED
      BY <3>1, <3>2
  <2>2. Flowing' => state["int"] = "running"
    <3>1. States \in Rest
      BY <1>1, <1>2 DEF Lockstep
    <3> QED
      BY <1>2, <3>1 DEF States, Rest, Flowing
  <2>3. Flowing' => Flowing /\ (Served' <=> Served) /\ (Queued("int")' <=> Queued("int"))
    BY <1>2, <2>1 DEF Served, Before, Queued
  <2> QED
    BY <1>2, <1>3, <2>2, <2>3 DEF Flow, Asleep, Flowing
<1> QED
  BY <1>4, <1>5, <1>6 DEF Flow

\* A task gets an event, and is activated first if it is not yet.
LEMMA Signalled ==
  ASSUME TypeOK, equal, Turns, NEW d \in Comp, NEW on \in BOOLEAN, on => pc[d] = "off",
         pc' = IF on THEN [pc EXCEPT ![d] = "wait"] ELSE pc,
         ev' = [ev EXCEPT ![d] = on \/ pc[d] # "off"],
         IF on \/ pc[d] = "wait" THEN Enqueue(d) ELSE UNCHANGED ready,
         d = "int" => ~AtWork("int"),
         Switching' => \A c \in Comp : ~AtWork(c)
  PROVE  /\ Turns'
         /\ \A a, b : Before(a, b) /\ a # b => Before(a, b)'
         /\ \A x \in Comp : Queued(x) => Queued(x)'
         /\ \A x \in Comp : Queued(x)' => Queued(x) \/ x = d
<1>1. /\ ready \in Seq(Comp) /\ ev \in [Comp -> BOOLEAN]
      /\ pc \in [Comp -> {"off", "wait", "cmd", "cancel", "fill", "take", "data", "get", "put"}]
      /\ \A i, j \in 1 .. Len(ready) : ready[i] = ready[j] => i = j
  BY DEF TypeOK, Turns
<1>2. /\ \A c \in Comp \ {d} : pc'[c] = pc[c] /\ ev'[c] = ev[c]
      /\ \A c \in Comp : AtWork(c)' <=> AtWork(c)
      /\ pc'[d] = IF on THEN "wait" ELSE pc[d]
  BY <1>1 DEF AtWork
<1>3. CASE on \/ pc[d] = "wait"
  <2>1. pc'[d] = "wait" /\ ev'[d] = TRUE /\ ~AtWork(d)
    BY <1>1, <1>2, <1>3 DEF AtWork
  <2>2. /\ \A i, j \in 1 .. Len(ready') : ready'[i] = ready'[j] => i = j
        /\ \A x : Queued(x)' <=> Queued(x) \/ x = d
        /\ ready # <<>> => ready' # <<>> /\ Head(ready') = Head(ready)
        /\ \A a, b : Before(a, b) /\ a # b => Before(a, b)'
    BY <1>1, <1>3, EnqueueIs
  <2>3. \A c \in Comp : AtWork(c)' => ready' # <<>> /\ Head(ready') = c
    BY <1>2, <2>2 DEF Turns
  <2>4. \A c \in Comp : Queued(c)' <=> AtWork(c)' \/ (pc'[c] = "wait" /\ ev'[c])
    BY <1>2, <2>1, <2>2 DEF Turns
  <2>5. /\ \A c \in Comp : ev'[c] => pc'[c] # "off"
        /\ AtWork("int")' => ~ev'["int"]
    BY <1>2, <2>1 DEF Turns, Comp
  <2>6. Turns'
    BY <1>2, <2>2, <2>3, <2>4, <2>5 DEF Turns
  <2> QED
    BY <2>2, <2>6
<1>4. CASE ~(on \/ pc[d] = "wait")
  <2>1. pc' = pc /\ ready' = ready
    BY <1>4
  <2>2. CASE AtWork(d)
    <3>1. ev'[d] = TRUE /\ d # "int"
      BY <1>1, <2>2 DEF AtWork
    <3>2. Turns'
      BY <1>2, <2>1, <2>2, <3>1 DEF Turns, Queued, Comp
    <3> QED
      BY <2>1, <3>2 DEF Before, Queued
  <2>3. CASE ~AtWork(d)
    <3>1. pc[d] = "off" /\ ev' = ev
      BY <1>1, <1>4, <2>3 DEF AtWork, Turns
    <3>2. \A c : Queued(c)' <=> Queued(c)
      BY <2>1 DEF Queued
    <3>3. \A c \in Comp : AtWork(c)' => ready' # <<>> /\ Head(ready') = c
      BY <1>2, <2>1 DEF Turns
    <3>4. \A c \in Comp : Queued(c)' <=> AtWork(c)' \/ (pc'[c] = "wait" /\ ev'[c])
      BY <1>2, <2>1, <3>1, <3>2 DEF Turns
    <3>5. /\ \A c \in Comp : ev'[c] => pc'[c] # "off"
          /\ AtWork("int")' => ~ev'["int"]
      BY <2>1, <3>1 DEF Turns, AtWork
    <3>6. Turns'
      BY <1>1, <1>2, <2>1, <3>3, <3>4, <3>5 DEF Turns
    <3> QED
      BY <2>1, <3>2, <3>6 DEF Before, Queued
  <2> QED
    BY <2>2, <2>3
<1> QED
  BY <1>3, <1>4

LEMMA SendCmdFlow ==
  ASSUME IInv, equal, Flow, SendCmd
  PROVE  Flow'
<1> DEFINE t == Target
           on == op = "init" /\ pc[t] = "off"
<1>1. TypeOK /\ Lockstep /\ OneCommand /\ t \in Comp
  BY TargetIs DEF IInv
<1>2. /\ op \in Op /\ ~waiting /\ waiting' = TRUE
      /\ cmd' = [cmd EXCEPT ![t] = op]
      /\ pc' = IF on THEN [pc EXCEPT ![t] = "wait"] ELSE pc
      /\ ev' = [ev EXCEPT ![t] = on \/ pc[t] # "off"]
      /\ IF on \/ pc[t] = "wait" THEN Enqueue(t) ELSE UNCHANGED ready
      /\ UNCHANGED <<equal, state, port, mem, next, cnt, hold, circ, alarm, tx, rx, plan, op, at>>
  BY DEF SendCmd, data
<1>3. Target' = t
  BY <1>2 DEF Target, Chain
<1>4. /\ t = "int" => at = 2
      /\ at = 2 => t = "int" /\ ~AtWork("int")
  BY <1>1, <1>2, TargetIs DEF Flow, Turns, Switching, TypeOK, Comp
<1>5. at = 2 => (IF op = "start" THEN state["int"] # "running" ELSE state["src"] # "running")
  <2>1. at = 2 => Count = 1
    BY <1>1, <1>2 DEF Count, OneCommand
  <2> QED
    BY <1>1, <1>2, <2>1
    DEF Lockstep, AfterInit, AfterConfig, AfterStart, AfterStop, AfterDeinit, States, Op
<1> HIDE DEF t
<1>6. /\ Turns'
      /\ \A a, b : Before(a, b) /\ a # b => Before(a, b)'
      /\ \A x \in Comp : Queued(x) => Queued(x)'
      /\ \A x \in Comp : Queued(x)' => Queued(x) \/ x = t
  <2>1. PICK x \in BOOLEAN : x = on
    OBVIOUS
  <2>2. ~Switching'
    BY <1>1, <1>2, <1>3 DEF Switching, TypeOK, Op
  <2> QED
    BY <1>1, <1>2, <1>4, <2>1, <2>2, Signalled DEF Flow
<1>7. SameData
  BY <1>2 DEF SameData
<1>8. \A c \in Comp : pc'[c] = pc[c] \/ (AtRest(c) /\ AtRest(c)')
  BY <1>1, <1>2 DEF AtRest, TypeOK
<1>9. "snk" \in Comp /\ "int" \in Comp
  BY DEF Comp
<1>10. Batches' /\ Taking' /\ QueueHasRoom' /\ WholeBatch' /\ PassingOn' /\ PassedOn'
  BY <1>6, <1>7, <1>8, <1>9, SameBatches
<1>11. Flowing' <=> Flowing
  BY <1>2 DEF Flowing, AllSent
<1>12. Served => Served'
  <2>1. pc["snk"] \in {"wait", "cmd", "fill"} => pc'["snk"] = pc["snk"]
    BY <1>1, <1>2 DEF TypeOK
  <2> QED
    BY <1>2, <1>6, <2>1 DEF Served
<1>13. Flowing /\ Queued("int")' => Queued("int") \/ Served
  <2>1. CASE t = "int"
    BY <1>2, <1>4, <1>5, <2>1 DEF Flow, Asleep, Flowing
  <2>2. CASE t # "int"
    BY <1>6, <1>9, <2>2
  <2> QED
    BY <2>1, <2>2
<1>14. Asleep'
  BY <1>2, <1>7, <1>8, <1>9, <1>11, <1>12, <1>13, SameAsleep
<1> QED
  BY <1>6, <1>10, <1>14 DEF Flow

LEMMA ResponseFlow ==
  ASSUME IInv, equal, Flow, RecvResp \/ RecvError
  PROVE  Flow'
<1>1. TypeOK /\ Lockstep /\ OneCommand
  BY DEF IInv
<1>2. /\ waiting /\ op \in Op
      /\ UNCHANGED <<equal, state, pc, ev, ready, port, mem, next, cnt, hold, circ, alarm, tx, rx>>
      /\ op' = "none" \/ (op' = op /\ cmd[Target] = "ok")
  BY <1>1 DEF RecvResp, RecvError, Responded, data, OneCommand
<1>3. SameData
  BY <1>2 DEF SameData
<1>4. Turns'
  <2>1. Switching' => Switching
    BY <1>2 DEF Switching, Op
  <2> QED
    BY <1>2, <2>1 DEF Flow, Turns, AtWork, Queued
<1>5. Batches' /\ Taking' /\ QueueHasRoom' /\ WholeBatch' /\ PassingOn' /\ PassedOn'
  BY <1>2, <1>3, SameBatches DEF Before, Queued
<1>6. Asleep'
  <2>1. (Flowing' => Flowing) /\ (Served' <=> Served) /\ (Queued("int")' <=> Queued("int"))
    BY <1>2 DEF Flowing, AllSent, Served, Before, Queued
  <2> QED
    BY <1>2, <1>3, <2>1, SameAsleep
<1> QED
  BY <1>4, <1>5, <1>6 DEF Flow

LEMMA DataAlarmFlow ==
  ASSUME IInv, equal, Flow, DataAlarm
  PROVE  Flow'
<1>1. TypeOK /\ "src" \in Comp /\ "int" \in Comp /\ "snk" \in Comp
  BY DEF IInv, Comp
<1>2. /\ SetEvent("src")
      /\ UNCHANGED <<equal, state, pc, cmd, port, mem, next, cnt, hold, circ, tx, rx,
                     plan, op, at, waiting>>
  BY DEF DataAlarm, ctl
<1>3. SameData
  BY <1>2 DEF SameData
<1>4. /\ Turns'
      /\ \A a, b : Before(a, b) /\ a # b => Before(a, b)'
      /\ \A x \in Comp : Queued(x) => Queued(x)'
      /\ \A x \in Comp : Queued(x)' => Queued(x) \/ x = "src"
  <2>1. Switching' => \A c \in Comp : ~AtWork(c)
    BY <1>2 DEF Flow, Turns, Switching, Target, Chain
  <2>2. PICK x \in BOOLEAN : x = FALSE
    OBVIOUS
  <2>3. /\ ev' = [ev EXCEPT !["src"] = x \/ pc["src"] # "off"]
        /\ IF x \/ pc["src"] = "wait" THEN Enqueue("src") ELSE UNCHANGED ready
    BY <1>2, <2>2 DEF SetEvent
  <2> QED
    BY <1>1, <1>2, <2>1, <2>2, <2>3, Signalled DEF Flow
<1>5. Batches' /\ Taking' /\ QueueHasRoom' /\ WholeBatch' /\ PassingOn' /\ PassedOn'
  BY <1>1, <1>2, <1>3, <1>4, SameBatches
<1>6. Asleep'
  <2>1. (Flowing' <=> Flowing) /\ (Served => Served') /\ (Queued("int")' => Queued("int"))
    BY <1>1, <1>2, <1>4 DEF Flowing, AllSent, Served
  <2> QED
    BY <1>2, <1>3, <2>1, SameAsleep
<1> QED
  BY <1>4, <1>5, <1>6 DEF Flow

-----------------------------------------------------------------------------
(* The commands of a component.                                            *)

LEMMA WakeFlow ==
  ASSUME IInv, equal, Flow, NEW c \in Comp, Wake(c)
  PROVE  Flow'
<1>1. TypeOK /\ OneCommand
  BY DEF IInv
<1>2. /\ RunsAt(c, "wait") /\ ready # <<>> /\ Head(ready) = c /\ pc[c] = "wait"
      /\ ev' = [ev EXCEPT ![c] = FALSE] /\ pc' = [pc EXCEPT ![c] = "cmd"]
      /\ UNCHANGED <<equal, state, ready, cmd, port, mem, next, cnt, hold, circ, alarm, tx, rx,
                     plan, op, at, waiting>>
  BY DEF Wake, RunsAt, Goto, data, ctl
<1>3. SameData
  BY <1>2 DEF SameData
<1>4. /\ \A d : Queued(d)' <=> Queued(d)
      /\ \A a, b : Before(a, b)' <=> Before(a, b)
  BY <1>2 DEF Queued, Before
<1>5. /\ pc'[c] = "cmd" /\ ~ev'[c]
      /\ \A d \in Comp \ {c} : pc'[d] = pc[d] /\ ev'[d] = ev[d]
  BY <1>1, <1>2 DEF TypeOK
<1>6. Turns'
  <2>1. Queued(c)
    BY <1>1, <1>2, HeadIsFirst DEF TypeOK
  <2>2. ~Switching'
    BY <1>1, <1>2, NotSwitching
  <2>3. \A d \in Comp : AtWork(d)' <=> d = c
    BY <1>2, <1>5 DEF Flow, Turns, AtWork
  <2>4. \A d \in Comp : Queued(d)' <=> AtWork(d)' \/ (pc'[d] = "wait" /\ ev'[d])
    BY <1>2, <1>4, <1>5, <2>1, <2>3 DEF Flow, Turns, AtWork
  <2>5. /\ \A d \in Comp : ev'[d] => pc'[d] # "off"
        /\ AtWork("int")' => ~ev'["int"]
    BY <1>5, <2>3 DEF Flow, Turns, Comp
  <2> QED
    BY <1>2, <2>2, <2>3, <2>4, <2>5 DEF Flow, Turns
<1>7. \A d \in Comp : pc'[d] = pc[d] \/ (AtRest(d) /\ AtRest(d)')
  BY <1>2, <1>5 DEF AtRest
<1>8. "int" \in Comp /\ "snk" \in Comp
  BY DEF Comp
<1>9. Batches' /\ Taking' /\ QueueHasRoom' /\ WholeBatch' /\ PassingOn' /\ PassedOn'
  BY <1>3, <1>4, <1>7, SameBatches
<1>10. Asleep'
  <2>1. Flowing' <=> Flowing
    BY <1>2 DEF Flowing, AllSent
  <2>2. Served => Served'
    <3>1. pc["snk"] \in {"wait", "cmd", "fill"} => pc'["snk"] \in {"wait", "cmd", "fill"}
      BY <1>2, <1>5, <1>8
    <3> QED
      BY <1>2, <1>4, <3>1 DEF Served
  <2> QED
    BY <1>2, <1>3, <1>4, <1>7, <1>8, <2>1, <2>2, SameAsleep
<1> QED
  BY <1>6, <1>9, <1>10 DEF Flow

\* A sink begins to post its buffers.
LEMMA BeginsToFill ==
  ASSUME IInv, equal, Flow, NEW c \in Sink, pc[c] = "cmd", pc' = [pc EXCEPT ![c] = "fill"],
         UNCHANGED <<equal, ready, port, next, cnt, circ, tx, state, op>>
  PROVE  /\ Batches' /\ Taking' /\ QueueHasRoom' /\ WholeBatch' /\ PassingOn' /\ PassedOn'
         /\ Asleep'
<1>1. /\ TypeOK /\ c \in Comp /\ AtWork(c) /\ "snk" \in Comp /\ "int" \in Comp
      /\ "snk" \in Sink /\ "int" \in Sink
  BY DEF IInv, Sink, Comp, AtWork
<1>2. /\ \A d : Queued(d)' <=> Queued(d)
      /\ \A a, b : Before(a, b)' <=> Before(a, b)
      /\ \A d : Over(d)' <=> Over(d)
      /\ AllSent' <=> AllSent
  BY DEF Queued, Before, Over, AllSent
<1>3. pc'[c] = "fill" /\ \A d \in Comp \ {c} : pc'[d] = pc[d] /\ ~AtWork(d) /\ Up(c) # c
  BY <1>1, OneAtWork, Ports DEF Flow, TypeOK
<1>4. Batches'
  <2> SUFFICES ASSUME NEW d \in Sink
               PROVE  Batch(d)'
    BY DEF Batches
  <2>1. /\ d \in Comp /\ Up(d) \in Comp /\ Batch(d) /\ port[d] \in Connection /\ Ring(port[d])
    BY Ports DEF Flow, Batches
  <2>2. pc'[Up(d)] \in {"get", "put"} <=> pc[Up(d)] \in {"get", "put"}
    BY <1>3, <2>1
  <2>3. CASE d = c
    <3>1. ~Over(c) /\ Len(port[c].fullQ) < Depth =>
             Untouched(port[c]) /\ InTurn(port[c], next[c])
      <4>1. ~Over(c) /\ Len(port[c].fullQ) < Depth => port[c].fullQ = <<>>
        BY <2>1, <2>3, DepthAssumption DEF Batch
      <4> QED
        BY <2>1, <2>3, <4>1, EmptyPort
    <3> QED
      BY <1>2, <1>3, <2>1, <2>2, <2>3, <3>1 DEF Batch
  <2>4. CASE d # c
    <3>1. pc'[d] = pc[d]
      BY <1>3, <2>1, <2>4
    <3> QED
      BY <1>2, <2>1, <2>2, <3>1 DEF Batch
  <2> QED
    BY <2>3, <2>4
<1>5. Taking'
  BY <1>1, <1>3 DEF Flow, Taking, Sink, Comp
<1>6. /\ pc'["int"] = pc["int"] \/ (pc["int"] = "cmd" /\ pc'["int"] = "fill")
      /\ pc'["snk"] = pc["snk"] \/ (pc["snk"] = "cmd" /\ pc'["snk"] = "fill")
      /\ pc["int"] \notin {"get", "put"}
  BY <1>1, <1>3 DEF AtWork
<1>7. QueueHasRoom' /\ WholeBatch' /\ PassingOn' /\ PassedOn'
  BY <1>2, <1>6 DEF Flow, QueueHasRoom, WholeBatch, PassingOn, PassedOn
<1>8. Asleep'
  <2>1. (Flowing' <=> Flowing) /\ (Served => Served')
    BY <1>2, <1>6 DEF Flowing, Served
  <2>2. CASE c = "int"
    <3>1. Served => Loaded(port["snk"])
      BY <1>1, <2>2, OneAtWork DEF Flow, Served
    <3>2. Queued("int")
      BY <1>1, <2>2, OneAtWork DEF Flow
    <3> QED
      BY <1>3, <2>1, <2>2, <3>1, <3>2 DEF Flow, Asleep
  <2>3. CASE c # "int"
    <3>1. pc'["int"] = pc["int"]
      BY <1>1, <1>3, <2>3
    <3> QED
      BY <1>2, <2>1, <3>1 DEF Flow, Asleep
  <2> QED
    BY <2>2, <2>3
<1> QED
  BY <1>4, <1>5, <1>7, <1>8

\* The pass goes on, with the command in the queue or its refusal.
LEMMA GoOnFlow ==
  ASSUME IInv, equal, Flow, NEW c \in Comp, RunsAt(c, "cmd"), GoOn(c),
         cmd' = cmd \/ cmd' = [cmd EXCEPT ![c] = "refused"],
         UNCHANGED <<equal, state, data, ctl>>
  PROVE  Flow'
<1>1. /\ TypeOK /\ OneCommand /\ Lockstep /\ Turns
      /\ "snk" \in Comp /\ "int" \in Comp /\ "snk" \in Sink /\ "int" \in Sink
  BY DEF IInv, Flow, Comp, Sink
<1>2. /\ pc[c] = "cmd" /\ AtWork(c)
      /\ UNCHANGED <<equal, state, port, mem, next, cnt, hold, circ, alarm, tx, rx,
                     plan, op, at, waiting>>
  BY DEF RunsAt, AtWork, data, ctl
<1>3. SameData /\ (Flowing' <=> Flowing)
  BY <1>2 DEF SameData, Flowing, AllSent
<1>4. ~Switching'
  BY <1>1, <1>2, NotSwitching
<1>5. \A d \in Comp \ {c} : ~AtWork(d)
  BY <1>1, <1>2, OneAtWork
<1>6. CASE state[c] = "running"
  <2>1. pc' = [pc EXCEPT ![c] = IF c = "src" THEN "data" ELSE "fill"] /\ NoEvent
    BY <1>6 DEF GoOn, Goto
  <2>2. pc' = [pc EXCEPT ![c] = pc'[c]] /\ AtWork(c)' /\ ready' = ready
    BY <1>1, <2>1 DEF AtWork, TypeOK, NoEvent
  <2>3. Turns'
    <3>1. Signals(c) /\ equal'
      BY <1>2, <2>1 DEF Signals
    <3> QED
      BY <1>1, <1>2, <1>4, <2>2, <3>1, PassGoesOn
  <2>4. CASE c = "src"
    <3>1. /\ \A d \in Comp : pc'[d] = pc[d] \/ (AtRest(d) /\ AtRest(d)')
          /\ pc'["snk"] = pc["snk"] /\ pc'["int"] = pc["int"]
      BY <1>1, <1>2, <2>1, <2>4 DEF AtRest, TypeOK
    <3>2. /\ \A d : Queued(d)' <=> Queued(d)
          /\ \A a, b : Before(a, b)' <=> Before(a, b)
      BY <2>2 DEF Queued, Before
    <3>3. Batches' /\ Taking' /\ QueueHasRoom' /\ WholeBatch' /\ PassingOn' /\ PassedOn'
      BY <1>3, <3>1, <3>2, SameBatches
    <3>4. Served => Served'
      BY <1>2, <3>1, <3>2 DEF Served
    <3>5. Asleep'
      BY <1>2, <1>3, <3>1, <3>2, <3>4, SameAsleep
    <3> QED
      BY <2>3, <3>3, <3>5 DEF Flow
  <2>5. CASE c # "src"
    <3>1. c \in Sink
      BY <2>5 DEF Comp, Sink
    <3> QED
      BY <1>2, <2>1, <2>2, <2>3, <2>5, <3>1, BeginsToFill DEF Flow
  <2> QED
    BY <2>4, <2>5
<1>7. CASE state[c] # "running"
  <2>1. PICK e \in BOOLEAN : e = ev[c]
    BY <1>1 DEF TypeOK
  <2>2. /\ Sleep(c, e) \/ Terminate(c)
        /\ c = "int" => ~e
        /\ pc' = [pc EXCEPT ![c] = pc'[c]] /\ pc'[c] \in {"off", "wait"}
    BY <1>1, <1>2, <1>7, <2>1 DEF GoOn, EndPass, Turns, Sleep, Terminate, Goto, TypeOK
  <2>3. /\ Turns'
        /\ \A a, b : Before(a, b) /\ a # c => Before(a, b)'
        /\ \A d \in Comp \ {c} : Queued(d)' <=> Queued(d)
        /\ Queued(c)' <=> (Sleep(c, e) /\ e)
    BY <1>1, <1>2, <2>2, PassEnds
  <2>4. /\ \A d \in Comp \ {c} : pc'[d] = pc[d]
        /\ \A d \in Comp : pc'[d] = pc[d] \/ (AtRest(d) /\ AtRest(d)')
    BY <1>1, <1>2, <2>2 DEF AtRest, TypeOK
  <2>5. Untouched(port["snk"]) \/ (Before("snk", "int") => Before("snk", "int")')
    BY <1>1, <1>7, <2>3, Ports
  <2>6. pc["int"] \notin {"get", "put"}
    BY <1>1, <1>2, <1>5 DEF AtWork
  <2>7. Batches' /\ Taking' /\ QueueHasRoom' /\ WholeBatch' /\ PassingOn' /\ PassedOn'
    BY <1>3, <2>4, <2>5, <2>6, SameBatches
  <2>8. Flowing => c # "snk"
    BY <1>1, <1>7, SourceRunsLast
  <2>9. Flowing /\ Served => Served'
    BY <1>1, <1>2, <2>3, <2>4, <2>8 DEF Served
  <2>10. Queued("int")' => Queued("int")
    BY <1>1, <2>2, <2>3
  <2>11. Asleep'
    BY <1>1, <1>2, <1>3, <2>4, <2>9, <2>10, SameAsleep
  <2> QED
    BY <2>3, <2>7, <2>11 DEF Flow
<1> QED
  BY <1>6, <1>7

LEMMA CommandStaysFlow ==
  ASSUME IInv, equal, Flow, NEW c \in Comp, NoCmd(c) \/ Defer(c) \/ Refuse(c)
  PROVE  Flow'
<1>1. /\ RunsAt(c, "cmd") /\ GoOn(c) /\ UNCHANGED <<equal, state, data, ctl>>
      /\ cmd' = cmd \/ cmd' = [cmd EXCEPT ![c] = "refused"]
  BY DEF NoCmd, Defer, Refuse
<1> QED
  BY <1>1, GoOnFlow

LEMMA PortsInitSame ==
  ASSUME TypeOK, Connections, NEW c \in Comp, PortsInit(c),
         \A d \in Sink : d = c \/ Up(d) = c => state[d] # "running"
  PROVE  \A d \in Sink : port'[d].wr = port[d].wr /\ port'[d].buf = port[d].buf
<1> SUFFICES ASSUME NEW d \in Sink
             PROVE  port'[d].wr = port[d].wr /\ port'[d].buf = port[d].buf
  OBVIOUS
<1>1. port[d] \in Connection /\ Ring(port[d])
  BY DEF TypeOK, Connections
<1>2. CASE d = c
  <2>1. port'[d] = InPortInit(port[d])
    <3>1. Up(d) # d
      BY DEF Up, Sink
    <3> QED
      BY <1>2, <3>1 DEF PortsInit
  <2> QED
    BY <1>1, <2>1 DEF InPortInit, Connection
<1>3. CASE d # c /\ Up(d) = c
  <2>1. port'[d] = GetMsgIdx(port[d]) /\ port[d].fullQ = <<>>
    BY <1>3 DEF PortsInit, Connections
  <2> QED
    BY <1>1, <2>1, NothingPending
<1>4. CASE d # c /\ Up(d) # c
  <2>1. port'[d] = port[d]
    BY <1>4 DEF PortsInit
  <2> QED
    BY <2>1
<1> QED
  BY <1>2, <1>3, <1>4

LEMMA ObeyFlow ==
  ASSUME IInv, equal, Flow, NEW c \in Comp, Obey(c)
  PROVE  Flow'
<1>1. /\ TypeOK /\ OneCommand /\ Lockstep /\ Turns /\ Tasks /\ Connections
      /\ "snk" \in Comp /\ "int" \in Comp /\ "snk" \in Sink /\ "int" \in Sink
  BY DEF IInv, Flow, Comp, Sink
<1>2. PICK m \in Move(c) : /\ Obeyed(c, m)
                           /\ IF m[2] = "init" THEN PortsInit(c) ELSE UNCHANGED port
  BY DEF Obey
<1>3. /\ pc[c] = "cmd" /\ AtWork(c) /\ ~Cancels(c)
      /\ UNCHANGED <<equal, mem, next, cnt, hold, circ, alarm, tx, rx, plan, op, at, waiting>>
  BY DEF Obey, RunsAt, AtWork, ctl
<1>4. /\ m[1] = state[c] /\ m[2] = cmd[c] /\ cmd[c] \in Op
      /\ m[2] = "init" => m[1] = "reset"
      /\ m[2] = "start" <=> m[3] = "running"
      /\ m[2] = "start" => m[1] = "ready"
  BY DEF Move, Moves, SourceMoves, Op
<1>5. c = Target /\ op = m[2] /\ Count = at - 1 /\ op \in Op
  BY <1>1, <1>4, ObeyIsForTarget
<1>6. state' = [state EXCEPT ![c] = m[3]] /\ EndPass(c, m[3], ev[c] \/ m[2] = "start")
  BY <1>2 DEF Obeyed
<1>7. /\ state'[c] = m[3] /\ \A d \in Comp \ {c} : state'[d] = state[d]
      /\ state[c] = m[1]
  BY <1>1, <1>4, <1>6 DEF TypeOK
<1>8. SameData
  <2>1. CASE m[2] = "init"
    <3>1. \A d \in Sink : d = c \/ Up(d) = c => state[d] # "running"
      BY <1>1, <1>3, <1>4, <2>1, InitFindsSinkAtRest
    <3> QED
      BY <1>1, <1>2, <1>3, <2>1, <3>1, PortsInitIs, PortsInitSame DEF SameData
  <2>2. CASE m[2] # "init"
    BY <1>2, <1>3, <2>2 DEF SameData
  <2> QED
    BY <2>1, <2>2
<1>9. \A d \in Comp \ {c} : ~AtWork(d)
  BY <1>1, <1>3, OneAtWork
<1>10. PICK e \in BOOLEAN : e = (ev[c] \/ m[2] = "start")
  BY <1>1 DEF TypeOK
<1>11. /\ Sleep(c, e) \/ Terminate(c)
       /\ m[2] = "start" => Sleep(c, e) /\ e
       /\ c = "int" /\ e => pc'[c] = "wait"
       /\ pc' = [pc EXCEPT ![c] = pc'[c]] /\ pc'[c] \in {"off", "wait"}
  <2>1. (m[3] = "reset" /\ Terminate(c)) \/ (m[3] # "reset" /\ Sleep(c, e))
    BY <1>6, <1>10 DEF EndPass
  <2>2. pc' = [pc EXCEPT ![c] = pc'[c]] /\ pc'[c] \in {"off", "wait"}
    BY <1>1, <2>1 DEF Sleep, Terminate, Goto, TypeOK
  <2>3. m[2] = "start" => Sleep(c, e) /\ e
    BY <1>4, <1>10, <2>1
  <2>4. c = "int" /\ e => m[2] = "start"
    BY <1>1, <1>3, <1>10 DEF Turns
  <2>5. Sleep(c, e) => pc'[c] = "wait"
    BY <1>1 DEF Sleep, Goto, TypeOK
  <2> QED
    BY <2>1, <2>2, <2>3, <2>4, <2>5
<1>12. /\ Turns'
       /\ \A a, b : Before(a, b) /\ a # c => Before(a, b)'
       /\ \A d \in Comp \ {c} : Queued(d)' <=> Queued(d)
       /\ Sleep(c, e) /\ e => \A a, b : Before(a, b)' <=> Before(a, b)
  BY <1>1, <1>3, <1>11, PassEnds
<1>13. /\ \A d \in Comp \ {c} : pc'[d] = pc[d]
       /\ \A d \in Comp : pc'[d] = pc[d] \/ (AtRest(d) /\ AtRest(d)')
  BY <1>1, <1>3, <1>11 DEF AtRest, TypeOK
<1>14. c = "snk" => state["snk"] # "running" /\ port["snk"].fullQ = <<>> /\ Untouched(port["snk"])
  BY <1>1, <1>3, Ports DEF Cancels
<1>15. pc["int"] \notin {"get", "put"}
  BY <1>1, <1>3, <1>9 DEF AtWork
<1>16. Batches' /\ Taking' /\ QueueHasRoom' /\ WholeBatch' /\ PassingOn' /\ PassedOn'
  <2>1. Untouched(port["snk"]) \/ (Before("snk", "int") => Before("snk", "int")')
    BY <1>12, <1>14
  <2> QED
    BY <1>8, <1>13, <1>15, <2>1, SameBatches
<1>17. CASE c = "snk" /\ m[2] = "start"
  <2>1. Served'
    <3>1. Before("snk", "int")'
      BY <1>1, <1>3, <1>11, <1>12, <1>17, OneAtWork
    <3>2. Untouched(port'["snk"])
      BY <1>1, <1>8, <1>14, <1>17, SamePorts
    <3>3. pc'["snk"] = "wait"
      BY <1>1, <1>11, <1>17 DEF Sleep, Goto, TypeOK
    <3> QED
      BY <3>1, <3>2, <3>3 DEF Served
  <2>2. port'["int"].fullQ = <<>>
    <3>1. States \in Rest /\ state["snk"] = "ready"
      BY <1>1, <1>4, <1>5, <1>17, TargetIs DEF Lockstep, TypeOK
    <3>2. state["int"] # "running"
      BY <3>1 DEF States, Rest
    <3> QED
      BY <1>1, <1>8, <3>2 DEF Connections, SameData
  <2>3. pc'["int"] \in {"off", "wait"}
    BY <1>1, <1>9, <1>13, <1>17 DEF AtWork
  <2>4. Asleep'
    BY <2>1, <2>2, <2>3 DEF Asleep
  <2> QED
    BY <1>12, <1>16, <2>4 DEF Flow
<1>18. CASE ~(c = "snk" /\ m[2] = "start")
  <2>1. Flowing' => Flowing /\ c # "snk"
    <3>1. AllSent' <=> AllSent
      BY <1>3 DEF AllSent
    <3>2. CASE c = "snk"
      <4>1. state'["src"] = state["src"] /\ state'["snk"] # "running"
        BY <1>4, <1>7, <1>18, <3>2 DEF Comp
      <4> QED
        BY <1>1, <1>3, <1>14, <3>1, <3>2, <4>1, SourceRunsLast DEF Flowing
    <3>3. CASE c = "int"
      BY <1>3, <1>7, <3>1, <3>3 DEF Flowing, Comp
    <3>4. CASE c = "src"
      <4>1. m[2] = "start" => state["snk"] = "running"
        BY <1>1, <1>5, <3>4, TargetIs DEF Lockstep, AfterStart, States, TypeOK
      <4> QED
        BY <1>3, <1>4, <1>5, <1>7, <3>1, <3>4, <4>1 DEF Flowing, Comp
    <3> QED
      BY <3>2, <3>3, <3>4 DEF Comp
  <2>2. op' = "start" /\ state'["int"] # "running" => op = "start" /\ state["int"] # "running"
    BY <1>1, <1>3, <1>4, <1>5, <1>7
  <2>3. Flowing' /\ Served => Served'
    <3>1. c # "snk" => pc'["snk"] = pc["snk"]
      BY <1>1, <1>13
    <3>2. Untouched(port'["snk"]) <=> Untouched(port["snk"])
      BY <1>1, <1>8, SamePorts
    <3>3. Loaded(port'["snk"]) <=> Loaded(port["snk"])
      BY <1>1, <1>8, SamePorts
    <3> QED
      BY <1>12, <2>1, <3>1, <3>2, <3>3 DEF Served
  <2>4. Flowing' /\ Queued("int")' => Queued("int") \/ Served
    BY <1>1, <1>3, <1>12, OneAtWork
  <2>5. Asleep'
    BY <1>1, <1>8, <1>13, <2>1, <2>2, <2>3, <2>4, SameAsleep
  <2> QED
    BY <1>12, <1>16, <2>5 DEF Flow
<1> QED
  BY <1>17, <1>18

-----------------------------------------------------------------------------
(* The in-port.                                                            *)

\* A sink cancels its requests when the source has been stopped.
LEMMA CancelStopsFlow ==
  ASSUME IInv, NEW c \in Sink, cmd[c] \in {"stop", "deinit"}
  PROVE  ~Flowing
<1>1. TypeOK /\ Lockstep /\ OneCommand /\ c \in Comp /\ cmd[c] \in Op
  BY DEF IInv, Sink, Comp, Op
<1>2. waiting /\ c = Target /\ op = cmd[c] /\ Count = at - 1
  BY <1>1, ObeyIsForTarget
<1>3. at \in {1, 2, 3}
  BY <1>1 DEF TypeOK
<1>4. state["src"] # "running"
  BY <1>1, <1>2, <1>3, TargetIs DEF Lockstep, AfterStop, AfterDeinit, States, Sink
<1> QED
  BY <1>2, <1>4 DEF Flowing

LEMMA CancelAllFlow ==
  ASSUME IInv, equal, Flow, NEW c \in Sink, CancelAll(c)
  PROVE  Flow'
<1> DEFINE p == port["int"]
<1>1. /\ TypeOK /\ OneCommand /\ Turns /\ c \in Comp
      /\ "snk" \in Comp /\ "int" \in Comp /\ "snk" \in Sink /\ "int" \in Sink /\ "src" \in Comp
  BY DEF IInv, Flow, Comp, Sink
<1>2. /\ RunsAt(c, "cmd") /\ pc[c] = "cmd" /\ state[c] = "running" /\ Move(c) # {}
      /\ cnt' = [cnt EXCEPT ![c] = Len(port[c].fullQ)]
      /\ pc' = [pc EXCEPT ![c] = "cancel"]
      /\ UNCHANGED <<equal, state, ev, ready, cmd, port, mem, next, hold, circ, alarm, tx, rx,
                     plan, op, at, waiting>>
  BY DEF CancelAll, Cancels, RunsAt, Goto, ctl
<1>3. cmd[c] \in {"stop", "deinit"}
  BY <1>2 DEF Move, Moves, SourceMoves
<1>4. /\ \A d : Queued(d)' <=> Queued(d)
      /\ \A a, b : Before(a, b)' <=> Before(a, b)
      /\ \A d : Over(d)' <=> Over(d)
      /\ (AllSent' <=> AllSent) /\ (Flowing' <=> Flowing)
  BY <1>2 DEF Queued, Before, Over, AllSent, Flowing
<1>5. AtWork(c) /\ pc'[c] = "cancel" /\ \A d \in Comp \ {c} : pc'[d] = pc[d] /\ ~AtWork(d)
  BY <1>1, <1>2, OneAtWork DEF TypeOK, AtWork
<1>6. Turns'
  <2>1. ~Switching'
    BY <1>1, <1>2, NotSwitching
  <2>2. AtWork(c)' /\ Signals(c) /\ pc' = [pc EXCEPT ![c] = pc'[c]]
    BY <1>2, <1>5 DEF AtWork, Signals, NoEvent
  <2> QED
    BY <1>1, <1>2, <1>5, <2>1, <2>2, PassGoesOn
<1>7. Batches'
  <2> SUFFICES ASSUME NEW d \in Sink
               PROVE  Batch(d)'
    BY DEF Batches
  <2>1. Batch(d) /\ d \in Comp /\ Up(d) \in Comp
    BY Ports DEF Flow, Batches
  <2>2. pc[Up(d)] \in {"get", "put"} => pc'[Up(d)] \in {"get", "put"}
    BY <1>2, <1>5, <2>1
  <2>3. pc'[d] = pc[d] \/ pc'[d] = "cancel"
    BY <1>5, <2>1
  <2> QED
    BY <1>2, <1>4, <2>1, <2>2, <2>3 DEF Batch
<1>8. Taking'
  BY <1>1, <1>2, <1>5 DEF Flow, Taking, TypeOK, Sink, Comp
<1>9. /\ pc'["int"] = pc["int"] \/ (pc["int"] = "cmd" /\ pc'["int"] = "cancel" /\ c = "int")
      /\ pc["int"] \notin {"get", "put"}
  BY <1>1, <1>2, <1>5 DEF AtWork
<1>10. p.fullQ = <<>> <=> Len(p.fullQ) = 0 /\ Len(p.fullQ) \in 0 .. Depth
  BY <1>1, Ports
<1>11. Len(circ) \in Nat /\ (circ = <<>> <=> Len(circ) = 0) /\ Depth \in Nat
  BY <1>1, EmptySeq, LenProperties, DepthAssumption DEF TypeOK
<1>12. Len(p.fullQ) \in 0 .. Depth /\ (p.fullQ = <<>> => Untouched(p))
  BY <1>1, Ports
<1>13. QueueHasRoom'
  <2>1. ~Untouched(p) => IF pc'["int"] \in {"take", "cancel"} THEN Len(circ) + Len(p.fullQ) <= Depth
                         ELSE circ = <<>>
    BY <1>9, <1>11, <1>12 DEF Flow, QueueHasRoom
  <2> QED
    BY <1>2, <2>1 DEF QueueHasRoom
<1>14. WholeBatch'
  <2>1. CASE pc'["int"] = pc["int"]
    BY <1>2, <1>4, <2>1 DEF Flow, WholeBatch
  <2>2. CASE c = "int" /\ pc["int"] = "cmd" /\ pc'["int"] = "cancel"
    <3>1. AllSent \/ Len(circ) \in {0, Depth}
      BY <2>2 DEF Flow, WholeBatch
    <3>2. AllSent \/ Untouched(p) \/ (Through(p) /\ Len(p.fullQ) = Depth /\ circ = <<>>)
      <4>1. Over("int") => AllSent
        BY DEF Over
      <4>2. Up("int") = "src" /\ pc["src"] \notin {"get", "put"}
        BY <1>1, <1>5, <2>2 DEF Up, AtWork
      <4>3. Over("int") \/ Untouched(p) \/ (Through(p) /\ Len(p.fullQ) = Depth)
        BY <1>1, <1>12, <2>2, <4>2 DEF Flow, Batches, Batch
      <4>4. Untouched(p) \/ circ = <<>>
        BY <2>2 DEF Flow, QueueHasRoom
      <4> QED
        BY <4>1, <4>3, <4>4
    <3>3. AllSent \/ (Through(p) /\ Len(circ) + Len(p.fullQ) = Depth)
                  \/ (Len(circ) \in {0, Depth} /\ Untouched(p))
      BY <1>11, <3>1, <3>2
    <3> QED
      BY <1>2, <1>4, <2>2, <3>3 DEF WholeBatch
  <2> QED
    BY <1>9, <2>1, <2>2
<1>15. PassingOn' /\ PassedOn'
  BY <1>2, <1>4, <1>9 DEF Flow, PassingOn, PassedOn
<1>16. Asleep'
  BY <1>3, <1>4, CancelStopsFlow DEF Asleep
<1> QED
  BY <1>6, <1>7, <1>8, <1>13, <1>14, <1>15, <1>16 DEF Flow

\* The request at the head leaves, and its byte is taken if it has one.
HeadGoes(c) ==
  /\ RunsAt(c, pc[c]) /\ pc[c] \in {"take", "cancel"}
  /\ Len(port[c].fullQ) > 0 /\ cnt[c] = Len(port[c].fullQ)
  /\ HeadStatus(c) # "processing" /\ (pc[c] = "take" => HeadStatus(c) = "completed")
  /\ port' = [port EXCEPT ![c] = TakeHead(@)]
  /\ cnt' = [cnt EXCEPT ![c] = @ - 1]
  /\ IF HeadStatus(c) = "completed" THEN FillBufferDone(c) ELSE UNCHANGED <<circ, rx>>
  /\ SetEvent(Up(c))
  /\ UNCHANGED <<equal, state, pc, cmd, mem, next, hold, alarm, tx, plan, op, at, waiting>>

LEMMA HeadGoesFlow ==
  ASSUME IInv, equal, Flow, NEW c \in Sink, HeadGoes(c)
  PROVE  /\ Turns' /\ Batches' /\ Taking' /\ QueueHasRoom' /\ WholeBatch' /\ PassingOn' /\ PassedOn'
         /\ Untouched(port[c]) \/ Through(port[c]) \/ Over(c)
         /\ Through(port[c]) => Through(port'[c])
<1> DEFINE p == port[c]
           r == TakeHead(p)
<1>1. /\ TypeOK /\ OneCommand /\ Turns /\ c \in Comp /\ Up(c) \in Comp \ {c}
      /\ "snk" \in Comp /\ "int" \in Comp /\ "snk" \in Sink /\ "int" \in Sink /\ "src" \in Comp
  BY DEF IInv, Flow, Comp, Sink, Up
<1>2. /\ RunsAt(c, pc[c]) /\ pc[c] \in {"take", "cancel"} /\ AtWork(c) /\ Len(p.fullQ) > 0
      /\ HeadStatus(c) # "processing" /\ (pc[c] = "take" => HeadStatus(c) = "completed")
      /\ UNCHANGED <<equal, state, pc, cmd, next, tx, op, at, waiting>>
  BY DEF HeadGoes, AtWork
<1>3. p \in Connection /\ Ring(p) /\ HeadStatus(c) = p.st[HeadMsg(p)]
  BY Ports DEF HeadStatus
<1>4. /\ port'[c] = r /\ \A d \in Sink \ {c} : port'[d] = port[d]
      /\ cnt'[c] = Len(p.fullQ) - 1 /\ \A d \in Sink \ {c} : cnt'[d] = cnt[d]
  BY <1>1 DEF HeadGoes, TypeOK
<1>5. /\ Len(r.fullQ) = Len(p.fullQ) - 1 /\ Len(p.fullQ) \in 1 .. Depth
      /\ Untouched(p) => Untouched(r)
      /\ Through(p) => Through(r) /\ HeadStatus(c) = "completed"
      /\ Apart(p) => Apart(r)
      /\ HeadStatus(c) # "completed" => Untouched(p)
  <2>1. Len(p.fullQ) \in 1 .. Depth
    BY <1>2, Ports
  <2>2. HeadStatus(c) # "completed" => \A s \in Slot : p.st[s] # "processing"
    <3>1. ~AtWork(Up(c))
      BY <1>1, <1>2, OneAtWork
    <3> QED
      BY <1>1, <3>1, NothingInTheWorks
  <2> QED
    BY <1>2, <1>3, <2>1, <2>2, TakeHeadGood, TakeKeepsBatch
<1>6. HeadStatus(c) = "completed" => ~Untouched(p)
  BY <1>2, <1>3, HeadMsgIs DEF Untouched
<1> HIDE DEF p, r
<1>7. \A d \in Comp \ {c} : ~AtWork(d)
  BY <1>1, <1>2, OneAtWork
<1>8. /\ Turns'
      /\ \A a, b : Before(a, b) /\ a # b => Before(a, b)'
  <2>1. ~Switching'
    BY <1>1, <1>2, NotSwitching
  <2>2. Signals(c)
    BY <1>1 DEF HeadGoes, Signals
  <2>3. pc' = [pc EXCEPT ![c] = pc'[c]] /\ AtWork(c)' /\ equal'
    BY <1>1, <1>2 DEF TypeOK, AtWork
  <2> QED
    BY <1>1, <1>2, <2>1, <2>2, <2>3, PassGoesOn
<1>9. AllSent' <=> AllSent
  BY <1>2 DEF AllSent
<1>10. /\ circ \in Seq(Nat) /\ Len(circ) \in Nat /\ Len(circ) <= Depth /\ Depth \in Nat
       /\ circ = <<>> <=> Len(circ) = 0
  BY <1>1, EmptySeq, LenProperties, DepthAssumption DEF TypeOK
<1>11. /\ c = "snk" => circ' = circ
       /\ HeadStatus(c) # "completed" => circ' = circ
       /\ HeadStatus(c) = "completed" /\ c = "int" /\ Len(circ) < Depth
            => Len(circ') = Len(circ) + 1
       /\ Len(circ') \in {Len(circ), Len(circ) + 1}
  <2>1. HeadStatus(c) # "completed" => circ' = circ
    BY DEF HeadGoes
  <2>2. HeadStatus(c) = "completed" => FillBufferDone(c)
    BY DEF HeadGoes
  <2>3. \A v : Len(Append(circ, v)) = Len(circ) + 1
    BY <1>10, AppendProperties
  <2> QED
    BY <2>1, <2>2, <2>3 DEF FillBufferDone
<1>12. \A d \in Sink : Over(d) => Over(d)'
  <2> SUFFICES ASSUME NEW d \in Sink, Over(d)
               PROVE  Over(d)'
    OBVIOUS
  <2>1. CASE d = "int"
    BY <1>9, <2>1 DEF Over
  <2>2. CASE d = "snk" /\ c = "snk"
    BY <1>1, <1>4, <1>9, <1>11, <2>2 DEF Over
  <2>3. CASE d = "snk" /\ c = "int"
    BY <1>4, <1>5, <1>6, <1>9, <1>11, <2>3 DEF Over, p
  <2> QED
    BY <2>1, <2>2, <2>3 DEF Sink
<1>13. Untouched(p) \/ Through(p) \/ Over(c)
  BY <1>1, <1>7 DEF Flow, Batches, Batch, AtWork, p
<1>14. Batches'
  <2> SUFFICES ASSUME NEW d \in Sink
               PROVE  Batch(d)'
    BY DEF Batches
  <2>1. Batch(d) /\ (Over(d) => Over(d)')
    BY <1>12 DEF Flow, Batches
  <2>2. CASE d = c
    <3>1. ~Over(c) /\ pc[c] = "take" => Through(r)
      BY <1>2, <1>5, <1>6, <1>13
    <3> QED
      BY <1>2, <1>4, <1>5, <1>13, <2>1, <2>2, <3>1 DEF Batch, p
  <2>3. CASE d # c
    <3>1. port'[d] = port[d]
      BY <1>4, <2>3
    <3> QED
      BY <1>2, <2>1, <3>1 DEF Batch
  <2> QED
    BY <2>2, <2>3
<1>15. Taking'
  BY <1>2, <1>4, <1>5 DEF Flow, Taking
<1>16. CASE c = "snk"
  <2>1. port'["int"] = port["int"] /\ circ' = circ
    BY <1>1, <1>4, <1>11, <1>16
  <2>2. QueueHasRoom' /\ WholeBatch' /\ PassingOn'
    BY <1>1, <1>2, <1>7, <1>9, <1>16, <2>1
    DEF Flow, QueueHasRoom, WholeBatch, PassingOn, AtWork
  <2>3. PassedOn'
    BY <1>1, <1>2, <1>4, <1>5, <1>8, <1>12, <1>16, <2>1 DEF Flow, PassedOn, p
  <2> QED
    BY <1>4, <1>5, <1>8, <1>13, <1>14, <1>15, <2>2, <2>3 DEF p
<1>17. CASE c = "int"
  <2>1. QueueHasRoom'
    BY <1>2, <1>4, <1>5, <1>10, <1>11, <1>17 DEF Flow, QueueHasRoom, p
  <2>2. WholeBatch'
    <3>1. AllSent \/ (Through(p) /\ Len(circ) + Len(p.fullQ) = Depth)
                  \/ (Len(circ) \in {0, Depth} /\ Untouched(p))
      BY <1>2, <1>17 DEF Flow, WholeBatch, p
    <3>2. AllSent \/ (Through(r) /\ Len(circ') + Len(r.fullQ) = Depth)
                  \/ (Len(circ') \in {0, Depth} /\ Untouched(r))
      BY <1>5, <1>6, <1>10, <1>11, <1>17, <3>1
    <3> QED
      BY <1>2, <1>4, <1>9, <1>17, <3>2 DEF WholeBatch
  <2>3. PassingOn'
    BY <1>2, <1>17 DEF PassingOn
  <2>4. PassedOn'
    <3>1. port'["snk"] = port["snk"] /\ ~Before("snk", "int")
      BY <1>1, <1>2, <1>4, <1>17, OneAtWork
    <3>2. Over("snk") \/ Untouched(port["snk"])
      BY <1>2, <1>17, <3>1 DEF Flow, PassedOn
    <3> QED
      BY <1>1, <1>12, <3>1, <3>2 DEF PassedOn
  <2> QED
    BY <1>4, <1>5, <1>8, <1>13, <1>14, <1>15, <2>1, <2>2, <2>3, <2>4 DEF p
<1> QED
  BY <1>16, <1>17 DEF Sink

LEMMA CancelHeadGoes ==
  ASSUME IInv, NEW c \in Sink, Cancel(c)
  PROVE  HeadGoes(c) /\ pc[c] = "cancel"
<1>1. TypeOK /\ Lockstep /\ OneCommand /\ Tasks /\ Connections /\ Up(c) \in Comp
  BY DEF IInv, Sink, Comp, Up
<1>2. /\ RunsAt(c, "cancel") /\ pc[c] = "cancel" /\ cnt[c] > 0
      /\ UNCHANGED <<equal, state, pc, cmd, mem, next, hold, alarm, tx, plan, op, at, waiting>>
  BY DEF Cancel, RunsAt, ctl
<1>3. cnt[c] = Len(port[c].fullQ) /\ Ring(port[c]) /\ port[c] \in Connection
  BY <1>1, <1>2 DEF Connections, TypeOK
<1>4. HeadStatus(c) # "processing"
  <2>1. HeadMsg(port[c]) \in Slot
    BY <1>2, <1>3, HeadMsgIs
  <2>2. pc[Up(c)] # "put"
    BY <1>1, <1>2, CancelFindsSourceAtRest DEF Tasks
  <2> QED
    BY <1>1, <2>1, <2>2 DEF HeadStatus, Connections
<1>5. /\ port' = [port EXCEPT ![c] = TakeHead(@)]
      /\ cnt' = [cnt EXCEPT ![c] = @ - 1]
      /\ IF HeadStatus(c) = "completed" THEN FillBufferDone(c) ELSE UNCHANGED <<circ, rx>>
      /\ SetEvent(Up(c))
  BY <1>4 DEF Cancel, CancelHead, HeadStatus
<1> QED
  BY <1>2, <1>3, <1>4, <1>5 DEF HeadGoes

LEMMA CancelFlow ==
  ASSUME IInv, equal, Flow, NEW c \in Sink, Cancel(c)
  PROVE  Flow'
<1>1. /\ TypeOK /\ Lockstep /\ OneCommand /\ Tasks /\ c \in Comp /\ Up(c) \in Comp
      /\ HeadGoes(c) /\ pc[c] = "cancel"
  BY CancelHeadGoes DEF IInv, Sink, Comp, Up
<1>2. cmd[c] \in {"stop", "deinit"} /\ (Flowing' <=> Flowing)
  BY <1>1 DEF Tasks, Flowing, AllSent, HeadGoes
<1>3. Asleep'
  BY <1>1, <1>2, CancelStopsFlow DEF Asleep
<1> QED
  BY <1>1, <1>3, HeadGoesFlow DEF Flow

LEMMA CancelledFlow ==
  ASSUME IInv, equal, Flow, NEW c \in Sink, Cancelled(c)
  PROVE  Flow'
<1> DEFINE p == port[c]
<1>1. /\ TypeOK /\ Lockstep /\ OneCommand /\ Tasks /\ Connections /\ Turns /\ c \in Comp
      /\ "snk" \in Comp /\ "int" \in Comp /\ "snk" \in Sink /\ "int" \in Sink /\ "src" \in Comp
  BY DEF IInv, Flow, Sink, Comp
<1>2. PICK m \in Move(c) : Obeyed(c, m)
  BY DEF Cancelled
<1>3. /\ pc[c] = "cancel" /\ AtWork(c) /\ cnt[c] = 0
      /\ UNCHANGED <<equal, port, mem, next, cnt, hold, circ, alarm, tx, rx, plan, op, at, waiting>>
  BY DEF Cancelled, RunsAt, AtWork, data, ctl
<1>4. cmd[c] \in {"stop", "deinit"} /\ m[2] = cmd[c] /\ m[3] # "running"
  BY <1>1, <1>3 DEF Tasks, Move, Moves, SourceMoves
<1>5. p.fullQ = <<>> /\ Untouched(p)
  <2>1. Len(p.fullQ) = 0
    BY <1>1, <1>3 DEF Connections
  <2> QED
    BY <2>1, Ports
<1>6. PICK e \in BOOLEAN : e = ev[c]
  BY <1>1 DEF TypeOK
<1>7. /\ Sleep(c, e) \/ Terminate(c)
      /\ c = "int" => ~e
      /\ pc' = [pc EXCEPT ![c] = pc'[c]] /\ pc'[c] \in {"off", "wait"}
  <2>1. (m[3] = "reset" /\ Terminate(c)) \/ (m[3] # "reset" /\ Sleep(c, e))
    BY <1>2, <1>4, <1>6 DEF Obeyed, EndPass
  <2>2. pc' = [pc EXCEPT ![c] = pc'[c]] /\ pc'[c] \in {"off", "wait"}
    BY <1>1, <2>1 DEF Sleep, Terminate, Goto, TypeOK
  <2> QED
    BY <1>1, <1>3, <1>6, <2>1, <2>2 DEF Turns
<1>8. Turns'
  BY <1>1, <1>3, <1>7, PassEnds
<1>9. /\ \A d \in Comp \ {c} : pc'[d] = pc[d] /\ ~AtWork(d)
      /\ \A a, b : Before(a, b) /\ a # c => Before(a, b)'
  BY <1>1, <1>3, <1>7, OneAtWork, PassEnds DEF TypeOK
<1>10. (\A d : Over(d)' <=> Over(d)) /\ (AllSent' <=> AllSent)
  BY <1>3 DEF Over, AllSent
<1>11. Batches'
  <2> SUFFICES ASSUME NEW d \in Sink
               PROVE  Batch(d)'
    BY DEF Batches
  <2>1. Batch(d) /\ d \in Comp /\ Up(d) \in Comp
    BY Ports DEF Flow, Batches
  <2>2. pc[Up(d)] \in {"get", "put"} => pc'[Up(d)] \in {"get", "put"}
    BY <1>3, <1>9, <2>1
  <2>3. d # c => pc'[d] = pc[d]
    BY <1>9, <2>1
  <2>4. CASE d = c
    BY <1>3, <1>5, <1>7, <1>10, <2>1, <2>2, <2>4 DEF Batch
  <2>5. CASE d # c
    BY <1>3, <1>10, <2>1, <2>2, <2>3, <2>5 DEF Batch
  <2> QED
    BY <2>4, <2>5
<1>12. Taking'
  BY <1>1, <1>3, <1>7, <1>9 DEF Flow, Taking, Sink, Comp
<1>13. /\ pc'["int"] = pc["int"] \/ (c = "int" /\ pc'["int"] \in {"off", "wait"})
       /\ pc["int"] \notin {"get", "put"}
  BY <1>1, <1>3, <1>7, <1>9 DEF AtWork
<1>14. QueueHasRoom'
  BY <1>3, <1>5, <1>13 DEF Flow, QueueHasRoom
<1>15. WholeBatch'
  <2>1. CASE pc'["int"] = pc["int"]
    BY <1>3, <1>10, <2>1 DEF Flow, WholeBatch
  <2>2. CASE c = "int" /\ pc'["int"] \in {"off", "wait"}
    <3>1. AllSent \/ Len(circ) + Len(p.fullQ) = Depth \/ Len(circ) \in {0, Depth}
      BY <1>3, <2>2 DEF Flow, WholeBatch
    <3>2. Len(p.fullQ) = 0 /\ Len(circ) \in Nat
      BY <1>1, <1>5, EmptySeq, LenProperties DEF TypeOK
    <3>3. AllSent \/ Len(circ) \in {0, Depth}
      BY <3>1, <3>2
    <3> QED
      BY <1>3, <1>10, <2>2, <3>3 DEF WholeBatch
  <2> QED
    BY <1>13, <2>1, <2>2
<1>16. PassingOn'
  BY <1>13 DEF PassingOn
<1>17. PassedOn'
  BY <1>3, <1>5, <1>9, <1>10, <1>13 DEF Flow, PassedOn
<1>18. Asleep'
  <2>1. ~Flowing' 
    <3>1. ~Flowing /\ op' = cmd[c] /\ state'["src"] = state["src"]
      BY <1>1, <1>2, <1>4, CancelStopsFlow, ObeyIsForTarget, <1>3 DEF Obeyed, TypeOK, Sink, Op
    <3> QED
      BY <1>4, <1>10, <3>1 DEF Flowing
  <2> QED
    BY <2>1 DEF Asleep
<1> QED
  BY <1>8, <1>11, <1>12, <1>14, <1>15, <1>16, <1>17, <1>18 DEF Flow

LEMMA TakeHeadGoes ==
  ASSUME Taking, NEW c \in Sink, Take(c)
  PROVE  HeadGoes(c)
<1>1. /\ RunsAt(c, "take") /\ pc[c] = "take" /\ cnt[c] > 0 /\ HeadStatus(c) = "completed"
      /\ UNCHANGED <<equal, state, pc, cmd, mem, next, hold, alarm, tx, plan, op, at, waiting>>
  BY DEF Take, RunsAt, Received, ctl
<1>2. cnt[c] = Len(port[c].fullQ)
  BY <1>1 DEF Taking
<1> QED
  BY <1>1, <1>2 DEF Take, HeadGoes

LEMMA TakeFlow ==
  ASSUME IInv, equal, Flow, NEW c \in Sink, Take(c)
  PROVE  Flow'
<1>1. /\ TypeOK /\ Lockstep /\ Tasks /\ Turns /\ c \in Comp
      /\ "snk" \in Comp /\ "int" \in Comp /\ "snk" \in Sink /\ "int" \in Sink
  BY DEF IInv, Flow, Sink, Comp
<1>2. /\ RunsAt(c, "take") /\ pc[c] = "take" /\ AtWork(c) /\ cnt[c] > 0
      /\ HeadStatus(c) = "completed"
      /\ UNCHANGED <<equal, state, pc, cmd, mem, next, hold, alarm, tx, plan, op, at, waiting>>
  BY DEF Take, RunsAt, Received, AtWork, ctl
<1>3. cnt[c] = Len(port[c].fullQ)
  BY <1>2 DEF Flow, Taking
<1>4. HeadGoes(c)
  BY TakeHeadGoes DEF Flow
<1>5. /\ Untouched(port[c]) \/ Through(port[c]) \/ Over(c)
      /\ Through(port[c]) => Through(port'[c])
  BY <1>4, HeadGoesFlow
<1>6. ~Untouched(port[c])
  BY <1>2, <1>3, HeadMsgIs, Ports DEF Untouched, HeadStatus
<1>7. (Flowing' <=> Flowing) /\ (Flowing => ~AllSent /\ ~Over(c))
  BY <1>2 DEF Flowing, AllSent, Over
<1>8. Asleep'
  <2>1. CASE c = "int"
    <3>1. state["int"] = "running"
      BY <1>1, <1>2, <2>1 DEF Tasks
    <3> QED
      BY <1>2, <1>5, <1>6, <1>7, <2>1, <3>1 DEF Asleep
  <2>2. CASE c = "snk"
    <3>1. Flowing => circ = <<>> /\ circ' = circ
      <4>1. circ' = circ
        BY <2>2 DEF Take, FillBufferDone
      <4>2. pc["int"] \notin {"get", "put"}
        BY <1>1, <1>2, <2>2, OneAtWork DEF AtWork
      <4> QED
        BY <1>6, <1>7, <2>2, <4>1, <4>2 DEF Flow, PassedOn
    <3>2. ~Served
      BY <1>2, <1>6, <2>2 DEF Served, Loaded
    <3>3. Flowing => ~(op' = "start" /\ state'["int"] # "running")
      BY <1>2, <3>2 DEF Flow, Asleep
    <3> QED
      BY <1>7, <3>1, <3>3 DEF Asleep
  <2> QED
    BY <2>1, <2>2 DEF Sink
<1> QED
  BY <1>4, <1>8, HeadGoesFlow DEF Flow

LEMMA TakenFlow ==
  ASSUME IInv, equal, Flow, NEW c \in Sink, Taken(c)
  PROVE  Flow'
<1> DEFINE p == port[c]
<1>1. /\ TypeOK /\ OneCommand /\ Lockstep /\ Tasks /\ Turns /\ c \in Comp
      /\ "snk" \in Comp /\ "int" \in Comp /\ "snk" \in Sink /\ "int" \in Sink /\ "src" \in Comp
  BY DEF IInv, Flow, Sink, Comp
<1>2. /\ RunsAt(c, "take") /\ pc[c] = "take" /\ AtWork(c) /\ ~Received(c)
      /\ cnt' = [cnt EXCEPT ![c] = 0]
      /\ UNCHANGED <<equal, state, cmd, port, mem, next, hold, circ, alarm, tx, rx,
                     plan, op, at, waiting>>
  BY DEF Taken, RunsAt, AtWork, ctl
<1>3. cnt[c] = Len(p.fullQ)
  BY <1>2 DEF Flow, Taking
<1>4. \A d \in Comp \ {c} : ~AtWork(d)
  BY <1>1, <1>2, OneAtWork
<1>5. p \in Connection /\ Ring(p) /\ Len(p.fullQ) \in 0 .. Depth /\ Up(c) \in Comp /\ Up(c) # c
  BY Ports
<1>6. Untouched(p)
  <2>1. CASE Len(p.fullQ) = 0
    BY <2>1, Ports
  <2>2. CASE Len(p.fullQ) > 0
    <3>1. p.st[HeadMsg(p)] # "completed"
      BY <1>2, <1>3, <2>2 DEF Received, HeadStatus
    <3>2. \A s \in Slot : p.st[s] # "processing"
      BY <1>1, <1>4, <1>5, NothingInTheWorks
    <3> QED
      BY <1>5, <2>2, <3>1, <3>2, TakeKeepsBatch
  <2> QED
    BY <1>5, <2>1, <2>2
<1>7. Over(c) \/ p.fullQ = <<>> \/ Len(p.fullQ) = Depth
  <2>1. Through(p) => p.fullQ = <<>>
    BY <1>5, <1>6, BothIsEmpty
  <2> QED
    BY <1>2, <1>5, <2>1, DepthAssumption DEF Flow, Batches, Batch
<1>8. (\A d : Over(d)' <=> Over(d)) /\ (AllSent' <=> AllSent) /\ (Flowing' <=> Flowing)
  BY <1>2 DEF Over, AllSent, Flowing
<1>9. pc' = [pc EXCEPT ![c] = IF c = "int" THEN "get" ELSE "wait"]
  BY <1>2 DEF Taken, Goto, Sleep
<1>10. /\ pc'[c] = IF c = "int" THEN "get" ELSE "wait"
       /\ \A d \in Comp \ {c} : pc'[d] = pc[d]
       /\ pc["int"] \notin {"get", "put"}
  BY <1>1, <1>2, <1>4, <1>9 DEF AtWork, TypeOK
<1>11. Taking'
  BY <1>1, <1>2, <1>10 DEF Flow, Taking, Sink, Comp, TypeOK
<1>12. Batches'
  <2> SUFFICES ASSUME NEW d \in Sink
               PROVE  Batch(d)'
    BY DEF Batches
  <2>1. Batch(d) /\ d \in Comp /\ Up(d) \in Comp
    BY Ports DEF Flow, Batches
  <2>2. pc'[Up(d)] \notin {"get", "put"} => pc[Up(d)] \notin {"get", "put"}
    BY <1>2, <1>10, <2>1
  <2>3. CASE d = c
    BY <1>2, <1>6, <1>7, <1>8, <1>10, <2>1, <2>3 DEF Batch
  <2>4. CASE d # c
    <3>1. pc'[d] = pc[d]
      BY <1>10, <2>1, <2>4
    <3> QED
      BY <1>2, <1>8, <2>1, <2>2, <3>1 DEF Batch
  <2> QED
    BY <2>3, <2>4
<1>13. CASE c = "int"
  <2> DEFINE q == port["snk"]
             n == Len(circ)
  <2>1. NoEvent /\ pc'["int"] = "get" /\ pc'["snk"] = pc["snk"]
    BY <1>1, <1>2, <1>10, <1>13 DEF Taken
  <2>2. Turns'
    <3>1. ~Switching'
      BY <1>1, <1>2, NotSwitching
    <3>2. Signals(c) /\ equal' /\ pc' = [pc EXCEPT ![c] = pc'[c]] /\ AtWork(c)'
      BY <1>2, <1>9, <1>10, <1>13, <2>1 DEF Signals, AtWork
    <3> QED
      BY <1>1, <1>2, <3>1, <3>2, PassGoesOn
  <2>3. Over("snk") \/ Untouched(q)
    BY <1>1, <1>2, <1>13, OneAtWork DEF Flow, PassedOn
  <2>4. n \in Nat /\ n <= Depth /\ (circ = <<>> <=> n = 0) /\ Depth \in Nat
    BY <1>1, EmptySeq, LenProperties, DepthAssumption DEF TypeOK
  <2>5. AllSent \/ n \in {0, Depth}
    <3>1. Through(p) => Len(p.fullQ) = 0
      BY <1>5, <1>6, BothIsEmpty
    <3> QED
      BY <1>2, <1>13, <2>4, <3>1 DEF Flow, WholeBatch
  <2>6. Over("snk") \/ q.fullQ = <<>> \/ Loaded(q)
    <3>1. Over("snk") \/ q.fullQ = <<>> \/ Len(q.fullQ) = Depth
      <4>1. pc["snk"] \notin {"fill", "take", "cancel"}
        BY <1>1, <1>4, <1>13 DEF AtWork
      <4> QED
        BY <1>1, <4>1 DEF Flow, Batches, Batch
    <3> QED
      BY <2>3, <3>1 DEF Loaded
  <2>7. Loaded(q) => (\A k \in Nat : Room(q, k)) /\ AllBut(q, Depth)
    BY <1>1, LoadedHasRoom, Ports
  <2>8. PassingOn'
    <3>1. Over("snk") \/ (q.fullQ = <<>> /\ (n \in {0, Depth} \/ AllSent))
                      \/ (circ = <<>> /\ Loaded(q))
                      \/ (Room(q, n) /\ (AllBut(q, n) \/ AllSent))
      BY <2>4, <2>5, <2>6, <2>7
    <3>2. Over("snk") \/ \A s \in Slot : q.st[s] # "completed"
      BY <2>3 DEF Untouched
    <3> HIDE DEF p
    <3> QED
      BY <1>2, <1>6, <1>8, <1>13, <3>1, <3>2 DEF PassingOn, p
  <2>9. QueueHasRoom' /\ WholeBatch' /\ PassedOn'
    BY <1>2, <1>6, <1>13, <2>1 DEF QueueHasRoom, WholeBatch, PassedOn
  <2>10. Asleep'
    <3>1. state["int"] = "running"
      BY <1>1, <1>2, <1>13 DEF Tasks
    <3>2. Flowing /\ circ # <<>> => p.fullQ = <<>> \/ Room(q, n)
      <4>1. Through(p) => p.fullQ = <<>>
        BY <1>5, <1>6, BothIsEmpty
      <4> QED
        BY <1>2, <1>13, <2>4, <2>7, <4>1 DEF Flow, Asleep
    <3> QED
      BY <1>2, <1>8, <1>13, <2>1, <3>1, <3>2 DEF Asleep
  <2> QED
    BY <1>11, <1>12, <2>2, <2>8, <2>9, <2>10 DEF Flow
<1>14. CASE c = "snk"
  <2>1. PICK e \in BOOLEAN : e = ev[c]
    BY <1>1 DEF TypeOK
  <2>2. Sleep(c, e) /\ pc'["int"] = pc["int"]
    BY <1>1, <1>10, <1>14, <2>1 DEF Taken
  <2>3. Turns' /\ \A d \in Comp \ {c} : Queued(d)' <=> Queued(d)
    BY <1>1, <1>2, <1>14, <2>2, PassEnds
  <2>4. QueueHasRoom' /\ WholeBatch' /\ PassingOn' /\ PassedOn'
    BY <1>2, <1>6, <1>8, <1>10, <1>14, <2>2
    DEF Flow, QueueHasRoom, WholeBatch, PassingOn, PassedOn
  <2>5. Served => Served'
    BY <1>2, <1>14 DEF Served
  <2>6. Asleep'
    BY <1>1, <1>2, <1>8, <1>14, <2>2, <2>3, <2>5 DEF Flow, Asleep
  <2> QED
    BY <1>11, <1>12, <2>3, <2>4, <2>6 DEF Flow
<1> QED
  BY <1>13, <1>14 DEF Sink

LEMMA FillFlow ==
  ASSUME IInv, equal, Flow, NEW c \in Sink, Fill(c), CanFill(port[c])
  PROVE  Flow'
<1> DEFINE p == port[c]
           r == FillBuffer(p, next[c])
<1>1. /\ TypeOK /\ OneCommand /\ Tasks /\ Turns /\ c \in Comp /\ Up(c) \in Comp \ {c}
      /\ "snk" \in Comp /\ "int" \in Comp /\ "snk" \in Sink /\ "int" \in Sink /\ "src" \in Comp
  BY DEF IInv, Flow, Sink, Comp, Up
<1>2. /\ RunsAt(c, "fill") /\ pc[c] = "fill" /\ AtWork(c)
      /\ next' = [next EXCEPT ![c] = After(@)]
      /\ port' = [port EXCEPT ![c] = r]
      /\ SetEvent(Up(c))
      /\ UNCHANGED <<equal, state, pc, cnt, cmd, mem, hold, circ, alarm, tx, rx,
                     plan, op, at, waiting>>
  BY DEF Fill, RunsAt, AtWork, ctl
<1>3. /\ port'[c] = r /\ \A d \in Sink \ {c} : port'[d] = port[d]
      /\ next'[c] = After(next[c]) /\ \A d \in Sink \ {c} : next'[d] = next[d]
      /\ next[c] \in Buf
  BY <1>1, <1>2 DEF TypeOK
<1>4. p \in Connection /\ Ring(p) /\ r \in Connection /\ Ring(r)
  BY <1>3, Ports, FillBufferGood
<1>5. /\ Untouched(p) => Untouched(r)
      /\ Untouched(p) /\ InTurn(p, next[c]) => InTurn(r, After(next[c])) /\ Apart(r)
      /\ Len(p.fullQ) < Depth
  <2>1. After(next[c]) \in Buf
    BY <1>3, AfterIs DEF Buf, Slot
  <2> QED
    BY <1>3, <1>4, <2>1, FillKeepsBatch, InTurnApart
<1> HIDE DEF p, r
<1>6. \A d \in Comp \ {c} : ~AtWork(d)
  BY <1>1, <1>2, OneAtWork
<1>7. /\ Turns'
      /\ \A a, b : Before(a, b) /\ a # b => Before(a, b)'
  <2>1. ~Switching'
    BY <1>1, <1>2, NotSwitching
  <2>2. Signals(c)
    BY <1>1, <1>2 DEF Signals
  <2>3. pc' = [pc EXCEPT ![c] = pc'[c]] /\ AtWork(c)' /\ equal'
    BY <1>1, <1>2 DEF TypeOK, AtWork
  <2> QED
    BY <1>1, <1>2, <2>1, <2>2, <2>3, PassGoesOn
<1>8. (AllSent' <=> AllSent) /\ (Flowing' <=> Flowing)
  BY <1>2 DEF AllSent, Flowing
<1>9. \A d \in Sink : Over(d) => Over(d)'
  <2>1. Untouched(port["int"]) => Untouched(port'["int"])
    BY <1>1, <1>3, <1>5 DEF p
  <2> QED
    BY <1>2, <1>8, <2>1 DEF Over
<1>10. Batches'
  <2> SUFFICES ASSUME NEW d \in Sink
               PROVE  Batch(d)'
    BY DEF Batches
  <2>1. Batch(d) /\ (Over(d) => Over(d)')
    BY <1>9 DEF Flow, Batches
  <2>2. CASE d = c
    BY <1>2, <1>3, <1>5, <2>1, <2>2 DEF Batch, p
  <2>3. CASE d # c
    <3>1. port'[d] = port[d] /\ next'[d] = next[d]
      BY <1>3, <2>3
    <3> QED
      BY <1>2, <2>1, <3>1 DEF Batch
  <2> QED
    BY <2>2, <2>3
<1>11. Taking'
  BY <1>1, <1>2, <1>3, <1>6 DEF Flow, Taking, Sink, Comp, AtWork
<1>12. pc["int"] \notin {"take", "cancel", "get", "put"}
  BY <1>1, <1>2, <1>6 DEF AtWork
<1>13. QueueHasRoom' /\ WholeBatch' /\ PassingOn'
  <2>1. Untouched(port["int"]) => Untouched(port'["int"])
    BY <1>1, <1>3, <1>5 DEF p
  <2> QED
    BY <1>2, <1>8, <1>12, <2>1 DEF Flow, QueueHasRoom, WholeBatch, PassingOn
<1>14. PassedOn'
  <2>1. Untouched(port["snk"]) => Untouched(port'["snk"])
    BY <1>1, <1>3, <1>5 DEF p
  <2> QED
    BY <1>1, <1>2, <1>7, <1>9, <1>12, <2>1 DEF Flow, PassedOn
<1>15. Asleep'
  <2>1. CASE c = "int"
    <3>1. state["int"] = "running"
      BY <1>1, <1>2, <2>1 DEF Tasks
    <3> QED
      BY <1>1, <1>2, <1>3, <1>8, <2>1, <3>1 DEF Flow, Asleep
  <2>2. CASE c = "snk"
    <3>1. Before("snk", "int")'
      BY <1>1, <1>2, <1>7, <2>2, OneAtWork
    <3>2. Flowing => ~Over("snk")
      BY DEF Flowing, Over
    <3>3. Untouched(p) => Served'
      BY <1>2, <1>3, <1>5, <2>2, <3>1 DEF Served, p
    <3>4. Served => Untouched(p)
      BY <2>2 DEF Served, Loaded, p
    <3>5. Flowing /\ circ # <<>> => Untouched(p)
      BY <1>12, <2>2, <3>2 DEF Flow, PassedOn, p
    <3>6. port'["int"] = port["int"]
      BY <1>1, <1>3, <2>2
    <3>7. pc["int"] \notin {"fill", "take", "cancel", "get", "put"}
      BY <1>1, <1>6, <2>2 DEF AtWork
    <3> QED
      BY <1>2, <1>8, <3>3, <3>4, <3>5, <3>6, <3>7 DEF Flow, Asleep
  <2> QED
    BY <2>1, <2>2 DEF Sink
<1> QED
  BY <1>7, <1>10, <1>11, <1>13, <1>14, <1>15 DEF Flow

LEMMA FilledFlow ==
  ASSUME IInv, equal, Flow, NEW c \in Sink, Fill(c), ~CanFill(port[c])
  PROVE  Flow'
<1> DEFINE p == port[c]
<1>1. /\ TypeOK /\ OneCommand /\ Tasks /\ Turns /\ c \in Comp /\ Up(c) \in Comp \ {c}
      /\ "snk" \in Comp /\ "int" \in Comp /\ "snk" \in Sink /\ "int" \in Sink /\ "src" \in Comp
  BY DEF IInv, Flow, Sink, Comp, Up
<1>2. /\ RunsAt(c, "fill") /\ pc[c] = "fill" /\ AtWork(c)
      /\ next' = [next EXCEPT ![c] = After(@)]
      /\ pc' = [pc EXCEPT ![c] = "take"]
      /\ cnt' = [cnt EXCEPT ![c] = Len(p.fullQ)]
      /\ NoEvent
      /\ UNCHANGED <<equal, state, port, cmd, mem, hold, circ, alarm, tx, rx,
                     plan, op, at, waiting>>
  BY DEF Fill, RunsAt, AtWork, Goto, ctl
<1>3. /\ cnt'[c] = Len(p.fullQ) /\ pc'[c] = "take"
      /\ \A d \in Comp \ {c} : pc'[d] = pc[d]
      /\ \A d \in Sink \ {c} : next'[d] = next[d] /\ cnt'[d] = cnt[d]
  BY <1>1, <1>2 DEF TypeOK
<1>4. p \in Connection /\ Ring(p) /\ Len(p.fullQ) = Depth
  BY Ports, CannotFill
<1>5. \A d \in Comp \ {c} : ~AtWork(d)
  BY <1>1, <1>2, OneAtWork
<1>6. Over(c) \/ Untouched(p) \/ Through(p)
  BY <1>1, <1>5 DEF Flow, Batches, Batch, AtWork
<1> HIDE DEF p
<1>7. Turns'
  <2>1. ~Switching'
    BY <1>1, <1>2, NotSwitching
  <2>2. Signals(c) /\ equal' /\ pc' = [pc EXCEPT ![c] = pc'[c]] /\ AtWork(c)'
    BY <1>2, <1>3 DEF Signals, AtWork
  <2> QED
    BY <1>1, <1>2, <2>1, <2>2, PassGoesOn
<1>8. /\ \A d : Over(d)' <=> Over(d)
      /\ (AllSent' <=> AllSent) /\ (Flowing' <=> Flowing)
      /\ \A d : Queued(d)' <=> Queued(d)
      /\ \A a, b : Before(a, b)' <=> Before(a, b)
  BY <1>2 DEF Over, AllSent, Flowing, Queued, Before, NoEvent
<1>9. Batches'
  <2> SUFFICES ASSUME NEW d \in Sink
               PROVE  Batch(d)'
    BY DEF Batches
  <2>1. Batch(d) /\ d \in Comp /\ Up(d) \in Comp
    BY Ports DEF Flow, Batches
  <2>2. pc'[Up(d)] \notin {"get", "put"} => pc[Up(d)] \notin {"get", "put"}
    BY <1>2, <1>3, <2>1
  <2>3. CASE d = c
    BY <1>2, <1>3, <1>4, <1>8, <2>1, <2>2, <2>3, DepthAssumption DEF Batch, p
  <2>4. CASE d # c
    <3>1. pc'[d] = pc[d] /\ next'[d] = next[d]
      BY <1>3, <2>1, <2>4
    <3> QED
      BY <1>2, <1>8, <2>1, <2>2, <3>1 DEF Batch
  <2> QED
    BY <2>3, <2>4
<1>10. Taking'
  BY <1>1, <1>2, <1>3, <1>5 DEF Taking, Sink, Comp, AtWork, p
<1>11. pc["int"] \notin {"take", "cancel", "get", "put"}
  BY <1>1, <1>2, <1>5 DEF AtWork
<1>12. Len(circ) \in Nat /\ (circ = <<>> <=> Len(circ) = 0) /\ Depth \in Nat
  BY <1>1, EmptySeq, LenProperties, DepthAssumption DEF TypeOK
<1>13. Untouched(port["int"]) \/ circ = <<>>
  BY <1>11 DEF Flow, QueueHasRoom
<1>14. AllSent \/ Len(circ) \in {0, Depth}
  BY <1>11 DEF Flow, WholeBatch
<1>15. CASE c = "int"
  <2>1. pc'["int"] = "take" /\ port'["int"] = p /\ pc["int"] = "fill"
    BY <1>2, <1>3, <1>15 DEF p
  <2>2. QueueHasRoom'
    BY <1>2, <1>4, <1>12, <1>13, <1>15, <2>1 DEF QueueHasRoom, p
  <2>3. AllSent \/ Untouched(p) \/ Through(p)
    BY <1>6, <1>15 DEF Over
  <2>4. WholeBatch'
    <3>1. AllSent \/ (Through(p) /\ Len(circ) + Len(p.fullQ) = Depth)
                  \/ (Len(circ) \in {0, Depth} /\ Untouched(p))
      BY <1>4, <1>12, <1>13, <1>14, <1>15, <2>3 DEF p
    <3> QED
      BY <1>2, <1>8, <2>1, <3>1 DEF WholeBatch
  <2>5. PassingOn' /\ PassedOn'
    BY <1>2, <1>8, <1>11, <2>1 DEF Flow, PassingOn, PassedOn
  <2>6. Asleep'
    <3>1. state["int"] = "running"
      BY <1>1, <1>2, <1>15 DEF Tasks
    <3>2. Flowing => ~AllSent
      BY DEF Flowing
    <3> QED
      BY <1>2, <1>8, <2>1, <2>3, <3>1, <3>2 DEF Flow, Asleep
  <2> QED
    BY <1>7, <1>9, <1>10, <2>2, <2>4, <2>5, <2>6 DEF Flow
<1>16. CASE c = "snk"
  <2>1. pc'["int"] = pc["int"] /\ pc["int"] \notin {"fill", "take", "cancel", "get", "put"}
    BY <1>1, <1>3, <1>5, <1>16 DEF AtWork
  <2>2. QueueHasRoom' /\ WholeBatch' /\ PassingOn' /\ PassedOn'
    BY <1>2, <1>8, <2>1 DEF Flow, QueueHasRoom, WholeBatch, PassingOn, PassedOn
  <2>3. Served => Served'
    BY <1>2, <1>4, <1>16 DEF Served, Loaded, p
  <2>4. Asleep'
    BY <1>2, <1>8, <2>1, <2>3 DEF Flow, Asleep
  <2> QED
    BY <1>7, <1>9, <1>10, <2>2, <2>4 DEF Flow
<1> QED
  BY <1>15, <1>16 DEF Sink

-----------------------------------------------------------------------------
(* The out-port.                                                           *)

\* ExSrc moves within its pass, or ends it: all but its place is as before.
LEMMA SourceMovesFlow ==
  ASSUME IInv, equal, Flow, SameData, AtWork("src"), Turns',
         pc' = [pc EXCEPT !["src"] = pc'["src"]], UNCHANGED <<state, op>>,
         \A a, b : Before(a, b) /\ a # b /\ a # "src" => Before(a, b)',
         Queued("int")' => Queued("int"),
         pc'["src"] \notin {"get", "put"} =>
           Over("int") \/ Untouched(port["int"]) \/ Through(port["int"])
  PROVE  Flow'
<1>1. "int" \in Sink /\ "snk" \in Sink /\ TypeOK
  BY DEF Sink, IInv
<1>2. circ' = circ /\ next' = next /\ cnt' = cnt /\ pc'["int"] = pc["int"] /\ pc'["snk"] = pc["snk"]
  BY <1>1 DEF SameData, TypeOK, Comp
<1>3. ASSUME NEW c \in Sink
      PROVE  /\ port'[c].fullQ = port[c].fullQ /\ port'[c].st = port[c].st
             /\ pc'[c] = pc[c]
             /\ Untouched(port'[c]) <=> Untouched(port[c])
             /\ Through(port'[c]) <=> Through(port[c])
             /\ Loaded(port'[c]) <=> Loaded(port[c])
             /\ Apart(port'[c]) <=> Apart(port[c])
             /\ \A b : InTurn(port'[c], b) <=> InTurn(port[c], b)
             /\ Over(c)' <=> Over(c)
             /\ AllSent' <=> AllSent
  BY <1>2, SamePorts DEF SameData, Sink
<1>4. pc["int"] \notin {"fill", "take", "cancel", "get", "put"}
  BY <1>1, OneAtWork DEF Flow, AtWork, Comp
<1>5. Batches'
  <2>1. Batch("snk")'
    BY <1>1, <1>2, <1>3 DEF Flow, Batches, Batch, Up
  <2>2. Batch("int")'
    BY <1>1, <1>2, <1>3 DEF Flow, Batches, Batch, Up
  <2> QED
    BY <2>1, <2>2 DEF Batches, Sink
<1>6. Taking'
  BY <1>2, <1>3 DEF Flow, Taking
<1>7. QueueHasRoom' /\ WholeBatch' /\ PassingOn' /\ PassedOn'
  BY <1>1, <1>2, <1>3, <1>4 DEF Flow, QueueHasRoom, WholeBatch, PassingOn, PassedOn
<1>8. Asleep'
  <2>1. Served => Served'
    BY <1>1, <1>2, <1>3 DEF Served
  <2>2. Flowing' <=> Flowing
    BY <1>1, <1>3 DEF Flowing
  <2> QED
    BY <1>1, <1>2, <1>3, <1>4, <2>1, <2>2 DEF Flow, Asleep
<1> QED
  BY <1>5, <1>6, <1>7, <1>8 DEF Flow

LEMMA ReadAlarmFlow ==
  ASSUME IInv, equal, Flow, ReadAlarm
  PROVE  Flow'
<1>1. TypeOK /\ OneCommand /\ Turns /\ "src" \in Comp /\ "int" \in Comp /\ "int" \in Sink
  BY DEF IInv, Flow, Comp, Sink
<1>2. /\ RunsAt("src", "data") /\ pc["src"] = "data" /\ AtWork("src")
      /\ UNCHANGED <<equal, state, cmd, port, mem, next, cnt, hold, circ, tx, rx,
                     plan, op, at, waiting>>
  BY DEF ReadAlarm, RunsAt, AtWork, ctl
<1>3. SameData /\ equal'
  BY <1>2 DEF SameData
<1>4. Over("int") \/ Untouched(port["int"]) \/ Through(port["int"])
  BY <1>1, <1>2 DEF Flow, Batches, Batch, Up
<1>5. CASE Goto("src", "get") /\ NoEvent
  <2>1. pc' = [pc EXCEPT !["src"] = pc'["src"]] /\ AtWork("src")' /\ Signals("src")
    BY <1>1, <1>5 DEF Goto, AtWork, Signals, TypeOK
  <2>2. ~Switching'
    BY <1>1, <1>2, NotSwitching
  <2>3. Turns' /\ \A a, b : Before(a, b) /\ a # b => Before(a, b)'
    BY <1>1, <1>2, <1>3, <2>1, <2>2, PassGoesOn
  <2>4. Queued("int")' => Queued("int")
    BY <1>5 DEF Queued, NoEvent
  <2> QED
    BY <1>2, <1>3, <1>4, <2>1, <2>3, <2>4, SourceMovesFlow
<1>6. CASE Sleep("src", ev["src"])
  <2>1. PICK e \in BOOLEAN : e = ev["src"]
    BY <1>1 DEF TypeOK
  <2>2. Sleep("src", e) /\ pc' = [pc EXCEPT !["src"] = pc'["src"]]
    BY <1>1, <1>6, <2>1 DEF Sleep, Goto, TypeOK
  <2>3. /\ Turns' /\ \A a, b : Before(a, b) /\ a # "src" => Before(a, b)'
        /\ Queued("int")' <=> Queued("int")
    BY <1>1, <1>2, <1>3, <2>2, PassEnds
  <2> QED
    BY <1>2, <1>3, <1>4, <2>2, <2>3, SourceMovesFlow
<1> QED
  BY <1>5, <1>6 DEF ReadAlarm

LEMMA SourceSentFlow ==
  ASSUME IInv, equal, Flow, SentAll("src")
  PROVE  Flow'
<1>1. TypeOK /\ OneCommand /\ Turns /\ "src" \in Comp /\ "int" \in Comp /\ "int" \in Sink
  BY DEF IInv, Flow, Comp, Sink
<1>2. /\ RunsAt("src", "get") /\ pc["src"] = "get" /\ AtWork("src") /\ ~Sends("src")
      /\ Sleep("src", ev["src"])
      /\ UNCHANGED <<equal, state, cmd, port, mem, next, cnt, hold, circ, tx, rx,
                     plan, op, at, waiting>>
  BY DEF SentAll, RunsAt, AtWork, ctl, data
<1>3. SameData /\ equal'
  BY <1>2 DEF SameData
<1>4. Over("int") \/ Through(port["int"])
  <2>1. CASE ~(tx < MaxTx[equal])
    BY <2>1 DEF Over, AllSent
  <2>2. CASE Pending(port["int"]) = {}
    <3>1. port["int"].st \in [Slot -> Status]
      BY <1>1, InUse, Ports
    <3> QED
      BY <2>2, <3>1 DEF Pending, Through, Status
  <2> QED
    BY <1>2, <2>1, <2>2 DEF Sends, HasData, Down
<1>5. PICK e \in BOOLEAN : e = ev["src"]
  BY <1>1 DEF TypeOK
<1>6. Sleep("src", e) /\ pc' = [pc EXCEPT !["src"] = pc'["src"]]
  BY <1>1, <1>2, <1>5 DEF Sleep, Goto, TypeOK
<1>7. /\ Turns' /\ \A a, b : Before(a, b) /\ a # "src" => Before(a, b)'
      /\ Queued("int")' <=> Queued("int")
  BY <1>1, <1>2, <1>3, <1>6, PassEnds
<1> QED
  BY <1>2, <1>3, <1>4, <1>6, <1>7, SourceMovesFlow

\* With room for one at least and nothing to complete there would be no room.
LEMMA RoomIsPending ==
  ASSUME NEW p \in Connection, Ring(p), NEW k \in Nat \ {0}, Room(p, k)
  PROVE  Pending(p) # {}
<1>1. Len(p.fullQ) = Depth /\ Depth \in Nat \ {0} /\ p.st \in [Slot -> Status]
  BY InUse, DepthAssumption DEF Room
<1>2. PICK s \in Slot : Age(p.wr, s) = 1
  BY <1>1, InUse
<1>3. p.st[s] # "init" /\ p.st[s] # "completed"
  BY <1>1, <1>2, InUse DEF Room
<1> QED
  BY <1>1, <1>3 DEF Pending, Status

LEMMA AllSentFlow ==
  ASSUME IInv, equal, Flow, SentAll("int")
  PROVE  Flow'
<1> DEFINE p == port["int"]
           q == port["snk"]
           n == Len(circ)
<1>1. /\ TypeOK /\ Tasks /\ Connections /\ Turns
      /\ "src" \in Comp /\ "int" \in Comp /\ "snk" \in Comp
      /\ "int" \in Sink /\ "snk" \in Sink
  BY DEF IInv, Flow, Comp, Sink
<1>2. /\ RunsAt("int", "get") /\ pc["int"] = "get" /\ AtWork("int") /\ ~Sends("int")
      /\ Sleep("int", ev["int"])
      /\ UNCHANGED <<equal, state, cmd, port, mem, next, cnt, hold, circ, tx, rx,
                     plan, op, at, waiting>>
  BY DEF SentAll, RunsAt, AtWork, ctl, data
<1>3. \A d \in Comp \ {"int"} : ~AtWork(d)
  BY <1>1, <1>2, OneAtWork
<1>4. PICK e \in BOOLEAN : e = ev["int"] /\ ~e
  BY <1>1, <1>2 DEF TypeOK, Turns
<1>5. Sleep("int", e) /\ pc' = [pc EXCEPT !["int"] = "wait"]
  BY <1>2, <1>4 DEF Sleep, Goto
<1>6. /\ Turns' /\ \A d \in Comp \ {"int"} : Queued(d)' <=> Queued(d)
      /\ ~Queued("int")'
  BY <1>1, <1>2, <1>4, <1>5, PassEnds
<1>7. pc'["int"] = "wait" /\ pc'["snk"] = pc["snk"] /\ pc'["src"] = pc["src"]
  BY <1>1, <1>5 DEF TypeOK
<1>8. /\ \A d : Over(d)' <=> Over(d)
      /\ (AllSent' <=> AllSent) /\ (Flowing' <=> Flowing)
  BY <1>2 DEF Over, AllSent, Flowing
<1>9. n \in Nat /\ (circ = <<>> <=> n = 0) /\ q \in Connection /\ Ring(q)
      /\ q.st \in [Slot -> Status] /\ (q.fullQ = <<>> => Untouched(q) /\ Through(q))
  BY <1>1, EmptySeq, LenProperties, Ports, InUse DEF TypeOK
<1>10. circ = <<>> \/ (Through(q) /\ ~Room(q, n))
  <2>1. circ = <<>> \/ Pending(q) = {}
    BY <1>2 DEF Sends, HasData, Down
  <2>2. Pending(q) = {} => Through(q)
    BY <1>9 DEF Pending, Through, Status
  <2>3. n # 0 /\ Pending(q) = {} => ~Room(q, n)
    BY <1>9, RoomIsPending
  <2> QED
    BY <1>9, <2>1, <2>2, <2>3
<1>11. /\ Untouched(p)
       /\ ~Over("snk") =>
            /\ \/ q.fullQ = <<>> /\ (n \in {0, Depth} \/ AllSent)
               \/ circ = <<>> /\ Loaded(q)
               \/ Room(q, n) /\ (AllBut(q, n) \/ AllSent)
            /\ \A s \in Slot : q.st[s] = "completed" => Queued("snk")
  BY <1>2 DEF Flow, PassingOn
<1>12. circ = <<>> /\ AllSent => Over("snk")
  BY <1>11 DEF Over
<1>13. Over("snk") \/ Untouched(q) \/ Through(q)
  <2>1. AllBut(q, 0) => Through(q)
    BY <1>9, InUse DEF AllBut, Through
  <2> QED
    BY <1>9, <1>10, <1>11, <1>12, <2>1 DEF Loaded
<1>14. Batches'
  <2>1. Batch("snk")'
    BY <1>1, <1>2, <1>7, <1>8, <1>13 DEF Flow, Batches, Batch, Up
  <2>2. Batch("int")'
    BY <1>1, <1>2, <1>7, <1>8 DEF Flow, Batches, Batch, Up
  <2> QED
    BY <2>1, <2>2 DEF Batches, Sink
<1>15. Taking'
  BY <1>1, <1>2, <1>7 DEF Flow, Taking, Sink
<1>16. AllSent \/ n \in {0, Depth}
  BY <1>9, <1>10, <1>11 DEF Over
<1>17. QueueHasRoom' /\ WholeBatch' /\ PassingOn'
  BY <1>2, <1>7, <1>8, <1>11, <1>16 DEF QueueHasRoom, WholeBatch, PassingOn
<1>18. PassedOn'
  <2>1. ~Over("snk") /\ ~Untouched(q) => circ = <<>>
    BY <1>9, <1>10, <1>11
  <2>2. ~Over("snk") /\ ~Untouched(q) => Queued("snk")
    <3>1. \A s \in Slot : q.st[s] # "processing"
      BY <1>1, <1>2 DEF Connections, Up
    <3>2. ~Untouched(q) => \E s \in Slot : q.st[s] = "completed"
      BY <1>9, <3>1 DEF Untouched, Status
    <3> QED
      BY <1>11, <3>2
  <2>3. Queued("snk") => Before("snk", "int")'
    <3>1. Queued("snk") => Queued("snk")'
      BY <1>1, <1>6
    <3> QED
      BY <1>6, <3>1 DEF Queued, Before
  <2> QED
    BY <1>2, <1>8, <2>1, <2>2, <2>3 DEF PassedOn
<1>19. Asleep'
  <2>1. state["int"] = "running"
    BY <1>1, <1>2 DEF Tasks
  <2>2. Flowing /\ circ # <<>> => p.fullQ = <<>>
    BY <1>2, <1>10 DEF Flow, Asleep
  <2> QED
    BY <1>2, <1>6, <1>7, <1>8, <2>1, <2>2 DEF Asleep
<1> QED
  BY <1>6, <1>14, <1>15, <1>17, <1>18, <1>19 DEF Flow

LEMMA SourceGetFlow ==
  ASSUME IInv, equal, Flow, Get("src")
  PROVE  Flow'
<1> DEFINE p == port["int"]
           r == GetMsgIdx(p)
<1>1. /\ TypeOK /\ OneCommand /\ Lockstep /\ Tasks /\ Turns
      /\ "src" \in Comp /\ "int" \in Comp /\ "snk" \in Comp /\ "int" \in Sink /\ "snk" \in Sink
  BY DEF IInv, Flow, Comp, Sink
<1>2. /\ RunsAt("src", "get") /\ pc["src"] = "get" /\ AtWork("src") /\ tx < MaxTx[equal]
      /\ Pending(p) # {}
      /\ port' = [port EXCEPT !["int"] = r]
      /\ pc' = [pc EXCEPT !["src"] = "put"] /\ NoEvent
      /\ UNCHANGED <<equal, state, cmd, mem, next, cnt, circ, alarm, tx, rx, plan, op, at, waiting>>
  BY DEF Get, RunsAt, AtWork, Sends, HasData, Down, Goto, ctl
<1>3. port'["int"] = r /\ port'["snk"] = port["snk"]
  BY <1>1, <1>2 DEF TypeOK
<1>4. pc'["src"] = "put" /\ pc'["int"] = pc["int"] /\ pc'["snk"] = pc["snk"]
  BY <1>1, <1>2 DEF TypeOK
<1>5. (Apart(p) => Apart(r)) /\ r.fullQ = p.fullQ /\ p.fullQ # <<>>
  BY <1>1, <1>2, Ports, GetKeepsBatch, GetMsgIdxGood
<1> HIDE DEF p, r
<1>6. ~AllSent /\ ~AllSent' /\ \A d : ~Over(d) /\ ~Over(d)'
  BY <1>2 DEF AllSent, Over
<1>7. pc["int"] \notin {"fill", "take", "cancel", "get", "put"}
  BY <1>1, <1>2, OneAtWork DEF AtWork
<1>8. Turns' /\ \A a, b : Before(a, b)' <=> Before(a, b)
  <2>1. ~Switching'
    BY <1>1, <1>2, NotSwitching
  <2>2. Signals("src") /\ equal' /\ pc' = [pc EXCEPT !["src"] = pc'["src"]] /\ AtWork("src")'
    BY <1>2, <1>4 DEF Signals, AtWork
  <2> QED
    BY <1>1, <1>2, <2>1, <2>2, PassGoesOn DEF Before, NoEvent
<1>9. state["src"] = "running" /\ state["int"] = "running" /\ Flowing
  BY <1>1, <1>2, <1>6, SourceRunsLast DEF Tasks, Flowing
<1>10. circ = <<>>
  BY <1>5, <1>7, <1>9 DEF Flow, Asleep, p
<1>11. Batches'
  <2>1. Batch("snk")'
    BY <1>1, <1>2, <1>3, <1>4, <1>6 DEF Flow, Batches, Batch, Up
  <2>2. Batch("int")'
    BY <1>1, <1>2, <1>3, <1>4, <1>5, <1>6, <1>7 DEF Flow, Batches, Batch, Up, p
  <2> QED
    BY <2>1, <2>2 DEF Batches, Sink
<1>12. Taking'
  BY <1>1, <1>2, <1>3, <1>4, <1>7 DEF Flow, Taking, Sink
<1>13. QueueHasRoom' /\ WholeBatch' /\ PassingOn'
  BY <1>1, <1>2, <1>4, <1>7, <1>10, EmptySeq DEF QueueHasRoom, WholeBatch, PassingOn
<1>14. PassedOn'
  BY <1>1, <1>2, <1>3, <1>4, <1>6, <1>7, <1>8 DEF Flow, PassedOn
<1>15. Asleep'
  BY <1>2, <1>9, <1>10 DEF Asleep
<1> QED
  BY <1>8, <1>11, <1>12, <1>13, <1>14, <1>15 DEF Flow

LEMMA GetFlow ==
  ASSUME IInv, equal, Flow, Get("int")
  PROVE  Flow'
<1> DEFINE q == port["snk"]
           r == GetMsgIdx(q)
           n == Len(circ)
<1>1. /\ TypeOK /\ OneCommand /\ Tasks /\ Turns
      /\ "src" \in Comp /\ "int" \in Comp /\ "snk" \in Comp /\ "int" \in Sink /\ "snk" \in Sink
  BY DEF IInv, Flow, Comp, Sink
<1>2. /\ RunsAt("int", "get") /\ pc["int"] = "get" /\ AtWork("int") /\ circ # <<>>
      /\ Pending(q) # {}
      /\ port' = [port EXCEPT !["snk"] = r]
      /\ pc' = [pc EXCEPT !["int"] = "put"] /\ NoEvent
      /\ UNCHANGED <<equal, state, cmd, mem, next, cnt, circ, alarm, tx, rx, plan, op, at, waiting>>
  BY DEF Get, RunsAt, AtWork, Sends, HasData, Down, Goto, ctl
<1>3. port'["snk"] = r /\ port'["int"] = port["int"]
  BY <1>1, <1>2 DEF TypeOK
<1>4. pc'["int"] = "put" /\ pc'["src"] = pc["src"] /\ pc'["snk"] = pc["snk"]
  BY <1>1, <1>2 DEF TypeOK
<1>5. /\ Apart(q) => Apart(r)
      /\ r.fullQ = q.fullQ /\ q.fullQ # <<>>
      /\ \A k \in Nat : Room(q, k) => Room(r, k)
      /\ \A k \in Nat : AllBut(q, k) => AllBut(r, k)
      /\ \A s \in Slot : r.st[s] = "completed" <=> q.st[s] = "completed"
  BY <1>1, <1>2, Ports, GetKeepsBatch, GetMsgIdxGood
<1>6. n \in Nat /\ n # 0
  BY <1>1, <1>2, EmptySeq, LenProperties DEF TypeOK
<1>7. /\ Untouched(port["int"])
      /\ Room(q, n) /\ (AllBut(q, n) \/ AllSent)
      /\ \A s \in Slot : q.st[s] = "completed" => Queued("snk")
  BY <1>2, <1>5 DEF Flow, PassingOn, Over
<1> HIDE DEF q, r, n
<1>8. /\ ~Over("snk") /\ ~Over("snk")' /\ (Over("int")' <=> Over("int")) /\ (AllSent' <=> AllSent)
      /\ Flowing' <=> Flowing
      /\ Queued("snk")' <=> Queued("snk")
  BY <1>2 DEF AllSent, Over, Flowing, Queued, NoEvent
<1>9. pc["snk"] \notin {"fill", "take", "cancel"}
  BY <1>1, <1>2, OneAtWork DEF AtWork
<1>10. Turns'
  <2>1. ~Switching'
    BY <1>1, <1>2, NotSwitching
  <2>2. Signals("int") /\ equal' /\ pc' = [pc EXCEPT !["int"] = pc'["int"]] /\ AtWork("int")'
    BY <1>2, <1>4 DEF Signals, AtWork
  <2> QED
    BY <1>1, <1>2, <2>1, <2>2, PassGoesOn
<1>11. Batches'
  <2>1. Batch("snk")'
    BY <1>1, <1>2, <1>3, <1>4, <1>5, <1>8, <1>9 DEF Flow, Batches, Batch, Up, q
  <2>2. Batch("int")'
    BY <1>1, <1>2, <1>3, <1>4, <1>8 DEF Flow, Batches, Batch, Up
  <2> QED
    BY <2>1, <2>2 DEF Batches, Sink
<1>12. Taking'
  BY <1>2, <1>4, <1>9 DEF Taking, Sink
<1>13. QueueHasRoom' /\ WholeBatch' /\ PassedOn'
  BY <1>3, <1>4, <1>7 DEF QueueHasRoom, WholeBatch, PassedOn
<1>14. Room(r, n) /\ (AllBut(r, n) \/ AllSent)
  BY <1>5, <1>6, <1>7
<1>15. PassingOn'
  BY <1>2, <1>3, <1>5, <1>7, <1>8, <1>14 DEF PassingOn, n
<1>16. Asleep'
  <2>1. state["int"] = "running"
    BY <1>1, <1>2 DEF Tasks
  <2> QED
    BY <1>2, <1>3, <1>4, <1>14, <2>1 DEF Asleep, n
<1> QED
  BY <1>10, <1>11, <1>12, <1>13, <1>15, <1>16 DEF Flow

LEMMA SourcePutFlow ==
  ASSUME IInv, equal, Flow, Put("src")
  PROVE  Flow'
<1> DEFINE p == port["int"]
           m == hold["src"]
           r == CompleteMsgIdx(p, m)
<1>1. /\ TypeOK /\ OneCommand /\ Lockstep /\ Tasks /\ Connections /\ Turns
      /\ "src" \in Comp /\ "int" \in Comp /\ "snk" \in Comp /\ "int" \in Sink /\ "snk" \in Sink
  BY DEF IInv, Flow, Comp, Sink
<1>2. /\ RunsAt("src", "put") /\ pc["src"] = "put" /\ AtWork("src")
      /\ port' = [port EXCEPT !["int"] = r]
      /\ SetEvent("int")
      /\ tx' = tx + 1 /\ circ' = circ
      /\ pc' = [pc EXCEPT !["src"] = "get"]
      /\ UNCHANGED <<equal, state, cmd, next, cnt, alarm, rx, plan, op, at, waiting>>
  BY DEF Put, RunsAt, AtWork, Down, Goto, ctl
<1>3. port'["int"] = r /\ port'["snk"] = port["snk"]
  BY <1>1, <1>2 DEF TypeOK
<1>4. pc'["src"] = "get" /\ pc'["int"] = pc["int"] /\ pc'["snk"] = pc["snk"]
  BY <1>1, <1>2 DEF TypeOK
<1>5. m \in Slot /\ p.st[m] = "processing" /\ p \in Connection /\ Ring(p)
  BY <1>1, <1>2, Ports DEF Connections, Up
<1>6. (Apart(p) => Apart(r)) /\ r.fullQ = p.fullQ /\ ~Untouched(p)
  BY <1>5, CompleteKeepsBatch, CompleteGood DEF Untouched
<1> HIDE DEF p, r, m
<1>7. /\ AllSent => AllSent'
      /\ \A d \in Sink : Over(d) => Over(d)'
      /\ ~Over("snk")
  <2>1. PICK x \in Nat : x = MaxTx[equal] /\ x = MaxTx[equal']
    BY <1>1, <1>2, MaxTxAssumption DEF TypeOK
  <2>2. AllSent => AllSent'
    <3>1. tx \in Nat
      BY <1>1 DEF TypeOK
    <3>2. ~(tx < x) => ~(tx' < x)
      BY <1>2, <3>1
    <3> QED
      BY <2>1, <3>2 DEF AllSent
  <2> QED
    BY <1>6, <2>2 DEF Over, Sink, p
<1>8. pc["int"] \notin {"fill", "take", "cancel", "get", "put"}
  BY <1>1, <1>2, OneAtWork DEF AtWork
<1>9. Turns' /\ \A a, b : Before(a, b) /\ a # b => Before(a, b)'
  <2>1. ~Switching'
    BY <1>1, <1>2, NotSwitching
  <2>2. Signals("src") /\ equal' /\ pc' = [pc EXCEPT !["src"] = pc'["src"]] /\ AtWork("src")'
    BY <1>2, <1>4 DEF Signals, AtWork, Comp
  <2> QED
    BY <1>1, <1>2, <2>1, <2>2, PassGoesOn
<1>10. state["int"] = "running"
  BY <1>1, <1>2, SourceRunsLast DEF Tasks
<1>11. circ = <<>>
  BY <1>6, <1>8 DEF Flow, QueueHasRoom, p
<1>12. Batches'
  <2>1. Batch("snk")'
    BY <1>1, <1>2, <1>3, <1>4, <1>7 DEF Flow, Batches, Batch, Up
  <2>2. Batch("int")'
    BY <1>1, <1>2, <1>3, <1>4, <1>6, <1>7, <1>8 DEF Flow, Batches, Batch, Up, p
  <2> QED
    BY <2>1, <2>2 DEF Batches, Sink
<1>13. Taking'
  BY <1>1, <1>2, <1>3, <1>4, <1>8 DEF Flow, Taking, Sink
<1>14. QueueHasRoom' /\ WholeBatch' /\ PassingOn'
  BY <1>1, <1>2, <1>4, <1>8, <1>11, EmptySeq DEF QueueHasRoom, WholeBatch, PassingOn
<1>15. PassedOn'
  BY <1>1, <1>2, <1>3, <1>4, <1>7, <1>8, <1>9 DEF Flow, PassedOn
<1>16. Asleep'
  BY <1>2, <1>10, <1>11 DEF Asleep
<1> QED
  BY <1>9, <1>12, <1>13, <1>14, <1>15, <1>16 DEF Flow

LEMMA PutFlow ==
  ASSUME IInv, equal, Flow, Put("int")
  PROVE  Flow'
<1> DEFINE q == port["snk"]
           m == hold["int"]
           r == CompleteMsgIdx(q, m)
           n == Len(circ)
<1>1. /\ TypeOK /\ OneCommand /\ Tasks /\ Connections /\ Sending /\ Turns
      /\ "src" \in Comp /\ "int" \in Comp /\ "snk" \in Comp /\ "int" \in Sink /\ "snk" \in Sink
  BY DEF IInv, Flow, Comp, Sink
<1>2. /\ RunsAt("int", "put") /\ pc["int"] = "put" /\ AtWork("int")
      /\ port' = [port EXCEPT !["snk"] = r]
      /\ SetEvent("snk")
      /\ tx' = tx /\ circ' = Tail(circ)
      /\ pc' = [pc EXCEPT !["int"] = "get"]
      /\ UNCHANGED <<equal, state, cmd, next, cnt, alarm, rx, plan, op, at, waiting>>
  BY DEF Put, RunsAt, AtWork, Down, Goto, ctl
<1>3. port'["snk"] = r /\ port'["int"] = port["int"]
  BY <1>1, <1>2 DEF TypeOK
<1>4. pc'["int"] = "get" /\ pc'["src"] = pc["src"] /\ pc'["snk"] = pc["snk"]
  BY <1>1, <1>2 DEF TypeOK
<1>5. m \in Slot /\ q.st[m] = "processing" /\ q \in Connection /\ Ring(q)
  BY <1>1, <1>2, Ports DEF Connections, Up
<1>6. circ # <<>> /\ n \in Nat \ {0} /\ n <= Depth /\ Len(Tail(circ)) = n - 1
  BY <1>1, <1>2, EmptySeq, LenProperties, HeadTailProperties DEF TypeOK, Sending
<1>7. q.fullQ # <<>> /\ ~Untouched(q)
  BY <1>5, NothingPending DEF Untouched
<1>8. /\ Untouched(port["int"])
      /\ Room(q, n) /\ (AllBut(q, n) \/ AllSent)
  BY <1>2, <1>6, <1>7 DEF Flow, PassingOn, Over
<1>9. /\ Apart(q) => Apart(r)
      /\ r.fullQ = q.fullQ
      /\ Room(r, n - 1) /\ (AllBut(r, n - 1) \/ AllSent)
  BY <1>5, <1>6, <1>8, CompleteKeepsBatch, CompleteGood
<1> HIDE DEF q, r, m, n
<1>10. ~Over("snk") /\ (Over("int")' <=> Over("int")) /\ (AllSent' <=> AllSent)
  BY <1>2, <1>6 DEF AllSent, Over
<1>11. pc["snk"] \in {"off", "wait"} /\ pc["snk"] # "off"
  BY <1>1, <1>2, <1>7, OneAtWork, Ports DEF AtWork, Tasks, q
<1>12. Turns'
  <2>1. ~Switching'
    BY <1>1, <1>2, NotSwitching
  <2>2. Signals("int") /\ equal' /\ pc' = [pc EXCEPT !["int"] = pc'["int"]] /\ AtWork("int")'
    BY <1>2, <1>4 DEF Signals, AtWork, Comp
  <2> QED
    BY <1>1, <1>2, <2>1, <2>2, PassGoesOn
<1>13. Queued("snk")'
  <2>1. ev'["snk"] = TRUE /\ pc'["snk"] = "wait"
    BY <1>1, <1>2, <1>4, <1>11 DEF SetEvent, TypeOK
  <2> QED
    BY <1>1, <1>12, <2>1 DEF Turns
<1>14. Batches'
  <2>1. Batch("snk")'
    BY <1>1, <1>2, <1>3, <1>4, <1>9, <1>10, <1>11 DEF Flow, Batches, Batch, Up, q
  <2>2. Batch("int")'
    BY <1>1, <1>2, <1>3, <1>4, <1>10 DEF Flow, Batches, Batch, Up
  <2> QED
    BY <2>1, <2>2 DEF Batches, Sink
<1>15. Taking'
  BY <1>4, <1>11 DEF Taking, Sink
<1>16. QueueHasRoom' /\ WholeBatch' /\ PassedOn'
  BY <1>3, <1>4, <1>8 DEF QueueHasRoom, WholeBatch, PassedOn
<1>17. PassingOn'
  BY <1>2, <1>3, <1>6, <1>8, <1>9, <1>10, <1>13 DEF PassingOn, n
<1>18. Asleep'
  <2>1. state["int"] = "running"
    BY <1>1, <1>2 DEF Tasks
  <2> QED
    BY <1>2, <1>3, <1>4, <1>6, <1>9, <2>1 DEF Asleep, n
<1> QED
  BY <1>12, <1>14, <1>15, <1>16, <1>17, <1>18 DEF Flow

LEMMA StutterFlow == ASSUME Flow, UNCHANGED vars PROVE Flow'
<1>1. /\ UNCHANGED <<equal, state, pc, ev, ready, cmd, port, mem, next, cnt, hold, circ, alarm,
                     tx, rx, plan, op, at, waiting>>
  BY DEF vars, comps, data, ctl
<1>2. /\ \A d : AtWork(d)' <=> AtWork(d)
      /\ \A d : Queued(d)' <=> Queued(d)
      /\ \A a, b : Before(a, b)' <=> Before(a, b)
      /\ \A d : Over(d)' <=> Over(d)
      /\ (AllSent' <=> AllSent) /\ (Flowing' <=> Flowing) /\ (Switching' <=> Switching)
  BY <1>1 DEF AtWork, Queued, Before, Over, AllSent, Flowing, Switching, Target, Chain
<1>3. Turns'
  BY <1>1, <1>2 DEF Flow, Turns
<1>4. Batches' /\ Taking'
  BY <1>1, <1>2 DEF Flow, Batches, Batch, Taking
<1>5. QueueHasRoom' /\ WholeBatch' /\ PassingOn' /\ PassedOn'
  BY <1>1, <1>2 DEF Flow, QueueHasRoom, WholeBatch, PassingOn, PassedOn
<1>6. Served' <=> Served
  BY <1>1, <1>2 DEF Served
<1>7. Asleep'
  BY <1>1, <1>2, <1>6 DEF Flow, Asleep
<1> QED
  BY <1>3, <1>4, <1>5, <1>7 DEF Flow

LEMMA NextKeepsEqual == [Next]_vars => equal' = equal
BY DEF Next, Controller, Call, SendCmd, RecvResp, RecvError, Responded, DataAlarm, ReadAlarm,
       Command, Wake, NoCmd, Defer, Refuse, Obey, InPort, CancelAll, Cancel, Cancelled, Fill,
       Take, Taken, OutPort, Get, SentAll, Put, vars

LEMMA FlowInv ==
  ASSUME IInv, equal => Flow, [Next]_vars
  PROVE  (equal => Flow)'
<1>1. equal' = equal
  BY NextKeepsEqual
<1> SUFFICES ASSUME equal
             PROVE  Flow'
  BY <1>1
<1>2. CASE Controller \/ DataAlarm \/ ReadAlarm
  BY <1>2, CallFlow, SendCmdFlow, ResponseFlow, DataAlarmFlow, ReadAlarmFlow DEF Controller
<1>3. CASE \E c \in Comp : Command(c)
  BY <1>3, WakeFlow, CommandStaysFlow, ObeyFlow DEF Command
<1>4. CASE \E c \in Sink : InPort(c)
  BY <1>4, CancelAllFlow, CancelFlow, CancelledFlow, FillFlow, FilledFlow, TakeFlow, TakenFlow
  DEF InPort
<1>5. CASE \E c \in {"src", "int"} : OutPort(c)
  BY <1>5, SourceGetFlow, GetFlow, SourceSentFlow, AllSentFlow, SourcePutFlow, PutFlow DEF OutPort
<1>6. CASE UNCHANGED vars
  BY <1>6, StutterFlow
<1> QED
  BY <1>2, <1>3, <1>4, <1>5, <1>6 DEF Next

-----------------------------------------------------------------------------
(* The bytes that have arrived in a connection.                            *)

Bytes(p, M) == [i \in 1 .. Arrived(p) |-> M[p.buf[Handles(p)[i]]]]

LEMMA HandlesAre ==
  ASSUME NEW p \in Connection, Ring(p), NEW i \in 1 .. Len(p.fullQ)
  PROVE  /\ Handles(p)[i] = Behind(p.wr, Len(p.fullQ) - i + 1)
         /\ Handles(p)[i] \in Slot
         /\ Age(p.wr, Handles(p)[i]) = Len(p.fullQ) - i + 1
         /\ p.st[Handles(p)[i]] # "init"
<1> DEFINE n == Len(p.fullQ)
<1>1. n \in 0 .. Depth /\ p.wr \in Slot
  BY ConnectionIs
<1>2. Handles(p)[i] = Behind(p.wr, n - i + 1)
  BY DEF Handles, Ring
<1>3. /\ Behind(p.wr, n - i + 1) \in Slot
      /\ Age(p.wr, Behind(p.wr, n - i + 1)) = n - i + 1
  BY <1>1, BehindIs
<1>4. n - i + 1 <= n
  BY <1>1
<1> QED
  BY <1>2, <1>3, <1>4 DEF Ring

LEMMA ArrivedIs ==
  ASSUME NEW p \in Connection, Ring(p)
  PROVE  /\ Arrived(p) \in 0 .. Len(p.fullQ)
         /\ \A i \in 1 .. Len(p.fullQ) : p.st[Handles(p)[i]] = "completed" <=> i <= Arrived(p)
<1> DEFINE n == Len(p.fullQ)
           Is(k) == /\ \A i \in 1 .. k : p.st[Handles(p)[i]] = "completed"
                    /\ k < n => p.st[Handles(p)[k + 1]] # "completed"
           T == {i \in 1 .. n : p.st[Handles(p)[i]] # "completed"}
<1>1. n \in Nat /\ p.st \in [Slot -> Status]
  BY ConnectionIs
<1>2. \E k \in 0 .. n : Is(k)
  <2>1. CASE T = {}
    BY <1>1, <2>1
  <2>2. CASE T # {}
    <3>1. PICK x \in T : \A y \in T : <<y, x>> \notin Smaller
      <4>1. T \subseteq Nat
        BY <1>1
      <4> HIDE DEF T
      <4> QED
        BY <2>2, <4>1, WFMin, SmallerIsWellFounded
    <3>2. x \in 1 .. n /\ p.st[Handles(p)[x]] # "completed"
      OBVIOUS
    <3>3. ASSUME NEW i \in 1 .. x - 1
          PROVE  p.st[Handles(p)[i]] = "completed"
      <4>1. i \in 1 .. n /\ i < x /\ i \in Nat /\ x \in Nat
        BY <1>1, <3>2
      <4>2. i \notin T
        BY <3>1, <4>1 DEF Smaller
      <4> QED
        BY <4>1, <4>2
    <3>4. x - 1 \in 0 .. n /\ x - 1 + 1 = x
      BY <1>1, <3>2
    <3>5. Is(x - 1)
      BY <3>2, <3>3, <3>4
    <3> QED
      BY <3>4, <3>5
  <2> QED
    BY <2>1, <2>2
<1>3. Arrived(p) \in 0 .. n /\ Is(Arrived(p))
  BY <1>2 DEF Arrived
<1>4. ASSUME NEW i \in 1 .. n, i > Arrived(p)
      PROVE  p.st[Handles(p)[i]] # "completed"
  <2>1. Arrived(p) + 1 \in 1 .. n /\ Arrived(p) < n
    BY <1>1, <1>3, <1>4
  <2>2. p.st[Handles(p)[Arrived(p) + 1]] # "completed"
    BY <1>3, <2>1
  <2>3. CompletedFirst(p)
    BY RingFollows
  <2>4. i = Arrived(p) + 1 \/ Arrived(p) + 1 < i
    BY <1>1, <1>3, <1>4
  <2> QED
    BY <2>1, <2>2, <2>3, <2>4 DEF CompletedFirst
<1>5. ASSUME NEW i \in 1 .. n, i <= Arrived(p)
      PROVE  p.st[Handles(p)[i]] = "completed"
  BY <1>1, <1>3, <1>5
<1> QED
  BY <1>1, <1>3, <1>4, <1>5

LEMMA ArrivedOnly ==
  ASSUME NEW p \in Connection, Ring(p), NEW k \in 0 .. Len(p.fullQ),
         \A i \in 1 .. Len(p.fullQ) : p.st[Handles(p)[i]] = "completed" <=> i <= k
  PROVE  Arrived(p) = k
<1> DEFINE a == Arrived(p)
<1>1. /\ a \in 0 .. Len(p.fullQ) /\ Len(p.fullQ) \in Nat
      /\ \A i \in 1 .. Len(p.fullQ) : i <= a <=> i <= k
  BY ArrivedIs, ConnectionIs
<1> HIDE DEF a
<1>2. ~(a < k)
  <2> SUFFICES ASSUME a < k
               PROVE  FALSE
    OBVIOUS
  <2>1. a + 1 \in 1 .. Len(p.fullQ) /\ a + 1 <= k
    BY <1>1
  <2> QED
    BY <1>1, <2>1
<1>3. ~(k < a)
  <2> SUFFICES ASSUME k < a
               PROVE  FALSE
    OBVIOUS
  <2>1. k + 1 \in 1 .. Len(p.fullQ) /\ k + 1 <= a
    BY <1>1
  <2> QED
    BY <1>1, <2>1
<1> QED
  BY <1>1, <1>2, <1>3 DEF a

LEMMA BytesAre ==
  ASSUME NEW p \in Connection, Ring(p), NEW M \in [Buf -> Nat]
  PROVE  /\ Bytes(p, M) \in Seq(Nat)
         /\ Len(Bytes(p, M)) = Arrived(p) /\ Arrived(p) \in 0 .. Len(p.fullQ)
         /\ \A i \in 1 .. Arrived(p) : Bytes(p, M)[i] = M[p.buf[Handles(p)[i]]]
         /\ Untouched(p) => Bytes(p, M) = <<>>
<1> DEFINE a == Arrived(p)
           b == Bytes(p, M)
<1>1. a \in 0 .. Len(p.fullQ) /\ Len(p.fullQ) \in Nat /\ p.buf \in [Slot -> Buf]
  BY ArrivedIs, ConnectionIs
<1>2. \A i \in 1 .. a : i \in 1 .. Len(p.fullQ) /\ Handles(p)[i] \in Slot
  BY <1>1, HandlesAre
<1>3. \A i \in 1 .. a : M[p.buf[Handles(p)[i]]] \in Nat
  BY <1>1, <1>2
<1>4. b = [i \in 1 .. a |-> M[p.buf[Handles(p)[i]]]]
  BY DEF Bytes
<1> HIDE DEF a, b
<1>5. b \in [1 .. a -> Nat] /\ a \in Nat
  BY <1>1, <1>3, <1>4
<1>6. b \in Seq(Nat)
  BY <1>5, SeqDef
<1>7. Len(b) = a
  BY <1>5, <1>6, LenProperties
<1>8. Untouched(p) => a = 0
  <2> SUFFICES ASSUME Untouched(p), a # 0
               PROVE  FALSE
    OBVIOUS
  <2>1. 1 \in 1 .. Len(p.fullQ) /\ 1 <= a
    BY <1>1
  <2> QED
    BY <2>1, ArrivedIs, HandlesAre DEF Untouched, a
<1>9. Untouched(p) => b = <<>>
  <2>1. b # <<>> => Len(b) \in Nat \ {0}
    BY <1>6, EmptySeq
  <2> QED
    BY <1>7, <1>8, <2>1
<1> QED
  BY <1>1, <1>4, <1>6, <1>7, <1>9 DEF a, b

LEMMA SameBytes ==
  ASSUME NEW p \in Connection, NEW r \in Connection, Ring(p), Ring(r), NEW M \in [Buf -> Nat],
         r.fullQ = p.fullQ, r.wr = p.wr, r.buf = p.buf,
         \A s \in Slot : r.st[s] = "completed" <=> p.st[s] = "completed"
  PROVE  Bytes(r, M) = Bytes(p, M)
<1>1. \A i \in 1 .. Len(p.fullQ) : Handles(r)[i] = Handles(p)[i] /\ Handles(p)[i] \in Slot
  BY HandlesAre
<1>2. Arrived(r) = Arrived(p)
  BY <1>1, ArrivedIs, ArrivedOnly
<1>3. \A i \in 1 .. Arrived(p) : i \in 1 .. Len(p.fullQ)
  BY ArrivedIs, ConnectionIs
<1> QED
  BY <1>1, <1>2, <1>3 DEF Bytes

\* A buffer that is posted has not arrived, ...
LEMMA FillBytes ==
  ASSUME NEW p \in Connection, NEW b \in Buf, Ring(p), CanFill(p), NEW M \in [Buf -> Nat]
  PROVE  Bytes(FillBuffer(p, b), M) = Bytes(p, M)
<1> DEFINE r == FillBuffer(p, b)
           n == Len(p.fullQ)
<1>1. /\ r \in Connection /\ Ring(r) /\ Len(r.fullQ) = n + 1
      /\ n \in 0 .. Depth /\ n < Depth /\ p.wr \in Slot
  BY FillBufferGood, FillKeepsBatch, ConnectionIs
<1>2. /\ r.st = [p.st EXCEPT ![p.wr] = "posted"] /\ r.wr = After(p.wr)
      /\ r.buf = [p.buf EXCEPT ![p.wr] = b]
      /\ p.buf \in [Slot -> Buf] /\ p.st \in [Slot -> Status]
  BY FillBufferGood, FillKeepsBatch, ConnectionIs
<1> HIDE DEF r, n
<1>3. ASSUME NEW i \in 1 .. n
      PROVE  /\ Handles(r)[i] = Handles(p)[i]
             /\ r.st[Handles(p)[i]] = p.st[Handles(p)[i]]
             /\ r.buf[Handles(p)[i]] = p.buf[Handles(p)[i]]
  <2>1. PICK k \in 1 .. Depth : k = n - i + 1
    BY <1>1, DepthAssumption
  <2>2. i \in 1 .. n + 1 /\ (n + 1) - i + 1 = k + 1
    BY <1>1, <2>1
  <2>3. Handles(p)[i] = Behind(p.wr, k)
    BY <2>1, HandlesAre DEF n
  <2>4. Handles(r)[i] = Behind(r.wr, k + 1)
    BY <1>1, <2>2, HandlesAre
  <2>5. Behind(After(p.wr), k + 1) = Behind(p.wr, k) /\ Behind(p.wr, k) # p.wr
        /\ Behind(p.wr, k) \in Slot
    BY <1>1, Backs
  <2> QED
    BY <1>1, <1>2, <2>3, <2>4, <2>5
<1>4. r.st[Handles(r)[n + 1]] = "posted"
  <2>1. n + 1 \in 1 .. n + 1 /\ (n + 1) - (n + 1) + 1 = 1 /\ 1 \in 1 .. Depth
    BY <1>1, DepthAssumption
  <2>2. Handles(r)[n + 1] = Behind(r.wr, 1)
    BY <1>1, <2>1, HandlesAre
  <2> QED
    BY <1>1, <1>2, <2>1, <2>2, Backs
<1>5. Arrived(p) \in 0 .. n
  BY ArrivedIs DEF n
<1>6. ASSUME NEW i \in 1 .. n + 1
      PROVE  r.st[Handles(r)[i]] = "completed" <=> i <= Arrived(p)
  <2>1. CASE i \in 1 .. n
    BY <1>3, <2>1, ArrivedIs DEF n
  <2>2. CASE i = n + 1
    BY <1>1, <1>4, <1>5, <2>2
  <2> QED
    BY <1>1, <2>1, <2>2
<1>7. Arrived(p) \in 0 .. n + 1
  BY <1>1, <1>5
<1>8. Arrived(r) = Arrived(p)
  BY <1>1, <1>6, <1>7, ArrivedOnly
<1>9. \A i \in 1 .. Arrived(p) : i \in 1 .. n
  BY <1>1, <1>5
<1> QED
  BY <1>3, <1>8, <1>9 DEF Bytes, r

\* ... the oldest that has arrived is the one taken, ...
LEMMA TakeBytes ==
  ASSUME NEW p \in Connection, Ring(p), Len(p.fullQ) > 0, p.st[HeadMsg(p)] = "completed",
         NEW M \in [Buf -> Nat]
  PROVE  /\ M[HeadBuf(p)] \in Nat
         /\ Bytes(p, M) = <<M[HeadBuf(p)]>> \o Bytes(TakeHead(p), M)
<1> DEFINE r == TakeHead(p)
           n == Len(p.fullQ)
           k == Arrived(p)
           m == HeadMsg(p)
           v == M[HeadBuf(p)]
<1>1. /\ r \in Connection /\ Ring(r) /\ Len(r.fullQ) = n - 1 /\ n \in 1 .. Depth
      /\ r.st = [p.st EXCEPT ![m] = "init"] /\ p.wr \in Slot /\ m \in Slot
      /\ r.wr = p.wr /\ r.buf = p.buf /\ Age(p.wr, m) = n
      /\ p.buf \in [Slot -> Buf] /\ p.st \in [Slot -> Status]
  BY TakeHeadGood, TakeKeepsBatch, ConnectionIs, HeadMsgIs, DepthAssumption
<1> HIDE DEF r
<1>2. Handles(p)[1] = m
  <2>1. Handles(p)[1] \in Slot /\ Age(p.wr, Handles(p)[1]) = n
    BY <1>1, HandlesAre
  <2> QED
    BY <1>1, <2>1, Ages
<1>3. v = M[p.buf[m]] /\ v \in Nat
  BY <1>1 DEF HeadBuf
<1>4. k \in 1 .. n
  <2>1. k \in 0 .. n /\ 1 <= k
    BY <1>1, <1>2, ArrivedIs
  <2> QED
    BY <1>1, <2>1
<1> HIDE DEF n, m, v
<1>5. ASSUME NEW i \in 1 .. n - 1
      PROVE  /\ Handles(r)[i] = Handles(p)[i + 1]
             /\ r.st[Handles(p)[i + 1]] = p.st[Handles(p)[i + 1]]
  <2>1. i + 1 \in 1 .. n /\ n - 1 - i + 1 = n - (i + 1) + 1 /\ n - (i + 1) + 1 # n
    BY <1>1
  <2>2. /\ Handles(p)[i + 1] = Behind(p.wr, n - (i + 1) + 1)
        /\ Age(p.wr, Handles(p)[i + 1]) = n - (i + 1) + 1 /\ Handles(p)[i + 1] \in Slot
    BY <2>1, HandlesAre DEF n
  <2>3. Handles(r)[i] = Behind(p.wr, n - 1 - i + 1)
    BY <1>1, HandlesAre
  <2>4. Handles(p)[i + 1] # m
    BY <1>1, <2>1, <2>2
  <2> QED
    BY <1>1, <2>1, <2>2, <2>3, <2>4
<1>6. Arrived(r) = k - 1
  <2>1. k - 1 \in 0 .. n - 1
    BY <1>1, <1>4
  <2>2. ASSUME NEW i \in 1 .. n - 1
        PROVE  r.st[Handles(r)[i]] = "completed" <=> i <= k - 1
    <3>1. i + 1 \in 1 .. n /\ (i + 1 <= k <=> i <= k - 1)
      BY <1>1, <1>4
    <3> QED
      BY <1>5, <3>1, ArrivedIs DEF n
  <2> QED
    BY <1>1, <2>1, <2>2, ArrivedOnly
<1>7. /\ Bytes(p, M) \in Seq(Nat) /\ Len(Bytes(p, M)) = k
      /\ \A i \in 1 .. k : Bytes(p, M)[i] = M[p.buf[Handles(p)[i]]]
  BY BytesAre
<1>8. /\ Bytes(r, M) \in Seq(Nat) /\ Len(Bytes(r, M)) = k - 1
      /\ \A i \in 1 .. k - 1 : Bytes(r, M)[i] = M[p.buf[Handles(r)[i]]]
  <2>1. /\ Bytes(r, M) \in Seq(Nat) /\ Len(Bytes(r, M)) = Arrived(r)
        /\ \A i \in 1 .. Arrived(r) : Bytes(r, M)[i] = M[r.buf[Handles(r)[i]]]
    BY <1>1, BytesAre
  <2> HIDE DEF k
  <2> QED
    BY <1>1, <1>6, <2>1
<1>9. <<v>> \in Seq(Nat) /\ Len(<<v>>) = 1 /\ <<v>>[1] = v
  BY <1>3
<1>10. /\ <<v>> \o Bytes(r, M) \in Seq(Nat) /\ Len(<<v>> \o Bytes(r, M)) = k
       /\ \A i \in 1 .. k : (<<v>> \o Bytes(r, M))[i] =
                               IF i <= 1 THEN v ELSE Bytes(r, M)[i - 1]
  <2>1. k \in Nat /\ 1 + (k - 1) = k
    BY <1>1, <1>4
  <2> HIDE DEF k
  <2>2. \A i \in 1 .. k : i <= 1 => i = 1
    BY <2>1
  <2> QED
    BY <1>8, <1>9, <2>1, <2>2, ConcatProperties
<1>11. ASSUME NEW i \in 1 .. k
       PROVE  Bytes(p, M)[i] = (<<v>> \o Bytes(r, M))[i]
  <2>1. CASE i = 1
    <3>1. Bytes(p, M)[1] = v
      BY <1>2, <1>3, <1>4, <1>7, <2>1
    <3>2. (<<v>> \o Bytes(r, M))[1] = v
      BY <1>4, <1>10, <2>1
    <3> QED
      BY <2>1, <3>1, <3>2
  <2>2. CASE i # 1
    <3>1. i - 1 \in 1 .. k - 1 /\ i - 1 \in 1 .. n - 1 /\ i - 1 + 1 = i /\ ~(i <= 1)
      BY <1>1, <1>4, <2>2
    <3>2. Handles(r)[i - 1] = Handles(p)[i]
      BY <1>5, <3>1
    <3> QED
      BY <1>7, <1>8, <1>10, <3>1, <3>2
  <2> QED
    BY <2>1, <2>2
<1>12. Bytes(p, M) = <<v>> \o Bytes(r, M)
  BY <1>7, <1>10, <1>11, SeqEqual
<1> QED
  BY <1>3, <1>12 DEF r, v

\* ... and the one completed comes after those that have arrived.
LEMMA PutBytes ==
  ASSUME NEW p \in Connection, Ring(p), Apart(p), NEW m \in Slot, p.st[m] = "processing",
         NEW M \in [Buf -> Nat], NEW v \in Nat
  PROVE  Bytes(CompleteMsgIdx(p, m), [M EXCEPT ![p.buf[m]] = v]) = Append(Bytes(p, M), v)
<1> DEFINE r == CompleteMsgIdx(p, m)
           n == Len(p.fullQ)
           k == Arrived(p)
           N == [M EXCEPT ![p.buf[m]] = v]
<1>1. /\ r \in Connection /\ Ring(r) /\ r.fullQ = p.fullQ /\ n \in 0 .. Depth
      /\ r.st = [p.st EXCEPT ![m] = "completed"] /\ p.wr \in Slot
      /\ r.wr = p.wr /\ r.buf = p.buf
      /\ p.buf \in [Slot -> Buf] /\ p.st \in [Slot -> Status]
      /\ k \in 0 .. n
  BY CompleteGood, CompleteKeepsBatch, ConnectionIs, ArrivedIs
<1>2. N \in [Buf -> Nat] /\ N[p.buf[m]] = v /\ \A b \in Buf : b # p.buf[m] => N[b] = M[b]
  BY <1>1
<1>3. ASSUME NEW i \in 1 .. n
      PROVE  /\ Handles(r)[i] = Handles(p)[i] /\ Handles(p)[i] \in Slot
             /\ Age(p.wr, Handles(p)[i]) = n - i + 1
             /\ p.st[Handles(p)[i]] # "init"
             /\ p.st[Handles(p)[i]] = "completed" <=> i <= k
  BY <1>1, HandlesAre, ArrivedIs
<1> HIDE DEF r, n, k, N
<1>4. PICK j \in 1 .. n : Handles(p)[j] = m /\ Age(p.wr, m) = n - j + 1
  <2>1. PICK a \in 1 .. n : a = Age(p.wr, m)
    <3>1. Age(p.wr, m) \in 1 .. Depth + 1 /\ Age(p.wr, m) <= n
      BY InUse DEF n
    <3> QED
      BY <1>1, <3>1, DepthAssumption
  <2>2. n - a + 1 \in 1 .. n /\ n - (n - a + 1) + 1 = a
    BY <1>1, <2>1
  <2>3. Handles(p)[n - a + 1] \in Slot /\ Age(p.wr, Handles(p)[n - a + 1]) = a
    BY <1>3, <2>2
  <2>4. Handles(p)[n - a + 1] = m
    BY <1>1, <2>1, <2>3, Ages
  <2> QED
    BY <2>1, <2>2, <2>4
<1>5. ~(j <= k)
  BY <1>3, <1>4
<1>6. ~(k + 1 < j)
  <2> SUFFICES ASSUME k + 1 < j
               PROVE  FALSE
    OBVIOUS
  <2>1. k + 1 \in 1 .. n /\ ~(k + 1 <= k) /\ n - j + 1 < n - (k + 1) + 1
    BY <1>1, <1>4
  <2>2. p.st[Handles(p)[k + 1]] # "completed" /\ p.st[Handles(p)[k + 1]] # "init"
        /\ Handles(p)[k + 1] \in Slot /\ Age(p.wr, m) < Age(p.wr, Handles(p)[k + 1])
    BY <1>3, <1>4, <2>1
  <2> QED
    BY <2>2 DEF Ring
<1>7. j = k + 1
  BY <1>1, <1>4, <1>5, <1>6
<1>8. ASSUME NEW i \in 1 .. n, i # k + 1
      PROVE  Handles(p)[i] # m
  BY <1>1, <1>3, <1>4, <1>7, <1>8
<1>9. Arrived(r) = k + 1
  <2>1. k + 1 \in 0 .. n
    BY <1>1, <1>4, <1>7
  <2>2. ASSUME NEW i \in 1 .. n
        PROVE  r.st[Handles(r)[i]] = "completed" <=> i <= k + 1
    <3>1. CASE i = k + 1
      BY <1>1, <1>3, <1>4, <1>7, <3>1
    <3>2. CASE i # k + 1
      <4>1. i <= k + 1 <=> i <= k
        BY <1>1, <3>2
      <4> QED
        BY <1>1, <1>3, <1>8, <3>2, <4>1
    <3> QED
      BY <3>1, <3>2
  <2> QED
    BY <1>1, <2>1, <2>2, ArrivedOnly DEF n
<1>10. /\ Bytes(p, M) \in Seq(Nat) /\ Len(Bytes(p, M)) = k
       /\ \A i \in 1 .. k : Bytes(p, M)[i] = M[p.buf[Handles(p)[i]]]
  BY BytesAre DEF k
<1>11. /\ Bytes(r, N) \in Seq(Nat) /\ Len(Bytes(r, N)) = k + 1
       /\ \A i \in 1 .. k + 1 : Bytes(r, N)[i] = N[p.buf[Handles(r)[i]]]
  <2>1. /\ Bytes(r, N) \in Seq(Nat) /\ Len(Bytes(r, N)) = Arrived(r)
        /\ \A i \in 1 .. Arrived(r) : Bytes(r, N)[i] = N[r.buf[Handles(r)[i]]]
    BY <1>1, <1>2, BytesAre
  <2> QED
    BY <1>1, <1>9, <2>1
<1>12. /\ Append(Bytes(p, M), v) \in Seq(Nat) /\ Len(Append(Bytes(p, M), v)) = k + 1
       /\ \A i \in 1 .. k : Append(Bytes(p, M), v)[i] = Bytes(p, M)[i]
       /\ Append(Bytes(p, M), v)[k + 1] = v
  BY <1>10, AppendProperties
<1>13. ASSUME NEW i \in 1 .. k + 1
       PROVE  Bytes(r, N)[i] = Append(Bytes(p, M), v)[i]
  <2>1. i \in 1 .. n
    BY <1>1, <1>4, <1>7
  <2>2. CASE i = k + 1
    BY <1>2, <1>3, <1>4, <1>7, <1>11, <1>12, <2>1, <2>2
  <2>3. CASE i # k + 1
    <3>1. i \in 1 .. k
      BY <1>1, <2>3
    <3>2. Handles(p)[i] # m /\ Handles(p)[i] \in Slot /\ p.st[Handles(p)[i]] # "init"
      BY <1>3, <1>8, <2>1, <2>3
    <3>3. p.buf[Handles(p)[i]] # p.buf[m] /\ p.buf[Handles(p)[i]] \in Buf
      BY <1>1, <3>2 DEF Apart
    <3> QED
      <4>1. Append(Bytes(p, M), v)[i] = M[p.buf[Handles(p)[i]]]
        BY <1>10, <1>12, <3>1
      <4>2. Bytes(r, N)[i] = N[p.buf[Handles(p)[i]]]
        BY <1>3, <1>11, <2>1
      <4> QED
        BY <1>2, <3>3, <4>1, <4>2
  <2> QED
    BY <2>2, <2>3
<1>14. Bytes(r, N) = Append(Bytes(p, M), v)
  BY <1>11, <1>12, <1>13, SeqEqual
<1> QED
  BY <1>14 DEF r, N

-----------------------------------------------------------------------------
(* The stream of bytes.                                                    *)

\* ExSrc has a byte to send when it has taken a buffer for it.
SourceSending == pc["src"] = "put" => ~AllSent

LEMMA InitSourceSending == Init => SourceSending
BY DEF Init, SourceSending, Comp

LEMMA SourceSendingInv ==
  ASSUME TypeOK, SourceSending, [Next]_vars
  PROVE  SourceSending'
<1> SUFFICES ASSUME pc'["src"] = "put"
             PROVE  ~AllSent'
  BY DEF SourceSending
<1>1. pc \in [Comp -> {"off", "wait", "cmd", "cancel", "fill", "take", "data", "get", "put"}]
      /\ "src" \in Comp
  BY DEF TypeOK, Comp
<1>2. ASSUME pc["src"] = "put", UNCHANGED <<equal, tx>>
      PROVE  ~AllSent'
  BY <1>2 DEF SourceSending, AllSent
<1>3. CASE Controller
  <2>1. pc["src"] = "put"
    BY <1>1, <1>3
    DEF Controller, Call, SendCmd, RecvResp, RecvError, Responded, comps
  <2> QED
    BY <1>2, <1>3, <2>1
    DEF Controller, Call, SendCmd, RecvResp, RecvError, Responded, data
<1>4. CASE DataAlarm
  BY <1>2, <1>4 DEF DataAlarm
<1>5. CASE ReadAlarm
  BY <1>1, <1>5 DEF ReadAlarm, Goto, Sleep
<1>6. ASSUME NEW c \in Comp, NEW w, w # "put", pc' = [pc EXCEPT ![c] = w],
             UNCHANGED <<equal, tx>>
      PROVE  ~AllSent'
  BY <1>1, <1>2, <1>6
<1>7. ASSUME NEW c \in Comp, NEW s, NEW e, EndPass(c, s, e), UNCHANGED <<equal, tx>>
      PROVE  ~AllSent'
  BY <1>6, <1>7 DEF EndPass, Terminate, Sleep, Goto
<1>8. ASSUME NEW c \in Comp, Command(c)
      PROVE  ~AllSent'
  <2>1. CASE Wake(c)
    BY <1>6, <2>1 DEF Wake, Goto, data
  <2>2. ASSUME GoOn(c), UNCHANGED <<equal, tx>>
        PROVE  ~AllSent'
    BY <1>6, <1>7, <2>2 DEF GoOn, Goto
  <2>3. CASE NoCmd(c) \/ Defer(c) \/ Refuse(c)
    BY <2>2, <2>3 DEF NoCmd, Defer, Refuse, data
  <2>4. CASE Obey(c)
    BY <1>7, <2>4 DEF Obey, Obeyed
  <2> QED
    BY <1>8, <2>1, <2>3, <2>4 DEF Command
<1>9. ASSUME NEW c \in Sink, InPort(c)
      PROVE  ~AllSent'
  <2>1. c \in Comp /\ c # "src"
    BY DEF Sink, Comp
  <2>2. pc'["src"] = pc["src"]
    BY <1>1, <1>9, <2>1
    DEF InPort, CancelAll, Cancel, Cancelled, Obeyed, EndPass, Terminate, Sleep, Goto, Fill,
        Take, Taken
  <2> QED
    BY <1>2, <1>9, <2>2 DEF InPort, CancelAll, Cancel, Cancelled, Fill, Take, Taken, data
<1>10. ASSUME NEW c \in {"src", "int"}, OutPort(c)
       PROVE  ~AllSent'
  <2>1. c \in Comp
    BY DEF Comp
  <2>2. CASE Get(c)
    <3>1. c = "src" => ~AllSent /\ UNCHANGED <<equal, tx>>
      BY <2>2 DEF Get, Sends, HasData, AllSent
    <3>2. c = "int" => pc'["src"] = pc["src"] /\ UNCHANGED <<equal, tx>>
      BY <1>1, <2>2 DEF Get, Goto
    <3> QED
      BY <1>2, <3>1, <3>2 DEF AllSent
  <2>3. CASE SentAll(c)
    BY <1>6, <2>1, <2>3 DEF SentAll, Sleep, Goto, data
  <2>4. CASE Put(c)
    <3>1. pc' = [pc EXCEPT ![c] = "get"]
      BY <2>4 DEF Put, Goto
    <3>2. c = "int" => pc["src"] = "put" /\ UNCHANGED <<equal, tx>>
      BY <1>1, <2>4, <3>1 DEF Put
    <3> QED
      BY <1>1, <1>2, <3>1, <3>2
  <2> QED
    BY <1>10, <2>2, <2>3, <2>4 DEF OutPort
<1>11. CASE UNCHANGED vars
  BY <1>2, <1>11 DEF vars, comps, data
<1> QED
  BY <1>3, <1>4, <1>5, <1>8, <1>9, <1>10, <1>11 DEF Next

\* A byte that goes from the front of a sequence to the end of the one before it
\* keeps its place in the whole.
LEMMA PassedAlong ==
  ASSUME NEW s \in Seq(Nat), NEW t \in Seq(Nat), NEW v \in Nat
  PROVE  Append(s, v) \o t = s \o (<<v>> \o t)
<1>1. Append(s, v) = s \o <<v>> /\ <<v>> \in Seq(Nat)
  BY AppendIsConcat
<1> QED
  BY <1>1, ConcatAssociative

LEMMA Regrouped ==
  ASSUME NEW a \in Seq(Nat), NEW b \in Seq(Nat), NEW d \in Seq(Nat)
  PROVE  (a \o b) \o d = a \o (b \o d)
BY ConcatAssociative

LEMMA PassedOver ==
  ASSUME NEW a \in Seq(Nat), NEW b \in Seq(Nat), NEW d \in Seq(Nat), NEW v \in Nat
  PROVE  (a \o Append(b, v)) \o d = (a \o b) \o (<<v>> \o d)
<1> DEFINE w == Append(b, v)
           x == <<v>> \o d
<1>1. w \in Seq(Nat)
  BY AppendProperties
<1>2. x \in Seq(Nat)
  <2>1. <<v>> \in Seq(Nat)
    OBVIOUS
  <2> QED
    BY <2>1, ConcatProperties
<1>3. w \o d = b \o x
  BY PassedAlong
<1> HIDE DEF w, x
<1>4. (a \o w) \o d = a \o (w \o d)
  BY <1>1, Regrouped
<1>5. (a \o b) \o x = a \o (b \o x)
  BY <1>2, ConcatAssociative
<1>6. (a \o w) \o d = (a \o b) \o x
  BY <1>3, <1>4, <1>5
<1> QED
  BY <1>6 DEF w, x

LEMMA HeadAndTail ==
  ASSUME NEW s \in Seq(Nat), s # <<>>
  PROVE  Head(s) \in Nat /\ Tail(s) \in Seq(Nat) /\ s = <<Head(s)>> \o Tail(s)
<1>1. /\ Head(s) \in Nat /\ Tail(s) \in Seq(Nat) /\ Len(s) \in Nat \ {0} /\ Head(s) = s[1]
      /\ Len(Tail(s)) = Len(s) - 1 /\ \A i \in 1 .. Len(Tail(s)) : Tail(s)[i] = s[i + 1]
  BY HeadTailProperties, EmptySeq
<1>2. <<Head(s)>> \in Seq(Nat) /\ Len(<<Head(s)>>) = 1 /\ <<Head(s)>>[1] = Head(s)
  BY <1>1
<1>3. /\ <<Head(s)>> \o Tail(s) \in Seq(Nat) /\ Len(<<Head(s)>> \o Tail(s)) = Len(s)
      /\ \A i \in 1 .. Len(s) :
           (<<Head(s)>> \o Tail(s))[i] = IF i <= 1 THEN <<Head(s)>>[i] ELSE Tail(s)[i - 1]
  BY <1>1, <1>2, ConcatProperties
<1>4. ASSUME NEW i \in 1 .. Len(s)
      PROVE  s[i] = (<<Head(s)>> \o Tail(s))[i]
  <2>1. CASE i = 1
    BY <1>1, <1>2, <1>3, <2>1
  <2>2. CASE i # 1
    <3>1. i - 1 \in 1 .. Len(Tail(s)) /\ i - 1 + 1 = i /\ ~(i <= 1)
      BY <1>1, <2>2
    <3> QED
      BY <1>1, <1>3, <3>1
  <2> QED
    BY <2>1, <2>2
<1> QED
  BY <1>1, <1>3, <1>4, SeqEqual

LEMMA StreamIs ==
  ASSUME IInv
  PROVE  /\ Stream = rx \o Bytes(port["snk"], mem["snk"]) \o circ \o Bytes(port["int"], mem["int"])
         /\ rx \in Seq(Nat) /\ circ \in Seq(Nat)
         /\ \A c \in Sink : mem[c] \in [Buf -> Nat] /\ Bytes(port[c], mem[c]) \in Seq(Nat)
         /\ "int" \in Sink /\ "snk" \in Sink
<1>1. \A c \in Sink : mem[c] \in [Buf -> Nat] /\ port[c] \in Connection /\ Ring(port[c])
  BY DEF IInv, TypeOK, Connections
<1>2. \A c \in Sink : Bytes(port[c], mem[c]) \in Seq(Nat)
  BY <1>1, BytesAre
<1> QED
  BY <1>1, <1>2 DEF Stream, Arriving, Bytes, IInv, TypeOK, Sink

LEMMA StreamNext ==
  Stream' = rx' \o Bytes(port'["snk"], mem'["snk"]) \o circ' \o Bytes(port'["int"], mem'["int"])
BY DEF Stream, Arriving, Bytes

LEMMA SameStream ==
  ASSUME IInv, UNCHANGED <<rx, circ, mem>>,
         \A c \in Sink : Bytes(port'[c], mem[c]) = Bytes(port[c], mem[c])
  PROVE  Stream' = Stream
BY StreamIs, StreamNext

LEMMA ObeyStream ==
  ASSUME IInv, NEW c \in Comp, Obey(c)
  PROVE  Stream' = Stream
<1>1. TypeOK /\ OneCommand /\ Lockstep /\ Tasks /\ Connections
  BY DEF IInv
<1>2. PICK m \in Move(c) : IF m[2] = "init" THEN PortsInit(c) ELSE UNCHANGED port
  BY DEF Obey
<1>3. pc[c] = "cmd" /\ UNCHANGED <<rx, circ, mem>>
  BY DEF Obey, RunsAt
<1>4. m[1] = state[c] /\ m[2] = cmd[c] /\ (m[2] = "init" => m[1] = "reset")
  BY DEF Move, Moves, SourceMoves
<1>5. CASE m[2] = "init"
  <2>1. \A d \in Sink : d = c \/ Up(d) = c => state[d] # "running"
    BY <1>1, <1>3, <1>4, <1>5, InitFindsSinkAtRest
  <2>2. PortsInit(c)
    BY <1>2, <1>5
  <2>3. /\ port' \in [Sink -> Connection]
        /\ \A d \in Sink : /\ Ring(port'[d])
                           /\ port'[d].fullQ = port[d].fullQ /\ port'[d].st = port[d].st
                           /\ port'[d].wr = port[d].wr /\ port'[d].buf = port[d].buf
    BY <1>1, <2>1, <2>2, PortsInitIs, PortsInitSame
  <2>4. ASSUME NEW d \in Sink
        PROVE  Bytes(port'[d], mem[d]) = Bytes(port[d], mem[d])
    <3>1. port[d] \in Connection /\ Ring(port[d]) /\ mem[d] \in [Buf -> Nat]
          /\ port'[d] \in Connection
      BY <1>1, <2>3 DEF TypeOK, Connections
    <3> QED
      BY <2>3, <3>1, SameBytes
  <2> QED
    BY <1>3, <2>4, SameStream
<1>6. CASE m[2] # "init"
  BY <1>2, <1>3, <1>6, SameStream
<1> QED
  BY <1>5, <1>6

LEMMA FillStream ==
  ASSUME IInv, NEW c \in Sink, Fill(c)
  PROVE  Stream' = Stream
<1>1. TypeOK /\ Connections /\ UNCHANGED <<rx, circ, mem>>
  BY DEF IInv, Fill
<1>2. CASE CanFill(port[c])
  <2>1. port' = [port EXCEPT ![c] = FillBuffer(port[c], next[c])] /\ next[c] \in Buf
    BY <1>1, <1>2 DEF Fill, TypeOK
  <2>2. ASSUME NEW d \in Sink
        PROVE  Bytes(port'[d], mem[d]) = Bytes(port[d], mem[d])
    <3>1. port[d] \in Connection /\ Ring(port[d]) /\ mem[d] \in [Buf -> Nat]
      BY <1>1 DEF TypeOK, Connections
    <3>2. CASE d = c
      <4>1. port'[d] = FillBuffer(port[d], next[c])
        BY <1>1, <2>1, <3>2 DEF TypeOK
      <4> QED
        BY <1>2, <2>1, <3>1, <3>2, <4>1, FillBytes
    <3>3. CASE d # c
      BY <1>1, <2>1, <3>3 DEF TypeOK
    <3> QED
      BY <3>2, <3>3
  <2> QED
    BY <1>1, <2>2, SameStream
<1>3. CASE ~CanFill(port[c])
  BY <1>1, <1>3, SameStream DEF Fill
<1> QED
  BY <1>2, <1>3

LEMMA GetStream ==
  ASSUME IInv, NEW c \in {"src", "int"}, Get(c)
  PROVE  Stream' = Stream
<1>1. TypeOK /\ Connections /\ UNCHANGED <<rx, circ, mem>> /\ Down(c) \in Sink
  BY DEF IInv, Get, Down, Sink
<1>2. /\ port' = [port EXCEPT ![Down(c)] = GetMsgIdx(port[Down(c)])]
      /\ Pending(port[Down(c)]) # {}
  BY <1>1 DEF Get, Sends
<1>3. ASSUME NEW d \in Sink
      PROVE  Bytes(port'[d], mem[d]) = Bytes(port[d], mem[d])
  <2>1. port[d] \in Connection /\ Ring(port[d]) /\ mem[d] \in [Buf -> Nat]
    BY <1>1 DEF TypeOK, Connections
  <2>2. CASE d = Down(c)
    <3>1. port'[d] = GetMsgIdx(port[d])
      BY <1>1, <1>2, <2>2 DEF TypeOK
    <3>2. /\ port'[d] \in Connection /\ Ring(port'[d]) /\ port'[d].fullQ = port[d].fullQ
          /\ port'[d].buf = port[d].buf /\ port'[d].wr = port[d].wr
          /\ \A s \in Slot : port'[d].st[s] = "completed" <=> port[d].st[s] = "completed"
      <4> DEFINE p == port[d]
                 r == GetMsgIdx(p)
      <4>1. p \in Connection /\ Ring(p) /\ Pending(p) # {}
        BY <1>2, <2>1, <2>2
      <4> HIDE DEF p
      <4>2. /\ r \in Connection /\ Ring(r) /\ r.fullQ = p.fullQ
            /\ r.buf = p.buf /\ r.wr = p.wr
            /\ \A s \in Slot : r.st[s] = "completed" <=> p.st[s] = "completed"
        BY <4>1, GetMsgIdxGood, GetKeepsBatch
      <4> HIDE DEF r
      <4>3. port'[d] = r
        BY <3>1 DEF r, p
      <4> QED
        BY <4>2, <4>3 DEF p
    <3> QED
      BY <2>1, <3>2, SameBytes
  <2>3. CASE d # Down(c)
    BY <1>1, <1>2, <2>3 DEF TypeOK
  <2> QED
    BY <2>2, <2>3
<1> QED
  BY <1>1, <1>3, SameStream

LEMMA HeadGoesStream ==
  ASSUME IInv, equal, Flow, NEW c \in Sink, HeadGoes(c)
  PROVE  Stream' = Stream
<1> DEFINE p == port[c]
           r == TakeHead(p)
           v == mem[c][HeadBuf(p)]
           A(d) == Bytes(port[d], mem[d])
           B(d) == Bytes(port'[d], mem[d])
<1>1. /\ TypeOK /\ Turns /\ c \in Comp /\ Up(c) \in Comp \ {c} /\ UNCHANGED mem
      /\ pc[c] \in {"take", "cancel"} /\ AtWork(c)
      /\ HeadStatus(c) # "processing" /\ HeadStatus(c) = p.st[HeadMsg(p)]
      /\ IF HeadStatus(c) = "completed" THEN FillBufferDone(c) ELSE UNCHANGED <<circ, rx>>
  BY DEF IInv, Flow, HeadGoes, AtWork, HeadStatus, Comp, Sink, Up
<1>2. /\ p \in Connection /\ Ring(p) /\ mem[c] \in [Buf -> Nat]
      /\ Len(p.fullQ) > 0 /\ Len(p.fullQ) \in 0 .. Depth
  BY <1>1, Ports DEF HeadGoes, TypeOK
<1>3. port'[c] = r /\ (\A d \in Sink \ {c} : port'[d] = port[d])
  BY <1>1 DEF HeadGoes, TypeOK
<1>4. \A d \in Sink \ {c} : B(d) = A(d)
  BY <1>3
<1>5. /\ Stream = rx \o A("snk") \o circ \o A("int")
      /\ Stream' = rx' \o B("snk") \o circ' \o B("int")
      /\ rx \in Seq(Nat) /\ circ \in Seq(Nat)
      /\ \A d \in Sink : A(d) \in Seq(Nat)
  BY <1>1, StreamIs, StreamNext
<1>6. CASE HeadStatus(c) # "completed"
  <2>1. \A s \in Slot : p.st[s] # "processing"
    <3>1. ~AtWork(Up(c))
      BY <1>1, OneAtWork
    <3> QED
      BY <3>1, <1>1, NothingInTheWorks
  <2>2. Untouched(p) /\ Untouched(r) /\ r \in Connection /\ Ring(r)
    BY <1>1, <1>2, <1>6, <2>1, TakeKeepsBatch, TakeHeadGood
  <2>3. B(c) = <<>> /\ A(c) = <<>>
    BY <1>2, <1>3, <2>2, BytesAre
  <2>4. \A d \in Sink : B(d) = A(d)
    BY <1>4, <2>3
  <2> QED
    BY <1>1, <1>6, <2>4, SameStream
<1>7. CASE HeadStatus(c) = "completed"
  <2>1. v \in Nat /\ A(c) = <<v>> \o B(c) /\ B(c) \in Seq(Nat)
    <3>1. v \in Nat /\ A(c) = <<v>> \o Bytes(r, mem[c])
      BY <1>1, <1>2, <1>7, TakeBytes
    <3>2. r \in Connection /\ Ring(r)
      BY <1>2, TakeHeadGood
    <3> QED
      BY <1>2, <1>3, <3>1, <3>2, BytesAre
  <2>2. FillBufferDone(c)
    BY <1>1, <1>7
  <2> HIDE DEF v, A, B
  <2>3. CASE c = "snk"
    <3>1. rx' = Append(rx, v) /\ circ' = circ /\ B("int") = A("int")
      BY <1>4, <2>2, <2>3 DEF FillBufferDone, v, Sink
    <3>2. Append(rx, v) \o B("snk") = rx \o (<<v>> \o B("snk"))
      BY <1>5, <2>1, <2>3, PassedAlong
    <3> QED
      BY <1>5, <2>1, <2>3, <3>1, <3>2
  <2>4. CASE c = "int"
    <3>1. Len(circ) < Depth
      <4>1. HeadMsg(p) \in Slot
        BY <1>2, HeadMsgIs
      <4>2. ~Untouched(p)
        BY <1>1, <1>7, <4>1 DEF Untouched
      <4>3. Len(circ) + Len(p.fullQ) <= Depth
        BY <1>1, <2>4, <4>2 DEF Flow, QueueHasRoom
      <4>4. Len(circ) \in Nat
        BY <1>5, LenProperties
      <4> QED
        BY <1>2, <4>3, <4>4, DepthAssumption
    <3>2. rx' = rx /\ circ' = Append(circ, v) /\ B("snk") = A("snk")
      BY <1>4, <2>2, <2>4, <3>1 DEF FillBufferDone, v, Sink
    <3>3. rx \o A("snk") \in Seq(Nat)
      <4>1. A("snk") \in Seq(Nat)
        BY <1>5 DEF Sink
      <4> QED
        BY <1>5, <4>1, ConcatProperties
    <3> DEFINE X == rx \o A("snk")
               b == B("int")
    <3>4. Stream = (X \o circ) \o (<<v>> \o b) /\ Stream' = (X \o Append(circ, v)) \o b
      BY <1>5, <2>1, <2>4, <3>2
    <3>5. X \in Seq(Nat) /\ b \in Seq(Nat) /\ circ \in Seq(Nat) /\ v \in Nat
      BY <1>5, <2>1, <2>4, <3>3
    <3> HIDE DEF X, b
    <3>6. (X \o Append(circ, v)) \o b = (X \o circ) \o (<<v>> \o b)
      BY <3>5, PassedOver
    <3> QED
      BY <3>4, <3>6
  <2> QED
    BY <2>3, <2>4 DEF Sink
<1> QED
  BY <1>6, <1>7

LEMMA PutStream ==
  ASSUME IInv, equal, Flow, Put("int")
  PROVE  Stream' = Stream
<1> DEFINE q == port["snk"]
           m == hold["int"]
           v == Head(circ)
           A(d) == Bytes(port[d], mem[d])
           B(d) == Bytes(port'[d], mem'[d])
<1>1. TypeOK /\ Connections /\ Sending /\ "int" \in Sink /\ "snk" \in Sink
  BY DEF IInv, Sink
<1>2. /\ pc["int"] = "put"
      /\ mem' = [mem EXCEPT !["snk"][q.buf[m]] = v]
      /\ port' = [port EXCEPT !["snk"] = CompleteMsgIdx(q, m)]
      /\ circ' = Tail(circ) /\ rx' = rx
  BY DEF Put, RunsAt, Down
<1>3. m \in Slot /\ q.st[m] = "processing" /\ q \in Connection /\ Ring(q)
  BY <1>1, <1>2, Ports DEF Connections, Up
<1>4. circ # <<>> /\ circ \in Seq(Nat)
  BY <1>1, <1>2 DEF Sending, TypeOK
<1>5. v \in Nat /\ Tail(circ) \in Seq(Nat) /\ circ = <<v>> \o Tail(circ)
  BY <1>4, HeadAndTail
<1>6. Apart(q)
  BY <1>1, <1>4 DEF Flow, Batches, Batch, Over
<1>7. /\ Stream = rx \o A("snk") \o circ \o A("int")
      /\ Stream' = rx' \o B("snk") \o circ' \o B("int")
      /\ rx \in Seq(Nat)
      /\ A("snk") \in Seq(Nat) /\ A("int") \in Seq(Nat) /\ mem["snk"] \in [Buf -> Nat]
  BY <1>1, StreamIs, StreamNext
<1>8. B("int") = A("int")
  BY <1>1, <1>2 DEF TypeOK
<1>9. B("snk") = Append(A("snk"), v)
  <2>1. port'["snk"] = CompleteMsgIdx(q, m) /\ mem'["snk"] = [mem["snk"] EXCEPT ![q.buf[m]] = v]
    BY <1>1, <1>2 DEF TypeOK
  <2>2. mem["snk"] \in [Buf -> Nat]
    BY <1>7
  <2> HIDE DEF v, q, m
  <2>3. Bytes(CompleteMsgIdx(q, m), [mem["snk"] EXCEPT ![q.buf[m]] = v]) =
          Append(Bytes(q, mem["snk"]), v)
    BY <1>3, <1>5, <1>6, <2>2, PutBytes
  <2> QED
    BY <2>1, <2>3 DEF q
<1> HIDE DEF A, B, v
<1>10. rx \o Append(A("snk"), v) = Append(rx \o A("snk"), v) /\ rx \o A("snk") \in Seq(Nat)
  <2>1. /\ rx \o A("snk") \in Seq(Nat) /\ <<v>> \in Seq(Nat)
        /\ Append(A("snk"), v) = A("snk") \o <<v>>
    BY <1>5, <1>7, ConcatProperties, AppendIsConcat
  <2>2. Append(rx \o A("snk"), v) = (rx \o A("snk")) \o <<v>>
    BY <1>5, <2>1, AppendIsConcat
  <2>3. (rx \o A("snk")) \o <<v>> = rx \o (A("snk") \o <<v>>)
    BY <1>7, <2>1, ConcatAssociative
  <2> QED
    BY <2>1, <2>2, <2>3
<1>11. Append(rx \o A("snk"), v) \o Tail(circ) = (rx \o A("snk")) \o circ
  BY <1>5, <1>10, PassedAlong
<1> QED
  BY <1>2, <1>7, <1>8, <1>9, <1>10, <1>11

\* Only ExSrc makes it longer, by the next number.
LEMMA SourcePutStream ==
  ASSUME IInv, equal, Flow, SourceSending, Put("src")
  PROVE  tx' = tx + 1 /\ Stream' = Append(Stream, tx + 1) /\ Stream \in Seq(Nat)
<1> DEFINE q == port["int"]
           m == hold["src"]
           A(d) == Bytes(port[d], mem[d])
           B(d) == Bytes(port'[d], mem'[d])
<1>1. TypeOK /\ Connections /\ "int" \in Sink /\ "snk" \in Sink
  BY DEF IInv, Sink
<1>2. /\ pc["src"] = "put"
      /\ mem' = [mem EXCEPT !["int"][q.buf[m]] = tx + 1]
      /\ port' = [port EXCEPT !["int"] = CompleteMsgIdx(q, m)]
      /\ circ' = circ /\ rx' = rx /\ tx' = tx + 1
  BY DEF Put, RunsAt, Down
<1>3. m \in Slot /\ q.st[m] = "processing" /\ q \in Connection /\ Ring(q)
  BY <1>1, <1>2, Ports DEF Connections, Up
<1>4. PICK v \in Nat : v = tx + 1
  BY <1>1 DEF TypeOK
<1>5. Apart(q)
  BY <1>1, <1>2 DEF Flow, Batches, Batch, Over, SourceSending
<1>6. /\ Stream = rx \o A("snk") \o circ \o A("int")
      /\ Stream' = rx' \o B("snk") \o circ' \o B("int")
      /\ rx \in Seq(Nat) /\ circ \in Seq(Nat)
      /\ A("snk") \in Seq(Nat) /\ A("int") \in Seq(Nat) /\ mem["int"] \in [Buf -> Nat]
  BY <1>1, StreamIs, StreamNext
<1>7. B("snk") = A("snk")
  BY <1>1, <1>2 DEF TypeOK
<1>8. B("int") = Append(A("int"), v)
  <2>1. port'["int"] = CompleteMsgIdx(q, m) /\ mem'["int"] = [mem["int"] EXCEPT ![q.buf[m]] = v]
    BY <1>1, <1>2, <1>4 DEF TypeOK
  <2>2. mem["int"] \in [Buf -> Nat]
    BY <1>6
  <2> HIDE DEF q, m
  <2>3. Bytes(CompleteMsgIdx(q, m), [mem["int"] EXCEPT ![q.buf[m]] = v]) =
          Append(Bytes(q, mem["int"]), v)
    BY <1>3, <1>5, <2>2, PutBytes
  <2> QED
    BY <2>1, <2>3 DEF q
<1> HIDE DEF A, B
<1> DEFINE X == rx \o A("snk") \o circ
<1>9. X \in Seq(Nat)
  <2>1. rx \o A("snk") \in Seq(Nat)
    BY <1>6, ConcatProperties
  <2> QED
    BY <1>6, <2>1, ConcatProperties
<1>10. Stream = X \o A("int") /\ Stream' = X \o Append(A("int"), v)
  BY <1>2, <1>6, <1>7, <1>8
<1> HIDE DEF X
<1>11. Append(A("int"), v) = A("int") \o <<v>> /\ <<v>> \in Seq(Nat) /\ X \o A("int") \in Seq(Nat)
  BY <1>6, <1>9, AppendIsConcat, ConcatProperties
<1>12. X \o (A("int") \o <<v>>) = (X \o A("int")) \o <<v>>
  BY <1>6, <1>9, <1>11, ConcatAssociative
<1>13. Append(X \o A("int"), v) = (X \o A("int")) \o <<v>>
  BY <1>11, AppendIsConcat
<1> QED
  BY <1>2, <1>4, <1>10, <1>11, <1>12, <1>13

LEMMA StreamStep ==
  ASSUME IInv, equal, Flow, SourceSending, [Next]_vars
  PROVE  \/ tx' = tx /\ Stream' = Stream
         \/ tx' = tx + 1 /\ Stream' = Append(Stream, tx + 1) /\ Stream \in Seq(Nat)
<1>1. ASSUME UNCHANGED <<port, mem, rx, circ, tx>>
      PROVE  tx' = tx /\ Stream' = Stream
  BY <1>1, SameStream
<1>2. CASE Controller
  BY <1>1, <1>2 DEF Controller, Call, SendCmd, RecvResp, RecvError, Responded, data
<1>3. CASE DataAlarm \/ ReadAlarm \/ UNCHANGED vars
  BY <1>1, <1>3 DEF DataAlarm, ReadAlarm, vars, data
<1>4. ASSUME NEW c \in Comp, Command(c)
      PROVE  tx' = tx /\ Stream' = Stream
  <2>1. CASE Wake(c) \/ NoCmd(c) \/ Defer(c) \/ Refuse(c)
    BY <1>1, <2>1 DEF Wake, NoCmd, Defer, Refuse, data
  <2>2. CASE Obey(c)
    BY <2>2, ObeyStream DEF Obey
  <2> QED
    BY <1>4, <2>1, <2>2 DEF Command
<1>5. ASSUME NEW c \in Sink, InPort(c)
      PROVE  tx' = tx /\ Stream' = Stream
  <2>1. CASE CancelAll(c) \/ Cancelled(c) \/ Taken(c)
    BY <1>1, <2>1 DEF CancelAll, Cancelled, Taken, data
  <2>2. CASE Fill(c)
    BY <2>2, FillStream DEF Fill
  <2>3. CASE Cancel(c)
    BY <2>3, CancelHeadGoes, HeadGoesStream DEF Cancel
  <2>4. CASE Take(c)
    BY <2>4, TakeHeadGoes, HeadGoesStream DEF Take, Flow
  <2> QED
    BY <1>5, <2>1, <2>2, <2>3, <2>4 DEF InPort
<1>6. ASSUME NEW c \in {"src", "int"}, OutPort(c)
      PROVE  \/ tx' = tx /\ Stream' = Stream
             \/ tx' = tx + 1 /\ Stream' = Append(Stream, tx + 1) /\ Stream \in Seq(Nat)
  <2>1. CASE Get(c)
    BY <2>1, GetStream DEF Get
  <2>2. CASE SentAll(c)
    BY <1>1, <2>2 DEF SentAll, data
  <2>3. CASE Put(c)
    BY <2>3, PutStream, SourcePutStream DEF Put
  <2> QED
    BY <1>6, <2>1, <2>2, <2>3 DEF OutPort
<1> QED
  BY <1>2, <1>3, <1>4, <1>5, <1>6 DEF Next

LEMMA InitStream == Init => Stream = [i \in 1 .. tx |-> i]
<1> SUFFICES ASSUME Init
             PROVE  Stream = [i \in 1 .. tx |-> i]
  OBVIOUS
<1>1. rx = <<>> /\ circ = <<>> /\ tx = 0 /\ \A c \in Sink : port[c] = NewConnection
  BY DEF Init
<1>2. IInv
  BY InitInv
<1>3. \A c \in Sink : port[c] \in Connection /\ Ring(port[c]) /\ Untouched(port[c])
  BY <1>1, NewConnectionGood DEF Untouched
<1>4. \A c \in Sink : Bytes(port[c], mem[c]) = <<>>
  BY <1>2, <1>3, StreamIs, BytesAre
<1>5. Stream = <<>> \o <<>> \o <<>> \o <<>>
  BY <1>1, <1>2, <1>4, StreamIs
<1>6. <<>> \in Seq(Nat)
  BY EmptySeq
<1>7. <<>> \o <<>> = <<>>
  BY <1>6, ConcatEmptySeq
<1>8. Stream = <<>>
  BY <1>5, <1>7
<1>9. [i \in 1 .. 0 |-> i] \in [1 .. 0 -> Nat] /\ [i \in 1 .. 0 |-> i] \in Seq(Nat)
  BY SeqDef
<1>10. Len([i \in 1 .. 0 |-> i]) = 0
  BY <1>9, LenProperties
<1>11. [i \in 1 .. 0 |-> i] = <<>>
  BY <1>9, <1>10, EmptySeq
<1> QED
  BY <1>1, <1>8, <1>11

\* The numbers up to n, and the next.
LEMMA OneMore ==
  ASSUME NEW n \in Nat
  PROVE  Append([i \in 1 .. n |-> i], n + 1) = [i \in 1 .. n + 1 |-> i]
<1> DEFINE s == [i \in 1 .. n |-> i]
           t == [i \in 1 .. n + 1 |-> i]
<1>1. s \in [1 .. n -> Nat] /\ t \in [1 .. n + 1 -> Nat] /\ n + 1 \in Nat
  OBVIOUS
<1>2. \A i \in 1 .. n : s[i] = i
  OBVIOUS
<1>3. \A i \in 1 .. n + 1 : t[i] = i
  OBVIOUS
<1> HIDE DEF s, t
<1>4. s \in Seq(Nat) /\ t \in Seq(Nat)
  BY <1>1, SeqDef
<1>5. Len(s) = n /\ Len(t) = n + 1
  BY <1>1, <1>4, LenProperties
<1>6. /\ Append(s, n + 1) \in Seq(Nat) /\ Len(Append(s, n + 1)) = n + 1
      /\ \A i \in 1 .. n : Append(s, n + 1)[i] = s[i]
      /\ Append(s, n + 1)[n + 1] = n + 1
  BY <1>1, <1>4, <1>5, AppendProperties
<1>7. ASSUME NEW i \in 1 .. n + 1
      PROVE  Append(s, n + 1)[i] = t[i]
  <2>1. i \in 1 .. n \/ i = n + 1
    OBVIOUS
  <2> QED
    BY <1>2, <1>3, <1>6, <2>1
<1>8. Append(s, n + 1) = t
  BY <1>4, <1>5, <1>6, <1>7, SeqEqual
<1> QED
  BY <1>8 DEF s, t

\* With the priorities of the test, every byte sent is received, in the queue of
\* ExInt or in a buffer on its way, once and in its place.
THEOREM NoByteIsLost == Spec => []NothingLost
<1>1. Init => NothingLost
  BY InitStream DEF NothingLost
<1>2. IInv /\ (equal => Flow) /\ SourceSending /\ NothingLost /\ [Next]_vars => NothingLost'
  <2> SUFFICES ASSUME IInv, equal => Flow, SourceSending, NothingLost, [Next]_vars, equal'
               PROVE  Stream' = [i \in 1 .. tx' |-> i]
    BY DEF NothingLost
  <2>1. equal' = equal
    BY NextKeepsEqual
  <2>2. tx \in Nat /\ Stream = [i \in 1 .. tx |-> i]
    BY <2>1 DEF IInv, TypeOK, NothingLost
  <2>3. \/ tx' = tx /\ Stream' = Stream
        \/ tx' = tx + 1 /\ Stream' = Append(Stream, tx + 1)
    BY <2>1, StreamStep
  <2> QED
    BY <2>2, <2>3, OneMore
<1>3. IInv /\ SourceSending /\ [Next]_vars => SourceSending'
  BY SourceSendingInv DEF IInv
<1>4. IInv /\ (equal => Flow) /\ [Next]_vars => (equal => Flow)'
  BY FlowInv
<1>5. Init => (equal => Flow)
  BY InitFlow
<1> QED
  BY <1>1, <1>2, <1>3, <1>4, <1>5, InitSourceSending, Invariant, PTL DEF Spec

==============================================================================
