# A TLA+ model of the hydra SDK

The repository is the SDK of an automotive system on chip (BCM8910x): a
bootloader, drivers, an Ethernet/AVB stack, multimedia components and
applications, in C, on one Cortex-M core under the ERIKA (OSEK) operating
system with fixed-priority preemption.  This directory holds specifications of
the parts whose logic is hard to test, the TLC runs that check them on small
instances, and theorems checked by TLAPS.

Contents: 1 inventory, 2 modules, 3 runs, 4 fairness and deadlock, 5 proofs,
6 what the runs found, 7 what is not modelled, 8 state and further work.

## 1. Inventory

How the parts interact.  Most of the SDK has one shape: a *client API* posts a
message in a queue (MSGQ, LWQ or CIRCQ) and sets an OSEK event; a *server task*
waits for events, takes a copy of the pending ones, clears those and runs state
machines; *interrupt handlers* only set events; results come back as events and
through a `..._GetStatus` call.  Below, "state" is what outlives a call.

| Part | State | Operations | What is hard | What makes it correct |
|---|---|---|---|---|
| **CIRCQ** `system/utils/lib/circ_queue.c`, `cpu/arm/lib/atomic.c` | read and write index in one word, lock count, slots | Push, Pop, Peek, Reset, predicates | pushes from tasks and interrupts nest inside each other and inside a pop; no lock, only LDREX/STREX and a count | no object lost, doubled or read before it is written; count exact |
| **Flash driver** `drivers/flash` | operation and sub-operation states, error and indication flags, bus command, controller, chip | Erase, Write, Read, Compare, DeInit, StateHandler | an operation is many transfers, each resumed by an interrupt's event; a chip ignores commands silently | success only when the chip did the work; every operation ends |
| **Flash manager** `system/nvm/lib/flsmgr.c`, `os/erika/flsmgr_osil.c` | state, queue of messages, message in process | client calls, server task | events set while others are handled, two state machines in one task | no wake-up lost, each message answered once, with its own result |
| **Partition table manager** `system/nvm/lib/ptm.c`, `os/erika/ptm_osil.c` | tables read, state, two handles of flash manager messages, a shared RAM buffer | LoadImg, Load-/Write-/EraseUserData, server side | one request is two flash messages, the queue may refuse the second; data pass through one buffer; power failures | an answer says what the flash holds; no slot leaks |
| **Bootloader update** `bootloader/control/bl_updater.c`, `bootloader/utils/bl_ptm.c`, `bl_main.c` | partition table copies, image tables, images in flash; PTM state in RAM | start-up, UpdateFlashPiecewise | power failure between any two flash operations; retries; redundant copies | a bootable copy survives; success means flashed |
| Bootloader downloaders `bl_tftp_downloader.c`, `bl_ram_downloader.c`, `bl_ipc_downloader.c` | transfer state, sequence numbers | receive a package | lost and repeated packets, time-outs | the package flashed is the one sent |
| Message queues MSGQ, LWQ | slots and their states | send, receive, complete, cancel | prebuilt: only headers are in the tree | external FIFO of slots here |
| System IPC, notifications `sys_ipc.c`, `sys_notify.c` | one reply buffer, commands in process | SendCmd, CmdHandler, CmdStatus | one static reply for all commands | reply belongs to its command |
| **Media framework** `media_port.c`, `media_system.c`, `component.c`, `os/erika/examples` | data queue and cached handles of each connection, life cycle of the components | FillBuffer, InPortProcess, InPortCancelAll; Init, Configure, Start, Stop, DeInit | a stop in mid-stream cancels requests in every state; a call that fails half way; results that are ignored | handles are the messages; nothing lost, doubled or overtaken; the components agree |
| **Ethernet transmit path** `eth_cntlr_buf.c`, `amac.c`, `eth_time_v1.c`, `ethernet.c`, `nif.c`, `comms_osil.c` | buffer states and ring indices, DMA descriptors, wait queue of 1588 time stamps, NIF's state of a buffer | NIF_GetTxBuffer, NIF_EnableTxTimestamp, NIF_Send, two interrupts, CommsTask | five views of one buffer, changed by clients, interrupts, DMA and a task | a buffer in one place and one hand; each packet confirmed once, with its own stamp |
| Ethernet reception, mode changes | receive ring | RX indication, NIF filters | - | - |
| Ethernet switch, PHY, MDIO | register shadows | configuration | little | - |
| COMMS, RPC, FQTSS (but for the above) | server task, link states | message handlers | like the flash manager | - |
| IEEE 1722, RTP, 802.1AS, RFS, inet | packet queues (CIRCQ), streams | components and glue of prebuilt stacks | packets from interrupt to task | uses CIRCQ |
| UART console, CAN, SPI, I2C, LIN, DMA | transfers in progress | start, interrupt, result | interrupt against API | single transfers |
| Other drivers, utilities, display, security, wireless | registers, tables | - | little, or prebuilt | - |
| Multimedia components, applications | configuration of components | - | ride on the media framework | - |
| ERIKA, prebuilt libraries, build, tools | - | - | third-party or generated | - |

`PROJECT.json` lists every part with its sources, the reason when it is not
modelled, and under "hazards" each thing that is hard to test, at its line.

## 2. Modules

| Module | Models | Proved |
|---|---|---|
| `CircQueue`, `MCCircQueue` | CIRCQ step by step, with preemption and the exclusive monitor | `CircQueueProofs`, `CircFifoProofs` |
| `BoundedFifo` | what CIRCQ promises: a FIFO with atomic operations | `CircFifoProofs` |
| `FlashDriver` | flash.c over qspi.c, as operators from a state to its outcomes | - |
| `FlashServer` | clients, message queue, server task and FLSMGR states over `FlashDriver`, the controller and the chip | `FlashServerProofs`, `FlashChipProofs` |
| `PartitionMgr`, `MCPartitionMgr` | PTM in the server task, its clients, an abstract flash manager | `PartitionMgrProofs` |
| `BootUpdate`, `MCBootUpdate` | service update and start-up of the bootloader | `BootUpdateProofs` |
| `EthTx` | clients, NIF, driver, DMA, interrupts and CommsTask on the way of a packet out | `EthTxProofs` |
| `MediaPort` | one connection of the media framework, as operators on a record | `MediaPipeProofs` |
| `MediaPipe`, `MCMediaPipe` | three components over two connections, the controller, and the scheduler | `MediaPipeProofs` |

### CircQueue
A context is a preemption level; a higher one may begin a call between any two
steps of a lower one and runs it to the end (`MayRun`).  One step is one access
to a shared word or the copy of one object.  `rd`, `wr` are the halves of
`qIndex`, which the code always stores together; `qLock` is the count of pushes
in progress; `mon` is the exclusive monitor, which exception entry and return
clear (`OtherException` stands for interrupts that do not use the queue).
`got` and `promised` are history.  `CIRCQ_Pop` and `CIRCQ_Peek` are documented
non-reentrant: one context pops.  Object sizes and the packing of the index
word are left out; `Advance` is the mask arithmetic for the arguments it gets.

### FlashDriver, FlashServer
The driver runs in the server task only, so a driver call is an operator from
the state `[fls, bus, eng, faults, ind]` to the set of its outcomes: the loop of
`FLASH_StateHandler` and everything it calls is one step, as nothing else can
touch that state meanwhile.  The controller (`HwXferDone`, `HwReadData`) and the
chip (`HwDevEnd`) are actions of their own, and interrupts set `FLASH0` in
`evt`.  The chip has a write enable latch and a busy bit, and ignores a command
that comes without the one or during the other.  The server's
`BCM_WaitEvent`/`BCM_GetEvent`, `BCM_ClearEvent`, driver and manager are
separate steps, so that clients and interrupts come in between.  Lengths count
units (sectors, pages, interrupts of a read).  `FaultKinds` are a write enable
that does not take, a failure in the flag status register, and a read session
that fails to start or to stop.

### PartitionMgr
`st`, `opState`, `userTbl`, `h0`, `h1` are the members of `PTM_Comp`; `ram` is
`PTM_UserData`, which queued messages point to.  The flash manager is a queue of
messages done in order, of `Slots` slots, of which `Others` may be held by other
clients.  Waiting for events, reading and clearing them is one step here:
`FlashServer` has them apart and checks that nothing is lost.  Copies of the
tables are one copy; what a power failure leaves in the flash is any initial
content, `Torn` data included (their CRC is wrong), so a restart is a new
behaviour: PTM keeps nothing else.  A client leaves its buffer alone while its
request is outstanding, and calls that the API refuses change nothing.

### BootUpdate
The flash is `pts` (how many of the four partition table copies are valid),
`tbl` (each image table: unreadable, or for each image the version its CRC is
of) and `img`.  `BL_CNTRL_UpdateFlashPiecewise` has `copy` and `item` for its loop variables
(`BeginItem`, `PassOver`, `NextCopy`, `AllDone`), and each erase and each write of the flash is an
action, so that `PowerFailure` may come between any two, and in the middle of
one (`Interrupted`).  `Fault` is an operation that fails, or that succeeds and
fails to be read back (`Unconfirmed`): the update ends, and the downloader waits
for the next package without a reset, with what is in RAM.  `Boot` is
`BL_main`, which only reads.  Packages are sequences of items, the image tables
before their images, as `build/common/pt_creator.py` builds them; a package may
also hold single images, and then a table left unreadable is restored from the
backup in SYSCFG, if there is one.  The tables in packages and in the backup
have no sizes and no CRCs (`Fresh`).  All packages have the same layout of
partitions.

### EthTx
A packet goes `GetTxBuffer`, `GotTxBuffer`, perhaps `MarkTSPkt` and
`EnableEgressTS`, `SendConfirmed` or `SendUnconfirmed`, `XmtSend`, `Transmit`,
`IrqAck`, `DequeueXmtCompPkts`, and then in CommsTask `GetTxPkt`, `TxDoneInd`,
`TxDoneEnd`, `PutTxPkt`; a stamped one also `TimestampIRQ`, `ProcessTS`,
`TxTSDoneInd`.  The calls of a client are cut where the code leaves one system
call and enters another (`cpc` says between which two): a supervisor call of the
driver is not re-entrant (`ETHER_SysCmdReq`), and `XmtSend` has the interrupts
suspended, so each is one step.  An interrupt handler is not interleaved with
tasks; it has two steps because the DMA goes on between the acknowledgement of
the status and the reading of the descriptor.  CommsTask reads its events, clears
them one by one and runs a handler after each, interleaved with everything.
`bufState`, `cben`, `txconf` and the indices are those of `eth_cntlr_buf.c`;
`lastDesc`, `currDesc` the DMA's; `nif` and `isTSed` the interface's;
`txConfWaitQ`, `tsInfo` those of `eth_time_v1.c`.  `frame`, `owed`, `stamp`
and `lost` are history.

To keep the states few, what the code leaves in a freed entry of the wait queue
and in a place outside the ring is cleared: it is never read before it is
written.  Stamps of received packets are left out.  Sequence numbers are fresh
(`InUse`): 16 bits do not come round within one packet's way.  Buffers are those of
one channel; the parameter checks of NIF, which change no state, and
`isWaitingForBuffer`, which only decides on a callback, are left out.

### MediaPort, MediaPipe
A connection is a record: the data queue (MSGQ, by the promises of its header:
slots in a ring, each of which goes from posted to processing to completed and
back), and the in-port's cached handles (`fullQ`, `msgHdr`).  `MediaPipe` has a
connection for each sink, and a task for each component with `pc`: it wakes,
executes its command (`Obey`, `Refuse`, `Defer`), cancels when stopped from RUNNING
(`CancelAll`, `Cancel`, `Cancelled`), posts buffers until that fails (`Fill`),
takes the completed ones (`Take`), and sends (`Get`, `Put`).  Each turn of a loop
is a step.  The controller goes through the components in the order of
`media_system.c`, `MSYS_Start` from the last to the first and the others from
the first (`Target`), and stops at the first refusal.  When `equal`, tasks
have one priority, as in the test's `bcm8910x.xml`: they run to their next wait
in the order they became ready, and the controller's task comes before them; else any
task may take the next step.  The queue between the ports of ExInt is a CIRCQ, as
`BoundedFifo` says: both ends are the same task.  Bytes are numbered as they are sent.

## 3. Runs

| Run | Checks | Instance |
|---|---|---|
| `circq` | types, `LockCount`, `PopSeesNoPush`, `ReservationsDisjoint`, `PushTakesAllThatFits`; the queue implements `BoundedFifo` (`Fifo`) | three levels push two different objects or none, the middle one pops up to 2; 4 slots |
| `flash_ops` | types, `SuccessMeansDone`, `NoCommandIsIgnored`, `NoLostWakeup`, `BusyForAMessage`, `XferEndsWhenDone` | two clients, four commands of up to 2 units, one fault |
| `flash_live` | `EveryMessageIsAnswered` | with DEINIT, two interrupts for a bus read, failures in the flag status register |
| `flash_hang` | violation of `EveryOperationEnds` | flag status failures |
| `ptm_data` | types, `NoSlotLeak`, `BufferIsOwned`, `WriteOkMeansStored`, `LoadReturnsStored` | two clients, one image with two contents, any initial flash, reads, writes and erases that fail |
| `ptm_live` | `EveryRequestIsAnswered` | another client takes slots; reads and writes fail |
| `ptm_stale` | violation of `LoadReturnsStored` | another client takes slots, a read fails |
| `boot_update` | types, `Failsafe`, `OkMeansStored`, `OneVersion`, `Repeatable` | SYSCFG and FW, two images each, two copies, two versions, three packages, two failures between complete updates |
| `boot_restore` | violation of `OkMeansStored` | as above, with a read of an image table that fails once |
| `eth_tx` | types, `RingConsistent`, `HeldByOne`, `NoSilentLeak`, `ConfirmedOnce`, `StampIsOfThePacket` | two clients, two buffers, one entry in the wait queue, one stamp kept, two identifiers; packets with confirmation, without, and freed unsent |
| `eth_tx_live` | `EverySendSettles` | one client that sends with confirmation; else the same |
| `media` | types, `HandlesFollowTheRing`, `CompletedInOrder`, `StatesAgree`, `NothingLost` | queues of 2 requests; the plan of the test twice (stop, DEINIT and again), a plan with every misplaced call and one that takes a running stream down, 6 bytes, with the test's priorities; the test's plan once and the last one with 2 bytes with any |

Why the bounds are enough.  CIRCQ: three levels give every nesting of a push
inside a push inside a pop, and more levels repeat the pattern (that part is
proved for every number of levels); with 4 slots and 2 objects in a call
the indices wrap, the queue fills and counts are clamped, and two different
objects show the order.  The run does not overwrite; the proofs of the first three invariants cover both.  Flash: two units
make "the last one" and "not the last one" differ, two clients make messages
queue up behind one another, and a single fault reaches every error path, since
each ends the operation.  PTM: two slots are what a write of user data needs,
so that one held by somebody else is the case of the refused write; two clients
contend for the buffer.  Ethernet: two buffers on three places make the ring
wrap with one place free; one entry and one stamp are full with the first
packet, so that every BUSY and every overwritten stamp occurs; with two
clients one allocates what the other's confirmation is about to free.  Media:
queues of two requests fill, empty and wrap within a few bytes, and a stop finds
requests posted, processed and completed.  Bootloader: two copies and two failures are the least
with which the copies can be lost; the flash can hold mixtures of two versions.

The passing runs leave out the one failure that the matching violation run
needs, and nothing else: slots
held by others in `ptm_data` (`ptm_stale`), reads that fail in `boot_update`
(`boot_restore`), flag status failures in `flash_ops` (`flash_hang`; in
`flash_live` they are there, and the property names the way of hanging).
Where the code breaks a property in a case that a run includes, the property names the case
as its exception: `WriteResultLost` in `WriteOkMeansStored`, `LeftReady` in `StatesAgree`, `lost` in
the properties of `EthTx`, a read that did not start in `BusyForAMessage`.  Without its exception TLC
finds each of them violated (see 6).
`flash_ops` has one interrupt for a bus read; with two the event of the second
can end the transfer that was started next before the controller has, which
qspi.c says "should never happen"; `flash_live` runs with two.

Each property of a passing run has a mutant: a definition of the model changed
as a plausible bug would, beside the original and marked `Mutant:`, with which
TLC finds the property violated.

## 4. Fairness and deadlock

`FlashServer!FairSpec`: the server task is scheduled (it is the only one that
clears its events, and a ready OSEK task runs unless starved by tasks above it),
the controller ends its transfers and the chip its cycles.  `PartitionMgr!FairSpec`:
the server task, and flash operations end (what `EveryMessageIsAnswered` says).
Clients, faults, other users of the slots and power are never forced.
`EthTx!FairSpec`: the DMA transmits what is queued; the MAC interrupt is taken and
runs to its end (weak fairness: nothing disables it for good); the 1588
interrupt and CommsTask run again and again (strong, since interrupts and
clients of higher priority may disable each step for a moment).  Nothing is
assumed about load.  The loop of `ETHER_ProcessPkts` (ethernet.c:907-913) is not bounded: with clients
that send as fast as CommsTask confirms it never ends, and the event of the time stamps is
never looked at.  So `EverySendSettles` has two parts: a packet that is not marked settles without any
condition; a marked one does in every behaviour in which CommsTask comes back to its events again
and again (`CommsRests`).  The condition is needed: without it the run fails, with one client and
two buffers already.  With it the property also holds with three buffers (one identifier, 475 thousand
states), which takes too long for a run.

`CHECK_DEADLOCK FALSE` is given for FlashServer and PartitionMgr: after DEINIT,
or when the driver hangs, or when the server task has ended, no action may be
left once each client has posted; that is a state of the real system.  For EthTx
because all buffers may be lost in the two ways that `NoSilentLeak` names, after which
no client can send; for MediaPipe because a plan ends and the number of bytes is bounded.
CircQueue and BootUpdate are checked for deadlock.

## 5. Proofs

`CircQueueProofs` proves, for every size of the queue, number of levels,
consumer, set of objects and data of the calls (assumptions `NAssumption`,
`CtxAssumption`, `ItemAssumption`, `DataAssumption`, `MaxCntAssumption`, `OverwriteAssumption`):

* `Invariant`: `Spec => []IInv`, with `IInv == TypeOK /\ Sizes /\ LockCount /\ Fresh /\ PopAlone`;
* `TypeCorrect`, `LockCounts`, `PopIsExclusive`: `TypeOK`, `LockCount`, `PopSeesNoPush`.

`LockCount` alone is not inductive: the store of an increment is right only if
the value it was computed from is current.  `Fresh` says that it is as long as
the context holds the monitor, which any preemption takes away.
`PopSeesNoPush` needs `PopAlone`: a pop that found the count at zero had no
suspended push below it, and pushes above it end before it goes on; nobody
below can start.  `Sizes` keeps copies inside the buffer, for the types.  The
steps are lemmas, one for each action.

`CircFifoProofs` proves, for a queue that does not overwrite and otherwise under the same
assumptions, that the queue is the FIFO its users take it for:

* `ImplementsFifo`: `Spec => Fifo`, every step of CIRCQ is a step of `BoundedFifo` with
  capacity N - 1 on `Contents`, or leaves it alone (`StepSimulates`).  The store that
  publishes the indices is the push, also when several nested pushes have published and
  not copied; the last read of a peek is the peek, the store of the read index the pop;
* `ReservationsAreDisjoint` and `PushTakesAll`: `ReservationsDisjoint`, `PushTakesAllThatFits`.

They rest on `QInv`, invariant together with `IInv` (`QueueInvariant`).  It speaks of slots by
their `Place` behind the read index: what a push has still to copy into is filled
already and promised to its objects (`Copying`), no two pushes share a slot
(`Apart`), and every other slot holds what was promised (`Stored`), which is what a pop
reads, since by `PopAlone` it runs only while nothing is reserved.  A pop suspended
in its copy has taken the front of the contents (`Taken`), and the pushes that interrupt
it reserve behind what it has still to read (`Ahead`).  `Asked` says that a count
clamped by a pass of the reservation loop whose store failed is still the whole call
or no smaller than the room: the room only shrinks meanwhile, because no step of a
pop is taken while a push is in its loop.  Overwriting gives all of this up on
purpose: it moves the read index over slots that were never read.

`BootUpdateProofs` proves all five properties of `BootUpdate`, for any partition
types, images, packages and versions, up to the three copies that
`PTBL_MAX_NUM_COPIES` allows, and any number of failures.  It assumes
`TypeAssumption`, `CopyAssumption`, `PackageAssumption` (an image table comes once in
a package, its images after it, and all of them) and `VersAssumption`:

* `TypeCorrect`: `TypeOK`, from `TypeInv`, which adds where the update is and what the
  item at hand is;
* `ImagesOfOneVersion` and `UpdateCanBeRepeated`: `OneVersion` and `Repeatable`, from
  `FlashInv`.  In the copy at hand, a type whose table this update flashed
  (`Flashed`) has a table, but for the moments in which it is replaced, and its
  entries are of this update.  So an image of such a package always finds a table,
  and no table of a type that is always flashed so ever has entries of two updates;
* `OkIsStored`: `OkMeansStored`, if no image table fails to be read, from
  `StoreInv`.  All images the loops went past are in the flash and in their table,
  or in the table in RAM that is about to replace it; a table is restored only
  when there is none, and then no image of it was passed;
* `UpdateIsFailsafe`: `Failsafe`, under the same condition, from `SafeInv`.  A copy
  is `Good` when all its partitions are valid; the copy at hand also when what is
  missing from it was erased by this update and comes later in the package
  (`Open`, `BeingStored`).  No step spoils a good copy but a failure, which spoils
  the copy at hand only; so there are at most `since` bad ones (`FewBad`), and a
  complete update, by `StoreInv`, leaves none.  That an update refuses a
  table that cannot be read spoils nothing: the copy was bad.

The condition (`~ReadsFail`) is needed: `boot_restore` shows the violation of
`OkMeansStored` without it, and `Failsafe` fails in the same way with two failures.

`EthTxProofs` proves, for any clients, number of buffers, length of the wait queue,
depth of the stamp store, set of identifiers and ways of sending
(`ConstantsAssumption`), `Invariant`: `Spec => []IInv`, with
`IInv == TypeOK /\ RingConsistent /\ HeldByOne /\ Holders`, and from it

* `TypeCorrect`, `RingStaysConsistent`, `BufferHeldByOne`: the first three conjuncts;
* `NoSendFindsTheRingFull`: `XmtSend` never finds the DMA ring full.

None of the conjuncts is inductive alone: a buffer goes into the ring because it
is ALLOC, which is known from `HeldByOne` for a buffer a client sends; `HeldByOne` holds
because what the interrupt and CommsTask change is in the ring.  `Holders` says which
buffers the program counters refer to.  The key lemma, `RingHasRoom`, is a
pigeonhole: the places in the ring hold different buffers, there are N buffers
and N + 1 places, and the client's is not among them, so two places are free.
The arithmetic of the ring (`Ahead`, `Between`, `IncMod`) is in lemmas of its own.

The three properties about single packets need to know where everything that belongs to a
packet is.  `PacketsInductive` proves `IInv /\ Packets`, and from it

* `NoBufferLeaksSilently`, `PacketConfirmedOnce`, `StampBelongsToThePacket`: `NoSilentLeak`,
  `ConfirmedOnce`, `StampIsOfThePacket`.

Of the conjuncts of `Packets`, `OneEntry` and `Entries` follow an entry of the wait queue
through its states: which buffer it is for, who holds that buffer, and that the entry bears the
number of the packet in it.  `AtComms` says what CommsTask may rely on between two of its
steps: a packet it confirms is with no client that could send it again, has been taken off
the list of those that wait for a stamp, and is out of the ring if it was found by its
stamp.  `Tracking` and `Callers`
say that a marked packet has its entry from `EnableEgressTS` until it is confirmed, on its
way into the driver and inside it.  `Owing` says of every buffer whether a confirmation is
outstanding: in the ring and not told yet, freed early and waiting for its stamp, or being
told.  `Fresh` says that nothing, no stamp and no other packet on its way, has the number of
a packet that is not queued yet; it rests on the assumption of section 2 that a number is not
used again while a stamp of it is about.  With a number used again an older stamp could
dequeue the entry of a packet before the packet is sent, and its confirmation would
wait for a stamp that is not looked for any more; `Entries` excludes such an entry.  None
of this limits how many packets are on their way or how many stamps are overwritten.

`PartitionMgrProofs` proves, for any clients, images, contents, requests, sizes and failing
operations (`ImageAssumption`, `SizeAssumption`, `FaultAssumption`, `RequestAssumption`), the
five safety properties of `ptm_data`, under one condition: the flash manager's queue has two
slots more than its other clients hold, `Slots >= Others + 2`:

* `TypeCorrect`, `SlotsAreKept`, `BufferIsKept`, `LoadsAreTrue`: `TypeOK`, `NoSlotLeak`,
  `BufferIsOwned`, `LoadReturnsStored`;
* `WritesAreTrue`: `WriteOkMeansStored`, also when writes fail: either the flash holds what was asked
  for, or the erase succeeded, the write failed, and its result was lost (`WriteResultLost`).

The condition is needed: `ptm_stale` has room for one message (`Slots = 2`, `Others = 1`) and
violates `LoadReturnsStored`.  The queue of the code has 16 slots
(MSGQ_SIZE, flsmgr_osil.c:99), and nothing in the code keeps the other clients from holding 15.
`IInv == Typed /\ Bounded /\ Kept /\ Reading /\ Resting /\ Working /\ Data` is inductive.
`Bounded` counts the slots of others, so that an idle manager, which holds none (`Kept`), finds two
(`TwoFree`) and the branches that leave a handle behind are not taken.  `Working` ties the handles, the
slots and the queue to the kind of the request, also between the erase and the write.  `Data` says
what the flash and the buffers hold as soon as an operation has `Succeeded`, which is before its
message is completed, and long before `PTM_BusyStateHandler` looks at it.

`FlashServerProofs` proves, for every value of the constants (`FlashAssumption`, `ClientAssumption`,
`RequestAssumption`: any kind of chip, loop count, lengths, interrupts of a read, clients, commands
with DEINIT, and faults)

* `TypeCorrect`, `WakeupsAreKept`, `DriverWorksForAMessage`: `TypeOK`, `NoLostWakeup`,
  `BusyForAMessage`.

The inductive invariant is `TypeOK /\ Driver(S) /\ Lane /\ NoLostWakeup /\ BusyForAMessage`.
`Driver` says that the driver is BUSY exactly with a pending operation, that the states of its
state machine are those of the operation, with something left to do while it erases or programs, and
that the bus works for an operation only and knows how much of a read is still to come.
`Lane` says where the server's first message is, which alone starts an operation before the
manager is initialised.  The proof follows the calls: a lemma for each operator of `FlashDriver`
(`XferStep`, `WriteEnableStep`, `UnitDoneStep`, ..., `StateHandlerStep`, `StartOpStep`, `DeInitStep`) says that
it keeps `Driver`, that the transfer it leaves is under way (`Started`), and that an operation it ends
is indicated (`Going`); then there is one lemma for each action of `FlashServer`.

`FlashChipProofs` goes on from there, under one more condition, `NoStrayEvents`: a bus read
ends with a single interrupt, or nobody asks for one (`READ`, `COMPARE`):

* `ChipObeysEveryCommand`, `TransfersAreAwaited`, `SuccessIsTrue`: `NoCommandIsIgnored`,
  `XferEndsWhenDone`, `SuccessMeansDone`.

The condition is needed: with several interrupts for a read, and several are what the code is written
for (qspi.c), the event of one of them can be taken for the end of the transfer after the read, and TLC
finds all three violated.  The
invariant adds `Right` to the one above: the controller, the chip's latch and its busy bit are what the
state of the operation says they are (`BusGood`, `ChipGood`), so that an erase or program is sent only
to a chip that is enabled and at rest; the units done and the units left make up the request
(`UnitsGood`); the bus event is there once and for an ended transfer only (`Exact`); and the operation
is that of the message that is processed (`Answered`), or, before initialisation, the
configuration of the read lanes (`First`).

`MediaPipeProofs` proves for every length of the queues, number of bytes and set of plans
(`DepthAssumption`, `MaxTxAssumption`, `PlansAssumption`), for the test's priorities and for any
others, with misplaced calls and with a stop at any point:

* `TypeCorrect`, `HandlesAreKept`, `RequestsCompleteInOrder`: `TypeOK`, `HandlesFollowTheRing`,
  `CompletedInOrder`;
* `NoByteIsLost`: `NothingLost`, with the test's priorities;
* `ComponentsAgree`: `StatesAgree`, for all plans: between two calls the components are in one state, or
  in what the DEINIT of a running stream left;
* `OrderlyPlansAgree`: they are in one state, without the exception, if each plan has a STOP between
  a START and a later DEINIT (`OrderlyPlans`).

The inductive invariant is `TypeOK /\ Lockstep /\ OneCommand /\ Tasks /\ Connections /\ Sending`.
`Ring` says of one connection what the properties say, in terms of the `Age` of a slot behind the
write index, which needs no search: a slot is in use when its age is no more than the number of handles, and
the i-th handle is the slot of that age.  The operators of `MediaPort` keep it (`FillBufferGood`,
`TakeHeadGood`, `GetMsgIdxGood`, `CompleteGood`); a handle of a message that the source is processing must
not be cancelled.  That this never happens is not a matter of the ports but of the controller: `Lockstep` lists,
for each call and each number of components that have obeyed it, the states the
components can have together, and so a sink that cancels has a source that was stopped before
(`CancelFindsSourceAtRest`) and is not between `Get` and `Put` (`Tasks`); and INIT, which empties a port,
finds no requests in it (`InitFindsSinkAtRest`).  `Planned` adds what a plan still promises
while a stream runs.

`NothingLost` needs more: that ExInt always has room for what it takes out of a request, though nothing
in its code asks for it, and that no buffer is posted again before it has been received.  Both hold
because tasks of one priority run whole passes in the order in which they were activated, and a
connection is therefore used a batch at a time.  `Flow` says so, in two layers:

* `Turns`: a task in the middle of a pass is the head of the ready queue; a task is in the queue, once,
  when it is at work or an event is set for it; ExInt gets no event in its own pass.
  `PassGoesOn` and `PassEnds` keep it, for any step that sets at most one other task's event.
* Where the data is.  `Batches`: until the last byte (`Over`), the requests of a connection have
  different buffers (`Apart`); there are none or as many as there can be, except in the sink's pass;
  and outside the source's pass they are all untouched or all completed.  `QueueHasRoom`: a batch arrives at
  ExInt only when its queue is empty.  `WholeBatch`, `PassingOn` and `PassedOn`: it goes on whole, in one pass of
  ExInt, and ExSnk receives it before ExInt runs again.  `Asleep`: while the source runs, ExInt
  is woken with bytes in its queue only if ExSnk has posted buffers or will have before (`Served`); this is
  where MSYS_Start going up the chain matters.

`Flow` is inductive with the invariant above (`InitFlow`, `FlowInv`: one lemma per action, which says what the step
does to the batch by the lemmas on `MediaPort`: `FillKeepsBatch`, `TakeKeepsBatch`, `GetKeepsBatch`,
`CompleteKeepsBatch`).  With it, a step leaves the stream of bytes as it is or, when ExSrc
completes a buffer, adds the next number to it (`StreamStep`): posting a buffer adds nothing
to what has arrived (`FillBytes`), taking one removes its first byte (`TakeBytes`), completing one adds its last
(`PutBytes`), and a byte that goes from the front of one part to the end of the part before it keeps
its place (`PassedOver`).

Every safety property that a passing run checks is proved.  Liveness under fairness, ENABLED and induction over data are outside what the
prover does, and stay with TLC.

## 6. What the runs found

* **An erase or program failure hangs the driver** (`flash_hang`): an error with
  no transfer pending only sets a flag, and nothing calls the driver again.
* **A stale handle answers the next load** (`ptm_stale`): when the queue takes
  the erase and refuses the write, the handle of the erase stays.
* **A read that fails once loses images in an update that succeeds**
  (`boot_restore`): the image table is taken for invalid and restored from the
  backup in the middle of the update.

Found with the models at other values of the constants, and kept as notes:

* An overwriting push that does not fit sets the read index, which is that of the last object
  read, to the place of its own first object (circ_queue.c:416): this one is lost with all older
  ones.  A single object pushed on a full queue leaves it empty (`CircQueue` with
  `Overwrite = TRUE` and single objects on four slots); the output of the console is such a queue
  (uconsole.c:81).
* A failed write of user data is answered OK, since its result is overwritten by that of
  the erase before it (ptm.c:657-664).  `ptm_data` has failing writes; `WriteOkMeansStored` names the case
  as `WriteResultLost` and is violated without it.  The old data are gone, and what is there instead is
  blank or torn, so that a later load is refused.
* A transmit buffer can be allocated again while the callback of its confirmation
  still runs, although ethernet.h:786-791 gives it to the client until then; when the new owner is quicker
  than the callback, NIF refuses to send the buffer and it is lost (`lost = "early"`).
* A marked packet sent when the wait queue of the stamps is full is lost with its buffer
  (`lost = "noslot"`).
* A stop of the pipeline leaves bytes in the queue of ExInt that were completed before its
  requests were cancelled (ex_int_comp.c:399); the next start sends them.
* With priorities other than the test's a sink that took all its completed buffers in
  one pass posts none until something wakes it, and the stream may stall
  (ex_sink_comp.c:385); with longer queues `nextBufIdx`, which moves on also when a
  buffer is refused (ex_sink_comp.c:389), puts one buffer in two messages.
* DEINIT of a stream that runs succeeds and leaves ExInt READY and the others RESET
  (ex_int_comp.c:414).  The table of states in the same file (ex_int_comp.c:75) says RESET, and media_system.h:285
  that the call is refused with BCM_ERR_INVAL_STATE.  The next MSYS_Init is refused by ExInt when the
  source has obeyed it, and the next call that reaches ExSnk waits for ever, since its task has ended.
  `media` has such a plan; `StatesAgree` names the states as `LeftReady`.
* While clients send as fast as their packets are confirmed, marked packets are not: CommsTask does
  not leave its loop (ethernet.c:907-913).  `EverySendSettles` states the condition (section 4).

Read in the code, without a run: CIRCQ_IsFull reads
the index word twice and may refuse a push to a queue that was never full; a
user data write of exactly the largest size is accepted and can then not be
loaded (ptm.c:447 and :297); ptm.h:72-74 says that PTM queues requests before it
is initialised, the code refuses them; LOAD_IMG with an offset past the end
reads from the start; when InitPTM fails the server task ends while the flash
manager goes on accepting messages; an update of a board without a valid
partition table, by a package without one, flashes nothing and succeeds; the
partition table does not survive a power failure during its own update; the IPC
downloader flashes what it has when an unexpected command comes in.

## 7. What is not modelled

In the modelled parts: cancelling, ID and register access of the flash driver
(no caller outside tests); memory-mapped reads; more than one flash device;
copies of the tables in PTM; secure boot and keys in the bootloader, the
bootloader image of chips without partition tables in ROM; Ethernet reception,
mode changes and the error status of the MAC interrupt; the statistics and parameter checks of the
media framework.

Cases left out of what is modelled, each a branch that no action takes:

* Flash: the loop that waits for the bus to halt does not time out (qspi.c:590-608); when a read
  cannot be stopped on the path of an error the bus is idle, where the code leaves it reading
  (qspi.c:774-785).
* PTM: the first read of the partition table is accepted by the flash manager (otherwise ptm.c:501-507
  goes to the error state); images and user data of no length (ptm.c:402) do not occur.
* Bootloader: an update is neither cancelled nor skipped, its images can be fetched, and a type of a
  package is in the partition table (bl_updater.c:384-509); start-up reads do not fail;
  a table restored from the backup can be read again (bl_ptm.c:1406).
* Ethernet: a packet that is marked has a sequence number (eth_time_v1.c:785-787; ethernet.h:879-880
  allows only event messages to be marked), and is marked once (amac.c:2798-2804 does not check); a
  client does not send a buffer again for which NIF_Send said BUSY.

The rest of the system is listed in section 1 and in `PROJECT.json`.  It is
prebuilt (queues, time, crypto, codecs, TCP/IP, gPTP, wireless: only headers or
glue are in the tree), register programming or generated tables (camera tuning, pin tables,
boards, most drivers: the bulk of the lines of the repository), third-party
(ERIKA), or a polling loop whose other side is not in the tree (the
bootloader's downloaders, RPC to a host).

## 8. State and further work

Done: CIRCQ with its abstract FIFO; flash driver and manager; PTM; bootloader
update; the Ethernet transmit path; the media framework with its example pipeline.

What would add most next, in this order:

1. An abstract flash service (a message is answered, once, with a result that
   says what was done), implemented by `FlashServer` and used by `PartitionMgr`.
2. Ethernet reception, which shares the shape of `EthTx`, and the talker and
   listener of IEEE 1722 as components of `MediaPipe`.
3. The TFTP client of the bootloader with lost and repeated packets, composed with
   `BootUpdate`.
4. The drivers with transfers (CAN, SPI, I2C, DMA).
