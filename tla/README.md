# Verification of the AmigaOS KSZ8851 network driver

This directory holds TLA+ models of `ksz8851.device`, the SANA-II network device
driver for the KSZ8851 Ethernet controller. TLC checks them on small instances
and TLAPS proves theorems about every one of them, for any number of openers,
requests, senders and packets. Source paths are relative to `src/KSZ8851/`; `device.c` is
`devicedriver/device.c`, `ksz8851.c` is `servicetool/ksz8851.c`.

## 1. The system

| part | source | state | operations |
|---|---|---|---|
| I/O request engine | `device.c` | the unit port, `eu_Tx`, `eu_ReadOrphan`, `eu_Events`, one `bm_RxQueue` per opener, `eu_State`, and in each `IOSana2Req` `ln_Type`, `io_Flags`, `io_Error`, `ios2_WireError` | `DeviceBeginIO`, `DeviceAbortIO`, `PerformIO`, the `DevCmd...` functions, `DoEvent`, `sendAllPackets`, `onPktReceived` |
| opening, closing, unloading | `device.c` | `lib_OpenCnt`, `lib_Flags`, `ed_DeviceLock`, `ed_Units[0]`, `unit_OpenCnt`, `eu_Proc` | `DeviceInit`, `DeviceOpen`, `DeviceClose`, `DeviceExpunge`, `InitUnitProcess`, `ExpungeUnit`, `DevProcEntry` |
| NIC driver | `ksz8851.c`, `include/hardware-interface.h` | the registers of the chip, the receive and transmit memory, `rxBuffer`, the endian mode | `ksz8851Init`, `Online`, `Offline`, `IrqHandler`, `EventHandler`, `ReceivePacket`, `SendPacket`, `SendPacketCooked` |
| interrupt server | `servicetool/isr.c` | the `PORTS` server and the signal of the unit process | `installInterruptHandler`, `uninstallInterruptHandler`, `isr` |
| tracking and statistics | `device.c` | `eu_Track`, `eu_IPTrack`, `GlobStat` | `DevCmdTrackType`, `DevCmdUnTrackType`, `DevCmdGlobStats`, `DevCmdGetSpecialStats` |
| station address and configuration | `configfile.c`, `device.c` | `eu_StAddr`, the address registers of the chip, the open file, the debug level | `ReadConfig`, `ReadKeyMacAddress`, `DevCmdConfigInterface`, the notification of a changed file |
| copy functions | `copybuffs.c` | none | `CopyToBuffer`, `CopyFromBuffer`, `CallFilterHook` |
| start and debugging | `devinit.c`, `devdebug.c`, `tools.h` | none | function table, debug output |
| hardware layer | `hwl/hal.c` | none | stubs that nothing calls |
| service tool | `servicetool/main.c` | none of its own | a command line around the NIC driver |
| installer | `DistributionTemplate/`, `tools/` | none | installation script, build helper |

**How they interact.** A protocol stack opens the device and hands it
`IOSana2Req` structures with `BeginIO`. Reads, orphan reads and writes are
performed in the stack's own task (`PERFORM_NOW`, `device.c:1060`), everything
else goes to the unit process through the unit port. The unit process also
serves the signal of the interrupt server: it calls `ksz8851EventHandler`, which
reads frames and hands each one to `onPktReceived`. Writers call
`ksz8851SendPacket...` from their own tasks. `AbortIO` comes from the task that
owns a request. Lists are protected by semaphores (`eu_BuffMgmtLock`,
`bm_RxQueueLock`, `eu_ReadOrphanLock`), by `Forbid()` (`eu_Events`, `eu_Tx`) or,
for the registers of the chip, by `Disable()`. `eu_State` is read without any
lock, and so are `eu_StAddr`, which the unit process writes in pieces, and the
static `sendBuffer`, which every writer fills.

**What is hard in it.**

* Requests move between a dozen owners while the opener may abort them, the unit
  may flush them, and a frame may complete them. Exec lists are intrusive: a
  request in two places destroys a list.
* Every writer drains the one transmit queue at the same time.
* The interrupt handler masks every source it finds; the event handler must
  unmask exactly what it handled, although new events come between any two of
  its register accesses, and it enables interrupts in the middle of its loop.
* `DeviceOpen`, `DeviceClose` and `DeviceExpunge` run under a `Forbid()` that a
  `Wait()` breaks, so they interleave where they wait for the lock or for the
  unit process.
* The station address has three sources (chip, file, protocol stack), is copied in
  pieces, and only one of the three tells the chip.
* Handshakes use signals that have other senders, or that may be left over.

**What makes each part correct.**

* Request engine: a request is in one place, never nowhere; whoever waits is
  served or can be aborted or flushed; what comes back is what happened.
* Towards its openers: a request the device has given back is left alone.
* Packets: a frame is made from one request, is sent at most once and while the
  device has the request, and carries the address the chip listens to.
* Station address: what the driver uses is what the chip was told; a change of the
  file is not slept through.
* Life cycle: the counts are right, an opener has a living unit, and nothing is
  freed that is in use.
* NIC driver: no interrupt is lost for ever, no frame is forgotten in the chip,
  the data port has one user at a time, a packet fits in the transmit memory.

## 2. The modules

| module | what it is |
|---|---|
| `RequestContract` | abstract: what an opener may rely on, as an owner for each request |
| `SharedUnit` | abstract: what `OpenDevice()` and `CloseDevice()` promise, as the place of each opener |
| `Sana2Unit` | the I/O request engine; implements `RequestContract` |
| `Ksz8851Nic` | the NIC driver, its interrupt server, and the chip as environment |
| `DeviceLifecycle` | opening, closing, expunging, and the life of the unit process; implements `SharedUnit` |
| `Station` | the unit process as keeper of the station address, and the tracked types |
| `WritePath` | `Station` composed with the tasks that write, from the request to the chip; implements `RequestContract` and, for its unit process, `Station` |
| `MCSana2Unit`, `MCWritePath` | the definitions the `Unit_*.cfg` and `Write_*.cfg` files assign to constants |
| `ListFacts` | lemmas about Exec lists as sequences (append, head, remove) |
| `Sana2Unit_proofs` | where a request is, and the inductive invariant of the engine |
| `Sana2Unit_service_proofs` | that requests are served, found and filled in |
| `Sana2Unit_contract_proofs` | that the engine implements `RequestContract` |
| `Ksz8851Nic_proofs`, `DeviceLifecycle_proofs`, `Station_proofs`, `WritePath_proofs` | the theorems of those modules |

`Sana2Unit` and `WritePath` both have writers. `Sana2Unit` has everything that can
happen to a request (aborts, events, flushes, frames) and takes the copying and
sending of a packet as one step. `WritePath` takes that step apart, against the
unit process as it configures, goes on- and offline and rereads the file, and
leaves `AbortIO`, events and reads to `Sana2Unit`.

### RequestContract

`owner[r]` is `"opener"` or `"device"`, `content[r]` what is in the request.
`Send(r)` is the opener's: it fills in `r` and may get it back at once. `Serve` is
the device's: it works on the requests it owns, and gives some back.
`Sana2Unit` instantiates it as `Contract` with `owner` computed from `app` and
`content` from all eight fields of a request; `KeepsContract` is its specification.
What it forbids is a step of the device, in whichever task, that writes into a
request its opener has again. `WritePath` instantiates it too, with `owner` computed from `at`
and `content` from the answer, the form of the packet and the frame it became; there
`WritesKeepContract` forbids a writer to take up, send or answer a packet that another
writer has answered.

### SharedUnit

`place[c]` is where an opener is (`"out"`, `"entering"`, `"in"`, `"leaving"`), `unit` whether the
unit serves, `base` whether the device is loaded. There are no counts, no lock, no flags and
no signals: an opener enters alone and starts the unit, or joins it when nobody is on the way
in or out; the last one leaves alone and waits until the unit is gone; the device is unloaded
only when everybody is out. `DeviceLifecycle` instantiates it as `Shared`: a task that waits
for the lock in `DeviceOpen` is still out, one that waits for it in `DeviceClose` is still in,
and the unit serves while its process runs and has no `CTRL_F` pending. `SharesUnit` is
its specification.

### Sana2Unit

A request is a model value; its fields are functions (`cmd`, `quick`, `lnType`,
`err`, `wire`, `ptype`, `dst`, `flags`). `list` maps the name of each Exec list
to a sequence, `events` is `eu_Events` as a set, `app` holds the requests their
openers own, and `hand[t]` is the request task `t` works on between two steps.
`pc[t]` is the place where task `t` can be preempted.

A step is what runs under one semaphore or one `Forbid()`. The unlocked test of
`ETHERUF_ONLINE` is in the step that enters `BeginIO` (`BeginNow`), the queueing
that follows it is another step (`ReadQueue`, `OrphanQueue`, `WritePut`): between
them the unit may go offline. `DevCmdOffline` is five steps, `DevCmdFlush` two.
`onPktReceived` is two: the loop over the openers under `eu_BuffMgmtLock`, and
the orphan readers.

`Receive` may happen whenever the unit process waits and the NIC delivers
(`nicOn`). `ksz8851Offline` does not take back a signal it has already sent, so
`OfflineNic` leaves `nicOn` open, and the next `WakeUp` ends it.

Abstractions: `ios2_WireError` is a set of event bits, or `{"ERR"}` for an error
code that is not zero; `S2WERR_GENERIC_ERROR` is zero. The payload, raw or cooked
layout and the address bytes are left out; an address is unicast, broadcast or
multicast. `S2_BROADCAST` behaves as `CMD_WRITE`; the commands that only read or
fill in the request are one, `"query"` (through the port) and `"nsquery"`
(performed at once). `ReadBadArgument` lets any read name a `BufferManagement`
the unit does not know, `WriteTooLong` lets any packet exceed the MTU.
`ClearWireError` says whether openers clear `ios2_WireError` before they send.

### Ksz8851Nic

`isr`, `ier`, `rxq`, `txq`, `txmir`, `running` and `sda` are registers and
memories of the chip; `FrameArrives`, `FrameSent` and `LinkEvent` are the chip,
and may happen between any two register accesses. `intOff` is the task between
`Disable()` and `Enable()`: no other task runs and no interrupt occurs while it
is set. `ksz8851EventHandler` is a chain of steps, one per register access the
chip can disturb: `EventHandler`, `LinkStatus`, `ReceiveStatus`, `CountFrames`,
then per frame `ReadFrame`, `Deliver`, `Delivered` or `SkipFrame`, then
`Overrun`, `AckOverrun`, `EnableHandled`. Its local variables `status`,
`frameCount` and `enableMask` are `status`, `count` and `mask`.

A frame is `"good"`, `"error"` (not valid, with an error bit, or of a bad size)
or `"unmarked"` (not valid and no error bit: `ksz8851ReceivePacket` leaves it in
the queue; whether the chip ever produces one, the source does not tell).
`Bytes(j)` computes the bytes a packet puts through the data port, with the
16-bit counter of `ksz8851WriteFifoWordAlign` that has wrapped when its loop ends.

### DeviceLifecycle

One step runs from one `Wait()` to the next: while a task waits for
`ed_DeviceLock` (`OpenWaits`, `CloseWaits`), for the startup message
(`OpenStartsUnit`, `OpenUnitUp`) and for the acknowledgement of a shutdown
(`CloseLast`, `CloseUnitGone`). `waiting` is the queue of the semaphore.
`DeviceExpunge` takes no lock and is always possible. `libFlags` is the set of
the values of its bits, because `DeviceOpen` and `DeviceClose` use
`ETHERUF_EXCLUSIVE`, `_LOOPBACK` and `_PROMISC` (4, 8, 16) on `lib_Flags`, where
4 and 8 are `LIBF_SUMUSED` and `LIBF_DELEXP`. An allocation may fail in any
`DeviceOpen`. A device that was unloaded is not loaded again, and `CTRL_F` comes
only from the handshake of `ExpungeUnit`.

### Station

`stAddr` is `eu_StAddr` and `chip` the address registers, each with a high and a
low half: `copyEthernetAddress` is a move of four bytes and one of two, and
`ReadKeyMacAddress` stores byte by byte. `file` is the key `MAC` of the
configuration file, `editing` says that somebody has the file open for writing, so
that `Open` fails and the driver falls back to `FALLBACK_MAC_ADDRESS`. `pending` and
`received` are the signals before and after `Wait()`; the loop then drains the
port (`GetMsg`, `PortEmpty`) and looks at the file (`FileChanged`). `ReadConfig`
takes the address from the file, `StoreMacHigh` and `StoreMacLow` store it.
`ConfigHigh`, `ConfigLow`, `ConfigChip` and the steps of `DevCmdOnline` are
`S2_CONFIGINTERFACE`. `reread` is a history variable: the file was read again after
the interface was configured. `Track` and `Untrack` keep `eu_Track`, where an
allocation may fail. `EditBegins`, `EditEnds` and `PutCommand` are users and openers.

### WritePath

`at[r]` is `"device"` or the answer of the request, `wpc[w]` where task `w` is in
`DevCmdWritePacket` and `sendAllPackets`, `taken[w]` the packet it took off `tx`
(which may be another opener's). A frame is not bytes but what each of its fields
was filled from: the request for destination and payload (with the packet type),
and for the source address of a cooked packet the two halves of `stAddr`, read one after the
other. `Fill` writes one field of the shared `buffer`; `Send` hands the whole of
it to the chip, under `Disable()`. With `CopyFromBufferDMA` a cooked packet goes
to the chip straight from the opener's memory (`SendDma`), which
`DmaAnswer` decides. `Sent` may refuse: no room in the transmit memory, or a raw
frame under 46 bytes. `Refuse`, `RawTooShort` and `CopyFails` are the error paths.
Every step of the unit process is one of `Station`; `OfflineFlush` also aborts what
is on `tx`.

## 3. The runs

A run is named after its `.cfg` file. Deadlock is checked, except in the `life_...`
runs, because an unloaded device stops, and in `nic_overrun`, where the chip may
have nothing left to send an interrupt for.

### Runs that pass

| run | properties | instance and what it shows |
|---|---|---|
| `unit_core` | `TypeOK NeverTwice NeverLost AbortFindsRequest ReadOkHasFrame NoMissedEvent TxServed KeepsContract PortCommandsReturn WritesReturn FlushReturns` | two openers with one request each, every command, broadcast frames of one packet type, the event masks `ONLINE` with `TX` and `OFFLINE` with `BUFF`, openers that clear `ios2_WireError`: a request is in exactly one place, and on the list where `AbortIO` looks; a read that comes back good has a frame; no event is slept through; no packet stays on `eu_Tx` with nobody to send it; the device leaves alone what it has given back; and under fairness port commands, writes and what a flush finds come back |
| `nic_core` | `TypeOK DataPortExclusive CountBacked TxOverdraftBounded` | a receive queue of two, good and unmarked frames, overruns, link changes, two senders of raw and cooked packets of which no two fit in the transmit memory, two online sessions: the data port has one user, the loop never reads an empty queue, a raw packet fits in what is free, and a cooked one exceeds it by eleven bytes at most |
| `nic_live` | `FrameAnnounced NoSourceForgotten FramesTaken` | a receive queue of two, good and error frames, transmit and link-up interrupts, one session, a sender of the longest cooked packet: no source stays masked, no frame is left behind, and under fairness the receive loop gets to it |
| `life_core` | `TypeOK CountsMatch UnitServesUsers UnitOutlivesProcess ShutdownCompletes LockServed SharesUnit` | three openers, each with no flags, with `PROM` alone (refused) or with `MINE` and `PROM`; allocations that fail, expunge at any time; fairness for `ShutdownCompletes` and `LockServed`. `SharesUnit` is the refinement: counts, lock and handshake together keep what the openers are promised |
| `station` | `StationTypeOK UsedAddress TrackConsistent NotifyServed` | four addresses (hardware, fallback, one in the file, one only a stack uses), edits of the file at any time, two packet types, one command on the port at a time; fairness for the last one |
| `write_core` | `TypeOK FrameIntact SourceIsOurs SentOnce WritesKeepContract` | two openers with one request each: the first has no `CopyFromBufferDMA` and sends cooked packets, one over the MTU among them, and raw ones of 14, 20 and 100 bytes; the second has it and sends cooked packets, so that only one request ever needs `sendBuffer`. The interface is configured, goes on- and offline, with an address other than the fallback. `WritesKeepContract` is the refinement: what was answered is left alone |

### Runs that find a disagreement

Each checks one property that states a comment of the source, and TLC finds a
behaviour of the code that contradicts it.

| run | property | what happens |
|---|---|---|
| `unit_offline_reads` | `OfflineAbortsReads` | a read passes the test of `ETHERUF_ONLINE`, the unit goes offline and aborts its reads, the read is queued |
| `unit_delivered_twice` | `OrphanOnlyUnwanted` | the result of a later opener overwrites that of the one that took the frame |
| `nic_link` | `NoSourceForgotten` | `P1SR` is read into the variable that holds `ISR`: the receive interrupt stays masked |
| `nic_overrun` | `FramesTaken` | `ksz8851SetBit` reads `ISR` and writes all of it back, so acknowledging an overrun acknowledges a receive interrupt that has just come: its frame stays in the chip until another one arrives |
| `write_mixed` | `FrameIntact` | two writers fill the one `sendBuffer` at the same time, and a frame goes out that has fields of both packets |
| `life_orphans` | `NoReadAfterClose` | orphan reads of an opener survive `DeviceClose` |

### Disagreements without a run

Further places where code and comment differ, or where an error is not passed on,
found while the modules were written. Where a module has the place, it follows the
code.

*Request engine and writers*

* `device.c:723` "All current IORequests are aborted": `S2_FLUSH` does not visit
  `eu_ReadOrphan`.
* `device.c:1347`: the broadcast flag of a frame that the packet filter refused
  stays in the request, and the next frame is returned with it.
* `device.c:1812`: a mask with both `ONLINE` and `OFFLINE` is returned whole.
* `device.c:2206`: an `ios2_WireError` left over from an earlier command is taken
  for a failure and raises `S2EVENT_BUFF`.
* `device.c:1550`: `CMD_READ` with `IOF_QUICK` is queued with the flag set, so
  `TermIO` never replies it and its opener takes it for done.
* `device.c:1258`: the length of a raw packet includes its header and is compared
  with the MTU of the payload, so the longest raw frames are refused.
* `device.c:2127`: when the NIC driver refuses a packet (no room, or a raw frame
  under 46 bytes) nobody looks at the result, and the request is answered without an
  error.
* `device.c:2111`: a packet is taken off `eu_Tx` by one task and sent later, so
  packets of two tasks may reach the wire in the other order.

*Station address, configuration, tracking*

* `device.c:1016`, `device.h:85` ("The used station address of the driver"): when the
  configuration file changes on a configured unit, `eu_StAddr` is overwritten and
  the chip is not told; `S2_CONFIGINTERFACE` cannot be repeated to correct it. This
  is the `reread` that `UsedAddress` and `SourceIsOurs` except.
* `device.c:977`: a change of the file between the first `ReadConfig` and
  `StartNotify` is never noticed. It is the only change that is not
  (`FollowsFileUnless`).
* `configfile.c:34`: without the file, while somebody writes it, or without the key,
  the address becomes the fallback, also where the chip has one of its own.
* `configfile.c:190`: a `MAC` key with fewer than six parts leaves the rest of the
  address as it was.
* `device.c:1720`: `S2_TRACKTYPE` whose entry cannot be allocated is answered
  without an error.
* `ksz8851.c:207`: every `init()` allocates a receive buffer and nobody frees one;
  `DevCmdOnline` does not look at its result, and is online without a buffer.

*NIC driver*

* `ksz8851.c:75`: a signal left over from before `ksz8851Offline` runs the event
  handler once more, which enables interrupts with no server installed.
* `ksz8851.c:269`: the test is the wrong way round, `ksz8851SoftReset` returns when
  it finds the chip, and frames of the session before are kept.
* `ksz8851.c:633` "Make sure enough memory is available": the test of a cooked packet
  counts the payload and eight bytes, but not the Ethernet header, so a packet that is
  accepted may exceed the free memory by up to eleven bytes (`TxOverdraftBounded`). In
  `nic_core` it does: behind the raw packet, 1037 bytes are free, which is what the test
  asks for 1029 bytes of payload, and 1048 are written. What the chip does then the
  source does not tell; in the model `txmir` goes below zero and later packets are refused
  until frames have been sent.
* `ksz8851.c:1018`: `ksz8851WriteFifoWordAlign` returns a counter that has wrapped,
  so the word that fills the last DWORD of a cooked packet is never sent.
* `ksz8851.c:1075`: `ksz8851ReadFifo` rounds up to DWORDs: 1522 bytes, which line 729
  accepts, are read as 1524 into a buffer of 1522. Line 765 subtracts six from a length
  that is only known not to be zero.
* `ksz8851.c:487`: the write-back of all of `ISR` may also take away a link change that
  `IrqHandler` has masked and `EventHandler` has not seen: its source stays masked
  (`LinkKept` in `Ksz8851Nic_proofs`).
* `ksz8851.c:704`: a frame that is not valid and has no error bit is not released,
  and stays at the head of the queue (the kind `"unmarked"`).
* `device.c:273`: every `DeviceOpen` probes the chip without `Disable()`, while the
  unit process and the writers may be using it.

*Opening, closing, unloading*

* `device.c:239`: a task that waits for the lock in `DeviceOpen` is not counted
  yet, and `DeviceExpunge` may free the base under it.
* `device.c:251`: an open without `MINE` joins an exclusive one.
* `device.c:290`: the unit process stays when the `BufferManagement` of its first
  opener cannot be allocated.
* `device.c:463`: `DeviceClose` clears `ETHERUF_LOOPBACK` in `lib_Flags`, which is the
  bit `LIBF_DELEXP`, so the mark that `device.c:539` sets ("Mark device itself that it
  should expunge after next DevClose()") is gone before it is tested. Only
  a mark that is set while the last closer waits in `ExpungeUnit` is honoured at line 487
  (`CloseUnitGone`), and then the base is freed under whoever waits for the lock.
* `device.c:573`: a refused expunge closes the libraries of a device in use.

Because of these, the passing runs leave some cases out, each by a constant: reads
are never quick (`SafeQuick`), `nic_live` has no link change,
 overrun or unmarked frame and one session, `write_core` has one request that
needs `sendBuffer`.

### Bounds, and why they are enough

* Openers: two are needed for every conflict between openers (who takes a frame,
  who sends whose packet, who aborts what), three in `DeviceLifecycle` so that
  one can wait for the lock behind another while the last one closes.
* Requests: two, so that one can wait while the other changes the state of the
  unit, or both are on one list; the theorems cover lists of any length. Three in
  `unit_delivered_twice`: two readers and an orphan reader.
* `RxSlots` 2: one frame read and one that arrives between the count and the end of
  the loop; 1 in `nic_overrun`, which is enough for an overrun. `MaxSessions` 2: what
  one session leaves to the next.
* `TxMemory` 2081 in `nic_core` is chosen for the boundary of the test: behind a raw packet
  (1037 bytes, 1044 written) exactly as much is free as the test asks for the cooked one, and
  behind a cooked packet (1029 bytes, 1048 written) four bytes less than that. 2000 in
  `nic_live` holds one packet.
* `PortBound` 1: one command on the port while the unit performs another; it does
  not bound how many come in sequence. The theorems have any bound.
* `FileEdited` is `FALSE` in `write_core`: what an edit does to `eu_StAddr` is excepted by
  `SourceIsOurs` in any case, and the run `station` and the theorems of
  `WritePath_proofs` have the edits.
* Lengths in `write_core`: both sides of the MTU, of the raw header and of the 46 bytes
  the NIC driver asks of a raw frame.
* Nothing else is bounded: `Sana2Unit`, `DeviceLifecycle` and `WritePath` have no
  counters beyond those of the code.

### Fairness, and what justifies it

* `Sana2Unit`: weak fairness of the rest of every call that was entered
  (`ClientStep`, `UnitStep`): Exec runs every ready task. Strong fairness of
  `WakeUp`: receiving frames and serving the port alternate, but every pass of
  the service loop tests the signal of the port. No fairness of the openers or
  of the arrival of frames.
* `Ksz8851Nic`: weak fairness of the steps between `Disable()` and `Enable()`.
  Strong fairness of `EventHandler`, `Delivered` and `Irq`: `Disable()` never
  waits, and the sections of other tasks are short; what asks for the processor
  is only delayed by them.
* `DeviceLifecycle`: weak fairness of the unit process and of calls that were
  entered. Nobody has to open, close or unload the device.
* `Station`: weak fairness of the unit process. `NotifyServed` is stated for behaviours
  in which the unit process waits again and again: it drains its port before it
  looks at the file, so openers that never let the port run dry keep it away.
* `WritePath` has no liveness property; `WritesReturn` of `Sana2Unit` is about the same
  loop.

## 4. What is proved

38 theorems in seven modules, and the lemmas they rest on, all checked by TLAPS.
They hold for all constants that satisfy the assumption named in each module
(`UnitAssumption`, `NicAssumption`, `LifecycleAssumption`, `AddressAssumption`,
`WriteAssumption`: names differ, constants have their types, the set of openers of
the device is finite where openers are counted).

| module | theorems | further assumption |
|---|---|---|
| `Sana2Unit_proofs` | `TypeCorrect`, `NeverTwiceHolds`, `NeverLostHolds` | `PoliteOpeners` |
| `Sana2Unit_service_proofs` | `TxServedHolds`, `NoMissedEventHolds`, `AbortFindsRequestHolds`, `ReadOkHasFrameHolds` | `PoliteOpeners` |
| | `OfflineAbortsUnlessLate` | `PoliteOpeners`, and `[]NoLateRead` |
| | `OrphanUnlessTwoReaders` | `PoliteOpeners`, `EachListed`, and `[]OneReader` |
| `Sana2Unit_contract_proofs` | `KeepsContractHolds` (refinement) | `PoliteOpeners` |
| `Ksz8851Nic_proofs` | `TypeCorrect`, `DataPortExclusiveHolds`, `CountBackedHolds`, `TxOverdraftBoundedHolds` | |
| | `SourcesKeptUnless` | `[](LinkHandled /\ LinkKept)` |
| | `NoSourceForgottenHolds` | no link changes |
| | `AnnouncedUnlessLeft` | `[]NoneLeft` |
| | `FrameAnnouncedHolds` | no overruns, no unmarked frames, one session |
| `DeviceLifecycle_proofs` | `LifeTypeCorrect`, `CountsMatchHolds`, `UnitServesUsersHolds`, `UnitOutlivesProcessHolds`, `OnlyOrphansStayHolds`, `NobodyStrandedHolds`, `SharesUnitHolds` (refinement) | |
| | `ClosedUnlessOrphans` | `[][ClosesAlone]_vars` |
| `Station_proofs` | `StationTypeCorrect`, `UsedAddressHolds`, `TrackConsistentHolds` | |
| | `FollowsFileUnless` | `[][NoticedInTime]_stationVars` |
| `WritePath_proofs` | `WriteTypeCorrect`, `SentOnceHolds`, `WritesKeepContractHolds` and `ImplementsStation` (refinements) | |
| | `IntactUnlessShared`, `OursUnlessShared` | `[]OneFilling` |
| | `FrameIntactHolds`, `SourceIsOursHolds` | `OneBufferUserOnly` |

Every invariant and every action property of the passing runs is a theorem, and so
are the three refinements. None of the further assumptions can be dropped: what each leaves
out is one of the disagreements above.

### What it takes to go wrong

Each safety property that a run above violates is also a theorem, of those
behaviours in which the one thing the run shows does not happen (`FollowsFile` has no
run of its own: it states what the notification of a changed file is for). Such a theorem has
the form `Spec /\ []H => []P`, where `H` speaks about a moment at the line in
question and not about the environment: it says that there is no second way to the
same failure, in any instance, and so what a repair has to achieve.

| theorem | the only ways to lose the property |
|---|---|
| `OfflineAbortsUnlessLate` | a read passes the test of `ETHERUF_ONLINE`, and is queued after `DevCmdOffline` has been through the read queues (`device.c:1540`). One that is queued while the event is raised or before the flush is caught |
| `OrphanUnlessTwoReaders` | two openers have a read pending for one packet type (`device.c:1425`). `EachListed` says that `eu_BuffMgmt` has every opener once |
| `SourcesKeptUnless` | a link change is handled while a receive source that was pending with it is masked (`ksz8851.c:427`), or an overrun is acknowledged while a link change is pending that is masked and that nobody has seen (`ksz8851.c:487`) |
| `AnnouncedUnlessLeft` | the driver goes online with frames in the chip (`ksz8851.c:269`), an overrun is acknowledged over a fresh `RXIS` (487), or an unmarked frame is left at the head of the queue (704) |
| `ClosedUnlessOrphans` | somebody closes while an orphan read of his is on the unit (`device.c:434`); `OnlyOrphansStay` says that without any hypothesis nothing else stays |
| `FollowsFileUnless` | somebody closes the configuration file between the first `ReadConfig` and `StartNotify` (`device.c:977`) |
| `IntactUnlessShared`, `OursUnlessShared` | two tasks have a packet in `sendBuffer` at once (`device.c:2126`) |

The second way of `SourcesKeptUnless` was found when the first alone did not make `SourceInv`
inductive. With any one conjunct of `LinkHandled /\ LinkKept` or of `NoneLeft` left out, TLC
finds a violation, so none is superfluous.
`NoSourceForgottenHolds`, `FrameAnnouncedHolds`, `FrameIntactHolds` and
`SourceIsOursHolds` follow from these theorems: with the constants they assume, the
hypothesis always holds.

### Sana2Unit

`PoliteOpeners` says that no read and no orphan read is sent with `IOF_QUICK`: a quick
read is queued and comes back to its opener at the same time (`device.c:1550`), which
is what `NeverTwice` excludes. The theorems hold for both values of `ClearWireError`.

`NeverTwice` is not inductive. It says that two places have no request in
common, and a step that moves a request from one to the other needs to know why
the second has not got it: a task that works on a request has a label that says
so (`HandInv`), the messages on the unit port have port commands, so that the
unit process finds a label to go on with (`PortInv`), and no request that is
queued or in hand has `IOF_QUICK` set, so that `TermIO` does reply it
(`QuickInv`). Each list is injective and the lists, `events`, `app` and the hands
are disjoint (`ListsOK`, `Places`); that each request has at least one place
completes it. `IInv` is the conjunction with `TypeOK`. There is one lemma per
action for its preservation, and `ListFacts` has what the actions need to know
about `Append`, `Head`, `Tail` and `RemoveAt`.

The other invariants rest on `IInv`: a step that writes to one request disturbs
no other, because it has it in hand or takes it off the one list it is on.

* `TxServed` is inductive on its own: only `WritePut` makes `eu_Tx` longer, and
  it takes its task into the loop, which a task leaves when the list is empty.
* `NoMissedEvent` needs to know that the unit is in the state whose event it is
  about to raise (`EventInv`): with that, the requests `DoEvent` takes off
  `eu_Events` are just those that would be in the way.
* `AbortFindsRequest` is about lists; a request gets there from the hands of an
  opener's task, so `QueuedInv` says of the label in `DeviceBeginIO` what
  `io_Command` is, and that `io_Command` of a pending request never changes.
* `ReadOkHasFrame` holds because all that is returned without a frame is no read,
  or has an error: `CmdInv` has the commands of events, of the packet being sent
  and of the unit process's own request, and `FrameInv` that whatever was offered
  a frame has its address and flags.
* `KeepsContract` asks of every step that it leaves the requests of the openers alone.
  A step writes into what a task has in hand, what is on a list, or what is on
  `eu_Events`, and by `IInv` none of these is with its opener (`Aside`, `Kept`).
* `OfflineAbortsUnlessLate` and `OrphanUnlessTwoReaders` have an invariant each that says when the
  read queues are empty (`OfflineInv`), and that the last opener asked is the only one (`LastOfOne`).

### Ksz8851Nic

`DataPortExclusive` rests on `PortInv`: where each task is between `Disable()` and `Enable()`
follows from `intOff`, and the chip is in transfer mode only while some task transfers. `CountBacked`
rests on `CountInv`: frames arrive behind those that were counted, and only the loop
takes them. `SourcesKeptUnless` needs an account of who will enable each masked
source again (`SourceInv`): the interrupt handler that signals, the event handler by
the value of `ISR` it read, or by the mask it has collected. `FrameAnnounced` is inductive
under `NoneLeft`, with the fact that a session begins with the chip switched off (`FrameInv`).
`TxOverdraftBounded` holds because `txmir` only grows between the test and the transfer (`MemoryStep`),
and because of what each test leaves out (`RawFits`, `CookedFits`). Eleven is exact: the test of a cooked
packet asks for the payload and eight bytes, and what goes through the data port is eighteen bytes and
the payload, rounded up to words. Nothing is assumed of the packets: a raw one is still tested
against what is really free when cooked ones before it took too much.

### DeviceLifecycle

`LifeInv` joins the types and `CountsMatch` with the state of the lock (`LockOK`: a task
that waits inside a call for the unit process owns the lock, those that queue for it
do not), of the base (`BaseOK`) and of the handshake (`HandshakeOK`: between calls the
process runs exactly if there is a unit, and nobody has told it to stop; a task
that starts or stops it is the only one, and the device has no other user). Every
conjunct of it needs another: the counts are only stable because one task at a
time is past the lock.

`SharesUnitHolds` has one lemma per action of `DeviceLifecycle`, which names the step of `SharedUnit`
it is, or says that it is none (`Unseen`). That nobody else is on the way in or out (`Settled`) comes from
`LockOK`, that the last to leave is alone from `CountsMatch` (`unit_OpenCnt` is the number of
users), that `UnitStops` changes nothing an opener can see from `HandshakeOK`, and that
only a device without users and without calls under way is freed from `BaseOK`. What it leaves
open is the task that waits for the lock in `DeviceOpen`, which `SharedUnit` takes to be out
(`device.c:239`).

`NobodyStranded` follows the tasks that wait: whoever waits for `ed_DeviceLock` has it
or is in its queue (`InQueue`), a queue has an owner in front of it, and the owner is not
stuck, because the unit process has what it waits for, or has answered. `Unlock` is
the step that could lose a waiter (`UnlockPasses`), and `UnitStops` the one that
could answer the wrong task; `euProc = lock` rules that out.

### Station and WritePath

`UsedAddress` needs that nothing of an address is copied from a request while the
interface is configured (`Configuring`), and that the command performed is the one the label
names. `StationInv` is proved once and used for `WritePath`, whose every step is a
step of `Station` or leaves it alone (`StationSteps`). `FollowsFile` adds what the loop is about
to do with a change (`FileInv`): a value read and not yet stored is the file's, or a
notification says that it is not.

`WriteInv` says which requests a task or `eu_Tx` holds, that these are the device's and
have not been sent, and that no two holders have the same one (`Held`, `Unsent`); from it follow
`TypeOK` and `SentOnce`. `IntactUnlessShared` and `OursUnlessShared` rest on `Intact`: the fields of
`sendBuffer` filled so far are those of the one request that is being filled, and the
address in them is the one in the chip, since writers only pass the test of
`ETHERUF_ONLINE` when the unit is configured (`Configured`). `OneBufferUserOnly` says that at most one request
ever needs `sendBuffer`; it implies `OneFilling` (`BufferOwner`). The instance of `write_core` satisfies it,
and `write_mixed` shows that it cannot be dropped. `WritesKeepContractHolds` needs that what a
writer has in hand is the device's (`Held`, `Unsent`): every other step of the writers and of the unit
process is a `Serve` that leaves the openers' requests alone.

### Only model-checked

`PortCommandsReturn`, `WritesReturn`, `FlushReturns`, `FramesTaken`, `ShutdownCompletes`, `LockServed`
and `NotifyServed`: the prover has no support for fairness and `ENABLED`. `FramesTaken` is violated in
`nic_overrun`; its safety part, that a frame is counted or announced, is `AnnouncedUnlessLeft`. The
safety part of `ShutdownCompletes` and `LockServed`, that no state is reached in which they could
not be kept, is `NobodyStranded`.

## 5. What is not modelled

* Bytes: the parsing of lines in the configuration file, the padding of short packets,
  the lengths in `fulfillReadIORequest`, the rounding in `ksz8851ReadFifo`. What is
  wrong in them is arithmetic in one place and is in the list above; no
  interleaving matters to it.
* Memory: the receive buffers of `ksz8851Init`. An allocation that fails is a branch
  (`Track`, `OpenFails`), but nothing counts what is allocated.
* The detection of the endian mode, a loop of register reads before anything else
  runs, and the multicast hash filter, which no command reaches (the commands
  that would are commented out, `device.c:1120`). When the detection fails `ksz8851Init`
  resets the chip (`ksz8851.c:173`), which would lose the address registers: `Online` of
  `Station` is a chip that is found.
* The address registers before `S2_CONFIGINTERFACE`. `ksz8851GetStationAddress` returns a
  constant and does not read them; `StationInit` assumes that they hold it too, and no
  property speaks of them before they are written.
* The order of an answer and the event it raises, where both are done by one task
  without a wait: `TermIO` and `DoEvent` are one step in `WriteTooLong` and `SendDone`.
* `ios2_PacketType` as `fulfillReadIORequest` writes it, and
  the error answers of `"query"` commands with bad arguments or an unknown number.
* What `S2_DEVICEQUERY`, `S2_GETSTATIONADDRESS` and the statistics fill in. The
  statistics have no state worth a module: `S2_GETTYPESTATS` is not implemented, the
  counters of `eu_Track` are never read, and nobody counts in `GlobStat`.
* The debug level, and `EndNotify` when the unit process ends.
* Tags, hooks and copy functions of an opener: they succeed, refuse or fail.
* The automatically opened libraries (`__exitlibraries`), and the wait for
  `eu_BuffMgmtLock` in `DeviceClose`.
* One specification of the unit process together with the NIC driver: they meet in
  `Receive` of `Sana2Unit` and `Deliver` of `Ksz8851Nic`, and the state they
  share (who may deliver, and when) is `nicOn`; the product of both is out of TLC's
  reach at bounds where either is interesting.
* The service tool, the stubs of `hwl/hal.c`, the start-up code, the debug output and
  the installer: input and output, or no state.
