# HyperNAV firmware in TLA+

HyperNAV is a hyperspectral radiometer on a profiling float. Two AVR32 boards
under FreeRTOS run it: the *controller* talks to the float and keeps the files,
the *spectrometer* board acquires spectra. This directory holds TLA+ models of
the parts in which several tasks, two boards or several calls have to agree,
configurations to model-check them with TLC, and proofs for TLAPS.

Paths are abbreviated: `C/` is
`src/Controller/Source/HyperNAV_Controller/src/`, `S/` is
`src/Spectrometer/Source/HyperNAV_Spectrometer/src/`.

## 1. The system

```
 NAVIS (float)      controller board                       spectrometer board
 ----------------   ------------------------------------   -----------------------------
 PRFBEG PRFEND  --> commander (CMC)                         commander (CMS)
 TXBEG TXEND SLP      | orders      ^ results                  configuration, power
                      v             |
                    profile manager (PMG) --> files         data acquisition (DAQ)
                    stream log (SLG)      --> files            |  ^
                    aux acquisition (ADQ) <-- OCR, MCOMS       v  | frames
                      |  ^                                  flash memory (a stack)
                      v  | packets, data packages              |  ^
                    data exchange (DXC) <== SPI link ==>    data exchange (DXS)
 RUDICS server  <-- modem
```

| Component | State it keeps | Operations | Correct when |
|---|---|---|---|
| SPI link: `C/spi.controller.c`, `S/spi.spectrometer.c` | two indicator lines, registers, the position in the handshake and in the packet | `SPI_tx_packet`, `SPI_rx_packet` on both boards | the boards agree who sends; what is accepted was sent; success means delivered; calls return |
| Data exchange: `C/data_exchange.controller.c`, `S/data_exchange.spectrometer.c`, `data_exchange_packet.c` | a packet queue per task; data packages (memory, mutex, `EmptyRAM`, `FullRAM`, ...) owned by a task | push, route, send and receive a packet, fill and free a package | a package is at work at one place only; a full one is not touched; none is lost; frames arrive once and in order |
| Commander: `C/command.controller.c` | operation state (prompt, profiling, transmitting), transfer status, state of the other board | the NAVIS commands, results, start-up of the other board | its state is the one of the profile manager |
| Profile manager: `C/profile_manager.c` | `pmg_state`, `profile_id`, `Received_TXBEG_command`, `Offloading_is_Done`, files | orders of the commander, frames and reports of the acquisition, transfer | files hold the frames of their profile; a transfer is complete, asked for, and answered |
| Data acquisition: `S/data_acquisition.c` | `DAQ_state`, a phase per spectrometer, `prepareToStop`, `offload_FlashMemory`, the point of the next measurement | start, stop, measure, assemble a frame, return the frames | it ends; it fills or empties the flash memory, not both |
| Frame store: `S/avr32rlib/Components/FlashMemory/FlashMemory.c` | number of frames, writeable flag, end of the erased cells | `FlashMemory_AddFrame`, `FlashMemory_RetrieveFrame` | a stack of whole frames over sectors that are erased before they are programmed |
| Profile transfer: `pmg_profile_transmission`, `profile_fake`, bursts, `profile_packet.controller.c` | the packet in transfer and the one in memory (both outlive a transfer), what has been sent, the carrier | select a packet, connect, send a burst, terminate, break off | every packet of the profile is announced, sent burst by burst and terminated once, or the failure reported |
| DMA serial buffers: `C/avr32rlib/Utils/PDMABuffer/pdmabuffer.c` | two rings with their pointers and counts, the channels of the DMA controller | write, read, flush, two interrupt handlers | bytes in order, none left behind, the oldest one gives way |
| Auxiliary acquisition: `C/aux_data_acquisition.c`, `C/generic_serial.c` | task state, OCR and MCOMS line buffers | start, poll, parse, send | lines are whole |
| Stream log: `C/stream_log.c`, `datalogfile.c` | mode, current log file | take a frame, log or stream it | a frame taken is a package freed |
| Start-up of the boards: `C/command.controller.c`, `S/command.spectrometer.c` | `specBoard_state`, `self_start`, the package of the configuration; the configuration and the time of the other board | ping, time, configuration, query, report of a reset, start without an order | the package is filled only when it is free; a board that counts as ready is configured; a reset is noticed and a profile that is under way taken up again |
| Task monitor and watchdog: `C/tasks.controller.c`, `S/tasks.spectrometer.c` | a status per task | report, kick | a hang resets the board |
| Configuration store, frames and numerics, files, console, schedule, drivers, host tools | values, formats | sequential | not a matter of ordering |

The behaviours that are hard:

* **Concurrency.** Tasks of one board share data packages by pointer, under
  mutexes and non-blocking queues; the boards run at their own pace.
* **A link made of polling loops.** Each board decides alone to send or to
  receive; registers keep characters of earlier calls; time-outs count loop passes.
* **Lost packets.** A failed transfer, or a full queue, loses a packet without
  an error to anybody. Nothing is sent again.
* **Reports without a subject.** The packets of the acquisition do not say which
  profile they belong to, and the results for the commander not which transfer.
* **Memory that can be written once.** The flash memory must be erased ahead.
* **Static variables.** The packet in transfer, the count of frames at the
  surface, a flag for a running instrument outlive what they were set for.
* **Resets of one board.** The other one learns of it by one packet.
* **Interrupts.** A handler moves the pointers that a task is using.

The full list, with the line where each one bites and the property that watches
it, is in `PROJECT.json` under `hazards`.

## 2. Modules

| Module | Models |
|---|---|
| `SpiLink` | one packet over the SPI link, character by character |
| `DataExchange` | queues, router, packages, both data exchange tasks |
| `FrameChannel` | abstract: a lossy first-in first-out channel |
| `DataExchangeChannel` | `DataExchange` implements `FrameChannel` |
| `ProfileSession` | commander, profile manager and acquisition from PRFBEG to the result of the transfer |
| `FlashMemory` | the frame store and the device below it |
| `FrameStack` | abstract: a stack with room for `Capacity` frames |
| `ProfileTransfer` | a profile in packets and bursts over the modem |
| `Acquisition` | the data acquisition task with two spectrometers |
| `SerialBuffer` | the rings between a task, the DMA controller and its interrupts |
| `BoardStartup` | how the boards get ready and find each other after a reset |
| `SpiLinkProofs`, `DataExchangeProofs`, `ProfileSessionProofs`, `FlashMemoryProofs`, `ProfileTransferProofs`, `AcquisitionProofs`, `BoardStartupProofs`, `SerialBufferProofs` | theorems about the module in their name; the refinements of `FrameStack` by `FlashMemory` and of `FrameChannel` by `DataExchange` included |
| `MC...` | values of the constants for TLC |

They are stacked:

* A call of the link in `DataExchange` is one long step with the outcomes that
  `SpiLink` has.
* The way between the boards in `ProfileSession` and `BoardStartup` is a lossy
  first-in first-out channel, which `DataExchangeChannel` shows `DataExchange` to
  be for one producer and one consumer.
* Flash memory in `ProfileSession` is a sequence used as a stack, which
  `FlashMemory` implements as long as no frame is added between retrievals; that
  this holds is `FillsOrEmpties` of `ProfileSession`.
* `TransferEnds` of `ProfileSession` is a whole transfer with any result:
  `ProfileTransfer` has its steps.
* The acquisition of `ProfileSession` has what the profile manager sees of it;
  `Acquisition` has the points of measurement, the phases of the spectrometers and
  the other modes. `Acquire` of `BoardStartup` is its start and its end.

### SpiLink

One action is one pass of a polling loop, or one 16-bit exchange of the SPI
hardware (`Clock`). `pc`, `role`, `inSync`, `moved`, `left`, `ret` are the place
in the function, its kind, `in_sync`, the counts of characters, `size.asValue` and
the return value (by class, see `Returns`). `mTdr`, `mRdr`, `sOut`, `sRdr` are the
registers of the two peripherals; the shift register of the slave, with the
register behind it, holds two characters, and repeats the last received one when
it has none.

| Actions | Code |
|---|---|
| `Call`, `Enter`, `WaitSeen`, `WaitExpired` | the data exchange loops; `SPI_clear_rx`, raising the line, waiting for the other board |
| `CtlSync`, `SpecSync`, `SyncLost`, `SpecSyncTimeout` | the handshake `?SNCTX`/`?SNCRX`; the slave is one character behind the master |
| `SendChar`, `CtlSendLost`, `SpecSendFails`, `Drain` | the loops that send size, header and data, and the wait for the receiver |
| `CtlReceive`, `SpecReceive`, `ReceiveLost`, `SpecReceiveTimeout` | the loops that receive; on the slave the first two fall through to the third after a time-out |

Two constants give the timing that the code relies on. `Timely`: the slave's
loop keeps up with the SPI clock (20 passes and more per character, on the
boards); without it the slave is overrun, reads stale characters, and times out at any
moment. `Prompt`: a board sees the other pause between two calls (5 ms on the
spectrometer); without it a call may be *early*, begun before the other board
has seen the end of the last one.

### DataExchange

A package is a model value with a `state` (Empty or Full, in either memory) and
a `content`, the number of the frame in it. A packet is a record with the
pointer `pkg` or a value. `hold` is a packet that a task has dequeued, `phase`
the place of a data exchange task, `Locked(p)` that such a task holds the mutex
of `p` over a call of the link. (The other tasks hold it over one copy: one step.)

| Actions | Code |
|---|---|
| `Produce`, `Ask` | a task that fills a package and sends it; a command or a ping |
| `Dequeue`, `HandleFrame`, `HandleValue` | the loop of a task: take a packet, copy the frame and free the package, or answer |
| `TakeOwn`, `TakeForeign`, `StartSend`, `SendFails`, `Conflict` | the sending half of the data exchange loops |
| `SeeActive`, `StartReceive`, `NoRoom`, `Transfer`, `ReceiveFails`, `ReceiveShort` | the receiving half |

The code reads local variables that a failed or refused receive has not
assigned. `StackReuse` lets them hold what the previous pass left there (the
usual outcome on this stack); without it they hold no known address. The runs have it,
and the theorems hold with it and without. `stale` is history: the packages
that such a leftover pointer has named. A pointer that never was one is not modelled.
Pausing and resuming tasks is left out, as no code calls it after start-up.

### ProfileSession

`op` is the operation state of the commander; `pmg`, `profile`, `txbeg`, `offDone`
and `sending` are the variables of the profile manager; `daq`, `action`, `busy`,
`stopping`, `offload` those of the acquisition; `flash` the frames in memory; `down`
and `up` the channels. Frames are numbered; `stored[p]` and `acquired[p]` are what is in
the files of profile `p` and what was put in flash memory for it.

| Actions | Code |
|---|---|
| `Navis(c)` | `APM_CMD_Handle` for PRFBEG, PRFEND, TXBEG, TXEND, SLP |
| `TransferStatus` | `CMD_CMC_Transfer_Status` in the commander |
| `PmgOrder` | `CMD_PMG_Profile`, `_Profile_End`, `_Transmit`, `_Transmit_End` |
| `PmgPacketFromDaq` | `CMD_PMG_Offloading`, `_Offloading_Done`, and frames |
| `TransferEnds` | the return of `profile_fake`, with any result |
| `DaqPassStop`, `DaqPassCommand`, `Offload` | a pass of the acquisition: completing a stop, a command, returning a frame |
| `Schedule`, `SamplingFails`, `Transfer` | `measureNow`, a spectrometer that cannot be started, a light and a dark spectrum put together |
| `LoseDown`, `LoseUp` | a packet lost by the data exchange |

Every order, with the wait for the frames at the end of each pass of the profile
manager, is one action. A pass of the acquisition is several actions (finer than
the code): between its parts other tasks may step, which preemption allows.
`for`, `started` and `faulty` are history: which profile an acquisition was
started for, and whether something has been lost or failed.
Left out: the number in TXBEG that asks for an older profile, the streaming and
calibration modes of the acquisition (their stop, `CMD_DAQ_Stop`, also reports to
the profile manager), the interactive menu, auxiliary frames.

`Patient` is an assumption about NAVIS: it begins a profile only after the
result of the transfer of the previous one, asks for one transfer of it, and does
not end a transfer. Without it several of the properties fail (section 4).

### FlashMemory

Memory is a function from cells to a frame, `erased` or `garbage` (anything that
is not one frame). `Program` writes only on erased cells, anything else becomes
garbage. `AddFrame` is the whole of `FlashMemory_AddFrame`: preparing four
sectors when the store is not writeable, the check of the end, one more sector
when needed, programming; each device operation may fail, and the code does not
look at the result of erasing. `RetrieveFrame` reads, clears the writeable flag
and, when the store is empty, the end of the erased cells.
`Interleaved` = FALSE is the usage by one profile after another: frames are added
to an empty store or after others that were added, not between retrievals.
From a failed device operation on (`failed`) nothing is promised: an erase that failed
is not noticed and can spoil frames that are already there.
All frames are equally long; the variable that remembers the size, and its check, are left out.

### ProfileTransfer

A profile is a number of packets on file with a number of bursts each (`Layout`). `pc` is
the place in the loop of `profile_fake`; `packet` is `packet_in_transfer`, a static
variable that outlives a transfer. `status`, `bursts` and `sent` are the arrays of one transfer,
`accepted` the bursts that the modem has taken in it.

Bursts are made of what is at `transferring_pdp`. The packet on file is never read
there: the call names the address 12 (`:2117`). So that memory holds what it held at
power-up, and `memory` is how many data bursts this amounts to, any of `Contents`; 0 is
nothing valid. `SelectPacket` leaves it as it is, and only `Reset` changes it. The properties of the
transfer (`SuccessMeansWhole`, `Assembled`, `TransferReturns`) are about the bookkeeping of bursts, which is
the same whatever the bursts hold. That they hold the wrong data is a finding (section 4).
What the file destroys from address 12 on is not modelled.

| Actions | Code |
|---|---|
| `Begin`, `CannotBegin`, `Return`, `AllDone` | `profile_fake` |
| `KeepPacket`, `SelectPacket`, `StrayPacket` | the choice of a packet in `pmg_profile_transmission`; the last is a packet number that this profile does not have |
| `Connect`, `ConnectFails` | `open_rudics_server` |
| `SendBurstZero`, `SendBurst`, `SendLastBurst`, `TerminatorFails`, `SendNothing` | the loop over the bursts |
| `Reset` | the watchdog or the power supply |

The code waits for no confirmation of the receiver, so a burst is *sent* when the
modem has taken it. `skipped` and `twice` are history: a burst was passed over, a
burst was sent twice. The
packet with general information (number 0) is left out: no pass selects it.

### Acquisition

A pass of the loop takes a command (`turn = "receive"`), decides (`"decide"`), and lets
each spectrometer take one step. `DAQ_Phase[s]` is the place of a spectrometer;
`closed`, `index`, `nextIndex`, `time`, `darks` and `lights` are its shutter, integration times
and counts; `dark` is the integration time of the dark spectrum in memory.

| Actions | Code (`DAQ_Task`) |
|---|---|
| `NoCommand`, `Start`, `Stop`, `Profiling`, `ProfilingEnd` | the commands |
| `StopAcquisition`, `Measure`, `NothingToDecide` | the end of an acquisition; the pressure and the next point |
| `CloseShutter`, `OpenShutter`, `StartSampling`, `SamplingFails`, `Wait`, `GetDark`, `GetLight` | the phases up to a spectrum |
| `TransferDark`, `TransferStream`, `TransferSingle`, `TransferContinuous`, `TransferSurfaced`, `TransferLast`, `TransferStopping` | the frame, by mode, and what follows it |

`setup` is the instrument and its use: which spectrometers are installed, the modes that are
commanded, the values of `Lights_Per_Dark`. The pressure is any value at each pass; a
failed reading is 0, as in the code. `surfaced`, `carried` and `misled` are
history: the frames at the surface, whether the static count began with some of an earlier
profile, whether a stop left `OCR_started` behind.

### SerialBuffer

A byte is the number of its place in the stream. A task writes or reads byte by
byte, the DMA controller moves bytes until its count is 0, and an interrupt that
is pending runs before the task goes on. The critical section of
`pdma_writeBuffer` is one action (`Account`), and so is an interrupt handler.

| Actions | Code |
|---|---|
| `BeginWrite`, `Write`, `Account` | `pdma_writeBuffer` |
| `Transmit`, `Arrive` | the DMA controller |
| `txHandler`, `rxHandler` | `pdma_txHandler` with `setNewTxTransfer`, `pdma_rxHandler` |
| `BeginRead`, `Look`, `Read`, `EndRead` | `readBuffer` |
| `BeginRead`, `LookToFlush`, `Flush` | `pdma_flushReadBuffer` |

The two rings share nothing, so `direction` follows one at a time. `preempted` and
`torn` are history: a transfer with bytes that are not accounted for has ended
during a write; a byte was overwritten during a read or a flush.

### BoardStartup

`board`, `selfStart`, `op` are variables of the commander, `package` and `memory` the
package of the configuration; `orders` is the queue of the profile manager and `pmg` its state, `queue`
that of the data exchange; `down` and `up` are the ways between the boards; `cfg`,
`synced` and `daq` belong to the spectrometer board, which is `running` or not.

| Actions | Code |
|---|---|
| `Ping`, `Resend`, `SelfStart` | what the commander's loop does in each state of the other board |
| `TakeStart`, `TakePing`, `TakeQuery` | the packets of the other board: it has started, it answers, it has a configuration |
| `Input` | a line on the serial port; PRFBEG and PRFEND |
| `BeginProfile`, `RepeatProfile`, `EndProfile`, `IgnoreOrder` | `CMD_PMG_Profile` and `CMD_PMG_Profile_End` in the profile manager: begun, or failed; told again; ended; without effect while frames are returned |
| `TakeOffloading` | `CMD_PMG_Offloading` |
| `Send` | the data exchange: a packet goes to the other board, and the package is free again |
| `AnswerPing`, `AnswerQuery`, `SyncTime`, `Configure` | the loop of `S/command.spectrometer.c` |
| `Acquire`, `Surface`, `StopCompletes` | the acquisition: its commands, its own end, and its report |
| `Reset`, `Start` | a reset of the spectrometer board at any moment, and its start |
| `Drop` | a packet that found the queue of the data exchange full; its package stays full |
| `LoseDown`, `LoseUp` | a packet lost on the link, or at a full queue of the other board |

A reset of the controller holds the other board in reset, so the initial state stands for
it. A configuration is its number, the vertical of the accelerometer, and
the rest: what a repeated sending fills in differs in these. A packet that is dropped is taken
out of the queue again, at once or later; until then nothing but its place could differ. The profile
manager's own queue is taken to hold its orders, as they are one per input. From the
return of frames on (`pmg = "Offloading"`) there is no way back here: `ProfileSession` has what
follows. Left out: the characters that take over the serial line, the continuous operation mode.

## 3. What is model-checked

| Run | Shows | Distinct states |
|---|---|---|
| `spi_timely` | one board sends and one receives, delivery is intact, success means delivered, calls return if none is early, and only the miss of `spi_hang` keeps one from it; the packet is the handshake of a receiver, letter by letter | 18,723 |
| `spi_late` | with a slave that does not keep up, sizes that are garbled or never set and loops that time out, only characters that exist are moved | 3,411,969 |
| `spi_hang` | *violation*: calls that do not return | |
| `dx_faults` | packages are protected and full ones stable, with all faults and stale variables; with them, a data exchange task that waits is back in its loop eventually, unless the end of a transfer is missed | 236,805 |
| `dx_order` | one pointer per package, frames through a lossy first-in first-out channel, between other packets of the same tasks, with link faults, stale variables and a queue of one packet; for the packages, and up to the moment, that no leftover pointer names | 1,168,148 |
| `session_patient` | own frames, complete transfers, prompt means idle, every TXBEG answered, the acquisition ends, flash is filled or emptied | 260,720 |
| `flash_stack` | erased room, `FrameStack` implemented | 355,636 |
| `transfer_modem` | a success is a whole profile, burst by burst as announced; what was sent can be assembled; a transfer ends | 3,797 |
| `transfer_address` | *violation*: packets are written as they are on file | |
| `acquisition` | spectra belong together, dead branches stay dead, two spectrometers stop and surface together | 538,948 |
| `serial` | bytes in order, nothing left behind, the oldest byte gives way | 108,381 |
| `startup` | a full package is left alone, ready means configured and timed, the board gets ready, and a profile under way is acquired, again after each reset, through resets, a packet lost or dropped and an input | 516,644 |

The properties are stated with comments at the end of each module.
Each property of a passing run is broken by a mutant of one definition (`\* mutant
of ...` in the modules), a slip one could make in that code. The type invariants of the
modules with a proof hold for every value of the constants (section 5), so TLC
does not evaluate them again.

**Bounds and why they suffice.**
*SpiLink*: a packet of a size, one header and one or two data characters, so that each of the
loops (size, header, data) is entered, left and timed out in; the number of calls is not
bounded, so every state of the registers that an aborted call leaves is met
by the next one. The packet of `spi_timely` is `?`, `S`, `N`, `C`, `R`: the answers with which a
receiver ends the handshake, the worst that binary data can hold.
`spi_late` is without `Timely`, with distinct characters, and with room for one data character more than the packet has, so that a
garbled size can ask for more than the buffer holds; its boards pause between two calls
(`Prompt`), which the theorem does not ask for.
*DataExchange*: two or three frames, one command between them (in `dx_order` also a ping or one between the tasks that exchange frames), two packages at the
producer and one at each data exchange task (the code has four and two): the
smallest numbers for which packages run out, frames queue behind each other, both boards
want to send, and a frame is addressed to the data exchange task by mistake.
`QLen` is 3 (larger than all that can be under way), or 1 at the profile manager, to
overflow; in the code it is 6 for 6 packages, so one more packet overflows it too.
*ProfileSession*: two profiles, six commands, two frames, two spectrometers. Two
profiles are what a stale report, flag or frame needs; a third one adds none,
since none of the flags survives a transfer. Six commands leave room for
each profile's start, end and transfer and for commands that come twice.
*FlashMemory*: four frames of two cells in five sectors of two cells above one
reserved cell: frames lie across sectors, opening prepares four of the five
sectors, the fifth must be erased on the way, and the memory is filled and emptied without bound.
*ProfileTransfer*: memory that holds nothing valid, one burst or three; two profiles, of two
packets (three bursts and one) and of one packet (two bursts), and three transfers: a packet number left over from a transfer that broke
off meets the same profile, and one that has fewer packets; a third transfer meets what
two left behind.
*Acquisition*: two points, readings of 0, of the last point and deeper than all, two integration
times, one frame at the surface. Three setups (both spectrometers in profiles, one of
them with a stream and profiles, one with dark characterizations and profiles)
instead of their product; the number of acquisitions and commands is not bounded.
*SerialBuffer*: rings of five bytes and eight numbers, writes and reads of one, two and four:
a transfer that ends at the end of the ring, before it, and wraps.
*BoardStartup*: two resets, one of them while the board recovers from the other; one lost or dropped packet;
one input at any moment. As a profile also begins without an order (`SelfStart`), one input is
enough to end one, to cancel the countdown, or to begin one before it runs out. A ping or configuration is
sent again on time only while that leaves at most three packets under way: enough for a
ping of before the reset, its answer and a second configuration to meet the first.

**Fairness.** A task or polling loop is scheduled again and again (weak
fairness of its steps): FreeRTOS preempts by priority and all loops delay or
block. The SPI hardware clocks what was written. Nothing obliges a board to
send, NAVIS to command, or the float to rise. In `SpiLink` an idle board that sees
the other active calls receive in time. In `DataExchange` a call of the link ends, but
not when a sender has missed the end of the receiver, which takes the line for the next packet
(`EndMissed`): that is what `OnlyAMissHangs` shows of `SpiLink` and `spi_hang` shows to happen. The one step
with strong fairness is `NoAnswer`: `SPI_tx_packet` gives up 1000 ms after it has raised its line, and they run
on while the other board looks at the line again and again and finds no empty package;
nothing is assumed of failures in a transfer that has begun. In `ProfileSession` a spectrometer delivers what is waited for when the
acquisition is to stop; in `Acquisition` it does so with strong fairness of taking
the spectrum, since the loop polls in between; the code has no time-out there. In
`ProfileTransfer` the modem takes something sooner or later, through all losses of
the carrier: the loop has no other end. In `SerialBuffer` the DMA controller and its handler
go on, and a task that writes is not interrupted forever (strong fairness). In
`BoardStartup` the loops go on, a stop of the acquisition completes (`StopCompletes` of
`Acquisition`) and a board that was reset starts; losses and resets are
bounded, as no retry helps against a link that loses everything.

**Deadlock** is checked for the frame store, the acquisition and the serial buffers.
The other systems may rest (all frames made, all commands given, the board
ready), or, in `SpiLink`, hang, which `spi_hang` shows.

## 4. Findings

1. **Calls of the link that never return** (`spi_hang`, `S/spi.spectrometer.c:139`).
   Time-outs count only while a write register is occupied. A sender that misses
   the short pause of the receiver waits in its drain loop, the receiver in its next handshake; neither writes.
   `OnlyAMissHangs` shows that there is no other way.
2. **Packets are not sent as they are on file** (`transfer_address`, `C/profile_manager.c:2117`).
   `data_packet_retrieve_native` is given the literal 12 in place of `transferring_pdp`; the bursts are made
   of what the memory at `transferring_pdp` held at power-up, under the number of the packet on file. When that is no
   valid packet, nothing is sent and the transfer does not end.

Also met while modelling, without a run of their own, and set aside in the properties by an
assumption or a history variable:

* *Link and data exchange.* The handshake needs a slave that keeps up with the master (`Timely`). One that is
  late may take characters of an earlier exchange for it and begin to send while the master is still in the handshake; when the
  packet then holds `?`, `S`, `N`, `C` and `R` in this order, as binary data may, the master takes them for the answers
  of a receiver, and both boards send. A leftover pointer that is dispatched again (`StackReuse`) hands a package
  to a second task (`C/data_exchange.controller.c:730`). A full queue drops its packet and nobody declares the package
  empty (`C/profile_manager.c:3560` and each other push). A ping between a data exchange task and a task of the other board is never
  answered, because the router drops the reply (`C/data_exchange_packet.c:267`; the table at
  `:222` has it sent).
* *A NAVIS that does not wait* (`Patient`). PRFBEG, PRFEND, PRFBEG: the offloading report of
  the first profile ends the second (`C/profile_manager.c:3100`). TXEND ends nothing,
  because the state in which its handler would act is never entered (`:3238`). A stale
  transfer status puts the commander into its prompt with a profile under way
  (`C/command.controller.c:3085`). A start that is sent again reaches an acquisition that
  returns frames (`S/data_acquisition.c:964`, against the comment at
  `C/profile_manager.c:3029`), and the frame store then programs over old frames
  (`FlashMemory.c:309`).
* *Transfer* (`C/profile_manager.c`). `packet_in_transfer` is left over when the modem fails, and the next
  transfer, of any profile, goes on with it (`:2082`); a failed burst
  that is followed by the last one is passed over (`:2276`, `skipped`); when the terminator fails the loop does not
  end (`:2289`, `Unterminated`).
* *Acquisition* (`S/data_acquisition.c`). CMD_DAQ_Stop stops the OCR and leaves `OCR_started`, so that the next
  profile has none (`:909`, `misled`); the count at the surface is not reset by a start
  (`:2616`, `carried`); a pressure that cannot be read is 0, the surface (`:1273`); nothing ends the wait for
  a spectrum (`:1554`).
* *Serial buffers* (`C/avr32rlib/Utils/PDMABuffer/pdmabuffer.c`). A writer that is held up before it accounts for its bytes, for as
  long as their transfer takes, is held up by the handler forever (`:253`, `preempted`); a byte overwritten
  during a read or a flush moves the read position, and the reader then puts back its own (`:422`, `torn`).
* *Start-up* (`C/command.controller.c`). A configuration that is sent again has a zero vertical of the
  accelerometer (`:3503`, `repeated`); the report of a reset is sent once, and if it is
  lost a board without a configuration counts as ready (`startLost`); the time is not
  asked for and may be missing (`slipped`); any input during the countdown
  cancels the resumption of a profile (`cancelled`). A configuration that the full queue drops
  (`C/data_exchange.controller.c:764`) leaves its package full, so that none is ever sent again
  (`:3480`, `Stuck`). A start that fails, or comes while frames are returned or transferred, is ignored
  (`C/profile_manager.c:3005`, `:3041`) and leaves the commander in the operation of a profile: a reset of the other board at that time
  ends its acquisition for good (`AcquisitionResumes` speaks of the profiles that the profile manager has). The clock of the spectrometer
  board overflows after ten hours (`S/systemtime.spectrometer.c:134`).

## 5. What is proved

TLAPS checks the proofs for every value of the constants that satisfies the
named assumptions in the modules (sets of tasks and packages that do not
overlap, sizes that fit).

**DataExchangeProofs.** `TypeCorrect`, `MutexProtection` and `FullStability`
(`Spec => []TypeOK`, `[]MutexProtects`, `FullIsStable`), from the inductive
invariant `IInv == TypeOK /\ SenderHasPacket /\ MutexProtects`. `MutexProtects`
is not inductive alone: a step of a sender that has no packet would read a
field that is not there, so `SenderHasPacket` says that a sender has one, and `TypeOK`
that its package is one. The argument: a package changes state or content only by
a step that finds it unlocked, or by the data exchange task that holds it
(`HandsOff`, `Unlocked`, `LeavesLocked`); so a package being sent stays full, one being
filled stays empty, and since no package is full and empty at once none is in both. These theorems cover
stale pointers (`StackReuse`) and all failures of the link.

`OnlyOnePointer` (`OnePointer`) and `ChannelImplementation` (a refinement proof of `ChannelImplemented`)
hold with stale variables, too: a packet put together again from a leftover pointer breaks the first for the package
that it names, which `stale` remembers, and for no other, and the second from then on. The first follows from
`OnePaths`: for each package that is not stale, at most one place (a queue, and there one
position, a task's hand, a data exchange task) holds a pointer to it, and none unless the package is full,
which pushing, dropping and passing on keep (`PushPoints`, `TailPoints`, `KeepsOnePath`). The second adds `Addressed` (a packet
is never routed back) and `InOrder`: the way of a frame has four stages (the queue at the producer's board, the
link, the queue of the consumer, its hand), each ordered in itself, and each with older frames than the one
before it. A loss anywhere removes frames and keeps that.

**FlashMemoryProofs.** `StackImplementation` (`Spec => StackImplemented`, a
refinement proof) with `RoomErased`, `FramesWhole` and `TypeCorrect`, for any sizes of
frames, sectors and memory, assuming that frames are not added between retrievals
(`~Interleaved`: a frame added there is programmed over an old one, see section 4;
that the acquisition of a patient session does not do so is `NeverFillsAndEmpties` below). The invariant
`IInv == TypeOK /\ EmptyStartsOver /\ RoomIsErased /\ SlotsHoldFrames`: `RoomIsErased`
holds only while the store is writeable, and becomes true again when it is prepared, which
needs `EmptyStartsOver` (preparation begins at address 0 in an empty store).
The arithmetic is in lemmas: `SlotsApart` (locations do not overlap), `Fits` and `Preparation`
(four sectors, and one more when a frame reaches the end of them, always cover the next
frame, because it is not longer than a sector), `AddFrameEffect`.

**SpiLinkProofs.** `TypeCorrect` and `BuffersAlwaysHold` (`BuffersHold`): both packet functions move only characters
that exist, in the packet and in the buffers, for any packet and any buffers, also when
the size field was garbled, or never set because a loop fell through after a time-out, and whatever a
missed handshake leaves. The invariant `IInv == TypeOK /\ Indices /\ InString` says
for each loop how far it can be, which `TypeOK` alone does not.

`AlwaysDeliveredIntact`, `SuccessAlwaysDelivered` (`SuccessMeansDelivered`) and `TimelyIntentionsAgree`
(`IntentionsAgree`) assume `Timely` (section 4 has what happens otherwise), and hold for any packet, the letters of the handshake included, and however early the calls are. The
invariant `TimelyInv` has five cases. `Apart`: no transfer has begun, and what is in the registers was put there by the
handshake; the slave is one place behind the master unless one of them is at its beginning (`Level`, `InStep`), and the
letter that ends the master's handshake is not on its way to arrive there before the slave has also read its own
(`LetterInStep`); so both come to the end by the same exchange of characters (`ApartClock`), with empty registers.
`CtlSends`, `SpecSends`: every character of the packet has been read, or is in the
register or in the place of the slave's queue where its number says. `SpecCollected`,
`CtlCollected`: the receiver has all, may have gone on to the next call, and cannot get further there than
the beginning of the handshake before the sender returns. Under `Timely` a slave's loop times out only when
the master has stopped, and in a transfer the master never has (`CtlSendsOnly`, `SpecSendsFacts`).

**ProfileSessionProofs.** `OnlyOwnFrames`, `TransfersComplete`, `PromptIsIdle`,
`NeverFillsAndEmpties` and `TypeCorrect`, under `Patient`, for every number of spectrometers,
profiles, commands and frames and with every loss and failure. The argument is a token: between
PRFBEG and the result of its transfer a profile is in one place at a time (an order, a command to
the other board, an acquisition, the return of its frames, a report, the manager's flag, a result:
`OneRun`), and nothing of it is left behind that place (`NothingLeft`). Frames have no
profile number, so `Belongs` says that the frames on their way are of the profile that is open on both
boards, and `Conserved` that, unless something failed, they and the stored ones are all
that was acquired.

**ProfileTransferProofs.** `SuccessIsWhole`, `AlwaysAssembled` and `TypeCorrect`, for any profiles and whatever a
power-up leaves in the memory of packets, which the program announces packets from and never fills with
the packet in transfer. The invariant relates the records of what was sent: the arrays of the transfer
(`OnlyCurrent`, `Announced`), the bursts that the modem took, which are the same ones and none twice (`Noted`), and the
packets that are counted as sent, of which every burst is noted unless the last one overtook another (`Terminated`, `skipped`).

**AcquisitionProofs.** `NeverHappens`, `SpectraAlwaysMatch`, `DarkAlwaysRecent`, `AlwaysEnoughAtSurface`,
`OcrAlwaysRuns`, `NothingEverStartsWhileStopping` and `TypeCorrect`, for any instruments, points, integration
times and limits. `IInv` says what each phase knows (`Exposed`: shutter and integration times;
`CountedLights`: the light spectra since the dark one, which a test for equality keeps below
the limit only if no phase skips it), and `Ordered` what a stop and the OCR have to do with the state.

**BoardStartupProofs.** `PackageAlwaysStays`, `ReadyAlwaysConfigured`, `ConfigurationAlwaysWhole`, `ClockAlwaysSet` and `TypeCorrect`,
for any number of resets, losses and inputs. The invariant is about the channels: the pointer to the
package waits once at most, and only while the package is full (`PackageStays` itself); a configuration has the time before it, in the
queue, or on the way to the other board (`TimeFirst`); what waits there was filled in (`DownIsWhole`), because what is
in a full package was (`MemoryIsWhole`); and an answer that is no longer true is followed by the report of
a reset, unless that is lost (`AnswersAreTrue`).

**SerialBufferProofs.** `AlwaysSentInOrder`, `NeverStorm`, `AlwaysReadInOrder`, `OnlyOverwritesWhenFull` and
`TypeCorrect`, for rings of any size, any lengths that a task asks for and any numbers of the bytes (more of
them than places). Positions in a ring are sums modulo its size, which no backend reasons about when the
size is a parameter; `Forward` and `Between` replace them by case distinctions and lemmas show
that they are the same. `TxInv` accounts for every place of the ring (`Balanced`): free, filled,
written ahead of the account, or sent and not yet free again; this bounds `freeSpace`, which may exceed
the ring during a write, and shows that a write fits although the handler runs between any two of its
bytes (`WriteFits`). `TxHolds` and `RxHolds` say what is in the stretch that is filled, `AheadIsKnown` that a
transfer which overtook its write is noted in `preempted`. What concerns reading holds unless a byte was
overwritten under a reader (`torn`), as section 4 says.

**Only model-checked:** liveness (`ExchangeGoesOn`, `TransferAnswered`,
`AcquisitionEnds`, `PromptCallsReturn`, `OnlyAMissHangs`, `TransferReturns`, `StopCompletes`, `SurfaceEnds`, `EverythingSent`,
`BecomesReady`, `AcquisitionResumes`), which is out of the prover's reach. Every invariant and action property, and both
refinements, that the passing runs check are theorems, under the assumptions given above.

## 6. Not modelled

* *Auxiliary acquisition* (`C/aux_data_acquisition.c`, `C/generic_serial.c`): one sequential task that parses
  lines; polling of MCOMS is compiled out. Its frames are those of one more producer of `DataExchange`, its bytes
  come through `SerialBuffer`.
* *Task monitor and watchdog* (`C/tasks.controller.c`, `S/tasks.spectrometer.c`): correct or not by milliseconds, which
  no model here has. A reset that it causes is an action of `ProfileTransfer` and `BoardStartup`.
* *Packaging of a profile* (`profile_package`, `C/frames.c`, `numerical.c`, `wavelength.c`): formats and floating point; of its result
  `ProfileTransfer` knows the number of packets and bursts.
* *Configuration store, files, console, schedule* (`C/config.controller.c`, `filesystem.c`, `schedule.c`, ...): sequential,
  values only. That a file may fail is part of `ProfileSession`.
* *Pool of serial buffers* (`pdma_newBuffer`, `pdma_deleteBuffer`): called when a port is opened; sequential.
* *Sensors, shutters, power* (`S/pressure.c`, `shutters.c`, `C/SystemAPI/`): what is learnt from them is any value.
* *Profile processor of the spectrometer board* (`S/profile_packet.spectrometer.c`, `profile_transmit.spectrometer.c`): compiled,
  and given no work by the controller.
* *Host tools* (`src/ProfileManager`, `src/rudics`): prototypes and simulators that run on a PC.
* *Vendored code*: FreeRTOS, FatFs, the Atmel framework, zlib, the flash driver, and the second copies of all of it
  under `src/STK600` and other directories. They are most of the lines of the repository; the models state what they do by
  how they are used (the entries marked external in `PROJECT.json`).
