# hisi-riscv-hal in TLA+

`hisi-riscv-hal` is a bare-metal Rust HAL for the HiSilicon WS63 and BS2X
microcontrollers: one RISC-V hart, no operating system, memory-mapped
peripherals, and a set of blocking and async drivers over them. This directory
holds TLA+ models of the parts of it in which several actors meet: application
code, interrupt handlers, an executor, and hardware that goes on by itself. The
models are checked with TLC on small instances. For all instances, TLAPS proves the
safety of the DMA core and of cache maintenance, of the async waits for timers, DMA
and pins, of the embassy alarm, both I2C masters, the flash controller, the watchdog,
the blocking SPI, the interrupt controller, PWM, eFuse and I2S.

Everything is translated from `src/src/*.rs`. Hardware is modelled from what the
drivers and their comments say of it, and such definitions are marked external
in `PROJECT.json`.

## The system

### Who acts

* **Tasks**: contexts that call the HAL. There is one hart, and async tasks are
  cooperative: a task keeps the hart until its future returns `Pending` or its
  call returns. Contexts that own a driver handle each (made with the singleton
  and `steal()`, as the HIL tests do) may interleave.
* **Interrupt handlers**: `timer::on_interrupt`, `dma::on_interrupt`,
  `uart::on_interrupt`, `gpio::on_interrupt`, the embassy alarm. A handler may
  come between any two register accesses of a task, and no task runs until it
  is through.
* **Hardware**: the DMA controller, timers, UART FIFOs, GPIO latches, the I2C
  bus, the cache. It moves between any two steps of the two above.
* **The executor**: either `asynch::block_on`, which sleeps in `wfi` and has a
  waker that does nothing, or a real one that polls a task when it is woken.

### Components

| component | state | operations | what is hard about it |
|---|---|---|---|
| DMA engine and loan guards (`dma.rs`) | channel registers (enable, halt, active, count, addresses), `DMA0_CHANNELS_CLAIMED`, channel tokens, `Transfer` / `PeripheralTransfer` guards | split, start, wait, drop, teardown, channel controls | polls and drains with a bound while the engine moves; a teardown of several registers; a guard torn down twice; a token that is returned or dropped depending on the path |
| SPI DMA calls (`spi.rs`) | `tden`, `rden`, one or two channels | `write_dma`, `transfer_dma` and their async forms | timeout halfway through; two channels that finish in either order |
| UART DMA calls (`uart.rs`) | one channel | `write_dma`, `read_dma` | timeout |
| Cache maintenance (`cache.rs`) | lines that are absent, clean or dirty | clean, invalidate, flush of a range, flush of all | neighbours on a line; reads, writes and evictions during a transfer |
| Async support (`asynch.rs`) | `IrqSignal`: a flag and one parked waker | `signal`, `register`, `take_fired`, `reset`, `block_on` | an interrupt between the look and the parking, or before the `wfi` |
| Async timer delay (`timer.rs`) | load count, control, raw interrupt, a signal per channel | `delay_ticks`, `DelayFuture`, handler | stale flags and levels; dropped delays |
| Async DMA completion (`dma.rs`) | done bits, a signal per channel | `wait_transfer_done`, `DmaDoneFuture`, handler | done bit, signal and interrupt enable are looked at and cleared one after the other |
| Async UART reception (`uart.rs`) | receive FIFO, its status bit, a one-byte slot | `read_one`, `RxFuture`, handler | task and handler both pop the FIFO |
| Async GPIO waits (`gpio.rs`) | trigger registers, latches, enable bits, a signal per bank | the five `wait_for_*`, handler | the trigger is armed while the pin moves; pins share a bank |
| embassy-time driver (`embassy.rs`) | TCXO counter and its latch, one alarm, the timer queue | `now`, `schedule_wake`, alarm interrupt | overflow of the conversion; a deadline that has passed, or is beyond the counter |
| I2C masters (`i2c.rs`, `i2c_v151.rs`) | bus, status, FIFOs | `write`, `read`, `write_read`, `transaction`, `probe` | NACK, timeout, a bus left taken; a refusal that comes after the look at it |
| Interrupt controller (`interrupt.rs`, `software_interrupt.rs`) | enable bits, priorities, threshold, `mstatus.MIE` | enable, disable, priorities, critical sections, a software interrupt | several accesses, each of which may be the last before an interrupt |
| Blocking timers (`timer.rs`) | load, counter, control, raw interrupt, latch | one-shot, periodic, alarm, blocking delay | what an earlier start has left; a stale latched value |
| Latched counters (`tcxo.rs`, `rtc_v150.rs`, `time.rs`) | counter, snapshot, valid flag | enable, clear, read | a snapshot in parts, a flag left set, a poll that runs out |
| Watchdog (`wdt.rs`) | lock, load, control, counter | configure, feed, disable, read, arm and leave | five accesses to a call, an early return, the counter running |
| Blocking UART (`uart.rs`) | divider, two FIFOs | constructor, write, read, flush | look and act through `&self`; unbounded loops |
| Blocking SPI (`spi.rs`) | clock tree, two FIFOs, shift register | constructor, transfer, write, `wait_idle` | a bus that sticks; answers left behind |
| GPIO pins and pads (`gpio.rs`, `ulp_gpio.rs`, `io_config.rs`) | direction, data, pad control, function select | `Input`, `Output`, `Flex`, `Ulp*`, pad settings | a register shared by a bank; two drivers write one pad register |
| PWM (`pwm.rs`) | period, duty, enable, clock gates | configure, duty, enable, drop | two handles of a channel; rounding and 16-bit counts |
| Flash controller (`sfc.rs`) | data buffer, command register, status bits, bus DMA | commands, `bus_dma_*` | one acknowledgement for two events; unbounded polls |
| eFuse and key slots (`efuse.rs`, `km.rs`) | mode, voltage, cells; slot select | read, write; lock query | cells cannot be unburnt; a select and a read |
| ADCs and temperature sensor (`lsadc.rs`, `gadc.rs`, `tsensor.rs`) | FIFO or result, done flags, isolation | scan, read, async read; power-up, convert | samples of an earlier scan; a conversion that never ends |
| Random numbers (`trng.rs`, `trng_v1.rs`) | FIFO, done flag | word and buffer reads | look and pop through `&self`; a source that dries up |
| USB device (`usb.rs`) | core reset, connection, interrupt status | `device_enumerate` | events of an earlier connection; a host that never comes |
| I2S (`i2s.rs`) | dividers, mode, enables, four FIFOs | constructors, enables, reads and writes | an order in which the clock may run from an unset divider |
| Clocks, RF power, PDM, key scan, QDEC, BS2X RTC, cycle delay, system control | registers | register sequences | little: straight-line code with bounded polls |

How they interact: the DMA calls of `spi.rs` and `uart.rs` program the engine of
`dma.rs` through its raw register routines and take `DmaChannel` tokens; every
async driver uses an `IrqSignal` that its interrupt handler raises and its
future takes; every async wait enables its line in the interrupt controller;
the DMA guards clean and invalidate the cache around a transfer; the embassy
driver shares the TCXO latch with `time::Instant`.

`PROJECT.json` lists all components with their files, and under `hazards` each
place in the code where one of these things bites.

### What makes each component correct

* DMA: the engine touches a buffer only while it is lent to it; a wait that
  reports success hands back a complete buffer; the claim bitmask agrees with
  the live tokens; every wait and drop returns.
* Cache: the engine reads what the CPU wrote; what the CPU reads after a transfer
  is what was received, and no other data is lost.
* Async waits: a wait ends only for its own event, and only for one that came
  after it began; an event that comes while it waits ends it.
* UART, SPI: bytes leave in order, once; a read returns its own.
* Time: `now` never goes back; an alarm or a timer fires at or after its time, and
  fires; a counter's parts are of one moment.
* I2C: a call that returns `Ok` was acknowledged throughout; the bus is free
  when a call has returned.
* Watchdog: it resets a chip that nobody feeds, and only that.
* Interrupts: a line is taken only when it is enabled and above the threshold; a
  register that several lines share keeps the others' bits; a critical section
  is not entered.
* Pins, pads, PWM, I2S, eFuse: a register that calls share says what was last asked
  of each part of it, with no glitch on the way.
* Sensors, random numbers, flash, USB: what is returned belongs to this call;
  nothing twice, nothing left by an earlier one; and every call with a bound
  returns.

## The modules

### DMA

`DmaEngine` has the registers of a controller's channels. Each `*_raw` routine
of `dma.rs` is an operator on them. `Fetch` and `Land` are the hardware: a
running channel puts a beat on the bus, and a beat on the bus lands, whatever
software has done to the channel since. `flight` is the beat on the bus, and so
the `active` bit. A `job` is the pair of addresses in a channel, named by whoever
owns the buffers behind them: that is what the properties tell apart. One beat
is outstanding at a time, since the drivers program bursts of one.

`DmaTransfer` has every blocking path that lends a buffer, named in `kind`:

| `kind` | code | wait | teardown |
|---|---|---|---|
| `mem` | `start_mem_to_mem`, `Transfer` | bounded poll, then a second look | halt, drain, disable |
| `periSpi`, `periUart` | `start_mem_to_peripheral`, `start_peripheral_to_mem`, `PeripheralTransfer` | the same | peripheral's DMA-enable off, halt, drain, disable; twice after a timeout, by `wait` and by `Drop` |
| `spiWrite` | `SpiDma::write_dma` | bounded poll; after a success a receive drain without a bound | after a timeout: DMA-enable off, halt, drain, disable |
| `spiDuplex` | `SpiDma::transfer_dma` | bounded poll of two channels | DMA-enable off, nothing else |
| `uart` | `UartDma::write_dma`, `read_dma` | bounded poll | halt, disable |

The paths differ in a few operators (`ChannelsOf`, `StopsChannels`,
`DrainsChannel`, `SetsDmaEnable`, `KeepsToken`), and share the actions. `pc` is
the place in the call: `idle`, `guard` (holding a guard that has not been
waited for), `wait`, `recheck`, `perioff`, `halt`, `drain`, `disable`, `rxdrain`
(`write_dma` reads away the answers to what it has sent), `finish`.
Each register access of a wait or a teardown is a step of its own. `claimed` is
the static bitmask, `tok` the tokens a context holds, `chans` the channels its
buffers are lent to. `want` and `landed` count the beats asked for and arrived.
Tokens are claimed all at once (`split_channels`), dropped, moved between
contexts, and returned or dropped by the end of a transfer. `RawControls` adds
the safe `enable_channel`, `disable_channel`, `halt_channel` and
`resume_channel`; they are taken to continue a channel where it stopped.

`LoanedBuffers` is the promise, with no channels in it: a buffer is lent,
written while it is lent, and returned. `DmaTransfer` implements it with `lent`
as "has channels" and `written` as `landed`.

`DmaTransferProofs` holds the proofs.

### Async

`IrqSignal` is the flag and the waker of `asynch.rs`, an action per operation.
`Executor` is what drives a future that waits for one: `poll` is `off` (the task
is in other code), `poll` (about to take the flag), `register` (took it, found
it clear, has not parked its waker yet), `pending` (returned `Pending`), or
`asleep`. `Driver = "block_on"` sleeps in `wfi` and is polled again after any
interrupt that is taken while it sleeps; `"wakers"` is polled again only when
its waker has been called. `OtherWakes` adds whatever else has a task polled:
unrelated interrupts under `block_on`, the other branches of a `join` or
`select` under an executor.

| module | code | notes |
|---|---|---|
| `DelayAsync` | `AsyncDelay`, `DelayFuture`, `timer::on_interrupt` | a channel counts down (`Tick`), raises a level, and a delay may be dropped while it waits (`Cancel`) |
| `DmaAsync` | `write_dma_async`, `transfer_dma_async`, `wait_transfer_done`, `DmaDoneFuture`, `dma::on_interrupt` | over `DmaEngine`; `awaits` are the channels of a call in the order it awaits them; the handler reads the done mask, signals, and clears the mask it read, while the controller goes on |
| `UartAsync` | `read_one`, `RxFuture`, `uart::on_interrupt` | bytes are numbered as they arrive; `StatusLags` lets `rx_fifo_empty` stay clear after a pop, as a comment in `uart.rs` says it does on silicon |
| `GpioAsync` | `Input`'s `Wait`, `arm_and_wait`, `GpioWaitFuture`, `gpio::on_interrupt` | the trigger's two registers, the latch, the signal and the enable register's read-modify-write are steps of their own; the pin may toggle at any time |

A task runs only while every other task is idle or asleep (`Turn`). A handler is
one step where nothing it reads can change under it, and several in `DmaAsync`,
where the controller goes on completing channels. `DelayAsyncProofs`,
`DmaAsyncProofs` and `GpioAsyncProofs` hold the proofs.

### Time

`EmbassyTime` is the embassy-time driver. `count` is the TCXO counter, `latch`
what its four read registers hold, `queue` a deadline per task (`Never` is
`u64::MAX`), and `running`, `load`, `left`, `raised`, `irqOn` the alarm's
channel. `schedule_wake` and `on_alarm_interrupt` both end in the same critical
section, whose place is `cs`: `Expire` (the queue's `next_expiration` at the time
just latched), `Stop`, `Acknowledge`, `Arm` (which latches the time again) and
`Start`, with the clock running in between. `now` is outside it: `NowLatch`,
`NowLow`, `NowHigh` are two of its four reads, between which an alarm may come.
The conversions keep their width: products are taken modulo `Word` (2^64),
loads clamped to `MaxLoad` (2^32 - 1). The queue is a crate of its own
(`embassy_time_queue_utils`) and is modelled by what it returns.

### I2C

`I2cWire` is the abstract bus: what a master may do with a slave that listens,
talks, has refused a byte, or has been told to stop talking. `I2cMaster` is the
WS63 driver over the v150 controller. The four calls (`write`, `read`,
`write_read`, `transaction`) differ only in the list of operations they stand
for, so a call is that list, `CommandsOf` turns it into the commands the driver
gives (a START with the address, a byte, a byte answered with NACK, a STOP), and
`todo` is what is left of them. Each command is: the flags cleared (`clear`, for
a START), the command register written (`issue`), polls (`poll`), a look at the
refusal bit (`check`). `timeout` is the way out of the poll. The controller
(`Execute`) carries a command out, sets `int_done`, and chooses for the slave.
`obeyed` is what was carried out and not refused. The bus may stick at any
time (`Stick`): a poll runs out only then.

`I2cV151` is the BS2X driver. There commands go into a FIFO (`v151Fifo`) that the
controller works off on its own; a refusal empties the FIFO, sends a STOP, and
leaves the abort bit set. `v151Pc` is the place in the call, from `target` (the
address register, behind disable and enable) through `room`, `push` and `abort?`
for each byte to `stop`. Bytes carry a tag that tells successive calls apart.

### Drivers over one device

Each of these has its registers as variables, a call as the list of register
accesses it has left (`...Todo`) or a place in a loop, and the device as actions
of its own that come between any two accesses. What the calls so far have asked
for is kept beside the registers, and the properties relate the two.

| module | code | the device, and what is particular |
|---|---|---|
| `UartPort` | constructor, `write_byte`, `read_byte`, `flush_tx` and the traits over them | FIFOs, shift register and line; bytes are numbered; `upAt` separates the look from the access |
| `SpiMaster` | constructor with its clock-tree sequence, `transfer`, `write`, `wait_idle` | frames are numbered, and an answer has its frame's number; the bus may stick |
| `SfcFlash` | `send_command`, `command_with_data`, `bus_dma_*` | the buffer by bytes, padding included; command and DMA end on their own |
| `UsbDevice` | `device_enumerate` | a host that attaches, resets and enumerates when it likes, and a boot loader's remains |
| `Sensors` | `LsAdc`, `Tsensor` | a conversion is its number; the ADC's future takes the flag and parks its waker in two steps, under `block_on` or an executor |
| `Gadc` | power-up, `read`, `convert_once` | a front-end that may be dead; raw samples at the boundaries of the sign |
| `Entropy` | `Trng` of both chips | words are numbered; on the BS2X a word appears before it is done |
| `Watchdog` | `Watchdog`, `WatchdogArmed` | the counter, its two stages and the reset; a block without clock |
| `Timers` | `OneShotTimer`, `PeriodicTimer`, the alarm, blocking delay, conversions | the counter and its raw interrupt; times of zero; a poll for the latch that may give up |
| `LatchedCounter` | `TcxoDriver`, `Instant::now`, `Rtc` | the snapshot, which may never come |

### Shared registers

| module | code | what is shared |
|---|---|---|
| `PinBank`, over `Pads` | `Input`, `Output`, `Flex`, `UlpGpioPin`; `IoConfig` | the direction register of a bank, between contexts; a pad's register, between two drivers |
| `PwmChannels` | `PwmChannel`, `Duty`, `PwmPeriod` | a channel, between handles |
| `I2s` | master and slave constructors, enables, FIFOs | what an earlier driver has left |
| `Efuse` | `Efuse`; `KeyManager::is_keyslot_locked` | the mode and voltage, between calls; the slot select, between contexts |
| `InterruptControl` | the controller's calls, `free`, `SoftwareInterrupt` | `LOCIEN`, `LOCIPRI`, between lines. `icFrames` is the stack of who runs: an interrupt is taken between any two CSR accesses, when it is allowed |
| `DmaCache` | `cache.rs` around the DMA calls | lines, between buffers. A copy of a word is either the last value or stale: `ccCached` and `ccRam` are the words whose copies are the last value. `ccMixed` are the words whose last value cannot be kept: those on a line that was dirty while a target lay on it, and the target of a call that was given up without invalidation |

`MCPeripherals` and `MCRegisters` compose these modules for checking: one driver
runs in each behaviour, and the others stay in one initial state of theirs, in
which none of their fair actions is enabled. The drivers share no state, so their
interleavings would only multiply it. `Pads` runs with `PinBank`, and `DmaCache`
has the transfer in it; `DmaTransfer` says which paths stop a channel that is
given up, which `DmaCache` assumes of all of them.

`PeripheralProofs` holds the proofs about `I2cMaster`, `SfcFlash`, `I2cV151`, `Watchdog`
and `SpiMaster`; `DriverProofs` those about `EmbassyTime`, `UartAsync`, `UartPort`,
`Entropy`, `Sensors`, `Gadc`, `UsbDevice`, `Timers` and `LatchedCounter`, and about
`MCPeripherals`, the composition of all fourteen. `RegisterProofs` has those about
`DmaCache`, `InterruptControl`, `PwmChannels`, `Efuse`, `I2s`, `Pads` and `PinBank`, and
about `MCRegisters`, their composition. `ListLemmas` has what they share: sequences put
together, taken apart and flattened, and folds over lists of register accesses.

`MC*` modules give the constants names for TLC. Definitions commented
"Variant" are forms that a plausible slip in the code would give; no
specification uses them. `PROJECT.json` pairs each with a property that it
breaks, as a test of the properties.

## The runs

Passing:

| run | instance | states | shows |
|---|---|---|---|
| `dma_guards` | 2 contexts, 2 channels, 2 beats, 2 polls; the draining paths; a bus that does not stall | 803,563 | no buffer is touched outside its loan; the teardown is in order; tokens and claims agree; success means complete; `LoanedBuffers` is implemented |
| `dma_returns` | 1 context, 2 channels; every path, raw controls, a stalling bus | 749,818 | every wait and drop gives control back; the receive drain of `write_dma`, which counts nothing, as an SSI answers only what it was sent |
| `delay` | 2 tasks, 2 timers, up to 2 ticks, dropped delays, an executor with other wakes | 418,528 | no delay returns early; every delay returns |
| `dmaasync` | 2 tasks, 2 channels, 2 beats, 2 calls each, one- and two-channel calls | 692,270 | a call returns its buffers only when the controller has finished with them; a completion after the reset ends the wait |
| `gpioasync` | 2 pins in banks of their own, high, falling and any-edge waits | 370,036 | a wait returns for its own pin and its own call; an edge that comes while it is awaited ends it |
| `peripherals` | fifteen drivers, each on its own instance | 160,344 | see below |
| `registers` | eight blocks, each on its own instance | 1,431,815 | see below |

`peripherals`, by driver:

| driver | shows |
|---|---|
| `I2cMaster` | `Ok` means that all was carried out, in order and that the bus is left free (`OkMeansObeyed`); what is on the wire is legal (`WireSpec`); every call returns |
| `I2cV151` | a read returns this call's bytes (`V151Fresh`); `Ok` and `Nack` of a write mean what they say of its end (`V151WriteEnded`); every call returns |
| `UartAsync` | an awaited byte is a new one; a read that waits when a byte arrives returns |
| `UartPort` | bytes leave in order, once (`UartInOrder`), none is read twice (`UartReadOnce`), the divider is the nearest (`UartAsAsked`), a flush waits for all but the last byte (`UartFlushed`), every call returns |
| `SpiMaster` | registers and clock tree as asked and in a legal order (`SpiAsAsked`), answers belong to their frames, idle means sent, every call returns |
| `SfcFlash` | a command transfers what was asked; a DMA wait ends, and not before the DMA does |
| `UsbDevice` | the speed is this connection's; the call returns |
| `Sensors`, `Gadc` | a sample is returned once and in order, of the input asked for; temperatures are after the last clear; the converter ends isolated; calls return |
| `Entropy` | no byte is given out twice, or before it is done; `Ok` means full; calls return |
| `EmbassyTime` | while a deadline is queued the alarm is on its way, set for the earliest; every deadline is kept, none early |
| `Watchdog` | registers add up and are locked between calls; the chip is reset no sooner than asked, and by a watchdog left armed for certain |
| `Timers`, `LatchedCounter` | no expiry is early, save one that was pending when its start enabled the channel, or lost; a value read is one that the counter had since the call, unless the poll for a timer's lock gave up |

`registers`, by block:

| block | shows |
|---|---|
| `PinBank`, `Pads` | a pin drives what its owner last said (`PinsAsAsked`), starts at its level (`NoGlitch`); a pad has what either driver last asked (`PadsAsAsked`) |
| `PwmChannels` | period and duty as asked; with a period, the gate of the WS63's clock open and, for channel 0, its divider loaded (`PwmAsAsked`); an output ends with its handles (`PwmScoped`) |
| `I2s` | registers as asked, no zero divider, sides not mixed up |
| `Efuse` | cells as written, reads as burnt, voltage down between writes; the lock answer is of the slot asked about |
| `InterruptControl` | enables and priorities as asked, nothing taken that was not allowed, sections kept; a software interrupt that is pended, by its own handler too, is served or dropped |
| `DmaCache` | the controller reads the last values (`SourceInRam`), and so does the CPU (`CpuSeesLast`), both save for `ccMixed` |

Violated, each a place where the code does not do what its documentation says
(`findings` in `PROJECT.json` quotes both):

| run | what happens |
|---|---|
| `dma_duplex_timeout` | `transfer_dma` times out and returns with both channels enabled; a beat lands in buffers that were given back |
| `delay_register_race` | the interrupt comes between `take_fired` and `register`; under an executor nobody polls the task again |
| `dmaasync_duplex` | the receive channel of an async full-duplex call completes while the transmit channel is awaited; the handler clears its done bit, the call resets its signal, and waits for ever |
| `embassy_now` | the alarm latches the counter again between the reads of a `now()`; the halves of two counts make a time that is ahead of the clock, and the next reading is behind it |
| `i2c_v151` | a BS2X `write` looks for a refusal right after each push, before the byte has been on the bus, and then waits for a STOP that an aborted transfer sends too: a write that nobody acknowledged returns `Ok` |

A component's invariants are checked as one conjunction (`UartSafe`, `SpiSafe`,
`PinsSafe`, ...), whose conjuncts are stated and explained one by one in the
module; the liveness of the composed drivers is in two: `CallsReturn` (a call
ends whatever its device does) and `EventsNoticed` (what is waited for and comes
ends the wait).

The same models show more than a run is kept for. Change the constants of a
configuration to see them:

* `NoStrayBeat` is also violated with `Kinds = {"uart"}` (disable without
  drain), with `RawControls = TRUE` (a channel that timed out can be enabled
  again through its returned token), and with `BusMayStall = TRUE` on the
  guarded paths (the drain gives up).
* `DelayReturns` is also violated with `Driver = "block_on"` and
  `OtherWakes = FALSE`: an interrupt between the last poll and the `wfi` does
  not end the `wfi`.
* `OnTime` without its exception is violated: a delay begun while its channel
  still runs for a dropped one can take that one's expiry for its own, because
  `delay_ticks` acknowledges the interrupt before it stops the channel.
* `WokenByOwnPin` is violated with the same bank for two pins (`BankOf`): they
  share a signal, and the edge of one ends the wait for the other.
* `OkMeansObeyed` is violated with `LateAnswers = TRUE`: a command that was given
  up is carried out during the next call, whose wait takes its `int_done`.
* `WireSpec` is violated with `EmptyReads = TRUE`: a read of no bytes sends its
  STOP while the slave drives the bus.
* `EdgeNoticed` without its exception is violated by `wait_for_any_edge`, which
  arms the opposite of a level it has read, when the pin moves before it is
  armed.
* `UartInOrder` is violated with `UartShared = TRUE`, `RandomOnce` with
  `TrngShared = TRUE`, `LockAnswerOwn` with `KmShared = TRUE`: these drivers take
  `&self`, look and then act, and a handler that holds the same reference may
  come between.
* `PinsAsAsked` is violated when a handler's pins are in the program's bank
  (`HandlerPins = {p2}`): `set_oen` reads, changes and writes the bank's direction
  register, and what the handler writes in between is undone.
* `DmaWaitMeansDone` and `DmaWaitReturns` are violated with `SfcOverlap = TRUE`: a
  command acknowledges the DMA's completion with its own.
* `FlashAsAsked` is violated with `EmptyWrites = TRUE`: a count of zero is
  programmed as one byte.
* `SpiOwnAnswers` without its exception (`spOwed`) is violated: `write` says that it
  discards what is received (`spi.rs:265`), and leaves it in the FIFO, where the
  next transfer takes it for its own answers.
* `ExpiryNotEarly` without its exception (`tmOwed`) is violated: what is pending when
  the start of a `TimerDriver` enables the channel, from before or because the old
  count ran out while the load was changed, is not cleared. The exception ends with
  its acknowledgement.
* `ControlReturns` is violated with `RxSticks = TRUE`: the receive drain of
  `write_dma` (`spi.rs:406`) has no bound, and a not-empty flag that stays up
  keeps it for ever.
* `EventsNoticed` is violated with `AdcOtherWakes = FALSE`: `ConvFuture` takes the flag
  and then parks the waker (`lsadc.rs:421`), and an interrupt between the two wakes
  nobody, the race of `delay_register_race`. It is violated with `TmZeroFires = FALSE`
  as well: `delay_us(0)` and `delay_ms(0)` load zero and wait without a bound.
* `CpuSeesLast` without its exception (`ccMixed`) is violated: `dma.rs:1187` says that
  the CPU has not written the target of a receive, but nothing makes it so. A
  target that is dirty in the cache when the transfer starts can be evicted over
  what was received, and a neighbour's write on a line of the target is dropped
  by the invalidation.
* `CallsReturn` is stated for UARTs on the PLL clock: a rate that was checked
  against it gives a divider of zero on the boot clock (`uart.rs:262`), and the
  loops of `write_byte` and `flush_tx` have no bound. It does not speak of
  `tsensor`'s `read_blocking`, which waits as long as the sensor takes.
* Some things need no model. Bytes that arrive between two awaited reads
  overwrite each other in the one-byte slot. The UART handler may take the byte
  between `read_one`'s look at the status bit and its read, which then returns
  what the empty FIFO yields; with `StatusLags` a direct read alone can do so. A
  blocking `PeripheralTransfer` leaves its done bit set, which
  `wait_transfer_done` on that channel takes for its own. An async DMA future
  that is dropped drops its buffers with the channel running. After a NACK or a
  timeout an I2C call returns without a STOP, and the next one begins with a
  repeated START. The BS2X `write_read` sends a STOP before its read, where its
  comment promises a repeated START (`i2c_v151.rs:256`). `flush_tx` returns while
  the last byte is in the shift register. `nb`'s `write` blocks where it should
  return `WouldBlock`. `delay_ns` truncates to whole ticks (`timer.rs:679`);
  `delay_micros` truncates its cycle count to 32 bits, so that a delay beyond
  17.9 s at 240 MHz wraps (`delay.rs:22`). `checked_duration_since` takes the
  difference of two raw counts for microseconds (`time.rs:46`).

### Bounds, and why they are enough

* `MaxBeats = 2` (for 4095): a transfer has a first beat, a last beat and a state
  between them; that is all the code distinguishes. With `MaxBeats = 1` in
  `dma_returns` liveness does not depend on the length.
* `WaitLoops = 2` (for 5,000,000): a poll with polls left and one without. The
  code tests the counter in two ways, after and before the decrement; both are
  in the model and come apart at this value.
* Two contexts, tasks, channels, timers, pins: every interaction in these
  modules is between two of them: two claims of a token, two channels of a
  full-duplex call, two bits of one handler's mask.
* `MaxTicks = 2`: a zero delay (armed as one tick), one tick, and more than one.
* `RxHeld = 1`: the receive drain of `write_dma` finds nothing, or an answer from before,
  and the answers to what was sent.
* `TmMax = 3` with `TmInputs = {0, 1, 3}`: a count of zero, one that is rounded, and one
  beyond the counter, saturated for a delay and refused for a start.
* `MaxCalls = 2`: a call, and one after it that finds what the first has left
  behind. There is no bound on the number of transfers in `DmaTransfer`, nor on
  delays, waits and toggles.
* `MaxBytes = 4`: two reads with a byte between them and one in the FIFO.
* `Deadlines = {1, 3, 8}` with `Word = 16`, `MaxLoad = 3`, `TcxoHz = 2`: one that a
  single load covers, one that needs several, one whose conversion overflows; each
  is past by the time the clock has gone on. `MaxCount = 7` follows the clock past
  the first two; beyond it only the timer runs. `Lane = 4` splits the counter in two.
* `MaxLen = 2`, `MaxOps = 2`: an operation without bytes, with one that is first
  and last, with a first and a last; a call with no START, one, and a repeated
  one. The number of calls is unbounded.
* FIFOs of two (`UartDepth`, `SpiDepth`, `V151Depth`, `TrngDepth`, `AdcDepth`): empty,
  partly full, full. One more byte, frame, word or conversion than fit
  (`UartBytes`, `SpiFrames`, `TrngWords`, `MaxConversions`, `GadcMaxConversions`)
  fills them and goes on; `V151Refuse = 3` lets a device take a whole call and the
  first byte of the next.
* Clock rates and times (`UART_CLOCK_HZ`, `SPI_CLOCK_HZ`, `PWM_CLOCK_HZ`, `TmTicks`,
  `WdtTicksPerMs` and the inputs beside them): each list has a value that divides
  evenly, one that is rounded, one at the limit and one beyond it, or zero.
* `BufBytes = 4`, `WordBytes = 2`: a part of a word, a word, a full buffer, and (by
  `SfcCalls`) one byte too many.
* `CcWords = 4`, `CACHE_LINE = 2`, `CcLengths = {1, 2}`: a buffer that is part of a
  line, a whole line, or half of each of two; source, target and a neighbour on
  one line. `CcKinds`: a call that reads memory and writes it and invalidates,
  one that only reads, one that does not invalidate after a timeout; the other
  two calls do as one of these. The proofs are for any values.
* `IcIrqs = {28, 36}`: a line in `mie` and one in `LOCIEN`, in registers of their own
  for the enable and the priority; the second is the software interrupt.
* `PwmHandles = {1, 2}` over channels 0 and 1: two handles of one channel, or one
  of each; channel 0 alone has its
  divider loaded.
* `EfMaxRead = 2` over `OtpBytes = 4`: a read of nothing, of one byte, and one that
  may run over the end of the array.
* `I2sDepth = 1`: a FIFO that is empty or full, so that every second write overflows;
  `I2sChannels = {2, 16}` are the shortest frame and the longest.

Symmetry is used in `dma_guards` only, over contexts and channels, which the
code treats alike. Deadlock is checked in every run but `peripherals`, where it
is not an error: a chip that its watchdog has reset does nothing more, and
drivers with a bounded supply of bytes or words come to an end.

### Fairness, and why the code justifies it

* A call that is under way keeps running (`WF` on `Working`, on each driver's
  accesses): the hart executes.
* A task that can run gets its turn (`SF` on `TaskStep`): an executor polls all
  that is in its run queue before it polls any of it again. Weak fairness is too
  weak here, because a task is disabled whenever another one has the hart.
* A pending, enabled interrupt is taken (`WF` on the handler): the handlers'
  documentation has the firmware enable interrupts globally.
* Hardware: a running timer counts, a latched counter answers, a UART with a divider
  shifts, a conversion or a flash command that was started ends; the SPI, being the
  bus master, shifts while it is told to. In `DmaTransfer` a beat lands in time only
  when `BusMayStall` is off. Nothing is assumed of a slave, a USB host, a source of
  randomness, an analog front-end or of the application.
* `EmbassyTime`: the critical section runs on, the clock ticks, and a pending alarm
  is taken between critical sections (`SF`: they are short, and they end).
* `I2cMaster`: the driver runs, and the controller carries out what it is given
  unless the bus is stuck.
* `InterruptControl`: the hart goes on. `PendServed` supposes that interrupts are
  enabled and the threshold is low time and again.
* Other wakes recur where `OtherWakes` is set, and `AdcOtherWakes` for the ADC.
  `delay_register_race` shows that this is needed: without it, the wait does not end.

### Assumptions

The modules name what they assume of their constants; TLC evaluates it on every run.
`DmaTransferAssumption`: finitely many channels, at least one beat and one poll, kinds
of the table above. `DmaAsyncAssumption`: a signal per channel, a job per task.
`DelayAssumption`, `GpioAssumption`, `UartAssumption`, `ExecutorAssumption`,
`CacheAssumption`, `EmbassyAssumption`, `I2cAssumption`, `SfcAssumption`,
`V151Assumption`, `WdtAssumption`, `SpiAssumption`, `PwmAssumption`, `EfuseAssumption`:
the types of the numbers, positive where a size or a divisor is meant.
`TrngAssumption`, `SensorsAssumption`, `GadcAssumption`, `TmAssumption`, `LcAssumption`:
likewise. `IcAssumption`: lines 26 to 127, which `mie` and `LOCIEN` have room for,
priorities 1 to 7 and thresholds 0 to 7. `I2sAssumption`: the channel counts and widths
that the driver's enumerations have, at least one of each. `EfuseAssumption` and
`UartAssumption` ask for a key slot, a task and a signal to `CHOOSE` from;
`PadsAssumption` has settings that the register's fields can hold; `PinsAssumption`, that
the handler's pins and the ULP pins are pins. `UpAssumption`: a divider of two halves of
as many bits (`UartDivMax + 1` is a square, 256 times 256 in the code), a boot clock that
is not faster than the PLL's, a FIFO of at least one byte.

* `DmaTransfer`: each context has a `DmaDriver` of its own. Two at a time need
  `steal()`; every violation listed also happens with one context.
* `dma_guards`: a beat on the bus lands before 5,000,000 polls have been made
  (`BusMayStall = FALSE`), and nobody uses the raw channel controls.
* SPI under DMA: an SSI receives one answer to each frame it was handed, beside the
  `RxHeld` it had before (`RxSticks = FALSE`); one that is late is left to the next
  reader. In `DmaAsync` the same drain is one step, and taken to end.
* `DmaAsync`: the controller has been enabled; neither call does so.
* `UartAsync`: the application has enabled the port's interrupt line, which
  `read_one` does not; the FIFO is long enough for what arrives; no read is
  dropped.
* `GpioAsync`: no wait is dropped; nobody else drives the bank's registers.
* `EmbassyTime`: the counter is latched when its registers are first read (the
  100 polls suffice); deadlines are kept up to the overflow of `count * TICK_HZ` (8.9
  days at 24 MHz), beyond which they are late or lost.
* `I2cMaster`: a command that is not carried out within the polls never is
  (`LateAnswers = FALSE`); reads ask for at least one byte. `I2cV151` has late answers.
* The drivers that take `&self` (UART, random numbers, key slots) are used by one
  context; commands and DMA of the flash are not mixed; a write has a byte. The
  switches that lift these are named above.
* `Timers`: a channel that is loaded with zero expires at its first tick
  (`TmZeroFires = TRUE`); the code says nothing of it, and only the end of a delay of
  zero depends on it. Nothing is assumed of the latch of the current value.
* `Sensors`: something else has the task that awaits a conversion polled time and again
  (`AdcOtherWakes = TRUE`).
* `Gadc`: the write that triggers a conversion takes the done flag of the last one down;
  the driver polls it right after that write and never clears it.
* `PwmChannels`: the clock tree of the WS63, where the gate is every channel's. The dividers of
  channels 1 to 7 are loaded by nobody (`pwm.rs:118-119`), and on a BS2X no clock register is
  written: whether those have a clock is not claimed, in spite of `pwm.rs:8-11`.
* `InterruptControl`: a handler begins by clearing its interrupt; a pend of the software
  interrupt that comes before is taken with it.
* `DmaCache`: the CPU does not touch the buffers of a call under way (they are
  borrowed); a transfer that is given up is stopped.

## What is proved

Each theorem is for all values of the constants that satisfy the named assumption of
its module (listed above), and for any number of steps.

| theorem | module proved about | what it says | hypotheses |
|---|---|---|---|
| `TypeCorrect`, `TokensAlwaysMatch` | `DmaTransfer` | on every path the state stays typed, and the claim bitmask agrees with the live tokens | none |
| `BuffersStayGuarded`, `TeardownInOrder`, `NoBeatAfterReturn`, `ImplementsLoan` | `DmaTransfer` | a buffer is touched only while it is lent; a channel is halted, drained, disabled before its buffers are given back; `LoanedBuffers` is implemented | `Quiescing` |
| `SuccessIsComplete` | `DmaTransfer` | on the paths that use one channel, with at most one beat on the bus, a wait that reports success hands back exactly the beats asked for | `Quiescing` |
| `BuffersHeldUntilDone` | `DmaAsync` | an async call returns its buffers when the controller has finished with them | none |
| `DelaysNeverShort` | `DelayAsync` | a delay that found its channel at rest is not shorter than asked | none |
| `TypeCorrect`, `WokenByOwnEvent` | `GpioAsync` | a wait ends for its own pin's event, after the call | the second: `PinsApart` |
| `AlarmAlwaysPending`, `AlarmAlwaysEarliest`, `NeverWokenEarly` | `EmbassyTime` | a queued deadline has an alarm on its way, for the earliest; no task is woken early | none |
| `I2cOkMeansObeyed`, `I2cImplementsWire` | `I2cMaster` | `Ok` means that every command was carried out once, in order; the wire is legal | `EmptyReads`, `LateAnswers` are `FALSE` |
| `V151ResultsOwn` | `I2cV151` | results are about the call that returned them | none |
| `SfcCommandsDone` | `SfcFlash` | a returned command did what was asked; a DMA wait ends after the DMA | `EmptyWrites`, `SfcOverlap` are `FALSE` |
| `WatchdogTrue` | `Watchdog` | set as asked, locked between calls, no bite before the timeout | none |
| `SpiAsPromised` | `SpiMaster` | set up as asked in a legal order; answers belong to their frames; idle means sent | none |
| `CpuAlwaysSeesLast`, `SourceAlwaysInRam` | `DmaCache` | outside the target of a call under way the CPU reads the last values, and a running channel has in RAM what it has to read, save for `ccMixed` | none |
| `InterruptsAsAsked`, `HandlersAsAllowed` | `InterruptControl` | enables, priorities and pending bits are as asked; nothing is taken that the line's enable, the threshold or a section forbids | none |
| `WavesAsAsked` | `PwmChannels` | between calls a channel has the period and duty last asked for, on a WS63 with its gate open and, if it is channel 0, its divider loaded; its output ends with its handles | none |
| `CellsAsAsked` | `Efuse` | cells, voltage and lock answers are of the call that asked | `KmShared` is `FALSE` |
| `I2sAsPromised` | `I2s` | registers as asked, the nearest bit clock, no zero divider, sides apart | none |
| `AwaitedBytesFresh` | `UartAsync` | an awaited byte came in after the read began | none |
| `PortAsPromised` | `UartPort` | bytes leave in order and once, none is read twice, the divider is the nearest, a flush waits for all but the last byte | `UartShared` is `FALSE` |
| `RandomnessOnce` | `Entropy` | no byte is given out twice, none is of an unfinished word; `Ok` means full | `TrngShared` is `FALSE` |
| `SamplesOwn` | `Sensors` | samples are returned once, in order; temperatures are after the last clear | none |
| `ConversionsAsAsked` | `Gadc` | a result is of the input asked for and not the first after power-up; the converter ends isolated | none |
| `SpeedOfThisCall` | `UsbDevice` | the speed was negotiated after the call's own reset | none |
| `TimerTellsTime` | `Timers` | an expiry is not early, save one that was pending when its start enabled the channel, until it is acknowledged, and an alarm's never; a current value is none of an earlier call, unless the poll for the lock gave up | none |
| `ReadingsCoherent` | `LatchedCounter` | a reading is one count, which the counter had since the call | none |
| `PadsAlwaysAsAsked`, `PinsAlwaysSafe` | `Pads`, `PinBank` | pads and pins do what was last asked, and no pin begins to drive at another level | the second: `BanksApart` |
| `EachResultOwn`, `EachTimeTrue` | `MCPeripherals` | results and times belong to the call that returned them, with the exceptions of `TimerTellsTime`, beside all other drivers | none |
| `EachStateTyped`, `DriversAsPromised` | `MCPeripherals` | every driver's state is typed; all the safety that the run `peripherals` checks holds of the composition | `UartShared`, `TrngShared`, `EmptyReads`, `LateAnswers`, `EmptyWrites`, `SfcOverlap` are `FALSE` |
| `EachBlockTyped`, `BlocksAsPromised` | `MCRegisters` | the same of the run `registers` | `BanksApart`; `KmShared` is `FALSE` |

The hypotheses are the cases in which the property does not hold: for each of them the
list of violations above has the run or the constant that shows it. `Quiescing` is
three of them: only draining paths, no raw controls, a bus that does not stall.
`BanksApart` is the one of `PinBank`: the pins that a handler holds are in no bank with
the program's, since both write the bank's direction register by read and write back.

With these, every safety property of the passing runs, invariant or action property, is a
theorem. The refinements `LoanSpec` and `WireSpec` are theorems as well.

### The arguments

None of these invariants is inductive as it stands. What has to be added to each, and
why, is this; the inductive invariant's name is in parentheses. It is stated after the
properties of its module, under "Why these hold", or at the head of its proof.

* **Tokens** (`TokenInv`). `TokensMatchClaims` alone would let a launch with a transfer
  under way forget the channels of that transfer. Added: a context has channels
  exactly while it is not idle. Every action either leaves the tokens and lent
  channels alone (`TokensUntouched`) or moves a set of channels between `tok`, `chans`
  and the unclaimed rest.
* **Loans** (`GuardInv`). `BufferGuarded` holds just before a disable that leaves a beat
  on the bus. `StoppedInOrder` adds that a channel that runs or has a beat out belongs
  to the transfer whose addresses it holds, and that the teardown has reached, at each
  of its stages, what the next one relies on (halted at the drain; halted with nothing
  on the bus at the disable; disabled at the end). That a transfer's channels belong to
  nobody else comes from the tokens. For the refinement, every step is a `Lend`, a
  `Write`, a `Return` or a stutter: a beat lands for a context whose `chans` is not
  empty.
* **Complete transfers** (`BeatsInv`). While a transfer is undisturbed (its channel is
  not being torn down) the beats landed, in flight and left add up to those asked for,
  and only an undisturbed one is reported a success; a channel that has stopped by
  itself has none left.
* **Async DMA** (`BufferInv`). A busy channel is awaited by the task whose addresses it
  holds. A done bit that is set, or that the handler has read, belongs to a channel that
  is not busy; and so does a fired flag, once a wait has reset it. That is why the reset
  before the two looks of `wait_transfer_done` is enough.
* **Async delays** (`TimeInv`). What has elapsed and what is left to count add up to what
  was asked; the reset before the wait leaves no raised level and no fired flag that
  could end it early, unless the channel still ran for a dropped delay.
* **GPIO waits** (`PinInv`). A latch, a flag and a matching level are events of this
  wait from the point of the set-up at which each was cleared. This needs `PinsApart`,
  since a bank's one flag cannot tell its pins apart.
* **Alarm** (`AlarmInv`). `AlarmPending` speaks of the time outside the critical section.
  Added: what the section has established at each of its stages (`next` is the earliest
  deadline from `Expire` on, the channel is stopped from `Stop` on, there is something to
  wait for from `Acknowledge` on, the load is not zero from `Arm` on). The clock ticks
  in between: it can raise the level but stop nothing. That nobody is woken early is the
  rounding of `TicksOf`, whose time is never ahead of the clock.
* **I2C on the WS63** (`I2cInv`). The flags belong to the command at hand; what was
  obeyed, followed by what is left to do, is what was asked; each command left follows
  legally on the one before it, and the first on the state that the wire is in.
  `CommandsOf` flattens a list of operations, so its form comes from the lemmas on
  flattening in `ListLemmas`.
* **I2C on the BS2X** (`V151Inv`). `V151Controller`: a STOP is the FIFO's last command, and
  once it is on the bus, or the FIFO has been dropped, nothing is left. `V151UnderWay`:
  what is taken and queued is of this call, and a refusal leaves a byte of it untaken.
  `V151Stages` and `V151Ended`: what is known at each place and after each result.
* **Flash** (`SfcInv`). The command bit belongs to the command at hand. While it runs, the
  registers and the buffer have been told this call's bytes (`SfcTold`); when it is set
  they have been moved (`SfcMoved`).
* **Watchdog** (`WdtInv`). `WdtBracketed`: a call unlocks first and writes before it locks,
  so no write is lost; `WdtPromised`: what was asked has been written or is due;
  `WdtTimed`: no expiry comes without the ticks that the counter has counted down.
* **Blocking SPI** (`SpiInv`). `SpiBuilding`: the accesses left are the last of the
  constructor's and those before them have been made; `SpiAnswers`: unless an earlier
  `write` has left answers behind, the frame that a transfer waits for, or its answer,
  is alone between the two FIFOs' ends; `SpiSent`: nothing is pushed while the bus is
  waited for.
* **Cache** (`CacheInv`). `TargetLines` (a line that is dirty under a target is all
  mixed), `RamCurrent` (what is not dirty is in RAM, so that dropping a clean line loses
  nothing), `Cleaning` and `Settling` (a word that is not yet in RAM, or of which the
  CPU has an old copy, has a cache command for its line still to come), `TodoFits` (the
  commands left are of one kind, and invalidation is of target lines only). That
  `maintain` covers every word of its range, however it lies on the lines, is
  `MaintainsLines`.
* **Interrupts** (`IcInv`). `IcNested`: a handler runs on a thread that is in no section,
  and only clears interrupts; `IcPlanned`: the accesses left of a call do what it is
  asked for; `IcKept`: a line is as asked unless an access about it is still due, and
  its priority field is zero, as asked, or as it was. Lines that share a register are
  told apart by the arithmetic of `LOCIPRI`'s registers and shifts.
* **PWM** (`PwmInv`). `Waves`: every channel has its wave, with a period only after the
  gate and the divider were written, but the one being set, whose
  writes left are a tail of `configure`'s and complete it. `PeriodsFit`, `DutyWithin` and
  `HalfFits` are the arithmetic: a period that was accepted fits the register, and a
  duty is within its period.
* **eFuse** (`EfuseInv`, `SlotInv`). A read's accesses left are those of a read of what it
  has not read yet (`ReadGoesOn`); how many accesses a write has left fixes mode,
  voltage and the cells (`WriteGoesOn`). A slot that was selected stays so until its
  status is read, since a second context has no query under way.
* **I2S** (`I2sInv`). The writes left are the end of the constructor's list, and each
  register whose write is done has its value: the list names a register once, and its
  first entry is the clock without which no write is latched (`PlanIsSound`). The
  divider's write comes before the clock generator's, and `NearestDivider` says that it
  is positive and that no other is nearer. Samples of a side are only ever moved along
  that side's FIFOs.
* **Async reception** (`UartInv`). `WaitsForFresh`: from the reset of the signal on, what
  is in the FIFO, and once the signal has fired what is in the slot, came in since the
  read began. Before the reset the slot may have anything.
* **Blocking UART** (`UpInv`). `UpBuilding`: the constructor's writes left are the end of its
  list, and the halves and the fraction that are written are those of the rate; the
  latch bit is off when the last is. `UpBytes` numbers the bytes on their way out.
  `UpRead` (`InTurn`): what was read came before what is in the FIFO. `UpCalls`: what the
  look at the status saw is still so at the access, for one context.
* **Random numbers** (`TrInv`). `TrOrdered`: words are in the order they were made, and
  later than every word that a buffer has bytes of, so that a pop cannot repeat one
  (`TrApart`). `TrCalling`: one that is about to pop has a whole word there, which is
  where two contexts would break it.
* **Sensors** (`SensorsInv`). `AdcSamples`: what is in the FIFO is later than what has been
  returned, in order, and of enabled channels. `TsSince`: what is ready was converted
  after the last clear.
* **ADC** (`GdInv`). `GdAt`: with `n` accesses left the input is the one asked for, a
  conversion has ended before the one that counts, and the flag that ends the second
  poll is of that input. `GdGivesUp` is the way out of a poll that has run out, which
  isolates the converter all the same.
* **USB** (`UsbInv`). `UsbAt`: from the reset to the connection the device is detached, so
  that an enumeration seen after it is this call's.
* **Timers** (`TmInv`). At each place of each call, `TmAt` says what is left to do and what
  holds there: before the enable, for an alarm, that nothing is pending or running
  (`TmQuiet`), and after it that what has elapsed and the count left make up the time
  asked for, and what is pending came in time or was pending at the enable (`TmOnTime`). A
  value locked since the request is between the counts then and now (`TmLocked`).
* **Latched counters** (`LcInv`). `LcSnapshot`: from the request on no snapshot but its own is
  valid, and the one that is read stays to the end, so that its halves are of one count.
* **Pads and pins** (`PadsInv`, `PinsInv`). A call's accesses left are one of the ends of the
  calls' lists (`PlansLeft`), and each says what it has still to do to the direction and
  to the level (`Holds`): a direction register that was read is as it was read until it is
  written back, and the saved direction of a `Flex` is the one last asked for. A pin
  that no call is about does what was asked (`Settled`). An access of one context
  leaves the other's plan true since their banks are apart.
* **The compositions.** A step of `MCPeripherals` or `MCRegisters` is a step of one driver,
  and a stutter of the others (`OnlyOneRuns`, `OneBlockSteps`). So each behaviour of
  `MCPeripherals` is one of every driver's own specification (`EachDriverItself`), and
  their theorems hold there. In `MCRegisters`, where `Pads` runs by itself or within
  `PinBank` and the two parts of `Efuse` run apart, the inductive invariants are put together
  instead (`BlocksFit`).

### Only model-checked

* All liveness (`ControlReturns`, `DelayReturns`, `CompletionNoticed`, `EdgeNoticed`,
  `CallsReturn`, `EventsNoticed`, `PendServed`): the prover does neither fairness nor
  `ENABLED`.
* That an awaited full-duplex call, a delay or `now()` goes wrong, and the other
  violations: each is one behaviour, which TLC shows.
* What a hypothesis excludes (a shared port, a late answer, pins of one bank): the
  property does not hold there, and changing the constant shows how.
* That the cache and the transfer meet as `DmaCache` has it: it starts and ends its own
  transfer, and assumes that a channel which is given up is stopped. `DmaTransfer` says
  on which paths that is so.

## What is not modelled, and why

* Interrupt masks, control words, addresses, linked lists and synchronisation
  bits of the DMA driver; the FIFO levels of the SPI under DMA. None of them decides who
  may touch a buffer when.
* Clocks and RF power: straight-line sequences run once at start-up. They have no
  second actor and no state that an order of calls could spoil. (`clock_init`
  selects the PLL before it looks at its lock.)
* PDM, key scan, quadrature decoder, the BS2X RTC, system control, the cycle
  delay: single register accesses, or a pure expression.
* Of modelled drivers: the timing registers of the BS2X I2C master and of the
  flash controller, AES, polarity and pulse count of PWM, interrupt masks of I2S,
  analog enables, filters and limits of the ADC and the sensor, sample clocks of
  the random-number sources. They are stored and read by nobody in the HAL.
* Arithmetic of `Instant`, `Duration` and `Rate`: operators of one expression each.
* Ownership of peripherals and pins: it is in Rust's types, and the models take
  it as given.

## Plan

Done: the DMA core with its abstract specification, cache maintenance around it, the
async family, the embassy-time driver, both I2C masters, the interrupt controller, the
watchdog, SPI, UART, flash, PWM, eFuse, I2S, timers, counters, converters, random numbers,
USB, pins and pads; their safety proved, for each and for the compositions. What a team
would add next:

1. The composition of `DmaCache` with `DmaTransfer`, so that a channel that is not
   stopped meets the cache.
2. Waits and reads that are dropped, in `GpioAsync` and `UartAsync`, and calls in
   `DmaAsync`.
3. Alternatives to `BanksApart`: what the direction register of a bank would need
   (a critical section around its read and write back) for pins of one bank to be
   held by two contexts.
