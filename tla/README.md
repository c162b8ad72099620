# A verification project for kernel_drivers_examples

The repository is a collection of Linux drivers, boot loader code and small
programs for the RK3288, RK3399, tiny4412 and x86 boards.  It is not one program:
every directory holds a component of its own.  This project models the
components whose control is hard to get right, checks them with TLC on small
instances, and proves their central properties with TLAPS.

## 1. Inventory

| component | state it keeps | operations | what is hard |
|---|---|---|---|
| rockusb download mode, `rk3399/debug/usb/cmd_rockusb.c` | `usbcmd`: command status, CBW, CSW, transfer counters, block address, prefetched block, two buffers per direction, giveback of each endpoint; reset, lock and format flags | the polling loop `do_rockusb`, three controller callbacks, fifteen commands, two data stages, the CSW, reset/format/timeout checks | the controller fills and sends buffers while the loop runs; the host aborts and resets at any time; storage fails |
| wk2xxx SPI-to-UART, `rk3288/debug/spi/spi2uart.c` | a global mutex, a chip-select pin, one work item and transmit ring per port, the chip's FIFOs | register read and write, `start_tx`, the work function, `tx_chars`, probe, remove | four workers share mutex and pin; an error return keeps the mutex; FIFO limits |
| RK818 / ACT8846 regulators, `rk3288/debug/regulator` | the register file, an I/O mutex, voltage tables, interrupt masks | enable, disable, get/set voltage and mode per DCDC and LDO, suspend variants, interrupt chip, probe | read-modify-write by several callers, tables and rounding, bit positions |
| regulator consumers, `consumer1.c`, `consumer2.c` | use count of a shared regulator | enable, disable | who switches it off |
| I2S controller, `rk3288/debug/codec/rk_i2s.c` | TX and RX enabled flags, transfer registers, a spinlock | start/stop per direction, format, clocks, probe | the two directions share one start bit and the clear sequence |
| ES8316 / ES8323 codecs | power count, clocks, mute, amplifier GPIO, headphone state | startup, shutdown, formats, mute, bias level, resume, interrupt | two streams and an interrupt share the registers and the amplifier |
| netlink examples, `rk3288/debug/netlink` | the family, its command and group; a program's family id and socket queue | load, unload, echo, multicast, ask for the id | modules unloaded under their programs, notifications between request and answer, full queues |
| UART tests | shared buffers, log file | sender and receiver thread | interleaving |
| USB mouse as keyboard | one URB | completion, probe, disconnect | completion racing disconnect |
| LED, button, interrupt, timer, work queue, notifier examples | a timer, work item, list | arm, fire, cancel, register, unregister | re-arming against module exit |
| PWM backlight, SPI flash, watchdog | enabled flag, duty cycle; flash contents; deadline | update, read/write/erase, ping | ordering of power steps |

The remaining components (sysfs and kobject skeletons, I2C examples, list and
bitmap demos, BPF programs, user tools, copied busybox code, device trees) keep
almost no state of their own; `PROJECT.json` lists each with its reason.

The hazards of the modelled components, each at its line, are in
`PROJECT.json`, with the properties that cover them.  Where the code does go wrong, no property
can cover the hazard; its note then names the property that would, and the case it leaves out.

## 2. Plan

1. `RockUsb` - the download mode with host and controller: the largest and most
   concurrent component (done), `RockUsbProofs` (types and the receive side),
   `RockUsbLinkProofs` (the transmit side, no second execution, reset, ranges, the stages of a
   command, what is read and what is stored; done).
2. `Wk2xxx` - register access and transmit work of the SPI-to-UART driver (done),
   `Wk2xxxProofs` (every safety property; done).
3. `Rk818` - the regulator chip, `Power` - its drivers and the use count,
   `SharedSupply` - the abstract specification they implement (done), `PowerProofs`
   (every safety property; done); `Rk818Irq` - its interrupt chip, `Act8846` - the other
   power chip, with `Rk818IrqProofs` and `Act8846Proofs` (every safety property; done).
4. `RkI2s`, `Es8316`, `Es8323`, and `Sound` composing a controller and a codec, with
   `SoundProofs` (every safety property; done).
5. `Netlink`, `NetlinkProofs` (done).  Left: `UartTest`, `MouseKey`, `Deferred` (timer and
   work item against exit).
6. Proofs left: the properties of `RockUsb` after aborts (section 3).

Liveness, and what a recursive definition computes for every input, are out of
the prover's reach: they stay with TLC.

## 3. RockUsb

`RockUsb.tla` is the DWC3 build of `cmd_rockusb.c`.  The loop of `do_rockusb` is
the variable `pc`; between two of its steps the controller may complete
transfers and the host may act.

* `intr`: `dwc3_uboot_handle_interrupt` runs `dwc3_rx_handler`,
  `dwc3_tx_handler` and `rkusb_event_handler_for_dwc3`, one `HandleEvent` per event.
* `idle`: `do_rockusb_cmd`, one disjunct per `FW_` function.
* `response`: `rkusb_handle_response`: `HandleTxData`, `rkusb_handle_datarx`
  (split where its buffer is handed over: the media write is `MediaWrite` at `media`),
  `rkusb_handle_datatx` (one step per round of its `goto start`).
* `csw`: `rkusb_send_csw`.  `check`: reset, low format and timeout checks.

Abstractions: sizes are blocks, a block is named by the command that wrote it and
its position, the media is a function per address space (physical, logical).  A
CBW counts as one unit of `actual`; it never counts as a full block of data.  The
vendor areas and the answers of the information commands are opaque.  `MaxCmds`
and `MaxFaults` bound the host.  The storage driver and the
host are external: the storage driver stores, delivers or fails; the host follows
the bulk-only protocol, never sends more than a request asks for, and waits for a
control request to finish before it goes on.  The controller reads an IN buffer
when the transfer ends, which is the latest moment at which a wrong overwrite is seen.

### Runs

Buffers hold two blocks (`BufMax`), so three to five blocks are two or three
transfers with a short one at the end, and both buffers of a pair are used twice.
Addresses have six bits (four in the fault runs) so the vendor ranges and the wrap are close.

| run | shows |
|---|---|
| `data` | four reads/writes on a clean bus: order, data, buffers and ranges |
| `allcmds` | any two commands of the switch, reads and writes of one and two transfers, storage failures, locking, timeout: every CBW is answered, and reset comes only after the CSW |
| `recover` | aborts with CLEAR_FEATURE on both endpoints at any moment: no stale answer, no second execution, one OUT transfer at a time, the host gets ready again |
| `anyfault` | every halt, bus reset, transfer error and storage failure, and a command outside the switch: types, and the buffer being stored stays untouched |
| `reset_replay` | expected violation: after a bus reset the old CBW is executed again |

Deadlock is not checked in these runs: the download mode ends with a reset or by
leaving the loop, and a bounded host falls silent.

Two more behaviours contradict `usb/README.md` and are kept out of `EveryCbwAnswered` and
`ReadReturnsMedia`.  A command outside the switch is never answered
(`cmd_rockusb.c:852`), where line 144 of that file gives every CBW its CSW.  After an
abort CLEAR_FEATURE sets `txbuf_num` to 0 but keeps `pre_read` (`cmd_rockusb.c:64`), so
a read of the prefetched address sends the other buffer.  `recover` does not meet this, and
not because of its bounds: its only command without data for the host is a write that
overlaps the reads and so forgets `pre_read`.  With commands that leave `pre_read` alone, `NoPhaseError` does not hold after an
abort either: an aborted read of several transfers, TEST_UNIT_READY twice (their CSWs are then in
both buffers) and a read that starts at the prefetched address get an old CSW as data.

Three more behaviours of the code are in the model and outside the runs: a read
of zero blocks never ends (the inputs have one block or more), the CSW
of a write is queued before its last blocks are stored, and a write the storage
driver refused is answered with a good CSW.  This is why `WriteIsStored`
looks at the media only after the write is done, and only where storage does not fail.

Fairness (`FairSpec`): the loop never stops by itself, so the device's next step
is weakly fair; a host that began a command finishes its data stage and reads
the CSW, so its data and IN steps are weakly fair.  Sending a command, aborting
and failing are never fair.

Under faults other than clearing both endpoints, several of the properties do
not hold in the code (clearing only one endpoint, or a bus reset, lets a CBW be
executed again and received data be stored twice at advancing addresses: after
CLEAR_FEATURE on the OUT endpoint alone `rkusb_send_csw` may find the IN side busy in the middle of
`rkusb_handle_datarx`, `cmd_rockusb.c:906`, and `ChangesOwnRange` does not hold); this is
why `recover` is restricted to the abort that the code fully handles.

### Proofs

`RockUsbProofs.tla`:

* `TypeCorrect`: `TypeOK` with every fault.  It is not inductive alone:
  `Wellformed` adds that a giveback with data and a pending write name a buffer
  and that an upload does not pass its end.
* `OneReceiveAtATime` and `ReceiveBufferSafe`, if the bus is not reset.  The
  inductive invariant `RxInv` is `OneReceive` with
  `Waiting` (the driver owns a requested transfer only while it waits for a command
  or data, and what it stores lies in the buffer it will ask for next),
  `ControlLast` (a control request is the last event) and `Enumeration` (before
  the device is configured nothing is received).  With it a pending write's buffer
  differs from the requested one, which is all that `RxBufferStable` needs.

`RockUsbLinkProofs.tla`, if the host aborts only by clearing both endpoints
(`ClearsBoth`; any transfer may still fail).  The restriction is the code's: `reset_replay` shows what a
bus reset does, and clearing one endpoint leaves the other one's transfer about.

* `TransmitBufferSafe` and `CommandsOnce`.  The inductive invariant `LinkInv` says how far the
  driver and the host can be apart.  `OneSend`: at most one IN transfer is queued, completed
  but not yet handled.  `AnswerFirst`: the driver learns of its end before it learns of the next
  CBW.  `TxFree`: a driver that starts a command has nothing to send.  `HostReady`: a host that is
  ready faces a driver that waits for a CBW, unless its abort is still on its way.  `Tags`: the CSWs in
  the buffers are those of earlier commands until the current one is answered.  `Fresh`: what
  reaches a driver that waits for a command is a CBW it has not seen.
* `ResetAnswered`, if moreover no IN transfer fails: a failed CSW is never sent again, but
  the reset happens.  `ResetInv` follows `reset_flag` from the command to the check: until then the
  CSW can be sent at once, and after that it is queued or received.
* `OwnRange`, if moreover no command's range passes the end of the address space
  (`AddressesFit`; beyond it the code wraps to address 0).  `RangeInv` follows a write
  through its transfers: no request asks for more than is left, and `lba` plus what is
  pending never passes the start plus `d_bytes`.

On a bus without aborts (`NoAborts`; any transfer may still fail).  The restriction is the
code's again: after an abort `pre_read` is stale, as said above.

* `PhasesAgree` (`NoPhaseError`).  `StageInv` ties the two sides of a command together.
  `Serving`: once the driver has taken a command it is the host's last one.  `HostStage`: the host
  reads data exactly while it has less than it expects.  `Upload`: what is on its way is the CSW of
  this command, or data that ends where the driver's count does; if nothing is and nothing failed,
  the host has all that was counted.  `Prefetched`: a prefetched block lies in the buffer that is sent
  next, and only while a read is served.
* `ReadsExact` (`ReadReturnsMedia`), if moreover storage does not fail (a failed read sends
  zeroes with a good CSW) and `AddressesFit`.  `ReadInv` follows the blocks: those the host has (`Got`), those
  in the queued buffer (`OnTheWay`) and the prefetched ones (`Fetched`) are the media's, at the
  addresses that the driver's count says.  `Formatting`: the media is only formatted at the end of the round of
  a command that neither reads nor writes.
* `WritesStored` (`WriteIsStored`), under the same conditions.  `WriteInv` follows the
  blocks the other way: everything the host sent and the driver has not counted lies in the one
  buffer received last (`Arriving`), what was counted is on the media but for the blocks of the buffer
  about to be stored (`OnMedia`, `InHand`), and `lba` is where these go.  `AtRest`: a host that waits
  for nothing has had its last command taken.  These hold although the CSW, or the request for
  the next transfer, leaves before the data is stored.

All of them hold for every command set, buffer size, address width and number of
commands and faults.  Only model-checked: liveness, and the properties after aborts that
`recover` checks and no theorem covers (`NoPhaseError` for its commands).

## 4. Wk2xxx

`Wk2xxx.tla` is `spi2uart.c` without its interrupt handler: probe and remove,
the register accesses, `start_tx`, the work function with `wk2xxx_tx_chars`.

* `pc[p]` is the register access at which the work item of port p is.  `After`
  is the C code between this access and the next one.  "config", "sifr" and
  "last" each stand for a run of accesses whose results are only printed or
  OR-ed together.
* `acc[p]` is how far the access is: `call` (waiting for the mutex), `xfer` (mutex
  taken and chip selected by `Begin`), `high` (mutex released by `Finish`, the pin
  not yet high).  `Return` drives the pin high.  The code does so after it
  released the mutex, so `Return` may hit another port's transfer: `hit` records
  it, and the chip may then ignore the transfer or answer anything.
* `SpiError` is the early return of the accesses: the mutex stays locked.
* The chip is external: a transmit FIFO that drops what does not fit, and
  SIER.  So is the serial core: it appends to the ring and calls `start_tx`.
* Ports are used once probe is done.

| run | instance | shows |
|---|---|---|
| `wk_send` | one port, FIFO of 4, three characters, one stop by flow control | characters in order, each one sent in the end, nothing left when the work item rests |
| `wk_ports` | two ports, FIFO of 2, SPI errors | types; one transfer at a time; `txbuf` never overflows |

`Exclusive` is about the mutex.  It does not extend to the chip select: the pin is driven
high after `mutex_unlock` (`spi2uart.c:122`), so a port that finished deselects the chip
during the other port's transfer.

With a FIFO of 4 and three characters the FIFO never fills in `wk_send`: a full one
loses a character in the code, because its loop takes one even when it found no
room.  In `wk_ports` the FIFO does fill, and the other port's late pin makes
up every answer.  Deadlock is not checked: after an SPI error the mutex stays locked
for ever, and an unused driver rests.

Fairness: the steps of a running work item are weakly fair (the kernel runs its
threads); taking the mutex is strongly fair (a Linux mutex is handed on to its
waiters); a line drains; flow control starts a port it stopped.

Proofs (`Wk2xxxProofs.tla`), for any ports, FIFO size and number of characters:

* `TransfersExclusive`: with SPI errors and late pins, only the owner of the mutex
  transfers.  Inductive invariant `LockInv`: whoever is in `xfer` owns the mutex,
  and no work item runs while probe owns it.
* `TypeCorrect`: `TypeOK` with `HasChar` (at the data access `txbuf` has a character).
* `TxbufNeverOverflows`: from the types and what `Taken` returns.
* `CharsInOrder`: `InOrder`, with SPI errors, late pins and full FIFOs.  `OrderInv` says of
  the line, the FIFO, `txbuf` and the ring that each is in order, that each comes before the
  next, and that nothing in them was not written.  Pushing, draining and taking move a
  first element to the end of the part before; losing one disturbs nothing.
* `NothingLeft`: `SentWhenIdle`, if `Undisturbed`: one port, no SPI error, no XON/XOFF,
  fewer characters than the FIFO holds.  Without any one of these the code does
  leave or lose characters: a late pin, an SPI error, a work item that sends an XON/XOFF
  does not look at the ring, and nobody comes back for what did not fit.  `SendInv` says that what was read
  of FSR and TFCNT still leaves room for the ring (users write and the line drains in
  between), that a ring with characters will be looked at (`Seen`), and that every
  character written is somewhere (`Conserved`).

Only model-checked: `EveryCharSent`, which is liveness.  Not
modelled: the interrupt handler (it only disables its own interrupt), an open before probe created the work queue, and the
`uart_ops` that only print.

## 5. Power

`Rk818.tla` is the chip of `rk818.c`, `Power.tla` adds the drivers that share one
of its outputs, `SharedSupply.tla` is what they are promised.

* An operation of a regulator is a program: the sequence of register accesses
  the C function makes, with the register, mask and value it computes (`ldo_enable`,
  `dcdc_set_voltage`, ...).  The core locks an output during an operation, so each
  output is a thread with one program (`job`); `rk818_pre_init` is the program of the
  thread `Probe`.
* `Begin` and `End` are the two transfers of an access.  `rk818_set_bits` keeps
  `io_lock` in between (`Held`); a `rk818_reg_read` followed by a `rk818_reg_write` does
  not.  The read that ends `rk818_set_bits` changes nothing and is left out.
* Either transfer may fail.  A failed read is not noticed by the code: the byte is
  then whatever the stack held, or 0 in `rk818_reg_read`.
* `Nearest` is the voltage an output should get, computed from the voltages it lists;
  `want` remembers what was asked of it.  `Kept` compares this with what
  `is_enabled`, `get_voltage` and `get_mode` would answer.
* `Load` to `Counts` are a driver's probe and remove, with `regulator_enable` and
  `regulator_disable` of the core (external) in the order: look at the count, let the
  chip switch, count.

A register is the set of its one bits; only those of the outputs are kept.  The core
clamps requests to the listed voltages (`VoltAssumption`) and asks for one voltage at a
time.  Operations that the core calls while it registers an output are the same
calls it may make later.

| run | instance | shows |
|---|---|---|
| `power` | DCDC1, LDO2, LDO3, LDO9; two drivers on LDO2, each loaded once; two core calls or failed transfers | types, `Kept`, `LockHeld`, `CountsUsers`, and that the drivers and the chip implement `SharedSupply` |

Two calls at a time are what a lost update takes: LDO2 with LDO3 in LDO_EN, DCDC1
with LDO9 in DCDC_EN.  The driver's own calls are not counted.  The two drivers are symmetric.  LDO9 is always on in `power`,
because `rk818_ldo_disable` of LDO9 (`rk818.c:407`) sets the enable bit of DCDC1; LDO1 and LDO4 to LDO8 have the programs of LDO2
and LDO3 with other numbers.  `Kept` does not hold in the code for DCDC3 (its sleep
mode is written to DCDC4's register) or LDO10 (`is_enabled` is always 0), and says nothing once a transfer
failed: a byte that was never read is then written back.  Deadlock is not checked:
with nothing left to call, everything rests.

Proofs (`PowerProofs.tla`), for any outputs, requests and drivers, any of LDO1 to
LDO8 as the supply, and any number of failed transfers:

* `TypeCorrect` and `LockProtects`.  Inductive invariant `ChipInv`: the types,
  `LockHeld`, and `AtWrite` (whoever is at the write of `rk818_set_bits` owns `io_lock`).
* `CountCorrect`.  `UsersInv` adds `OneCaller`: the core is busy for one
  driver at a time, and the count is 0 while it enables and 1 while it disables.
* `SupplyRefinement`.  `OperationsHarmless` shows for every operation that its program
  leaves the supply's bit alone; `Programs` says that every thread runs such a program
  except the supply's own while the core switches it; `Supplied`, that the bit
  is set for everyone who holds the supply.  The step is `EndBit`: because of `LockHeld`, the
  byte that is written differs from the register only where the access means it to.

* `ReliableKept`: an output that the code does not disturb itself has what was last asked of
  it, whatever outputs operate beside it.  `OperationsKept` is `Kept`, on a board with such
  outputs only.  `Reliable` leaves out what the code gets wrong, as said above: DCDC3, LDO10, and
  DCDC1 where LDO9 or LDO10 may be switched off.  `WholeMillivolts`: an LDO is asked for whole
  millivolts, since `rk818_ldo_set_voltage` divides the request by 1000 before it looks it up.  The
  instance of `power` satisfies both hypotheses.

  The argument has five parts.  `ReadBack`: the bits written for a selector are that
  selector when read.  `LdoVoltage` and `BuckVoltage`: the selector computed for a request is
  the one of `Nearest`.  `FieldsApart`: no operation writes a bit of another field of a reliable output.
  `LdoProper` and `DcdcProper`: an operation is a program that writes one field, with the value asked for.
  The invariant `Settings` (beside `ChipInv`, until a transfer fails): every field asked for shows what was
  asked, except the one that the output's thread is still to write, and then the value it will write does.

Nothing here is only model-checked.  Not modelled: the ramp
delay, device tree parsing, removal of the chip's driver, and the drivers' debug attribute.

## 6. Interrupts of the RK818

`Rk818Irq.tla` is `rk818_irq_init`, the threaded handler `rk818_irq` and the `irq_chip`.
Every I2C transfer is a step, since none of them takes `io_lock`; interrupts fire between
any two.  A failed read leaves the byte as it was, which before the first read of a function
is whatever the stack held.  `owed`, `again` and `quiet` only serve the properties.

Run `rk818_irq`: interrupts 5, 8 and 9, so that both status registers and two bits of one
are used; interrupt 9 masked or not; the first virtual interrupt three above `chip_irq`;
five interrupts or driver calls and one failure.

* `ActiveLow`: unattended interrupts are cleared before the pin is read, so the line is
  requested for the right level.  One that fires in between, or a failed transfer, turns
  the trigger round for good: the thread then runs while the line is idle and not
  while an interrupt is pending.
* `NoneCleared`: writing the status back clears nothing that was not handled.  An
  interrupt that fires again between its driver's call and the write is the exception
  (`again`): the write clears it, while the comment at `rk818.c:134` expects the line to be reasserted
  and the interrupt to be handled again.
* `Reaches`: every interrupt of an enabled driver gets to it, through other interrupts
  and failures.  The thread and `i2c_transfer` are weakly fair; interrupts are not.

In the code `irq_sync_unlock` writes no register, so disabling is done by the core alone,
and `irq_to_rk818_irq` takes `chip_irq` where the first virtual interrupt is meant, so
`irq_mask` gets another bit (`Shift`).  The RTC status registers are left out: they clear
the RTC's own interrupt.  Deadlock is not checked: with no interrupt the thread rests.

Proofs (`Rk818IrqProofs.tla`), for any interrupts, drivers, masks and numbers of failures:
`TypeCorrect`, `PolarityFound` (`ActiveLow`) and `NothingLost` (`NoneCleared`).  The inductive
invariant `IrqInv` adds `Shapes` (what the thread's locals are at each of its steps),
`Clearing` (while init clears the unattended interrupts, what is left are those not reached yet) and
`CalledOwedAgain` (an interrupt the thread has called its driver for is owed only if it
fired again since).  `Reaches` is liveness and stays with TLC.

## 7. ACT8846

`Act8846.tla` is `act8846.c` between the regulator core, which counts users and asks
`is_enabled` and `get_mode` first, and regmap, which stores a value in its cache before it is sent and
sends nothing the cache has already.  An operation is one access under regmap's
lock, or a read that the core acts on and then one, so one step.

Reads and writes fail alike.  A read goes to the chip only while the register is not cached.
`is_enabled` and `get_mode` ignore that it failed and test a `val` that was never set
(`act8846.c:262`, `296`, `394`, `463`), so any answer is possible (`Answers`): the core may skip
`enable` or `set_mode`, or call it needlessly.  `regmap_update_bits` fails on its read, and
then neither caches nor writes anything, or on its write, and then the cache has the new value
(`Results`).  `enable` and `disable` hand the error to the core, which leaves the count alone;
`set_voltage` returns 0 (`Unheeded`).  `broken` is the registers whose last write failed;
`misread` those that an operation which returned 0 left as they were because a read failed.
Both only serve the properties.  A later write that reaches the chip takes a register out of `broken`,
an operation that gets through takes it out of `misread`.

Run `act8846`: DCDC2 and LDO1 with two users each, one window that an entry of the
voltage map fits and one that none fits, two failing transfers.  They differ in registers
and code; the other outputs differ from them only in addresses.

* `TypeOK` includes that a cached register whose last write succeeded is the chip's.
* `Supplied`: an output with a user is on.  Exceptions: its control register is in `broken` (the
  cache then says on, and no later enable sends anything) or in `misread` (`is_enabled` answered
  yes after a failed read, so the core counts a user of an output that it never switched on; a second
  user changes nothing, since only the first one asks), and standby mode, whose mask
  is the enable bit, so that setting it switches the output off.
* `InWindow`: the voltage is what was asked for, unless the access failed.  A DCDC's search compares with the minimum
  only, so it may exceed the maximum; minima are cut to whole millivolts.

Proofs (`Act8846Proofs.tla`), for any outputs, users, windows and numbers of failures:
`TypeCorrect`, `UsersSupplied` (`Supplied`) and `VoltageInWindow` (`InWindow`).  `ActInv` is their
conjunction with `Domains`, the shape of the register file and its cache.  `Supplied` and
`InWindow` need the part of `TypeOK` by which cache and chip agree: an access that the cache
suppresses, and an answer taken from it, are harmless only then.  `Accessed` is what any
access leaves of the other registers, failed or not, and `ContrInv` what is then left to show for the
operations on a control register.  That the search of `set_voltage` finds the first entry
of the voltage map that is high enough is a lemma about its 64 entries.

Left out: LDO9, whose index is past the end of the address tables; what
`get_voltage` answers, which after a failed read, and for an LDO always, comes from a variable that
was never set (its read is an action); the ramp delay.

## 8. Audio

`RkI2s.tla`, `Es8316.tla` and `Es8323.tla` are the drivers' data and registers, each a
record, with an operator per function; the controller's hold a spinlock, the codecs' are
called under the mutex of the card.  `Sound.tla` composes the controller, either codec and
the machine driver (`rk_es8316.c`, `rk_es8323.c`).

* `LoadI2s` to `UnloadCard` are the probes and removes, with the failures of the controller's.
* `PcmOpen`, `HwParams`, `Prepare`, `Close` take the mutex; `job` holds the calls that are
  still to be made, one step each (`JobStep`), because the trigger of the other stream and
  the headphone interrupt do not take it.
* `Trigger` is `rockchip_i2s_trigger` on the transfer register that both streams share.
* `Fire`, `ReadPin`, `SetType`, `Decide`, `Speaker` are the interrupt handler (for the
  ES8323 with its delayed work); the plug may move between any two.
* `Sleep` is system suspend and resume, with `es8316_resume` resetting the codec.

The sound core is external: what it serialises, its symmetric rates and the order of its
calls.  Run `audio`: an ES8316 as clock master with left justified format and an ES8323
that gets its clocks, with I2S format; rates 11025 and 44100, of which
the first needs the largest divider that fits the register; one move of the plug; one failure or sleep.

| property | says |
|---|---|
| `OneClockMaster` | one side drives the bit clock, and both use one format |
| `FrameClock` | a running stream has its rate, also while the other is configured |
| `Transfers` | stopping one direction never stops the other; clocks run exactly when needed |
| `Powered` | the ES8316's power count is its open streams, and each has its clocks |
| `ParamsAccepted` | a rate that was offered is accepted to the end |
| `IrqComesBack` | the detection interrupt is enabled again |

Fairness: a handler or work item that began goes on; nothing else is needed.

Proofs (`SoundProofs.tla`), for any boards, rates and numbers of plugs, failures and sleeps:
`TypeCorrect`, `StreamsTransfer` (`Transfers`), `CodecPowered` (`Powered`) and `FrameClockKept`
(`FrameClock`); `OneMaster` (`OneClockMaster`) and `ParamsTaken` (`ParamsAccepted`) for boards
whose format both sides know (`BoardsFit`: the controller has no DSP format, the ES8316 no
right justified one, and the ES8323 sets up only I2S).  `SoundInv` has two halves.  `Base`: the types, the counts, which calls a job may
still hold in which state of the card, and the power.  `Settings`: for a call in progress
(`Doing`), what the calls already made have set; for the rest (`Settled`), that the
controller's and the codec's registers are those of the board's format and of the
stream's rate.  `IrqComesBack` is liveness and stays with TLC.

What the code does not promise, and the properties leave out: the streams that were open
when `es8316_resume` reset the codec (`stale`) have no clocks until they are opened
again; a rate of the other clock family than the codec's fixed 11289600 Hz (at 8 kHz the
divider does not fit its field); after a failing `irq_set_irq_type` the
interrupt stays disabled; an edge between reading the pin and setting the type is missed, so
the speaker may stay in the wrong state; `hp_detect_work` is not
cancelled when the ES8323 is removed, and would use freed memory; `es8316_i2c_remove`
(`es8316.c:1365`) frees the chip's data, which was allocated with `devm_kzalloc` and is freed again
when the device goes, and the detection interrupt, which uses it, is registered until then.  Unloading is
modelled without these.  Not modelled: mixer
controls and DAPM routes, the DMA engine, the register dump of the debug file.

## 9. Netlink

`Netlink.tla` holds the three kernel modules and their programs: `load` to
`unregister` are the steps of module init and exit, each of which may fail;
`genl_trigger` is the sysfs write that multicasts; `program(u)` is a program from opening
its socket to closing it.  Netlink is external: the kernel handles what a program sends
before `sendto` returns, what it sends waits in the socket's queue, a full queue drops it
and fails the next receive, and the control family multicasts every family or group that comes
or goes.  The last matters because the programs bind to all groups: `genlmsg_get_family_id`
takes the first message that comes for the answer.

Run `netlink`: each example with two programs, two loads of the module, sockets that hold two
messages, one trigger, one failure.

* `InOrder`: whatever step fails, no part of the family outlives what it needs, and
  a module that is out left nothing.  If `sysfs_create_group` fails the family stays
  registered in freed memory (`demo3_kernel.c:277`); the model stops there.
* `ProgramEnds`: every program but a listener ends, also when the module is unloaded
  under it.  A demo1 program whose `sendto` failed takes -1 for success
  (`demo1_user.c:80`) and waits for ever; it is the exception.
* `ListenersHear`: who waits in recv when the group is sent to, with an empty queue that has not
  overrun, gets the message, or the overrun that later messages cause.  A program that is about to receive an
  earlier message is not counted: if its queue is full, the message itself is dropped (`demo3_kernel.c:101`).

`CTRL_ATTR_FAMILY_ID` and `DOC_EXMPL_A_MSG` are both 1, so a multicast text that comes
before the answer is taken as the id (`demo3_user.c:348`); the program then sends to a family
that does not exist, and is answered with an error, or listens for a type that never comes.
`ListenersHear` therefore speaks of programs with the right id.  Fairness: a program that is not
waiting runs.  Loading, unloading and triggering are never fair.  Deadlock is not
checked: everything rests once the programs are done.

Proof (`NetlinkProofs.tla`): `PartsInOrder` (`InOrder`), for any programs, loads and failures, with
the exception of a failed `sysfs_create_group` named above.
`ModInv` says of each part of the family between which steps of init and exit it exists.
`ProgramEnds` and `ListenersHear` are liveness and stay with TLC.

## 10. Not modelled

* UART test programs: a sender and a receiver thread on a serial line; what they
  exchange is kept by the tty layer and compared by another program.
* USB mouse as keyboard, LED, button and interrupt drivers, timers and work queues:
  one URB, interrupt, timer or work item each; the interleavings that matter are those
  of the work items in `Wk2xxx` and of the headphone detection in `Sound`.
* PWM backlight, watchdog: one value whose state the kernel's core keeps.
* SPI flash, I2C and regmap examples: fixed sequences of transfers without own state.
* Notifier chains, sysfs, kobject, seq_file, list and bitmap examples, user-space tools:
  straight-line calls of the kernel's or the C library's functions.
* BPF programs, socket helpers: third-party code, counters kept by the kernel.
* The descriptors and the `CONFIG_RK_UDC` build of `cmd_rockusb.c`.
* Device trees, images, scripts and notes: no program logic.
