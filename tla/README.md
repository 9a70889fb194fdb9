# A verification project for the ATSAM4S + ATWINC1500 starting template

The repository (`src/`) is firmware for an ATSAM4S16B microcontroller driving an ATWINC1500 Wi-Fi
module. One superloop (`main.c:67-77`) runs the console, the software timers, the Wi-Fi application
and the Wi-Fi driver in turn; four interrupt handlers preempt it (timer tick, Wi-Fi IRQ pin, UART
receive, SPI error). There is no operating system, no persistent state and no lock: what is shared
between the superloop and an interrupt handler is protected by masking the interrupt, or not at all.
File names below are relative to `src/src/`.

## Inventory

| Component | Sources | State | Operations | Talks to |
|---|---|---|---|---|
| UART driver | `uart.c` | receive ring and its two indexes | init, receive interrupt, get a character, send a byte | console (calls), UART interrupt (shared ring) |
| Host interface | `wf_hif.c` | `g_hifContext`: sleep mode, wake counter, RX-done flag, interrupt counter | send, service interrupts, receive, RX done, wake, sleep | chip (registers, IRQ pin), event handlers (calls back) |
| Chip control | `wf_asic.c` | the chip's identity, once read | wake, sleep, reset, halt, identify, configure | SPI protocol |
| Sockets | `wf_socket.c` | 11 sockets, the session counter | BSD-like calls; replies of seven kinds | HIF, application (callbacks) |
| Driver control | `wf_wifi.c` | three start-up state machines, scan flag | init, deinit, task, about forty requests, event dispatch | HIF, application (callbacks) |
| Wi-Fi application | `wifi.c` | event flags, state function | eight states, event handlers | driver control, sockets |
| Timers | `timer.c` | ten timers, tick counter | register, start, set period, release, run, tick | application (callbacks), tick interrupt |
| Console | `console.c` | line buffer | run, print | UART, commands |
| Commands | `cmd.c` | client table | register, execute | console, clients |
| Log | `log.c` | levels, active flag | log, toggle, commands | console, UART |
| SPI protocol | `wf_spi.c` | CRC and packet-size settings | register and block reads and writes, retries | SPI master |
| SPI flash | `wf_spi_flash.c` | the size, once read | read, write, erase, enable | SPI protocol |
| OTA | `wf_ota.c` | none | two requests, one event | HIF |
| Driver utilities | `wf_utils.c` | none | delays, elapsed time, address parsing | timers |
| Real-time clock | `rtc.c` | the RTC's registers | init, start, set, get | Wi-Fi application |
| Pins, SPI master, clock, watchdog, start-up | `gpio.c`, `spi.c`, `clock.c`, `watchdog.c`, `system.c`, `syscalls.c`, `main.c` | peripheral registers | set-up | everything |

What is hard in each, and what makes it correct:

- **UART driver.** The receive interrupt stores a character between any two steps of the reader and
  never tests for a full ring. Correct: the reader sees the characters in order, loses them only when
  the ring overruns, and never loads a slot nothing was stored in.
- **Host interface.** The pin's interrupt raises a counter the superloop lowers; the chip has a
  one-packet mailbox that must be released exactly once per packet by whichever of three places gets
  there; early returns skip the release, the unmasking or the sleep; callbacks call back into the
  driver. Correct: no packet is forgotten, the mailbox is read only while held, mask and wake counter
  come back to rest, the chip is awake while its registers are read.
- **Sockets.** Replies come late, after their socket was closed and its slot reused; a callback may
  change the buffer under the reading loop or close the socket. Correct: an event reaches the session
  that asked, a pending receive is one the chip owes, every message is read out and released once.
- **Timers.** Ticks arrive while `timer_run` works on the counter it read before; callbacks start and
  release timers; the counter wraps. Correct: nothing expires early, nothing waits for ever, a
  timer in a client's hands is never handed to another.
- **Driver control.** Start-up polls the chip against timeouts, requests are refused or fail, and the
  scan flag remembers them. Correct: start-up has one outcome, success or exactly one fatal error, and
  the flag is set exactly while a scan is under way.
- **Wi-Fi application.** Flags set by events and cleared by hand in a state machine. Correct: each
  event advances the state it belongs to.
- **Console, commands, log.** A fixed line buffer and a fixed token array. Correct: within bounds for
  any input, and what is executed is what was typed.
- **SPI protocol and flash.** A byte protocol whose every phase may fail, retried as a whole; pages
  and sectors. Correct: a reported success moved exactly the bytes asked for, a page program stays
  inside its page.
- **Utilities, clock.** Pure arithmetic with wraps and BCD. Correct: agreement with the mathematical
  definition over the whole range.

## The modules and the code

| Module | Models | Extends / instantiates |
|---|---|---|
| `UartFifo` | abstract: a bounded queue that loses everything unread on overrun | |
| `UartRing` | `uart.c` | INSTANCE `UartFifo` (refinement) |
| `Hif` | `wf_hif.c`, start-up and task of `wf_wifi.c`, the stubs of `wifi.c`, the pin of `gpio.c` | |
| `Timer` | `timer.c` | |
| `Sockets` | `wf_socket.c` | |
| `WifiDriver` | the requests of `wf_wifi.c` with their checks, and the firmware that takes them | |
| `WifiApp` | `wifi.c`: states, flags, event handler | EXTENDS `WifiDriver` |
| `WifiSystem` | the start-up machines of `wf_wifi.c`, the superloop, the chip | EXTENDS `WifiApp` |
| `SpiBus` | `wf_spi.c` | |
| `SpiFrame` | pure: the command frames of `wf_spi.c` and their CRC | |
| `FlatFlash` | abstract: a memory written, read and erased in ranges | |
| `SpiFlash` | `wf_spi_flash.c` | INSTANCE `FlatFlash` (refinement) |
| `LineEditor` | abstract: keys make a line, its words run a command | |
| `Console` | `console.c`, `cmd.c`, the switch of `log.c` | INSTANCE `LineEditor` (refinement) |
| `Rtc` | setting and reading the clock: `rtc.c`, the sys_time event of `wifi.c` | EXTENDS `RtcTime` |
| `RtcTime`, `LogNumbers`, `DriverUtils` | pure: conversions of `rtc.c`, of `log.c`, of `wf_utils.c` and `wf_drv.h` | |
| `UartRingProofs`, `HifProofs`, `TimerProofs`, `SocketsProofs`, `WifiSystemProofs` (with `DriverUtils`), `SpiBusProofs`, `SpiFlashProofs`, `ConsoleProofs` | theorems | the module of that name |
| `MC...` | the values of the constants for TLC | the module of that name |

The pure modules state what their functions compute as named assumptions over bounded inputs. TLC
evaluates them in the runs whose MC module extends them: `SpiFrame` in `spi_bus`, `DriverUtils` in
`wifi_system`, `LogNumbers` and `RtcTime` in `console`.

**UartRing.** The two indexes and the buffer are the code's. `uart_getCharacter` is three actions
(test, advance, load), because the interrupt may fall between them; `UART0_Handler` is one, because
nothing preempts it. The refinement maps the ring to the queue of unread characters.

**Hif.** `pc` is the superloop's place in `m2m_wifi_task`, `hif_handle_isr` and `hif_isr`; each
access to shared state is an action, so that the pin's interrupt may fall between any two. The pin
is two bits, mask and latch; the chip is the mailbox (`free`, `offered`, `taken`), the packet's kind
and whether its IRQ output is on. A kind of packet stands for one shape of handler: which reads of
the packet it makes (`part`, `last`), where it calls back, how it completes. Three kinds are the
malformed packets of `hif_isr`'s error returns. Callbacks make any of the driver calls in
`CallbackOps`, the superloop any in `AppOps`.

**Timer.** `timer_interruptHandler` is one action and may fall between any two steps of the
superloop. `timer_run` is a step per timer, `CallbackRestarts` and `CallbackEnds` are the two
answers of a callback, and while it runs it may call what `CallbackOps` lists. `newTime` is the value
of the static `oldTime` throughout the scan. `age` is history: true elapsed ticks, unwrapped up to
`MaxAge`, that the wrapped arithmetic is judged by; `held` is history too: the timers clients hold.
`timer_isRunning` and `timer_isExpired` have no place in the model: the first has no caller (and
starts the timer it asks about), the second changes nothing.

**Sockets.** `g_sockets` keeps the fields that control uses (use, session, buffer size, pending
flag). `owed` are the requests the firmware has not answered, which it may answer in any order;
`close` leaves any part of a session's requests to be answered, which covers replies already under
way. The reply handler is one action up to each callback. `ReadSocketData`'s loop is `ReadChunk`, the
callback, and `ChunkEnd`. `serial`, `sessions` and `event` are history that tells sessions apart when
slot and identifier are the same. `Failing` are the requests that `hif_send` may fail to send. A
restart of the driver is left out. The firmware is external: it echoes the socket and session it was
given and gives accepted connections slots that are free on the host.

**WifiDriver, WifiApp, WifiSystem.** One composed state machine in three modules. `turn` alternates
between the application's state function and `m2m_wifi_task`, as the superloop does. The three
start-up machines share `subState` (the code's `g_subState`) and are actions of `WifiSystem`; time is
counted from the last `startTime`. `inConfig` is the superloop's place in `ChipApplyConfig`, whose
loop writes the configuration until it is read back (`wf_asic.c:64-79`); the turn does not end while
it is set. A register read may be given up and is zero then, a write may be lost (what `SpiBus` shows
of them). `reported` are the error events since the start: those in `Fatal` stop start-up, those in
`Survived` (a chip identity that `nm_spi_init` cannot read, `wf_spi.c:163`; the firmware's version,
`wf_wifi.c:177`) do not. A request puts a record into the firmware's `inbox` when its
checks pass and `hif_send` succeeds; `FirmwareTakes` changes the firmware's `mode`, `FirmwareRaises`
one of the events that mode can bring. `Ends` is what the firmware does and is external: the
repository does not contain it. `McuRestart` clears every host variable and leaves the chip as it is.
`addressed`, `connected` and `lost` are history.

**SpiBus.** A call (`task`) cuts its block into transfers (`offset`); a transfer goes through the
`phase`s of `nm_spi_read` and `nm_spi_write`, each of which may fail; a failure goes to `reset` and,
with `retry` left, back to `command`. A byte is known by where it comes from, so that one missing,
moved or repeated can be told. The chip may miss any command and answer any poll late.

**SpiFlash.** An action is one flash command with the register writes that prepare it. The device
goes on after a program or an erase until `FlashFinishes`, and ignores commands meanwhile. `flash` is
pages of bytes, as the split of the code sees it, while `FlatFlash` has no pages: the refinement is
that the split cannot be seen. A program that ran over its page would go on at the page's beginning.

**Console.** `cmdBuffer` is the C array, cut up in place by `strtok` and never cleared; `LineEditor`
has only the characters typed since the last line. One action is one turn of `console_run`'s loop;
the receive ring is left to `UartRing`, whose queue delivers the keys. `answer` is what the last line
came to.

**Rtc.** The clock's registers go on counting between any two accesses of the host. The event handler
and `rtc_setTime` are one call with the wait for the acknowledgement inside it.

## What each run checks

Passing runs:

| Run | Question | Bounds, and why they are enough |
|---|---|---|
| `uart_ring` | order, loss and unwritten slots, refinement of the queue | 4 slots, two characters: wrap, full and overrun are a few arrivals away and the code treats all sizes alike |
| `hif_safety` | lost interrupts, RX done, mask, malformed packets, wake counter, mailbox protocol, packets read only while held | three packets of any kind but the accept reply (one handled, one offered, one coalesced), two edges for nothing, two steps of restart; counter modulo 3, so that it wraps (`NoLostInterrupt` fails without either of its exceptions) |
| `hif_power` | awake while registers are read, may sleep when idle; every packet is released | three well-formed packets, two edges, power-save switched anywhere, callbacks make no call; counter modulo 8, beyond the edges that occur; under fairness |
| `timer` | types, clients' slots, agreement of the two clocks, early expiry, polled timers expire | two timers (they interact only through slots and the scan), stopped and running, counter modulo 4 so that it wraps within two periods, up to three ticks of delay; callbacks release timers; under fairness |
| `sockets` | session identifiers, data events, pending receives, release of messages, end of the reading loop | two TCP slots and a UDP slot, three sessions (one slot used twice beside a neighbour) over a counter modulo 3, so that it wraps; three requests under way, messages shorter than, equal to and longer than the buffer; callbacks open sockets and change buffers; under fairness |
| `wifi_system` | start-up has one true outcome, and ends unless the chip never gives its configuration back; the server is connected to only with a fresh address; the machines never run in each other's states | each limit one or two ticks, so that every answer can come before, at and after it; two requests under way; requests of every kind with valid and invalid parameters; restarts without limit; under fairness |
| `spi_bus` | bytes of a call in place, agreement after start-up, every call returns | two tries of two polls, transfers of two bytes, packets of four: blocks of one to three transfers or packets, with and without a single byte left over |
| `spi_flash` | refinement of the flat memory, page split, every call returns | eight bytes in four pages and two sectors, calls of up to five bytes from every place: start and end inside a page, at its edge, across pages, sectors and read blocks |
| `console` | refinement of the line editor, bounds of buffer and table | a buffer of six cells, two letters of which one is the other in capitals, two tokens, two places for four clients, two of which share a name: full lines, too many words, full table |

Runs that end in a violation, each a disagreement between the code and a comment, are the findings of
`PROJECT.json`:

| Run | What the counterexample shows |
|---|---|
| `hif_skipped_wake` | a request made from a callback lets the chip sleep while `hifRxDone` makes the next wake a no-op |
| `sockets_close_reading` | closing a socket in the middle of its message hangs the superloop |
| `clock_set` | 5 March 2022 is read back as 3 May of the year 22: the event handler exchanges day and month (`wifi.c:162`), and the hundreds of the year are cut to a byte before they are divided (`rtc.c:158`) |

The properties that known defects break are checked in the passing runs under the narrowest exclusion:

- `NoLostInterrupt` but for two places that lose a waiting packet until the next edge (`erased`): the
  wrap of the 8-bit counter (`wf_hif.c:74`) and the memset of `hif_init` after `EnableInterrupts`
  (`wf_wifi.c:169-171`). `EventuallyServed` is checked below the wrap and without a restart for the
  same reason.
- `AwakeDuringService` and `MaySleepWhenIdle` while callbacks call nothing (`hif_skipped_wake`).
- `NeverEarly` while callbacks start nothing: a timer a callback starts after a tick has a start time
  beyond `newTime`, and the unsigned difference of `timer.c:97` expires it at once.
- `ReadingEnds` while callbacks close nothing (`sockets_close_reading`).
- `ReadsOwnPacket`, and the sockets, without the accept reply's fall into the connect reply's case
  (`wf_socket.c:183`): the packet is read after it was released, and a socket that never connected is
  told it is connected.
- `SleepBalanced` without `m2m_wifi_get_otp_mac_address` on an unprogrammed chip, which wakes without
  a sleep (`wf_wifi.c:895`): the counter never returns to zero, and later wakes are skipped.
- `PendingIsAsked` while receive requests do not fail: `recv` leaves its flag set then
  (`wf_socket.c:574`), and the next one answers success and asks nothing.
- `SessionsDistinct` and `DataOfOwnSession` as long as fewer than `SessionMod - 1` sessions (65535 in
  the code) were opened between the two that are compared; beyond that an identifier comes again.
- `OneTrueOutcome` unless a register write of the same start-up was given up (`lost`): the start
  request or the version can be the one that never arrived. Errors that start-up survives may be
  reported beside success.
- `StartUpEnds` unless the superloop stays in `ChipApplyConfig` for ever: its loop has no limit
  (`wf_asic.c:64-79`), so a chip that stops answering there holds the superloop, and nothing is
  reported. `main.c:69` pets the watchdog once a turn, so that a running watchdog would end it with a
  restart (`McuRestart`); but `wdr_watchDogEnable` has no caller, and whether the watchdog runs
  depends on the reset value of its register.
- `FlatSpec` while erases start where a sector starts, as in the example of `wf_spi_flash.h`: the loop
  of `spi_flash_erase` goes on from the address itself in steps of a sector (`wf_spi_flash.c:309`), so
  that a portion that starts inside one may end in a sector that is never reached. With pages of two
  bytes and sectors of two pages, three bytes from the second page leave the last as it was.
- `TransfersDone` but for transfers given up: `nm_read_block` and `nm_write_block` ignore what became
  of them, and only a line of the log tells.
- `ReadChunk`'s arithmetic while buffers and messages fit the `int16_t` in which `wf_socket.c:97,105`
  takes their difference (`DifferenceAssumption` of `Sockets`).

Some disagreements are plain from the text and have no run: `uart_isTxIdle` reports on the receive
ring (`uart.c:83`); timers of type INTERRUPT are never looked at although `timer.c:271` announces it;
`timer_isExpired` returns the number of the state where `timer.c:206` says 1; `timer_isRunning`
assigns (`timer.c:224`); replies to bind, listen and connect are told to whatever socket has the slot
(`wf_socket.c:142` against `wf_socket.h:681`); a late receive reply clears its successor's pending
flag (`wf_socket.c:234`), which costs a second request; `GetChipId` keeps the identity it made of a
failed read (`wf_asic.c:101`), and every later start-up is refused. What the assumptions of the pure
modules show:

- `m2m_get_elapsed_time` is two short across the wrap of the counter and, one millisecond after it,
  wraps itself, so that every wait is over at once (`ElapsedShortAcrossWrap`); `DelayMs` returns at
  once when its end wraps and never when the end is the last value (`DelayOfEachEnd`).
- `inet_pton4` refuses addresses with a zero octet and takes octets modulo 256 (`AddressesReadBack`).
- `stripPath` drops the first character of a name without a slash (`LastPartPrinted`).
- `rtc_configureNewTime` has no error below 0, which is what its caller tests for, and the error of a
  bad year is the 0 of success (`ZeroForDates`).

Each property of a passing run has a mutant of the code that breaks it (`PROJECT.json`, "mutants"; the
mutated operators stand before the originals).

## Fairness

- `Hif!FairSpec`: weak fairness of the driver's task and of each of its steps, because the superloop
  has no blocking call and callbacks return; strong fairness of the pin's interrupt, because it is
  unmasked again and again and the processor looks at every instruction. Nothing is assumed of the
  chip: it need not send.
- `Timer!FairSpec`: weak fairness of the tick (a free-running hardware counter) and of `timer_run`.
- `Sockets!FairSpec`: weak fairness of the two steps of the reading loop, which is one C loop; that
  the callback returns is the application's part.
- `WifiSystem!FairSpec`: weak fairness of the superloop and of the tick. Nothing is assumed of the
  chip or its firmware, which is why `StartUpEnds` starts where a time-out runs (before, the code
  waits for `efuse` without one) and names the one wait without limit that comes later, the loop of
  `ChipApplyConfig`. Nothing is assumed of that loop: each reading may again not be the one wanted.
- `SpiBus!FairSpec`: weak fairness of the phases of a transfer, which are one C call; the chip may
  stay silent for ever.
- `SpiFlash!FairSpec`: weak fairness of the commands of a call, and of the device finishing what it
  began, without which the unlimited polls (`wf_spi_flash.c:623`) do not end.
- `UartRing` and `Console` claim no liveness: characters come when they come.

## What is proved

`UartRingProofs`, for every ring of 2 to 255 slots and every character set:

- `TypeCorrect` and `OnlyReceivedRead`, from `IInv == TypeOK /\ NoUnwrittenSlotRead`, which is
  inductive because the reader's place is part of it.
- `RingImplementsFifo`: `Spec => UartFifo!Spec`. The steps of the argument are lemmas on occupancy:
  an arrival below capacity appends, one at capacity empties, an advance takes the head.

`HifProofs`, for every set of packet kinds and driver calls and every bound:

- `TypeCorrect` and `PinUnmasked` need no strengthening beyond types.
- `MailboxSafe` and `MailboxDisciplined` rest on `BootInv` (where start-up may be for each `init`),
  `PacketInv` (which places hold a taken packet) and `ScriptInv` (what remains of the running handler
  contains no second completion). The last is the heart: `RxDoneTracksPacket` alone is not inductive,
  because a handler that completes twice would release the next packet.
- `OwnPacketRead` asks that no kind is `Overreading` and uses the same invariant with a stronger
  notion of sound handler.
- `NothingLost` holds for any number of edges: beside the two erasures that `NoLostInterrupt` names,
  the counter's wrap and `hif_init`, no step loses the interrupt of a waiting packet. With `TypeOK` it
  is inductive as it stands.
- `WakesAndSleepsPair` asks that no call is `Unpaired`; `PowerInv` relates the wake counter to the
  place in `hif_isr`.
- `AwakeWhenServing` and `AsleepWhenIdle` ask besides that packets are well-formed and that callbacks
  make no driver call. `AwakeInv` says where the counter is one and where `hifRxDone` is clear: it is
  the flag that makes a wake a no-op.
- `WellFormedReleased` is a part of `MailboxSafe`.

`TimerProofs`, for every number of timers, set of periods and modulus of the two counters:

- `TypeCorrect` and `HeldNeverReused` from `Held == TypeOK /\ HeldInUse`. One lemma, `Outcome`, says
  what any client's call makes of the table (one slot changes, and it is free only if it is no longer
  held); the steps of `timer_run` and the tick are short beside it.
- `ClocksAgree`: both counters are the same number of ticks under different moduli; the proof is
  arithmetic of remainders and needs that a day's milliseconds are whole seconds
  (`UptimeAssumption`).
- `NothingEarly` asks that callbacks only release timers. `AgeInv` ties the true age of a running
  timer to the wrapped difference of the counters, and says that nothing that runs was started after
  `timer_run` read the counter. Without that part the unsigned difference is no age: it is what a
  callback that starts a timer breaks.

`SocketsProofs`, for every number of sockets, sizes of buffers and messages, and modulus of the
session counter:

- `TypeCorrect`, `ClosedSocketsUnnamed` and `SessionsTold` from `IInv`: every identifier, in the table
  and in every request under way, is its session's serial number on a circle of `SessionMod - 1`
  (`Sid`), and a request names the present session of its slot or an earlier one. That two numbers
  share an identifier only a circle apart (`SidDistinct`) is arithmetic.
- `PendingServed` asks that receive requests do not fail to be sent.
- `OwnDataOnly` and `ReleasedOnce` ask that callbacks close nothing. `ReadInv` says that the socket
  being read stays open, under the identifier of the session that asked, while the callback opens
  sockets and changes buffers.

`WifiSystemProofs`, for every delay and time-out, size of the inbox, credentials and access point:

- `TypeCorrect`. The substate that the three start-up machines share is always one of the machine
  that runs; the proof goes through the requests, the event handler and the application's states, one
  lemma each.
- `OutcomeIsTrue` (`OneTrueOutcome`) from `OutcomeInv`: nothing is reported before the application
  starts the driver (`NotBegun`); a start has reported exactly one fatal error when it stands still in
  an error state, and none in any other (`OneOutcome`); and a state register that says finished, from
  `ChipApplyConfig` on and while the firmware machine runs, is word of this start's firmware, unless a
  write was lost (`FinishIsTrue`). What makes the word true is the version written over an older one
  before the configuration.
- `ServerOnlyAfterAddress` from `AddressOfNow`: the flag of an assigned address, while connected, was
  raised after the latest credentials.
- Of `DriverUtils`: `ElapsedTimeShort` and `DelayOfEveryEnd` for every size of the millisecond
  counter, `VersionsCompared` for all versions that fit their fields, `AddressesStored` for all
  lists of numbers. TLC evaluates the like over small ranges (the module's assumptions); the proofs do
  not use those.

`SpiBusProofs`, for every number of tries and polls, size of transfer, packet and memory, and set of
blocks. Three invariants, each proved with the ones before it:

- `CallInv` gives `TypeCorrect`. It relates call, kind of transfer and phase (`Shape`), keeps the
  transfer inside its block and the cuts at multiples of the largest transfer (`Placement`), and
  counts tries.
- `RegInv` (`RegistersAgree`) gives `HostAndChipAgree` (`InitAgrees`). A register access that ended
  before its tries ran out did what it says; what was given up reads as zero; a read that was heard
  found both sides agreed on the CRC. The last is what `nm_spi_init` concludes from: a chip whose
  identity could be read checks no CRC.
- `BlockInv` (`BlocksArrive`) gives `TransfersAreDone` (`TransfersDone`). It says at every moment of a
  try which bytes are in place: those of the transfers before and, in the data phase, those before
  `ix`. A try that failed has moved bytes too, which is why the property alone is not inductive.

`SpiFlashProofs`, for every page size, sector size, buffer, start and length:

- `TypeCorrect` and `SplitAtPages` from one invariant of four parts: types with the places' ranges,
  `AtPageStart` (after its first piece a write stands at the start of a page), `ReadInFlash` (what is
  left to read lies inside the flash) and `ChunkLoaded` (the shared memory holds the piece that is
  programmed next). `ProgramInPage` alone is not inductive.
- `DeviceFollowed`: `FInv` adds that the device is as far as the driver takes it to be, that the
  address is as far in the range as the bytes done, and which bytes the shared memory holds.
- `FlashIsFlat`: `Spec => FlatSpec`, the refinement of `FlatFlash`, for erases that start at a sector
  (`AlignedErases`). A program step is one step of the flat memory because a chunk that stays in its
  page has consecutive linear addresses (`ChunkCells`), an erase step because a sector is whole pages
  (`EraseFlat`); the return needs `Sectors`, that every page passed is blank.
- `AlignedErasesDoIt`: under the same hypothesis, that an erase which returns has erased the portion it
  was asked for.

`ConsoleProofs`, for every size of the line buffer, of the token list and of the client table:

- `TypeCorrect`, that every write stays inside them. It is inductive as it stands; the terminator's
  cell is why.
- `ConsoleIsLineEditor`: `Spec => LineSpec`, the refinement of `LineEditor`, from `IInv` (`Invariant`):
  the buffer's last cell is a NUL, so that every string in it ends, and no two clients have the same
  name. The argument has three parts. `TokensAreWords`: the recursion that cuts tokens out of the
  buffer lists the starts of the line's words in order (`TokenStartsListed`, from the end of the line
  to its beginning), `LineEditor` numbers them by counting (`ListsNth`), and each token is its word
  when there is room for all (`StringIsText`). `AnswerIs`: the client found first is the only one
  (`NamedClient`). `RegisterIs`: a table without double names has as many clients as places.

What each proof assumes are the named `ASSUME`s of the modelled module (sizes are positive, the memory
of `SpiBus` too, a sector is whole pages, a timer's period fits the counter), which the code's constants
satisfy (`DifferenceAssumption` of `Sockets` is a condition on the sizes an application uses) and which
TLC evaluates on every run, and the `ASSUME ... PROVE` hypotheses named above.

Induction over data: the library's induction theorems take operators, which the provers cannot
instantiate, so `ConsoleProofs` derives what it needs from the well-foundedness of the naturals
(`WFMin`, a first-order statement): every set of naturals has a least element (`Least`), hence
induction over sets (`SetInduction`) and the existence of the recursive function that `TokenStarts`
names (`TurnsExist`).

Only model-checked:

- Liveness, fairness and `ENABLED`, which the prover does not reach: `EventuallyServed`,
  `PolledTimersExpire`, `ReadingEnds`, `CallsReturn` of `SpiBus` and `SpiFlash`, `StartUpEnds`.
- The clock (`Rtc`), of which one run shows two defects; the conversions of `RtcTime`, whose ranges TLC
  covers whole, of `LogNumbers` and of `SpiFrame`, which computes with the operators of `Bitwise`.

## What is not modelled, and why

- Inside `Hif`: the register handshake of `hif_send` is one step (the superloop waits in it and the
  interrupt only counts); a register read that is given up has no place (one of `WIFI_HOST_RCV_CTRL_0`
  reads as zero, so that `hif_isr` takes the interrupt for a false one and a waiting packet loses its
  notice until the next edge); the crypto and sigma callbacks are never registered by this program. The
  one handler that does not return is left to `Sockets`.
- Inside `Sockets`: TLS differs in command names and the data offset only; `setsockopt`, DNS and ping
  keep no socket state; a restart of the driver leaves the host's sockets as they are
  (`wf_socket.c:323`). That a peer's connection and `socket()` may take the same slot at once depends
  on firmware this repository does not describe.
- Inside `Timer`: `timer_isRunning`, which has no caller, `timer_isExpired`, printing.
- Inside `WifiDriver`: the calls built only with WPS or P2P; the requests for certificate revocation
  and for random bytes, which keep no state; download mode.
- Inside `Console`: levels and colours of the log, whose only effect is which text is printed;
  `log_assert`, which stops the processor.
- Inside `DriverUtils`: byte-order macros and the texts of errors.
- Inside `Rtc`: the day of the week, the 12-hour form and the configuration registers, which nothing
  in this program reads.
- OTA (`wf_ota.c`: requests and one event, no state) and board support (pins, clock, watchdog,
  start-up code: registers written once, before anything runs that a property could be about).
- The structures of `winc1500_api.h`, `wf_socket.h` and `wf_types.h` are layouts of messages and have
  no behaviour of their own; the models carry the fields that control depends on.

## Plan

Done, in this order: `UartFifo`, `UartRing`, `UartRingProofs`; `Hif`, `HifProofs`; `Timer`,
`TimerProofs`; `Sockets`, `SocketsProofs`; `WifiDriver`, `WifiApp`, `WifiSystem`; `DriverUtils`, `LogNumbers`,
`RtcTime`, `Rtc`; `LineEditor`, `Console`; `SpiFrame`, `SpiBus`; `FlatFlash`, `SpiFlash`; `WifiSystemProofs`,
`SpiBusProofs`, `SpiFlashProofs` with the refinement of `FlatFlash`, `ConsoleProofs` with the refinement of
`LineEditor`.

Left, most important first:

1. The numbers that `LogNumbers` prints, for every number: the induction of `ConsoleProofs` serves.
2. What an erase that starts inside a sector does erase: the sectors its steps reach.
3. Bind, listen and connect replies, of which the sessions are not compared (`wf_socket.c:142`): what
   the application can tell from the order of its own calls.
