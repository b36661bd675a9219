# A TLA+ model of BM-Lite

BM-Lite is the host software for the FPC BM-Lite fingerprint module: a protocol
called HCP that carries commands over SPI or UART, sensor functions on top of it
(enroll, identify, templates), two example applications, and hardware layers for
the nRF52840, the STM32WB55, the Raspberry Pi and Linux. The module itself is not in
the repository. Here it is modelled from how the host uses it, and free to refuse,
delay, stop or (where a run says so) answer nonsense.

Paths are relative to the repository; line numbers refer to the modelled commit.

## 1. The system

| Component | State it keeps | Operations | Used by |
| --- | --- | --- | --- |
| HCP transport, `BMLite_sdk/src/hcp_tiny.c` 138-304 | `HCP_comm_t`: `pkt_buffer`, `txrx_buffer`, sizes, `bep_result`; locals of the two loops | `bmlite_tranceive`, `bmlite_send`, `bmlite_receive`, `_tx_link`, `_rx_link` | all sensor functions |
| HCP packets, `hcp_tiny.c` 57-136 | the argument list in `pkt_buffer`, `chain->arg` | `bmlite_init_cmd`, `bmlite_add_arg`, `bmlite_get_arg`, `bmlite_copy_arg` | transport, sensor functions |
| Platform layer, `platform.c` | none | `platform_bmlite_spi_*`, `platform_bmlite_uart_*`, `platform_bmlite_reset` | transport (through `read`, `write`), applications |
| Sensor functions, `bmlite_if.c` | `phy_rx_timeout` while they wait; loop counters | `bep_enroll_finger`, `bep_identify_finger`, `bep_capture`, waits, one-command functions | applications |
| Embedded application, `embedded_app/src/main.c` | `current_id`, the last result | button, enroll, erase, identify, reset | - |
| Console application, `console_app/src/main.c` | the last result | a menu of sensor functions | - |
| UART of the STM32WB55, `hal_uart.c` | DMA ring, `prev_cndtr`, flags set in interrupts | `hal_bmlite_uart_read`, `hal_bmlite_uart_write` | platform layer |
| Buttons, `hal_buttons.c` (STM32), `hal_timebase.c` (nRF) | press time, level, set in interrupts | `hal_get_button_press_time`, `hal_check_button_pressed` | embedded application, every read of the platform layer |
| SPI of each HAL, `hal_spi.c` | a flag set in an interrupt, the driver's handle, chip select | `hal_bmlite_spi_write_read` | platform layer |
| Time base, `hal_timebase.c` | the millisecond counter | `hal_timebase_busy_wait`, `hal_timebase_get_tick` | platform layer, sensor functions |
| Board, LEDs of each HAL | peripheral registers | set-up | platform layer |
| CRC, `fpc_crc.c` | none | `fpc_crc` | transport |
| `Arduino_lib` | a copy of the SDK, with a sketch as application | | |

The application calls a sensor function; that builds a packet and calls
`bmlite_tranceive`; the transport cuts the packet into frames, sends each and waits
for its acknowledgement, then collects and acknowledges the frames of the answer.
Each read goes through the platform layer, which polls the HAL, the clock and the
button. Interrupts change the button, the clock and the UART ring meanwhile.

What is hard here, and which property of the project is about it:

* Nothing in a frame names its command, so that a late or stale answer can be paired
  with the wrong one: `FreshAnswer`, `AtMostOnceExchange`, `NeverMixed`.
* Every read can end early (timeout, button, transfer error) with the module in the
  middle of something: `SentMeansTaken`, `ResetRecovers`, `EveryCallReturns`.
* Buffers fill up in the middle of a packet; sizes come from the other side; some
  are 16 bits wide and others 32: `WithinBuffers`, `RefusedExactly`, `WholeCommand`.
* The sensor functions change the timeout of the transport, ignore some results and
  leave loops by several exits: `TimeoutRestored`, `EnrolledWhenDone`,
  `NoOpenEnrollment`, `MatchFresh`, `CapturedBeforeAdd`.
* The answer to a save may be lost, and the board switched off: `NoTemplateLost`.
* One buffer holds the command, the answer, and the remains of earlier ones, and the
  search for an argument trusts the numbers in it: `CommandIsRequest`,
  `DataFromThisAnswer`, `ListedIds`.
* Buttons are pressed at any moment, and waits have no timeout: `PressRead`. Their
  handlers run between any two statements, and edges are served as one: `KnowsLevel`,
  `TimeOfPress`, `LastPressRead`, `SetAtRelease`.
* A DMA fills a ring that is polled, and may be stopped by an error: `FitsBuffer`,
  `InOrder`, `NothingLost`, `ReceiveCompletes`.
* Transfers end in interrupts that set a flag a thread waits for, without a timeout;
  two DMA channels end in either order, errors come in between, and a long transfer is
  cut into blocks: `SpiBlocks`, `NrfBlocks`, `CallsApart`, `ClocksWhatItMust`,
  `AllMeansSent`, `FailsForCause`, `SpiReturns`, `NrfReturns`, `WriteReturns`.
* Counters wrap: `WaitsLongEnough` and the press times above.

The complete list, each at its line, is under "hazards" in `PROJECT.json`; where a
property covers a hazard in part or not at all, a note says so.

## 2. Modules

* **`HcpExchange`** is the abstract promise of one call of `bmlite_tranceive`: the module
  runs each command at most once, and a call that returns OK has the answer of that
  run. It has four actions and knows no frames.
* **`HcpTransport`** is the transport. One action per step of the C code between two
  accesses to the link: `Call`, `SendFrame` (a turn of the loop of `bmlite_send` up to
  the write), `ReadAck`, `ReadHeader`, `ReadBody` (the three reads, with everything
  done up to the next one), `ParseResult` (the search for `ARG_RESULT`) and `Return`
  (with the reset a careful caller makes). Program counter, `data_left`, `seq_nr`,
  `seq_len`, `buf_len` and the rest are variables under their names. Sizes are in bytes,
  with the 16-bit wraps; payload bytes are abstracted to who sent them, for which
  command and where in the packet. The wire is two sequences of units: frames,
  acknowledgements, what is left of a frame after its header was read, and noise. A read of
  4 bytes that meets something longer leaves the rest of it, and what follows may be read out
  of step (`AfterWord`, `AfterMisread`): this matters with UART, whose bytes stay where they are.
  Actions named `Module...` and `Link...` are external.
* **`HcpTransport_proofs`** holds the theorems about it: first those that need no assumption about bus
  and faults, then those about host and module in step, up to the refinement of `HcpExchange`.
* **`EmbeddedApp`** is `bmlite_if.c` with `main.c` of the embedded application: `pc` says
  which function or loop is being executed, one action per command sent. A call of
  `bmlite_tranceive` is a single step (`Tranceive`), as `AtMostOnceExchange` allows for a
  module in step (`insync`): the answer is the one to this command. After an error and
  before the next reset any result with any answer is possible. In step there is one exception, that
  of `StaleBody`: when the button or a fault breaks the read of an answer's body, the host takes the
  frame it sent for the answer, gets OK with no argument, and is out of step from then on. The button (with the
  press time of the nRF or the level of the STM32), the finger and the power switch
  are actions of their own.
* **`EmbeddedApp_proofs`** holds the theorems about it.
* **`UartRing`** is `platform_bmlite_uart_receive` and `hal_bmlite_uart_read` against
  the DMA: counters, the two copies, and the restart after an error, byte by byte.
  **`UartRing_proofs`** holds the theorems about it.
* **`ByteQueue`** is what the SDK takes the reception for: a queue of bytes that loses none but
  at an error of the line. `UartRing` refines it; the queue is read off the ring between
  the two counters.
* **`SensorApi`** is the packet layer (`hcp_tiny.c` 57-136) with the one-command functions of
  `bmlite_if.c` and the console. `pkt_buffer` is a memory of units, one for each field of a
  header, and the search of `bmlite_get_arg` reads whatever is there: the answer, or what
  is left of the command. A call of a function is one action for each way it can
  end: the command too long, `bmlite_send` failed, `bmlite_receive` failed after some
  frames, the answer too long, some of its frames
  refused because their sizes disagree, or answered. The functions are listed by shape: their
  arguments, what they want of the answer, and where they copy it (nowhere, to an area of the
  caller, or to the NULL a caller may pass).
* **`SensorApi_proofs`** holds the theorems about it.
* **`BlockingTransfer`** is what `platform.h` promises of a transfer over SPI, with four
  actions: bytes move only during a call, and OK means all of them.
* **`Stm32Spi`** and **`Nrf52Spi`** are the two `hal_bmlite_spi_write_read` together with the
  parts of the vendored drivers they depend on, and refine `BlockingTransfer`. The first has the
  two DMA channels, their interrupts, three kinds of errors of the hardware and a driver that does
  not see the transfer end, and chip select, which is asserted from start-up to the end of the
  first transfer; the second the blocks of
  255 bytes, the double-buffered registers, the handler of nrfx, and WFE with the event
  register of the core.
* **`Stm32UartWrite`** is `hal_bmlite_uart_write` with ST's driver: the flags that two
  interrupts set, errors of the reception that set the same one, and a frame still being sent
  when the next write starts.
* **`Stm32Button`** and **`NrfTimebase`** are the interrupt handlers behind the buttons, with
  the functions that read them, and the busy wait of the nRF. **`SketchButton`** is the button of the
  sketch in `Arduino_lib`, whose level is swapped and whose presses are measured in microseconds.
* **`Stm32Spi_proofs`**, **`Nrf52Spi_proofs`** and **`NrfTimebase_proofs`** hold the theorems
  about the modules they are named for.

  In these modules the core takes a pending interrupt before the next instruction of the thread.
  A thread's step is one access to what an interrupt shares with it; a handler is one step,
  except that `Stm32Button` separates the reading of the pin from the clearing of the flag,
  between which another edge may fall.
* **`Hal_proofs`** carries the theorems about the parts of `HAL_Driver` over to the properties of the run
  `Hal`, and proves those of `Stm32UartWrite` and `Stm32Button`.
* **`MC...`** modules instantiate these for TLC. `MCHal` is a parameterised composition: one part runs
  in each behaviour, and the constants of the parts are its own, given in `Hal.cfg`.

Operators named "Mutant of ..." change one definition the way a slip in the code would.
Nothing uses them; putting one in the place of its original must break the property it
is listed with, which shows that the property has something to say about this code.

## 3. Runs

| Run | Question | Bounds |
| --- | --- | --- |
| `TransportSpi` | With a caller that resets after errors, can anything but the right answer be returned with OK? `TypeOK`, `FreshAnswer`, `WholeCommand`, `NeverMixed`, refinement `AtMostOnceExchange` | 2 commands, 2 faults of 6 kinds, MTU 16 |
| `TransportSizes` | With the code's MTU of 256 and answers around the buffer size, are the buffers respected, and are exactly the answers of `pkt_size_max` bytes and more refused? `WithinBuffers`, `FreshAnswer`, `SentMeansTaken`, `RefusedExactly` | 2 commands, 2 faults of 5 kinds, a buffer of 500 bytes, answers of 499, 500 and 600 |
| `TransportLive` | Does every call return, and does a reset recover? `EveryCallReturns`, `ResetRecovers` | 2 commands, 2 faults of 7 kinds |
| `Embedded` | Is the application right whatever finger, button, link and power do? `TypeOK`, `TimeoutRestored`, `EnrolledWhenDone`, `MatchFresh`, `NoOpenEnrollment`, `NoTemplateLost`, `PressRead` | 2 presses, 1 fault, 1 reboot, 2 turns of each loop |
| `Sdk` | Are commands sent whole, and are the data a function returns those of this answer, and where do the ids come from that the console lists? `CommandIsRequest`, `DataFromThisAnswer`, `ListedIds` | 2 calls, buffer of 12 units, frames of 6, sizes modulo 8 |
| `Hal` | Does each part of `HAL_Driver`, with its interrupts, keep what the layers above rely on? `TypeOK`; STM32 SPI: `CallsApart`, `SpiBlocks`, `SpiReturns`; nRF SPI: `ClocksWhatItMust`, `NrfBlocks`, `NrfReturns`; STM32 UART: `AllMeansSent`, `FailsForCause`, `WriteReturns`, and for a module that is not ahead of the host `FitsBuffer`, `InOrder`, `NothingLost`, `RingQueues`, `ReceiveCompletes`; buttons and time: `KnowsLevel`, `TimeOfPress`, `LastPressRead`, `WaitsLongEnough` | blocks of 3 bytes, transfers of 0 to 6, 1 error (SPI), 2 (UART), ring of 4 with requests of 1, 2 and 5 bytes, counters modulo 5 |
| `StaleBody` | violation: the body read whose result is ignored | the code's sizes |
| `LateAnswer` | violation: a late answer in the UART buffer survives the reset | the code's sizes |
| `AddWithoutImage` | violation: an enrollment adds an image that was not taken | the code's constants, no fault |
| `LostPress` | violation: the STM32 button misses a press | the code's constants, no fault |
| `UartAhead` | violation: more bytes are written than asked for | the code's ring |
| `ArduinoPress` | violation: the sketch sets the press time when the button goes down | counter modulo 5 |

Why the bounds are enough. With an MTU of 16 a frame carries 2 bytes, so that packets
of 1 to 4 bytes have one to three frames and the empty last frame of a multiple of the
payload size; two commands are needed for an answer to meet the wrong one, and two
faults for an answer to be late *and* damaged, or a reset to be followed by a fault.
`TransportSizes` uses the real MTU and a packet buffer of 500 bytes, just under, at and
over which the answers lie: the one of 500 bytes would fit, but the `<` at `hcp_tiny.c:176` refuses it. Two presses allow enroll after enroll and enroll then erase;
two turns of a loop let it end both by its bound and by success. A ring of 4 with 9 byte
numbers tells any byte from those one and two rings later, and a request of 5 is larger
than the ring, as a body of up to 254 bytes is larger than 128.

`Hal` chooses one part at the start of a behaviour and runs it alone: the parts belong to
different boards or share nothing. Transfers are shorter than a block, one block, two, and one
with a rest. A counter modulo 5 wraps during waits and presses. In `Sdk` a buffer of 12 units
holds a command with an argument of 6 units but not of 7, answers of one frame and two,
and is too small for some; a size of 9 is cut modulo 8, and so is the console's limit for
a copy (11), as 102400 is in 16 bits. Two calls let the second find what is left of
the first.

`TransportSpi` does not include the fault "body" (the read of a frame's body fails):
`StaleBody` is what happens then. Nor has `TransportSizes` reads of an acknowledgement that
fail with another error than TIMEOUT: with the faults "lose" and "ioerror" an uninitialised variable
is compared, and `SentMeansTaken` fails. `WholeCommand` fails for a command of 65547
bytes in the console's buffer of 102400, whose size goes through 16 bits.

Both runs are of SPI, with a caller that resets the module after `IO_ERROR` and `TIMEOUT`. With
UART the properties do not hold, for more reasons than the one `LateAnswer` shows: the receive
buffer outlives errors and resets, so that after one acknowledgement is lost or damaged the
next read takes what followed it for something else, and within a few commands a stale
acknowledgement and answer are taken for those of a new command; no unit need be late, and
a reset does not help. The findings in `PROJECT.json` say so.

`CHECK_DEADLOCK` is off because the systems really stop: after the last command of a
bounded behaviour, or waiting for a finger.

Fairness. `HcpTransport`: the host's steps (its loops run, its reads end at their
timeouts) and the module's steps while it is alive; never a call or a fault. The
timeout of a read is not 0 there. `EmbeddedApp`: the host's steps, except that a wait with
timeout 0 on a module that is out of step may last for ever, and that no link fault is
ever owed; neither finger nor button is promised. `UartRing`: the polling loop, and a module
that goes on sending (the property is about a call that is being served). The SPI and UART
drivers: the thread goes on, interrupts are served, and the peripheral moves bytes that it has
been given; that an error comes, or a call, is never assumed, nor that the nRF's
millisecond timer wakes a sleeping thread.

What some properties except, because the code does not do it: `SpiReturns` excludes errors of
the hardware and a driver that does not see the transfer end, after which the loop at
`hal_spi.c:69` waits for ever; `CallsApart` has chip select asserted between calls until the first
transfer has ended, so that the first frame has no falling edge; `RefusedExactly` says that an
answer of `pkt_size_max` bytes is refused, which would fit (`hcp_tiny.c:176`); `AllMeansSent` a write that
starts while the frame of a failed one is still being sent; `KnowsLevel` and `TimeOfPress` edges
that are served as one; `LastPressRead` a press that ends between the two statements at
`hal_timebase.c` 123-124; `DataFromThisAnswer` answers that count more arguments than they
have; `ListedIds` says nothing of answers that were broken off, damaged or too long, and where the
answer has neither a result nor ids, or the command was not sent, it says which stale ids the
console lists; `MatchFresh` and the half of `NoOpenEnrollment` about the module hold for a module in
step only.
Each is named in the comment of the property.

## 4. Proofs

Every theorem is of the whole specification, for all values of the constants that satisfy the
stated assumptions; none bounds the number of commands, faults, presses or bytes. Each rests
on an inductive invariant with one lemma per action. The invariants were checked with TLC on
the instances of section 3 before they were proved.

### Transport

`HcpTransport_proofs` assumes only what `HcpTransport` does of its constants (any MTU
from 15 to 32520 bytes, any buffer and sizes, both buses, any faults):

* `TypeCorrect`: `[]TypeOK`. `TypeInv` adds `Issued` (a command exists while the host is
  busy, and a module that executes has a first frame), without which the steps that look
  at the command in progress or at `modReq[1]` do not keep the types.
* `BuffersRespected`: `[]WithinBuffers` when `PktSizeMax <= 65536`. The invariant adds
  that `offset` and `buf_len` agree, which needs the assumption: in a larger
  buffer the 16-bit `buf_len` wraps while the pointer goes on. The console application's
  buffer of 102400 bytes is outside of it.

Its second part is about host and module in step. It assumes

* `Recovers`: the bus is SPI, the caller resets the module after `IO_ERROR` and `TIMEOUT` (as
  `main` does after a failed identification, and as the repository's README recommends), and
  the read of a body does not fail by itself. Lost, damaged, late and malformed units, failing transfers and crashes may
  all happen, any number of times. Without it the theorems are false: `LateAnswer` and
  `StaleBody` are the counterexamples.
* `SizesFit`: `PktSizeMax <= 65535`, so that `pkt_size` survives the 16 bits of `bmlite_send`.

The invariant `StepInv` has three groups. About the command: the frames on the wire to the
module, in it, and still to be sent are those of the one packet of this call, in order
(`Sending`, `Held`, `InFlight`, `Ordered`, `Executing`). About the answer: what the host has collected is
a prefix of the frames of the answer the module gave (or the call is bound to fail), and what is
on the wire to it is at most one frame of the module, the next one of that answer. And about
failure: once a unit was lost or damaged so that the two may disagree, the call can only end
in an error after which both wires are cleared. From it follow

* `CommandsApart` (`NeverMixed`), `CommandsComplete` (`WholeCommand`),
* `AnswersAreFresh` (`FreshAnswer`), `RefusalsAreExact` (`RefusedExactly`), which needs that
  `pkt_buffer` is never filled to its last byte (`Unfilled`),
* `ExchangeKept`: `Spec => AtMostOnceExchange`, the refinement of `HcpExchange`: `ModuleExecutes`
  is `Execute`, the end of a call is `ReturnAnswer` or `ReturnError`, all other steps stutter,
* `SentIsTaken` (`SentMeansTaken`), with `Handshake` as a further invariant (an acknowledgement
  on the wire is that of the last frame, and the only one), and with `AcksAreRead`: no
  transfer fails, for `_tx_link` compares an uninitialised variable after an error
  other than `TIMEOUT`.

### Packets

`SensorApi_proofs` assumes only `ApiAssumption`: any `pkt_buffer` of more than two units, any
payload of a frame, any modulus of the sizes, any data a caller gives, any limit of a copy.

* `ApiTypeCorrect`: `[]ApiTypeOK`, the buffer, sizes and pointer of `hcp_comm`.
* `CommandsAreRequests` (`CommandIsRequest`), `DataIsFromThisAnswer`
  (`DataFromThisAnswer`), `ListedIdsAreKnown` (`ListedIds`, an action property: the stale ids are
  those where the state before the call left `arg`).

Here nothing but the types carries over from one call to the next, and that is the point: whatever
an earlier call left in the buffer, in `arg` and in `bep_result`, each call by itself
establishes the three promises. So the inductive part is `ApiTypeOK`, and each action has a lemma that
derives the promises from it. What makes them hard is the data: folds over arguments and
frames, and a search that follows sizes it reads from the memory. The provers cannot use the library's
induction theorems, so `Induction` takes one from its `WFMin`: a set of numbers that lacks one
lacks a least one. With it, `FoldExists` shows that the recursive function behind
`FoldLeft` exists, and the algorithms follow one step at a time:

* `CommandContent`: `bmlite_init_cmd` and `bmlite_add_arg` report that the buffer is full exactly
  if the encoding of the arguments is longer than it, and otherwise leave that encoding in it;
  the invariant of the loop is that the packet is the encoding of a prefix of the arguments
  (`CarriesMore`).
* `StoredWhole`: the frames `bmlite_receive` keeps add up to the answer if their sizes do, so none
  was left out in the middle.
* `SearchOfAnswer`: in a buffer that begins with an encoded answer `bmlite_get_arg` walks from
  argument to argument (`WalkOfAnswer`), finds the first of the key, and finds nothing
  if there is none, never reading behind the packet (`FoundAtEnd` has the last step,
  where the comparison with `pkt_size` allows one more).

The answers are those `Answers` lists: a result, data, both in either order, or neither, with sizes
that fit their field. Frames whose sizes disagree may come among those of an answer
(`AnswerMalformed`); an answer whose arguments disagree with its length is not among them.

### Embedded application

`EmbeddedApp_proofs`, for any bounds, either button and whatever module, link, user
and power supply do:

* `TimeoutAlwaysRestored`: `[]TimeoutRestored`. `TimeoutInv` adds that during a
  capture or a wait `prev_timeout` holds the configured timeout; then every way out of them
  puts that one back. Nothing about the module's answers is used.
* `AppTypeCorrect`: `[]TypeOK`, with the loop counters. `AppInv` says which counter
  values belong to which `pc`, and is part of the invariants of the following.
* `NoEnrollmentStaysOpen` (`NoOpenEnrollment`): after a successful `ENROLL START` the function does
  not return without `ENROLL FINISH`, in step or not (`OpenInv`, about the ghost `opened`), and while
  host and module are in step an enrollment is open in the module only in between (`ClosedInv`).
* `DoneMeansEnrolled` (`EnrolledWhenDone`): 0 samples remaining is read only from an answer
  that says so, although the result of the search is ignored.
* `MatchesAreFresh` (`MatchFresh`): image and features of the module are those of this
  identification from the step on that got OK for them.
* `NoTemplateIsLost` (`NoTemplateLost`, an action property): every stored id that is not
  doubtful is less than the one to be used next.

### Hardware layers

`Hal_proofs` states the properties of the run `Hal` for all values of its constants: each part is shown
to behave as its own specification says (`PartsBehave`, `RingBehaves`), and its
theorem is taken from its own module.

| Property | Theorem | From |
| --- | --- | --- |
| `AllMeansSent`, `FailsForCause` | `WritesAreSent`, `FailuresHaveCause` | `Hal_proofs` itself, invariant `WriteInv` |
| `CallsApart`, `SpiBlocks` | `SpiCallsApart`, `SpiIsBlocking` | `Stm32Spi_proofs` (`SpiInv`) |
| `ClocksWhatItMust`, `NrfBlocks` | `NrfClocksExactly`, `NrfIsBlocking` | `Nrf52Spi_proofs` (`NrfInv`) |
| `FitsBuffer`, `InOrder`, `NothingLost`, `RingQueues` | `ReadsFit`, `ReadsInOrder`, `ReadsLoseNothing`, `RingIsByteQueue` | `UartRing_proofs` (`RingInv`) |
| `KnowsLevel`, `TimeOfPress` | `PolledLevelIsKnown`, `PressIsTimed` | `Hal_proofs` itself, invariant `ButtonInv` |
| `LastPressRead`, `WaitsLongEnough` | `LastPressIsTimed`, `WaitsLastLongEnough` | `NrfTimebase_proofs` (`TimebaseInv`) |
| `TypeOK` | `HalTypeCorrect` | all of them |

* `WriteInv` says that a frame is in one stage at a time, the DMA, the UART or an error on
  its way to the handler, and only while the driver is busy (`OneStage`); and ties the flags
  `error` and `tx_done` that the loop reads to this call and this frame (`ErrorOfCall`,
  `DoneOfFrame`).
* `SpiInv` says of each point of a call how far the two DMA channels and their
  interrupts can be; outside of a call the peripheral is idle or was aborted, and chip select is
  released if a call has ended before.
* `NrfInv` counts the blocks done (all of them full), and says of the one under way what is queued,
  clocked and still to be refilled.
* `ButtonInv` relates the handler's variables to the edges that were served, and
  times modulo the width of the counter; `TimebaseInv` does so for the button of the nRF, and counts the ticks of a wait.
* `RingInv` says that the ring holds, from the reader's
  place on, exactly the bytes not yet read, and that there is room for them
  (`Stored`, `RoomLeft`); `ReadsAll` computes what a read copies in one piece or two. For the
  refinement of `ByteQueue`, `QueueInv` says that the bytes between the counters are those not yet
  read: a byte that comes in is `Arrives`, a turn of the loop that finds some is `Give` of
  all of them, an error is `Breaks`, and the read that starts the reception again `ListensAgain`. The theorems of
  the ring assume `CounterFits` (the
  ring is shorter than 65536, the range of `prev_cndtr`) and `PollsInTime` (`Slack <= 1`: at
  most one byte beyond those asked for between two polls, as with a thread that polls once per
  byte time). `UartAhead` is the counterexample with two.

Of the constants the theorems assume `HalAssumption`, which TLC evaluates.

### Model-checked only

All liveness properties and fairness, which TLAPS does not reach: `EveryCallReturns`,
`ResetRecovers`, `PressRead`, `SpiReturns`, `NrfReturns`, `WriteReturns`, `ReceiveCompletes`. Every
invariant and action property that a passing run checks is also the statement of a theorem.

## 5. What is not modelled, and the plan

Not modelled: vendored SDKs, start-up code and build files; peripheral set-up; LEDs and
callbacks, on which nothing depends; the Arduino copy of the SDK. Partly modelled parts are described
under "components" in `PROJECT.json`.

What remains is out of a model's reach or has no behaviour of its own: the vendored SDKs,
CMSIS and register definitions are nearly all of the repository's lines, and only the
functions the drivers above call are modelled; `fpc_crc.c` is arithmetic on 32-bit words (a table),
for which the transport takes a CRC as equality; the ports to Linux and the Raspberry Pi
pass calls on to the operating system, and their failing transfers are a fault of the
transport; LEDs, boards and the console's menu and files are output. The loop of the Arduino sketch
differs from `main` in going on after a reset instead of starting over.

Left of the modelling: answers whose arguments disagree with their length in `SensorApi`, frames with
a wrong `seq_nr` in `HcpTransport`, and `EmbeddedApp` on top of `NrfTimebase` or `Stm32Button` instead of its own button.

Abstract specifications: `HcpExchange`, `BlockingTransfer` and `ByteQueue`, each refined.

Open for proof: how much of the transport's theorems is left with UART, until the first
acknowledgement is lost. Their assumption `Recovers` asks for SPI.
