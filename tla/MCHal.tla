-------------------------------- MODULE MCHal ----------------------------------
(***************************************************************************)
(* The modules of HAL_Driver for TLC, one per behaviour: the parts belong  *)
(* to different boards or do not meet.  part says which one runs; the      *)
(* others keep their initial states.  Where a part has a module of         *)
(* theorems the instance is of that one, which adds nothing to its         *)
(* specification.                                                          *)
(*                                                                         *)
(* In Hal.cfg a ring of 4 bytes is passed round twice by the 9 numbers of  *)
(* the bytes, and requests of 1 to 5 bytes are smaller and larger than the *)
(* ring, as those of 4 to 254 bytes are for 128.  Transfers over SPI are   *)
(* less than a block of 3, one, two, and more than one; 0 is refused.      *)
(***************************************************************************)
EXTENDS Integers

CONSTANTS
  Parts,       \* which ones are checked
  Block,       \* bytes of a block of the nRF's SPI
  SpiSizes,    \* sizes of transfers over SPI
  WriteSizes,  \* sizes of writes to the UART
  MaxErrors,   \* bound: errors of the UART that writes
  RingSize,    \* bytes in the ring of the UART that reads
  Numbers,     \* numbers of its bytes
  ReadSizes,   \* sizes of reads
  Slack,       \* bytes beyond those asked for, between two polls
  MaxStops,    \* bound: errors that stop the reception
  W,           \* range of the tick counters
  Delays       \* arguments of hal_timebase_busy_wait

VARIABLES part, spi, nrf, tx, btn, tb, sk
VARIABLES ring, cndtr, prevCndtr, running, size, got, next, due, unread, stops

ringVars == <<ring, cndtr, prevCndtr, running, size, got, next, due, unread, stops>>
vars == <<part, spi, nrf, tx, btn, tb, sk, ringVars>>

Spi == INSTANCE Stm32Spi_proofs WITH Sizes <- SpiSizes, MayFail <- TRUE
Nrf == INSTANCE Nrf52Spi_proofs WITH Sizes <- SpiSizes
Uart == INSTANCE Stm32UartWrite WITH Sizes <- WriteSizes
Ring == INSTANCE UartRing_proofs WITH N <- RingSize, Sizes <- ReadSizes
Button == INSTANCE Stm32Button
Time == INSTANCE NrfTimebase_proofs
Sketch == INSTANCE SketchButton

ASSUME HalAssumption ==
  /\ Spi!SpiAssumption /\ Nrf!NrfAssumption /\ Spi!Promise!SizesAssumption
  /\ Uart!WriteAssumption /\ Ring!RingAssumption
  /\ Button!WidthAssumption /\ Time!TimebaseAssumption /\ Sketch!SketchAssumption

Init ==
  /\ part \in Parts
  /\ Spi!Init /\ Nrf!Init /\ Uart!Init /\ Ring!Init /\ Button!Init /\ Time!Init
  /\ Sketch!Init

Runs(p) == part = p /\ UNCHANGED part

SpiNext ==
  Runs("spi") /\ Spi!Next /\ UNCHANGED <<nrf, tx, btn, tb, sk, ringVars>>
NrfNext ==
  Runs("nrf") /\ Nrf!Next /\ UNCHANGED <<spi, tx, btn, tb, sk, ringVars>>
UartNext ==
  Runs("uart") /\ Uart!Next /\ UNCHANGED <<spi, nrf, btn, tb, sk, ringVars>>
RingNext ==
  Runs("ring") /\ Ring!Next /\ UNCHANGED <<spi, nrf, tx, btn, tb, sk>>
ButtonNext ==
  Runs("button") /\ Button!Next /\ UNCHANGED <<spi, nrf, tx, tb, sk, ringVars>>
TimeNext ==
  Runs("time") /\ Time!Next /\ UNCHANGED <<spi, nrf, tx, btn, sk, ringVars>>
SketchNext ==
  Runs("sketch") /\ Sketch!Next /\ UNCHANGED <<spi, nrf, tx, btn, tb, ringVars>>

Next ==
  \/ SpiNext \/ NrfNext \/ UartNext \/ RingNext
  \/ ButtonNext \/ TimeNext \/ SketchNext

Spec == Init /\ [][Next]_vars

(* The parts' own fairness.  Where one does not run, nothing is called and *)
(* it asks for nothing; but the ring's line could always bring a byte.     *)
FairSpec ==
  /\ Spec
  /\ Spi!Fairness /\ Nrf!Fairness /\ Uart!Fairness
  /\ WF_ringVars(part = "ring" /\ (Ring!Poll \/ Ring!ReturnOk))
  /\ WF_ringVars(part = "ring" /\ Ring!ByteArrives)

--------------------------------------------------------------------------------
(* The parts' properties; their modules say what they mean. *)

(* Type correctness of all parts. *)
TypeOK ==
  /\ Spi!TypeOK /\ Nrf!TypeOK /\ Uart!TypeOK
  /\ Ring!TypeOK /\ Button!TypeOK /\ Time!TypeOK
  /\ Sketch!TypeOK

(* STM32WB55, SPI: a call finds nothing left of the one before, and chip   *)
(* select is released between two calls.                                   *)
CallsApart == Spi!CallsApart

(* STM32WB55, SPI: OK means all bytes, and none moves outside of a call. *)
SpiBlocks == Spi!SpiBlocks

(* STM32WB55, SPI: a call returns unless the transfer had an error. *)
SpiReturns == Spi!SpiReturns

(* nRF52840, SPI: one byte too many exactly for multiples of a block. *)
ClocksWhatItMust == Nrf!ClocksWhatItMust

(* nRF52840, SPI: the blocks make up one blocking transfer. *)
NrfBlocks == Nrf!NrfBlocks

(* nRF52840, SPI: the thread never sleeps through its interrupt. *)
NrfReturns == Nrf!NrfReturns

(* STM32WB55, UART: a write that reports its bytes has sent them. *)
AllMeansSent == Uart!AllMeansSent

(* STM32WB55, UART: a write fails only for an error of its own. *)
FailsForCause == Uart!FailsForCause

(* STM32WB55, UART: every write returns. *)
WriteReturns == Uart!WriteReturns

(* STM32WB55, UART: no read writes past the caller's buffer, as long as    *)
(* the module sends at most one byte more than it is asked for.            *)
FitsBuffer == Ring!FitsBuffer

(* STM32WB55, UART: the bytes of a read are in order, none left out. *)
InOrder == Ring!InOrder

(* STM32WB55, UART: between reads, nothing is lost. *)
NothingLost == Ring!NothingLost

(* STM32WB55, UART: ring and counters are a queue of bytes. *)
RingQueues == Ring!RingQueues

(* STM32WB55, UART: a read is served while the module goes on sending. *)
ReceiveCompletes == Ring!ReceiveCompletes

(* STM32WB55, button: the polled level is that of the button. *)
KnowsLevel == Button!KnowsLevel

(* STM32WB55, button: the time handed over is that of the last press. *)
TimeOfPress == Button!TimeOfPress

(* nRF52840, button: the time read is that of the last press. *)
LastPressRead == Time!LastPressRead

(* nRF52840, time base: a wait is as long as asked for, or longer. *)
WaitsLongEnough == Time!WaitsLongEnough

(* Arduino, button: a press time is set when the button is released. *)
SetAtRelease == Sketch!SetAtRelease
================================================================================
