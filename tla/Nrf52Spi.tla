------------------------------- MODULE Nrf52Spi --------------------------------
(***************************************************************************)
(* hal_bmlite_spi_write_read of the nRF52840 (HAL_Driver/nRF52840/src/     *)
(* hal_spi.c) and the driver nrfx_spi it runs on.  A call is cut into      *)
(* blocks of 255 bytes and a rest.  TXD and RXD are double buffered, each  *)
(* byte received raises READY, and the handler refills TXD and ends the    *)
(* block.  The thread sleeps with WFE until spi_xfer_done.                 *)
(*                                                                         *)
(* The core takes a pending interrupt before the next instruction of the   *)
(* thread.  nrfx is configured without DMA (SPI0_USE_EASY_DMA is 0).       *)
(***************************************************************************)
EXTENDS Integers, FiniteSetsExt

CONSTANTS
  Sizes,     \* sizes of transfers
  Block      \* bytes of a full block (255 in the code)

(* Assumed of the constants; MCHal checks it. *)
NrfAssumption == Sizes \subseteq Nat /\ Block \in Nat \ {0}

VARIABLE
  nrf   \* a record:
        \*   pc         where hal_bmlite_spi_write_read is, "idle" outside of it
        \*   size       its parameter
        \*   result     of the last call, "none" during a call
        \*   rest       bytes after the block under way
        \*   length     length of the block under way
        \*   low        chip select is asserted
        \*   done       spi_xfer_done
        \*   received   bytes_transferred of the block
        \*   txd, rxd   bytes in the two registers
        \*   event      the event register of the core, which WFE reads
        \*   clocked    ghost: bytes clocked since the call

Init ==
  nrf = [pc |-> "idle", size |-> 0, result |-> "none", rest |-> 0, length |-> 0,
         low |-> FALSE, done |-> FALSE, received |-> 0, txd |-> 0, rxd |-> 0,
         event |-> FALSE, clocked |-> 0]

(* READY is pending while RXD holds a byte. *)
Runs(pc) == nrf.pc = pc /\ nrf.rxd = 0

--------------------------------------------------------------------------------
(* The thread. *)

Call ==
  /\ Runs("idle")
  /\ \E n \in Sizes :
       nrf' = [nrf EXCEPT !.pc = "block", !.size = n, !.rest = n,
                          !.result = "none", !.clocked = 0]

(* The block that follows: a full one, or else the rest, even of 0 bytes. *)
NextLength == Min({nrf.rest, Block})

(* Mutant of BytesQueued: TXD is filled twice for a block of one byte too. *)
BytesQueuedTwo == 2

(* What starts a block: one byte, an over-run character if there is none,  *)
(* and a second one if there is.                                           *)
BytesQueued == IF NextLength > 1 THEN 2 ELSE 1

(* Mutant of StartBlock: what the block before left in the flag stays. *)
StartBlockKept ==
  /\ Runs("block")
  /\ nrf' = [nrf EXCEPT !.pc = "look", !.low = TRUE, !.length = NextLength,
                        !.rest = @ - NextLength, !.received = 0, !.txd = BytesQueued]

(* spi_write_read up to nrf_drv_spi_transfer, whose result it ignores. *)
StartBlock ==
  /\ Runs("block")
  /\ nrf' = [nrf EXCEPT !.pc = "look", !.low = TRUE, !.done = FALSE,
                        !.length = NextLength, !.rest = @ - NextLength,
                        !.received = 0, !.txd = BytesQueued]

(* The loop looks at the flag, and sleeps if it is not set. *)
Look ==
  /\ Runs("look")
  /\ nrf' = [nrf EXCEPT !.pc = IF nrf.done THEN "end" ELSE "sleep"]

(* Mutant of Sleep: WFI instead of WFE, which does not look for events that *)
(* came before it.                                                         *)
SleepForInterrupt ==
  /\ Runs("sleep")
  /\ nrf' = [nrf EXCEPT !.pc = "asleep", !.event = FALSE]

(* WFE returns at once after an event, which it clears. *)
Sleep ==
  /\ Runs("sleep")
  /\ nrf' = [nrf EXCEPT !.pc = IF nrf.event THEN "look" ELSE "asleep",
                        !.event = FALSE]

Wake ==
  /\ Runs("asleep")
  /\ nrf.event
  /\ nrf' = [nrf EXCEPT !.pc = "look", !.event = FALSE]

(* Was this block a full one, so that another one follows? *)
MoreBlocks == nrf.length = Block

EndBlock ==
  /\ Runs("end")
  /\ IF MoreBlocks
       THEN nrf' = [nrf EXCEPT !.pc = "block"]
       ELSE nrf' = [nrf EXCEPT !.pc = "idle", !.low = FALSE, !.result = "ok"]

Running == StartBlock \/ Look \/ Sleep \/ Wake \/ EndBlock

--------------------------------------------------------------------------------
(* irq_handler with transfer_byte and finish_transfer. *)

(* Mutant of Refills: forgets the byte that is in TXD already. *)
RefillsEarly(received) == received < nrf.length

(* After received bytes, is there one to be sent that is not in TXD yet? *)
Refills(received) == received + 1 < nrf.length

(* The handler goes on, or ends the block and calls spi_event_handler; its *)
(* return sets the event register.                                         *)
ReadyInterrupt ==
  /\ nrf.rxd > 0
  /\ LET received == nrf.received + 1
     IN  nrf' = [nrf EXCEPT !.rxd = @ - 1, !.received = received,
                            !.txd = IF Refills(received) THEN @ + 1 ELSE @,
                            !.done = @ \/ received >= nrf.length,
                            !.event = TRUE]

(* The SPI (external) clocks a byte while both registers allow it. *)
ByteClocked ==
  /\ nrf.txd > 0 /\ nrf.rxd < 2
  /\ nrf' = [nrf EXCEPT !.txd = @ - 1, !.rxd = @ + 1, !.clocked = @ + 1]

Next == Call \/ Running \/ ReadyInterrupt \/ ByteClocked

Spec == Init /\ [][Next]_nrf

(* A call goes on, the interrupt is served and the SPI clocks; that the    *)
(* millisecond timer would wake the thread too is not used.                *)
Fairness == WF_nrf(Running \/ ReadyInterrupt) /\ WF_nrf(ByteClocked)

--------------------------------------------------------------------------------
(* Properties. *)

TypeOK ==
  /\ nrf.pc \in {"idle", "block", "look", "sleep", "asleep", "end"}
  /\ nrf.size \in Sizes \cup {0}
  /\ nrf.result \in {"none", "ok"}
  /\ nrf.rest \in Nat /\ nrf.length \in 0..Block /\ nrf.received \in Nat
  /\ {nrf.low, nrf.done, nrf.event} \subseteq BOOLEAN
  /\ nrf.txd \in 0..2 /\ nrf.rxd \in 0..2
  /\ nrf.clocked \in Nat

(* The bytes of the parameter that have been exchanged. *)
Moved == Min({nrf.clocked, nrf.size})

Promise == INSTANCE BlockingTransfer WITH
  calling <- nrf.pc # "idle", size <- nrf.size, moved <- Moved, result <- nrf.result

(* The call, cut into blocks, is one blocking transfer of size bytes       *)
(* (platform.h 48-57): no block is left before its last byte.              *)
NrfBlocks == Promise!Spec

(* A call clocks its size in bytes, and one more, an over-run character,   *)
(* exactly when the last block is empty: nrfx starts a block of no bytes   *)
(* with one (hal_spi.c 87-97, nrfx_spi.c 312-313).                         *)
ClocksWhatItMust ==
  nrf.pc = "idle" /\ nrf.result = "ok" =>
    nrf.clocked = nrf.size + (IF nrf.size % Block = 0 THEN 1 ELSE 0)

(* Every call returns: the thread never sleeps through the interrupt that  *)
(* ends its block (hal_spi.c 73-76).                                       *)
NrfReturns == (nrf.pc # "idle") ~> (nrf.pc = "idle")
================================================================================
