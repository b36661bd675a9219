------------------------------- MODULE Stm32Spi --------------------------------
(***************************************************************************)
(* hal_bmlite_spi_write_read of the STM32WB55 (HAL_Driver/stm32wb55/src/   *)
(* hal_spi.c), together with the parts of ST's driver that it runs on: one *)
(* DMA channel feeds the SPI, another stores what comes back, and          *)
(* interrupts tell the waiting thread through spi_rx_tx_done.              *)
(*                                                                         *)
(* All interrupts have the same priority and the core takes a pending one  *)
(* before the next instruction of the thread: a step of the thread needs   *)
(* spi.pending to be empty, a handler is one step, and the hardware goes   *)
(* on in any case.                                                         *)
(***************************************************************************)
EXTENDS Integers

CONSTANTS
  Sizes,      \* sizes of transfers
  MayFail     \* whether the hardware may report errors

(* Assumed of the constants; MCHal checks it. *)
SpiAssumption == Sizes \subseteq Nat /\ MayFail \in BOOLEAN

Channels == {"rx", "tx"}

VARIABLE
  spi   \* a record:
        \*   pc       where hal_bmlite_spi_write_read is, "idle" outside of it
        \*   size     its parameter
        \*   result   of the last call, "none" during a call
        \*   low      chip select is asserted
        \*   done     spi_rx_tx_done
        \*   state    bmlite_handle.State: "ready" or "busy"
        \*   dma      State of the two DMA handles: "ready" or "busy"
        \*   on       the channels the hardware serves
        \*   left     what the counters of the channels say
        \*   inFlight bytes received that no DMA has stored
        \*   pending  flags that request an interrupt
        \*   failed   ghost: an error of the hardware, or a transfer whose end
        \*            the driver could not see
        \*   used     ghost: a call has returned

(* HAL_SPI_MspInit drives chip select to its asserted level and leaves it  *)
(* there.                                                                  *)
Init ==
  spi = [pc |-> "idle", size |-> 0, result |-> "none", low |-> TRUE,
         done |-> FALSE, state |-> "ready", dma |-> [c \in Channels |-> "ready"],
         on |-> {}, left |-> [c \in Channels |-> 0], inFlight |-> 0,
         pending |-> {}, failed |-> FALSE, used |-> FALSE]

Runs(pc) == spi.pc = pc /\ spi.pending = {}

--------------------------------------------------------------------------------
(* The thread. *)

Call ==
  /\ Runs("idle")
  /\ \E n \in Sizes :
       spi' = [spi EXCEPT !.pc = "await", !.size = n, !.result = "none"]

(* The other exit of this wait, on HAL_SPI_STATE_ERROR, is never taken:    *)
(* nothing in ST's driver puts the handle into that state.                 *)
AwaitReady ==
  /\ Runs("await")
  /\ spi.state = "ready"
  /\ spi' = [spi EXCEPT !.pc = "select"]

(* Mutant of Select: what an earlier transfer left in the flag stays. *)
SelectOnly ==
  Runs("select") /\ spi' = [spi EXCEPT !.pc = "start", !.low = TRUE]

Select ==
  /\ Runs("select")
  /\ spi' = [spi EXCEPT !.pc = "start", !.low = TRUE, !.done = FALSE]

(* HAL_SPI_TransmitReceive_DMA; on HAL_BUSY it is called again. *)
Start ==
  /\ Runs("start")
  /\ spi.state = "ready" /\ spi.size > 0
  /\ \A c \in Channels : spi.dma[c] = "ready"
  /\ spi' = [spi EXCEPT !.pc = "wait", !.state = "busy",
                        !.dma = [c \in Channels |-> "busy"], !.on = Channels,
                        !.left = [c \in Channels |-> spi.size]]

(* It refuses a size of 0 and a DMA channel that is busy; the receiving    *)
(* channel may have been started by then.                                  *)
StartFails ==
  /\ Runs("start")
  /\ spi.state = "ready"
  /\ spi.size = 0 \/ \E c \in Channels : spi.dma[c] = "busy"
  /\ spi' = [spi EXCEPT
       !.pc = "idle", !.result = "error", !.low = FALSE, !.used = TRUE,
       !.dma["rx"] = IF spi.size = 0 THEN @ ELSE "busy",
       !.on = IF spi.size = 0 \/ spi.dma["rx"] = "busy" THEN @ ELSE @ \cup {"rx"}]

(* Mutant of Finished: the thread looks at the state of the handle, which  *)
(* an error makes ready as well.                                           *)
FinishedByState == spi.state = "ready"

(* The wait for the end looks at nothing but the flag. *)
Finished == spi.done

Finish ==
  /\ Runs("wait")
  /\ Finished
  /\ spi' = [spi EXCEPT !.pc = "idle", !.result = "ok", !.low = FALSE,
                        !.used = TRUE]

Running == AwaitReady \/ Select \/ Start \/ StartFails \/ Finish

--------------------------------------------------------------------------------
(* The interrupt handlers. *)

Taken(flag) == flag \in spi.pending

(* HAL_DMA_IRQHandler at the end of a channel's transfer.  That of the     *)
(* transmission has no callback.                                           *)
FedInterrupt ==
  /\ Taken("fed")
  /\ spi' = [spi EXCEPT !.pending = @ \ {"fed"}, !.on = @ \ {"tx"},
                        !.dma["tx"] = "ready"]

(* Mutant of StoredInterrupt: the callback of the user is not called. *)
StoredInterruptSilent ==
  /\ Taken("stored")
  /\ spi' = [spi EXCEPT !.pending = @ \ {"stored", "overrun"}, !.on = @ \ {"rx"},
                        !.dma["rx"] = "ready", !.state = "ready"]

(* SPI_DMATransmitReceiveCplt also disables the interrupt for errors. *)
StoredInterrupt ==
  /\ Taken("stored")
  /\ spi' = [spi EXCEPT !.pending = @ \ {"stored", "overrun"}, !.on = @ \ {"rx"},
                        !.dma["rx"] = "ready", !.state = "ready", !.done = TRUE]

(* The same handler when SPI_EndRxTxTransaction gives up waiting for the   *)
(* SPI to be idle and empty: the error callback, which hal_spi.c does not  *)
(* have, takes the place of the one that sets the flag.                    *)
StoredInterruptFails ==
  /\ MayFail /\ ~spi.failed
  /\ Taken("stored")
  /\ spi' = [spi EXCEPT !.pending = @ \ {"stored", "overrun"}, !.on = @ \ {"rx"},
                        !.dma["rx"] = "ready", !.state = "ready", !.failed = TRUE]

(* The flags HAL_DMA_Abort_IT clears, that of an idle channel's none. *)
AbortClears ==
  (IF spi.dma["rx"] = "busy" THEN {"stored", "rxError"} ELSE {})
    \cup (IF spi.dma["tx"] = "busy" THEN {"fed", "txError"} ELSE {})

(* HAL_SPI_IRQHandler aborts both channels and calls an error callback     *)
(* that hal_spi.c does not have.                                           *)
OverrunInterrupt ==
  /\ Taken("overrun")
  /\ spi' = [spi EXCEPT !.pending = (@ \ {"overrun"}) \ AbortClears,
                        !.on = {}, !.dma = [c \in Channels |-> "ready"],
                        !.state = "ready"]

(* HAL_DMA_IRQHandler on a bus error.  SPI_DMAError, which only the        *)
(* receiving channel has, also stops the requests of the other one.        *)
RxErrorInterrupt ==
  /\ Taken("rxError")
  /\ spi' = [spi EXCEPT !.pending = @ \ {"rxError"}, !.dma["rx"] = "ready",
                        !.on = {}, !.state = "ready"]

TxErrorInterrupt ==
  /\ Taken("txError")
  /\ spi' = [spi EXCEPT !.pending = @ \ {"txError"}, !.dma["tx"] = "ready"]

Interrupt ==
  \/ FedInterrupt \/ StoredInterrupt \/ StoredInterruptFails
  \/ OverrunInterrupt \/ RxErrorInterrupt \/ TxErrorInterrupt

--------------------------------------------------------------------------------
(* The SPI and its DMA (external). *)

Pends(flag, condition) ==
  IF condition THEN spi.pending \cup {flag} ELSE spi.pending

(* A byte is sent, and one comes back. *)
ByteExchanged ==
  /\ "tx" \in spi.on /\ spi.left["tx"] > 0
  /\ spi' = [spi EXCEPT !.left["tx"] = @ - 1, !.inFlight = @ + 1,
                        !.pending = Pends("fed", spi.left["tx"] = 1)]

ByteStored ==
  /\ "rx" \in spi.on /\ spi.left["rx"] > 0 /\ spi.inFlight > 0
  /\ spi' = [spi EXCEPT !.left["rx"] = @ - 1, !.inFlight = @ - 1,
                        !.pending = Pends("stored", spi.left["rx"] = 1)]

Overrun ==
  /\ MayFail /\ ~spi.failed
  /\ spi.state = "busy" /\ spi.inFlight > 0
  /\ spi' = [spi EXCEPT !.failed = TRUE, !.pending = @ \cup {"overrun"}]

(* The hardware switches off a channel whose access to memory fails. *)
RxDmaError ==
  /\ MayFail /\ ~spi.failed
  /\ "rx" \in spi.on /\ spi.left["rx"] > 0
  /\ spi' = [spi EXCEPT !.failed = TRUE, !.on = @ \ {"rx"},
                        !.pending = @ \cup {"rxError"}]

TxDmaError ==
  /\ MayFail /\ ~spi.failed
  /\ "tx" \in spi.on /\ spi.left["tx"] > 0
  /\ spi' = [spi EXCEPT !.failed = TRUE, !.on = @ \ {"tx"},
                        !.pending = @ \cup {"txError"}]

Hardware == ByteExchanged \/ ByteStored \/ Overrun \/ RxDmaError \/ TxDmaError

Next == Call \/ Running \/ Interrupt \/ Hardware

Spec == Init /\ [][Next]_spi

(* A call goes on, interrupts are served and the SPI moves bytes; neither  *)
(* a call nor an error is promised.                                        *)
Fairness ==
  WF_spi(Running \/ Interrupt) /\ WF_spi(ByteExchanged) /\ WF_spi(ByteStored)

--------------------------------------------------------------------------------
(* Properties. *)

TypeOK ==
  /\ spi.pc \in {"idle", "await", "select", "start", "wait"}
  /\ spi.size \in Sizes \cup {0}
  /\ spi.result \in {"none", "ok", "error"}
  /\ {spi.low, spi.done, spi.failed, spi.used} \subseteq BOOLEAN
  /\ spi.state \in {"ready", "busy"}
  /\ spi.dma \in [Channels -> {"ready", "busy"}]
  /\ spi.on \subseteq Channels
  /\ spi.left \in [Channels -> Nat]
  /\ spi.inFlight \in Nat
  /\ spi.pending \subseteq {"fed", "stored", "overrun", "rxError", "txError"}

(* Calls do not run into each other: while a byte can still be clocked or  *)
(* stored, chip select is asserted and the call lasts; between two calls   *)
(* it is released; and every start finds the handle and both channels      *)
(* free, whichever of the two interrupts of the call before came first     *)
(* (hal_spi.c 48-75).  Before the first return chip select is asserted all *)
(* the time (hal_spi.c:149): the first frame has no falling edge.          *)
CallsApart ==
  /\ spi.on # {} => spi.low /\ spi.pc = "wait"
  /\ spi.pc \in {"idle", "await", "select"} => (spi.low <=> ~spi.used)
  /\ spi.pc = "start" => /\ spi.state = "ready" /\ spi.on = {} /\ spi.inFlight = 0
                         /\ \A c \in Channels : spi.dma[c] = "ready"

(* The bytes of the call that are in memory. *)
Moved == IF spi.pc \in {"await", "select", "start"} THEN 0 ELSE spi.size - spi.left["rx"]

Promise == INSTANCE BlockingTransfer WITH
  calling <- spi.pc # "idle", size <- spi.size, moved <- Moved, result <- spi.result

(* The call is the blocking transfer of size bytes that platform.h         *)
(* (48-57) promises: no byte moves outside of it, and OK means all of      *)
(* them, whatever errors the hardware reports.                             *)
SpiBlocks == Promise!Spec

(* A call returns unless the hardware reported an error or the driver did  *)
(* not see the transfer end: then the loop at hal_spi.c:69 waits for ever, *)
(* with chip select asserted.                                              *)
SpiReturns == (spi.pc # "idle") ~> (spi.pc = "idle" \/ spi.failed)
================================================================================
