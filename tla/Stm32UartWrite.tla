---------------------------- MODULE Stm32UartWrite -----------------------------
(***************************************************************************)
(* hal_bmlite_uart_write of the STM32WB55 (HAL_Driver/stm32wb55/src/       *)
(* hal_uart.c) with the callbacks that end its loop, and the parts of ST's *)
(* driver that call them.  Reception runs beside it (module UartRing) and  *)
(* shares the error callback.                                              *)
(*                                                                         *)
(* As in Stm32Spi a step of the thread needs that no interrupt is pending, *)
(* and a handler is one step.                                              *)
(***************************************************************************)
EXTENDS Integers

CONSTANTS
  Sizes,      \* sizes of frames
  MaxErrors   \* bound: how many errors the hardware reports

(* Assumed of the constants; MCHal checks it. *)
WriteAssumption == Sizes \subseteq Nat \ {0} /\ MaxErrors \in Nat

VARIABLE
  tx   \* a record:
       \*   pc         where hal_bmlite_uart_write is, "idle" outside of it
       \*   size       its parameter
       \*   result     of the last call: "none", "all" (size) or "nothing" (0)
       \*   done       tx_done
       \*   error      error
       \*   busy       huart_host.gState is HAL_UART_STATE_BUSY_TX
       \*   receiving  huart_host.RxState is HAL_UART_STATE_BUSY_RX
       \*   on         the hardware serves the DMA channel, whose handle is busy
       \*   left       what the counter of the channel says
       \*   shift      bytes the UART has still to send
       \*   tcie       the end of the last byte requests an interrupt
       \*   pending    flags that request an interrupt
       \*   errors     errors so far
       \*   hit        ghost: one of them came during this call
       \*   overlap    ghost: the call began while an older frame was being sent

Init ==
  tx = [pc |-> "idle", size |-> 0, result |-> "none", done |-> FALSE,
        error |-> FALSE, busy |-> FALSE, receiving |-> TRUE, on |-> FALSE,
        left |-> 0, shift |-> 0, tcie |-> FALSE, pending |-> {},
        errors |-> 0, hit |-> FALSE, overlap |-> FALSE]

Sent == tx.left = 0 /\ tx.shift = 0

LastByteSent == tx.tcie /\ Sent

Runs(pc) == tx.pc = pc /\ tx.pending = {} /\ ~LastByteSent

--------------------------------------------------------------------------------
(* The thread. *)

(* Mutant of Cleared: tx_done keeps what the last frame left in it. *)
ClearedError(t) == [t EXCEPT !.error = FALSE]

(* Mutant of Cleared: error keeps what came between two writes. *)
ClearedDone(t) == [t EXCEPT !.done = FALSE]

Cleared(t) == [t EXCEPT !.done = FALSE, !.error = FALSE]

Call ==
  /\ Runs("idle")
  /\ \E n \in Sizes :
       tx' = Cleared([tx EXCEPT !.pc = "start", !.size = n, !.result = "none",
                                !.hit = FALSE, !.overlap = tx.busy])

(* HAL_UART_Transmit_DMA. *)
Start ==
  /\ Runs("start")
  /\ ~tx.busy
  /\ tx' = [tx EXCEPT !.pc = "look", !.busy = TRUE, !.on = TRUE, !.left = tx.size]

Returns(r) == tx' = [tx EXCEPT !.pc = "idle", !.result = r]

StartRefused == Runs("start") /\ tx.busy /\ Returns("nothing")

(* while (!tx_done) ... *)
Look ==
  /\ Runs("look")
  /\ IF tx.done THEN Returns("all") ELSE tx' = [tx EXCEPT !.pc = "check"]

(* Mutant of SeesError: the loop looks at tx_done only. *)
SeesErrorNever == FALSE

(* ... if (error) return 0 *)
SeesError == tx.error

Check ==
  /\ Runs("check")
  /\ IF SeesError THEN Returns("nothing") ELSE tx' = [tx EXCEPT !.pc = "look"]

(* Between two writes hal_bmlite_uart_read starts a stopped reception. *)
ReadRestarts ==
  /\ Runs("idle")
  /\ ~tx.receiving
  /\ tx' = [tx EXCEPT !.receiving = TRUE]

Running == Start \/ StartRefused \/ Look \/ Check

--------------------------------------------------------------------------------
(* The interrupt handlers. *)

Taken(flag) == flag \in tx.pending

(* UART_DMATransmitCplt. *)
FedInterrupt ==
  /\ Taken("fed")
  /\ tx' = [tx EXCEPT !.pending = @ \ {"fed"}, !.on = FALSE, !.tcie = TRUE]

(* UART_EndTransmit_IT, with HAL_UART_TxCpltCallback. *)
SentInterrupt ==
  /\ LastByteSent
  /\ tx' = [tx EXCEPT !.tcie = FALSE, !.busy = FALSE, !.done = TRUE]

(* The error part of HAL_UART_IRQHandler ends the reception, and only it. *)
RxErrorInterrupt ==
  /\ Taken("rxError")
  /\ tx' = [tx EXCEPT !.pending = @ \ {"rxError"}, !.receiving = FALSE,
                      !.error = TRUE, !.hit = TRUE]

(* UART_DMAError of the transmitting channel ends both. *)
TxErrorInterrupt ==
  /\ Taken("txError")
  /\ tx' = [tx EXCEPT !.pending = @ \ {"txError"}, !.busy = FALSE, !.tcie = FALSE,
                      !.receiving = FALSE, !.error = TRUE, !.hit = TRUE]

Interrupt == FedInterrupt \/ SentInterrupt \/ RxErrorInterrupt \/ TxErrorInterrupt

--------------------------------------------------------------------------------
(* The UART and its DMA (external). *)

ByteFed ==
  /\ tx.on /\ tx.left > 0
  /\ tx' = [tx EXCEPT !.left = @ - 1, !.shift = @ + 1,
                      !.pending = IF tx.left = 1 THEN @ \cup {"fed"} ELSE @]

ByteSent ==
  /\ tx.shift > 0
  /\ tx' = [tx EXCEPT !.shift = @ - 1]

(* Noise, a framing error or an overrun on the receiving side. *)
RxError ==
  /\ tx.errors < MaxErrors
  /\ tx.receiving
  /\ tx' = [tx EXCEPT !.errors = @ + 1, !.pending = @ \cup {"rxError"}]

(* The hardware switches off a channel whose access to memory fails. *)
TxDmaError ==
  /\ tx.errors < MaxErrors
  /\ tx.on /\ tx.left > 0
  /\ tx' = [tx EXCEPT !.errors = @ + 1, !.on = FALSE,
                      !.pending = @ \cup {"txError"}]

Hardware == ByteFed \/ ByteSent \/ RxError \/ TxDmaError

Next == Call \/ Running \/ ReadRestarts \/ Interrupt \/ Hardware

Spec == Init /\ [][Next]_tx

(* A call goes on, interrupts are served and the UART sends. *)
Fairness == WF_tx(Running \/ Interrupt) /\ WF_tx(ByteFed) /\ WF_tx(ByteSent)

--------------------------------------------------------------------------------
(* Properties. *)

TypeOK ==
  /\ tx.pc \in {"idle", "start", "look", "check"}
  /\ tx.size \in Sizes \cup {0}
  /\ tx.result \in {"none", "all", "nothing"}
  /\ {tx.done, tx.error, tx.busy, tx.receiving, tx.on, tx.tcie, tx.hit, tx.overlap}
       \subseteq BOOLEAN
  /\ tx.left \in Nat /\ tx.shift \in Nat
  /\ tx.pending \subseteq {"fed", "rxError", "txError"}
  /\ tx.errors \in 0..MaxErrors

(* A write that reports all its bytes has sent them, and the buffer may be *)
(* used again (bmlite_hal.h 66): unless it began while an older frame,     *)
(* left by a write that an error ended, was still being sent.  Then the    *)
(* end of the old frame may come between the clearing of tx_done and the   *)
(* start, and passes for the end of the new one (hal_uart.c 233-241).      *)
AllMeansSent ==
  (tx.pc = "idle" /\ tx.result = "all" /\ ~tx.overlap) => Sent /\ ~tx.busy

(* A write fails only for an error reported during the call, or for an     *)
(* older frame that is still being sent: an error of earlier traffic, of   *)
(* the reception for example, is never taken for one of this write         *)
(* (hal_uart.c 233-247).                                                   *)
FailsForCause ==
  (tx.pc = "idle" /\ tx.result = "nothing") => tx.hit \/ tx.overlap

(* Every write returns, whatever errors come between its steps: either     *)
(* callback ends the loop, and neither is lost to the flags being cleared  *)
(* (hal_uart.c 232-247).                                                   *)
WriteReturns == (tx.pc # "idle") ~> (tx.pc = "idle")
================================================================================
