--------------------------- MODULE BlockingTransfer ----------------------------
(***************************************************************************)
(* What BMLite_sdk promises of a transfer over SPI (inc/platform.h lines   *)
(* 36-71, inc/bmlite_hal.h lines 48-60): it is blocking, bytes are         *)
(* exchanged only while the call lasts, and a result of OK means that size *)
(* bytes have been exchanged.  Stm32Spi and Nrf52Spi implement it.         *)
(***************************************************************************)
EXTENDS Integers

CONSTANT Sizes     \* the sizes the transport asks for

(* Assumed of the constants; MCHal checks it. *)
SizesAssumption == Sizes \subseteq Nat

VARIABLES
  calling,   \* between the call and the return of hal_bmlite_spi_write_read
  size,      \* its parameter
  moved,     \* how many of the size bytes have been exchanged
  result     \* of the last call: "none", "ok" or "error"

vars == <<calling, size, moved, result>>

Init == calling = FALSE /\ size = 0 /\ moved = 0 /\ result = "none"

Call ==
  /\ ~calling
  /\ calling' = TRUE
  /\ size' \in Sizes
  /\ moved' = 0
  /\ result' = "none"

BytesMove ==
  /\ calling
  /\ moved' \in (moved + 1)..size
  /\ UNCHANGED <<calling, size, result>>

ReturnOk ==
  /\ calling
  /\ moved = size
  /\ calling' = FALSE
  /\ result' = "ok"
  /\ UNCHANGED <<size, moved>>

ReturnError ==
  /\ calling
  /\ calling' = FALSE
  /\ result' = "error"
  /\ UNCHANGED <<size, moved>>

Next == Call \/ BytesMove \/ ReturnOk \/ ReturnError

Spec == Init /\ [][Next]_vars
================================================================================
