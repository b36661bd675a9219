------------------------------- MODULE UartRing --------------------------------
(***************************************************************************)
(* Reception with UART: the DMA of the STM32WB55 fills the ring            *)
(* uart_rx_fifo while platform_bmlite_uart_receive (BMLite_sdk/src/        *)
(* platform.c) polls hal_bmlite_uart_read (HAL_Driver/stm32wb55/src/       *)
(* hal_uart.c) until it has the bytes it was asked for.                    *)
(*                                                                         *)
(* The DMA and the UART are external.  Bytes are numbered modulo Numbers,  *)
(* so that a lost, repeated or misplaced byte is told from the next one.   *)
(* The DMA's counter counts down from N and starts again with N.           *)
(***************************************************************************)
EXTENDS Integers, Sequences

CONSTANTS
  N,        \* DMA_BUF_SIZE (128 in the code)
  Numbers,  \* how many numbers bytes have, more than two rings hold
  Sizes,    \* numbers of bytes that are asked for
  Slack,    \* bytes beyond those asked for that come in between two polls
  MaxStops  \* bound: how often an error stops the reception

(* Assumed of the constants; MCHal checks it. *)
RingAssumption ==
  /\ N \in Nat \ {0} /\ Numbers \in Nat /\ Numbers > 2 * N
  /\ Sizes \subseteq Nat \ {0}
  /\ Slack \in Nat /\ MaxStops \in Nat

VARIABLES
  ring,       \* uart_rx_fifo
  cndtr,      \* the DMA's counter, __HAL_DMA_GET_COUNTER(&hdma_rx)
  prevCndtr,  \* dma_uart_rx.prev_cndtr
  running,    \* huart_host.RxState = HAL_UART_STATE_BUSY_RX
  size,       \* what platform_bmlite_uart_receive was asked for, 0 outside of it
  got         \* the bytes it has written from data on

VARIABLES
  next,       \* ghost: number of the next byte on the line
  due,        \* ghost: number of the byte the next read should begin with
  unread,     \* ghost: bytes that came in since the last poll
  stops       \* how often the reception stopped

dmaVars == <<ring, cndtr, running, next, unread>>
vars == <<dmaVars, prevCndtr, size, got, due, stops>>

Junk == Numbers    \* what is found outside of the ring

--------------------------------------------------------------------------------
(* hal_bmlite_uart_read. *)

CopySize(a, b) == IF a < b THEN a ELSE b

CounterRange == 65536    \* prev_cndtr is a uint16_t

(* length bytes from position pos on. *)
Copied(pos, length) ==
  [i \in 1..length |-> IF pos + i - 1 \in 0..(N - 1) THEN ring[pos + i - 1] ELSE Junk]

(* Mutant of FirstLeft: the counter stays at 0 when the ring's end is read. *)
FirstLeftZero(prev, length) == prev - length

(* prev_cndtr after the first copy. *)
FirstLeft(prev, length) == IF prev = length THEN N ELSE prev - length

(* The first copy goes up to the DMA's position or to the end of the ring; *)
(* prevPos is unsigned, so that a negative one is a large one.             *)
FirstLength(prevPos, curPos, wanted) ==
  IF prevPos \in 0..(curPos - 1)
    THEN CopySize(curPos - prevPos, wanted)
    ELSE CopySize(N - prevPos, wanted)

(* What a read of at most wanted bytes copies, and leaves in prev_cndtr.   *)
ReadRing(prev, cur, wanted) ==
  LET prevPos == N - prev
      curPos == N - cur
      first == FirstLength(prevPos, curPos, wanted)
      left == FirstLeft(prev, first)
      second == IF prevPos \in 0..curPos THEN 0 ELSE CopySize(curPos, wanted)
  IN  IF cur = prev
        THEN [bytes |-> <<>>, prev |-> prev]
        ELSE [bytes |-> Copied(prevPos, first) \o Copied(0, second),
              prev |-> (left - second) % CounterRange]

--------------------------------------------------------------------------------
(* platform_bmlite_uart_receive. *)

Receive ==
  /\ size = 0
  /\ size' \in Sizes
  /\ got' = <<>>
  /\ UNCHANGED <<dmaVars, prevCndtr, due, stops>>

(* How many bytes each turn of the loop asks for. *)
Wanted == size

(* Mutant of StartCounter: prev_cndtr keeps its place in the old transfer. *)
StartCounterKept == prevCndtr

(* prev_cndtr as the read finds it, after a restart of the reception.      *)
StartCounter == IF running THEN prevCndtr ELSE N

(* Mutant of Restarted: nobody starts a stopped reception again. *)
RestartedNever == running

(* A reception that has stopped is started again by the next read. *)
Restarted == TRUE

(* One turn of the loop. *)
Poll ==
  /\ size > 0 /\ Len(got) < size
  /\ cndtr' = IF running THEN cndtr ELSE N
  /\ LET r == ReadRing(StartCounter, cndtr', Wanted)
         n == Len(r.bytes)
     IN  /\ got' = got \o r.bytes
         /\ prevCndtr' = r.prev
         /\ due' = IF ~running THEN next
                   ELSE IF n = 0 THEN due
                   ELSE (r.bytes[n] + 1) % Numbers
  /\ running' = Restarted
  /\ unread' = 0
  /\ UNCHANGED <<ring, size, next, stops>>

(* The loop ends: with all the bytes, or at the timeout or by the button,  *)
(* right after a poll but for Slack bytes.                                 *)
ReturnOk ==
  /\ size > 0 /\ Len(got) >= size
  /\ size' = 0 /\ got' = <<>>
  /\ UNCHANGED <<dmaVars, prevCndtr, due, stops>>

TimesOut ==
  /\ size > 0 /\ Len(got) < size
  /\ unread <= Slack
  /\ size' = 0 /\ got' = <<>>
  /\ UNCHANGED <<dmaVars, prevCndtr, due, stops>>

--------------------------------------------------------------------------------
(* The UART and its DMA (external).  The loop polls before the ring is     *)
(* full, and Slack says how far the module runs ahead of the host.         *)

ByteArrives ==
  /\ unread < N - 1
  /\ Len(got) + unread < size \/ unread < Slack
  /\ unread' = unread + 1
  /\ next' = (next + 1) % Numbers
  /\ \/ /\ running
        /\ ring' = [ring EXCEPT ![N - cndtr] = next]
        /\ cndtr' = IF cndtr = 1 THEN N ELSE cndtr - 1
     \/ ~running /\ UNCHANGED <<ring, cndtr>>
  /\ UNCHANGED <<prevCndtr, running, size, got, due, stops>>

(* A framing, noise or overrun error ends the transfer of the HAL. *)
ReceptionStops ==
  /\ running
  /\ stops < MaxStops
  /\ stops' = stops + 1
  /\ running' = FALSE
  /\ UNCHANGED <<ring, cndtr, prevCndtr, size, got, next, due, unread>>

Init ==
  /\ ring = [i \in 0..(N - 1) |-> Junk]
  /\ cndtr = N /\ prevCndtr = N /\ running = TRUE
  /\ size = 0 /\ got = <<>>
  /\ next = 0 /\ due = 0 /\ unread = 0 /\ stops = 0

Next == Receive \/ Poll \/ ReturnOk \/ TimesOut \/ ByteArrives \/ ReceptionStops

Spec == Init /\ [][Next]_vars

(* The loop goes on, and the module goes on sending; no timeout is needed. *)
Fairness == WF_vars(Poll \/ ReturnOk) /\ WF_vars(ByteArrives)

--------------------------------------------------------------------------------
(* Properties. *)

(* The counters keep to the ring: prev_cndtr is never 0 nor more than      *)
(* DMA_BUF_SIZE, where the read would copy from outside of uart_rx_fifo.   *)
TypeOK ==
  /\ ring \in [0..(N - 1) -> 0..Junk]
  /\ cndtr \in 1..N /\ prevCndtr \in 1..N
  /\ running \in BOOLEAN
  /\ size \in Sizes \cup {0}
  /\ got \in Seq(0..Junk)
  /\ next \in 0..(Numbers - 1) /\ due \in 0..Numbers
  /\ unread \in 0..N /\ stops \in 0..MaxStops

(* No more bytes are written to data than were asked for (platform.h lines *)
(* 84 and 85): the loop of platform.c (79-85) asks each turn for all of    *)
(* them again, at data + total.                                            *)
FitsBuffer == Len(got) <= size

(* The caller gets the bytes of the line in their order, none twice and    *)
(* none left out, round the end of the ring as well (hal_uart.c 268-296).  *)
InOrder ==
  stops = 0 => \A i \in 1..(Len(got) - 1) : got[i + 1] = (got[i] + 1) % Numbers

(* Between the reads nothing is lost: prev_cndtr stands for the first byte *)
(* the host has not seen, also after the reception was started again       *)
(* (hal_uart.c 256-260), so that the next bytes are told apart.            *)
NothingLost ==
  running => /\ due = (next - unread) % Numbers
             /\ (N - prevCndtr + unread) % N = (N - cndtr) % N

(* The bytes of the ring between the host's place and the DMA's, none      *)
(* while the reception is stopped.                                         *)
Waiting ==
  IF running
    THEN [i \in 1..((prevCndtr - cndtr) % N) |-> ring[(N - prevCndtr + i - 1) % N]]
    ELSE <<>>

Promise == INSTANCE ByteQueue WITH
  Bytes <- 0..(Numbers - 1), queue <- Waiting, listening <- running

(* What lies in the ring between two 16-bit counters is a queue: each byte *)
(* the DMA stores is added at its end, each turn of the loop takes from    *)
(* its front, round the end of the ring as well, and only an error of the  *)
(* line empties it (hal_uart.c 252-299, platform.c 73-101).                *)
RingQueues == Promise!Spec

(* A call is served while the module goes on sending: neither the ring nor *)
(* an error that stopped the reception keeps the loop waiting for bytes    *)
(* that have come (hal_uart.c 256-260).                                    *)
ReceiveCompletes == (size > 0) ~> (size = 0)
================================================================================
