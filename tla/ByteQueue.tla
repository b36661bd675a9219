------------------------------- MODULE ByteQueue --------------------------------
(***************************************************************************)
(* What BMLite_sdk takes the reception with UART for (inc/platform.h lines *)
(* 81-90, inc/bmlite_hal.h lines 87-93): a queue of the bytes that came    *)
(* in, of which a call is given the first ones, and no more than it asked  *)
(* for.  Bytes come in at any time, and keep until they are asked for.     *)
(* After an error of the line those in the queue are gone, and those that  *)
(* follow are missed until the next call.  UartRing implements it.         *)
(***************************************************************************)
EXTENDS Integers, Sequences

CONSTANTS
  Bytes,     \* what can come in
  Sizes      \* numbers of bytes that are asked for

VARIABLES
  queue,     \* the bytes that came in and were not given to anyone
  next,      \* the next byte on the line
  listening, \* FALSE after an error of the line
  size,      \* what the call asked for, 0 outside of it
  got        \* what it was given

vars == <<queue, next, listening, size, got>>

Init ==
  /\ queue = <<>> /\ got = <<>>
  /\ next \in Bytes
  /\ listening = TRUE
  /\ size = 0

Request ==
  /\ size = 0
  /\ size' \in Sizes
  /\ got' = <<>>
  /\ UNCHANGED <<queue, next, listening>>

Give(n) ==
  /\ size > 0
  /\ Len(got) + n <= size
  /\ got' = got \o SubSeq(queue, 1, n)
  /\ queue' = SubSeq(queue, n + 1, Len(queue))
  /\ UNCHANGED <<next, listening, size>>

(* With all the bytes, or at a timeout. *)
Return ==
  /\ size > 0
  /\ size' = 0 /\ got' = <<>>
  /\ UNCHANGED <<queue, next, listening>>

Arrives ==
  /\ listening
  /\ queue' = Append(queue, next)
  /\ next' \in Bytes
  /\ UNCHANGED <<listening, size, got>>

Breaks ==
  /\ listening
  /\ listening' = FALSE
  /\ queue' = <<>>
  /\ UNCHANGED <<next, size, got>>

Missed ==
  /\ ~listening
  /\ next' \in Bytes
  /\ UNCHANGED <<queue, listening, size, got>>

ListensAgain ==
  /\ ~listening
  /\ size > 0
  /\ listening' = TRUE
  /\ UNCHANGED <<queue, next, size, got>>

Next ==
  \/ Request \/ Return \/ Arrives \/ Breaks \/ Missed \/ ListensAgain
  \/ \E n \in 1..Len(queue) : Give(n)

Spec == Init /\ [][Next]_vars
================================================================================
