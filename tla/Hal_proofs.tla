------------------------------- MODULE Hal_proofs ------------------------------
(***************************************************************************)
(* Theorems about the parts of HAL_Driver as the run Hal checks them: each *)
(* part alone, for all values of the constants.  Most follow from a        *)
(* theorem about the part's own module; the invariants of the UART that    *)
(* writes and of the STM32's button are proved here.                       *)
(***************************************************************************)
EXTENDS MCHal, TLAPS

--------------------------------------------------------------------------------
(* A step of the whole is one of each part, or none.                       *)

LEMMA Starts ==
  Init => /\ Spi!Init /\ Nrf!Init /\ Uart!Init /\ Ring!Init /\ Button!Init
          /\ Time!Init /\ Sketch!Init
  BY DEF Init

LEMMA StepOfPart ==
  ASSUME [Next]_vars
  PROVE  /\ [Spi!Next]_spi /\ [Nrf!Next]_nrf /\ [Uart!Next]_tx
         /\ [Ring!Next]_ringVars /\ [Button!Next]_btn
         /\ [Time!Next]_tb /\ [Sketch!Next]_sk
<1> USE DEF Runs
<1>1. CASE SpiNext
  BY <1>1 DEF SpiNext, ringVars
<1>2. CASE NrfNext
  BY <1>2 DEF NrfNext, ringVars
<1>3. CASE UartNext
  BY <1>3 DEF UartNext, ringVars
<1>4. CASE RingNext
  BY <1>4 DEF RingNext
<1>5. CASE ButtonNext
  BY <1>5 DEF ButtonNext, ringVars
<1>6. CASE TimeNext
  BY <1>6 DEF TimeNext, ringVars
<1>7. CASE SketchNext
  BY <1>7 DEF SketchNext, ringVars
<1>8. CASE UNCHANGED vars
  BY <1>8 DEF vars, ringVars
<1> QED
  BY <1>1, <1>2, <1>3, <1>4, <1>5, <1>6, <1>7, <1>8 DEF Next

(* The parts behave as their own specifications say. *)
LEMMA PartsBehave ==
  Spec => /\ Spi!Spec /\ Nrf!Spec /\ Uart!Spec /\ Button!Spec
          /\ Time!Spec /\ Sketch!Spec
<1>1. [Next]_vars =>
        /\ [Spi!Next]_spi /\ [Nrf!Next]_nrf /\ [Uart!Next]_tx
        /\ [Button!Next]_btn /\ [Time!Next]_tb /\ [Sketch!Next]_sk
  BY StepOfPart
<1> QED
  BY <1>1, Starts, PTL
  DEF Spec, Spi!Spec, Nrf!Spec, Uart!Spec, Button!Spec, Time!Spec, Sketch!Spec

LEMMA RingBehaves == Spec => Ring!Spec
<1>1. [Next]_vars => [Ring!Next]_(Ring!vars)
  BY StepOfPart DEF ringVars, Ring!vars, Ring!dmaVars
<1> QED
  BY <1>1, Starts, PTL DEF Spec, Ring!Spec

--------------------------------------------------------------------------------
(* The UART that writes. *)

Write ==
  [pc : {"idle", "start", "look", "check"}, size : WriteSizes \cup {0},
   result : {"none", "all", "nothing"}, done : BOOLEAN, error : BOOLEAN,
   busy : BOOLEAN, receiving : BOOLEAN, on : BOOLEAN, left : Nat, shift : Nat,
   tcie : BOOLEAN, pending : SUBSET {"fed", "rxError", "txError"},
   errors : 0..MaxErrors, hit : BOOLEAN, overlap : BOOLEAN]

(* A frame goes through the DMA, then through the UART, or it fails: one   *)
(* at a time, and only while the driver is busy.                           *)
OneStage ==
  /\ ~tx.busy => ~tx.on /\ ~tx.tcie /\ tx.pending \subseteq {"rxError"}
  /\ tx.tcie => ~tx.on /\ tx.left = 0 /\ tx.pending \subseteq {"rxError"}
  /\ "fed" \in tx.pending => tx.left = 0 /\ "txError" \notin tx.pending
  /\ "txError" \in tx.pending => ~tx.on

(* The flag that ends the loop with an error was set during this call. *)
ErrorOfCall == tx.pc # "idle" /\ tx.error => tx.hit

(* The flag that ends it with success was set by this frame's last byte. *)
DoneOfFrame ==
  ~tx.overlap =>
    /\ tx.pc = "start" => ~tx.busy /\ ~tx.done
    /\ tx.pc \in {"look", "check"} /\ tx.done => ~tx.busy /\ Uart!Sent

WriteInv ==
  /\ tx \in Write
  /\ OneStage
  /\ ErrorOfCall /\ Uart!FailsForCause
  /\ DoneOfFrame /\ Uart!AllMeansSent

LEMMA InitWrite == Init => WriteInv
  BY HalAssumption
  DEF Init, Uart!Init, WriteInv, Write, OneStage, ErrorOfCall, DoneOfFrame,
      Uart!FailsForCause, Uart!AllMeansSent, Uart!WriteAssumption

(* The thread moves while no interrupt is pending. *)
LEMMA CallWrites ==
  ASSUME WriteInv, Uart!Call
  PROVE  WriteInv'
<1>1. tx \in Write /\ tx.pc = "idle" /\ tx.pending = {} /\ OneStage
  BY DEF Uart!Call, Uart!Runs, WriteInv
<1>2. PICK n \in WriteSizes :
        tx' = Uart!Cleared([tx EXCEPT !.pc = "start", !.size = n, !.result = "none",
                                      !.hit = FALSE, !.overlap = tx.busy])
  BY Zenon DEF Uart!Call
<1>3. tx' \in Write
  BY <1>1, <1>2 DEF Uart!Cleared, Write
<1>4. /\ tx'.pc = "start" /\ tx'.result = "none" /\ tx'.overlap = tx.busy
      /\ tx'.done = FALSE /\ tx'.error = FALSE
      /\ tx'.busy = tx.busy /\ tx'.on = tx.on /\ tx'.tcie = tx.tcie
      /\ tx'.left = tx.left /\ tx'.pending = tx.pending
  BY <1>1, <1>2 DEF Uart!Cleared, Write
<1> QED
  BY <1>1, <1>3, <1>4
  DEF WriteInv, OneStage, ErrorOfCall, DoneOfFrame, Uart!FailsForCause, Uart!AllMeansSent

LEMMA StartWrites ==
  ASSUME WriteInv, Uart!Start
  PROVE  WriteInv'
<1>1. /\ tx \in Write /\ tx.pc = "start" /\ tx.pending = {} /\ ~tx.busy
      /\ tx' = [tx EXCEPT !.pc = "look", !.busy = TRUE, !.on = TRUE, !.left = tx.size]
      /\ OneStage /\ ErrorOfCall /\ DoneOfFrame
  BY DEF Uart!Start, Uart!Runs, WriteInv
<1>2. tx.size \in Nat
  BY <1>1, HalAssumption DEF Uart!WriteAssumption, Write
<1>3. tx' \in Write
  BY <1>1, <1>2 DEF Write
<1>4. /\ tx'.pc = "look" /\ tx'.busy = TRUE /\ tx'.on = TRUE
      /\ tx'.done = tx.done /\ tx'.error = tx.error /\ tx'.hit = tx.hit
      /\ tx'.tcie = tx.tcie /\ tx'.pending = {} /\ tx'.overlap = tx.overlap
  BY <1>1 DEF Write
<1> QED
  BY <1>1, <1>3, <1>4
  DEF WriteInv, OneStage, ErrorOfCall, DoneOfFrame, Uart!FailsForCause, Uart!AllMeansSent

(* The loop of the thread, and the reception that it starts again, change  *)
(* nothing that the hardware works on.                                     *)
LEMMA LoopWrites ==
  ASSUME WriteInv, Uart!StartRefused \/ Uart!Look \/ Uart!Check \/ Uart!ReadRestarts
  PROVE  WriteInv'
<1>1. tx \in Write /\ tx.pending = {}
  BY DEF Uart!StartRefused, Uart!Look, Uart!Check, Uart!ReadRestarts, Uart!Runs, WriteInv
<1>2. /\ tx' \in Write
      /\ tx'.busy = tx.busy /\ tx'.on = tx.on /\ tx'.tcie = tx.tcie
      /\ tx'.left = tx.left /\ tx'.shift = tx.shift /\ tx'.pending = tx.pending
      /\ tx'.done = tx.done /\ tx'.error = tx.error /\ tx'.hit = tx.hit
      /\ tx'.overlap = tx.overlap
  <2>1. CASE tx' = [tx EXCEPT !.receiving = TRUE]
    BY <1>1, <2>1 DEF Write
  <2>2. CASE \E r \in {"all", "nothing"} : tx' = [tx EXCEPT !.pc = "idle", !.result = r]
    BY <1>1, <2>2 DEF Write
  <2>3. CASE \E q \in {"look", "check"} : tx' = [tx EXCEPT !.pc = q]
    BY <1>1, <2>3 DEF Write
  <2> QED
    BY <2>1, <2>2, <2>3, Zenon
    DEF Uart!StartRefused, Uart!Look, Uart!Check, Uart!ReadRestarts, Uart!Returns
<1>3. /\ tx.pc = "idle" => tx'.pc = "idle" /\ tx'.result = tx.result
      /\ tx.pc # "idle" /\ tx'.pc = "idle" =>
           \/ tx.pc = "start" /\ tx.busy /\ tx'.result = "nothing"
           \/ tx.pc = "look" /\ tx.done /\ tx'.result = "all"
           \/ tx.pc = "check" /\ tx.error /\ tx'.result = "nothing"
      /\ tx.pc # "idle" /\ tx'.pc # "idle" =>
           {tx.pc, tx'.pc} \subseteq {"look", "check"}
  BY <1>1
  DEF Write, Uart!StartRefused, Uart!Look, Uart!Check, Uart!ReadRestarts, Uart!Returns,
      Uart!Runs, Uart!SeesError
<1>4. OneStage' /\ ErrorOfCall'
  BY <1>2, <1>3 DEF WriteInv, OneStage, ErrorOfCall
<1>5. DoneOfFrame'
  BY <1>2, <1>3 DEF WriteInv, DoneOfFrame, Uart!Sent
<1>6. Uart!FailsForCause' /\ Uart!AllMeansSent'
  BY <1>2, <1>3
  DEF WriteInv, ErrorOfCall, DoneOfFrame, Uart!Sent, Uart!FailsForCause, Uart!AllMeansSent
<1> QED
  BY <1>2, <1>4, <1>5, <1>6 DEF WriteInv

(* An interrupt moves the frame on, or ends it. *)
LEMMA InterruptWrites ==
  ASSUME WriteInv, Uart!Interrupt
  PROVE  WriteInv'
<1> USE DEF WriteInv, Write, OneStage, ErrorOfCall, DoneOfFrame, Uart!Taken,
            Uart!FailsForCause, Uart!AllMeansSent, Uart!Sent
<1>1. CASE Uart!FedInterrupt
  BY <1>1 DEF Uart!FedInterrupt
<1>2. CASE Uart!SentInterrupt
  BY <1>2 DEF Uart!SentInterrupt, Uart!LastByteSent
<1>3. CASE Uart!RxErrorInterrupt
  BY <1>3 DEF Uart!RxErrorInterrupt
<1>4. CASE Uart!TxErrorInterrupt
  BY <1>4 DEF Uart!TxErrorInterrupt
<1> QED
  BY <1>1, <1>2, <1>3, <1>4 DEF Uart!Interrupt

(* The hardware moves bytes and reports errors; the thread's flags it does *)
(* not touch.                                                              *)
LEMMA HardwareWrites ==
  ASSUME WriteInv, Uart!Hardware
  PROVE  WriteInv'
<1>1. tx \in Write /\ OneStage /\ MaxErrors \in Nat
  BY HalAssumption DEF WriteInv, Uart!WriteAssumption
<1>2. /\ tx' \in Write
      /\ tx'.pc = tx.pc /\ tx'.result = tx.result /\ tx'.busy = tx.busy
      /\ tx'.tcie = tx.tcie /\ tx'.done = tx.done /\ tx'.error = tx.error
      /\ tx'.hit = tx.hit /\ tx'.overlap = tx.overlap
  <2> DEFINE flags == {"fed", "rxError", "txError"}
  <2>1. CASE Uart!ByteFed
    <3>1. PICK l \in Nat, s \in Nat, p \in SUBSET flags :
            tx' = [tx EXCEPT !.left = l, !.shift = s, !.pending = p]
      <4>1. tx.left - 1 \in Nat /\ tx.shift + 1 \in Nat
        BY <1>1, <2>1 DEF Uart!ByteFed, Write
      <4>2. tx.pending \cup {"fed"} \in SUBSET flags /\ tx.pending \in SUBSET flags
        BY <1>1 DEF Write
      <4> QED
        BY <2>1, <4>1, <4>2, Zenon DEF Uart!ByteFed
    <3> QED
      BY <1>1, <3>1 DEF Write
  <2>2. CASE Uart!ByteSent
    BY <1>1, <2>2 DEF Uart!ByteSent, Write
  <2>3. CASE Uart!RxError
    <3>1. tx.errors + 1 \in 0..MaxErrors /\ tx.pending \cup {"rxError"} \in SUBSET flags
      BY <1>1, <2>3 DEF Uart!RxError, Write
    <3> QED
      BY <1>1, <2>3, <3>1 DEF Uart!RxError, Write
  <2>4. CASE Uart!TxDmaError
    <3>1. tx.errors + 1 \in 0..MaxErrors /\ tx.pending \cup {"txError"} \in SUBSET flags
      BY <1>1, <2>4 DEF Uart!TxDmaError, Write
    <3> QED
      BY <1>1, <2>4, <3>1 DEF Uart!TxDmaError, Write
  <2> QED
    BY <2>1, <2>2, <2>3, <2>4 DEF Uart!Hardware
<1>3. OneStage'
  <2>1. CASE Uart!ByteFed
    <3>1. /\ tx.on /\ tx.left > 0 /\ tx'.on = tx.on /\ tx'.left = tx.left - 1
          /\ tx'.pending = IF tx.left = 1 THEN tx.pending \cup {"fed"} ELSE tx.pending
      BY <1>1, <2>1 DEF Uart!ByteFed, Write
    <3>2. tx.left \in Nat
      BY <1>1 DEF Write
    <3> QED
      BY <1>1, <1>2, <3>1, <3>2 DEF OneStage
  <2>2. CASE Uart!ByteSent
    <3>1. tx'.on = tx.on /\ tx'.left = tx.left /\ tx'.pending = tx.pending
      BY <1>1, <2>2 DEF Uart!ByteSent, Write
    <3> QED
      BY <1>1, <1>2, <3>1 DEF OneStage
  <2>3. CASE Uart!RxError
    <3>1. /\ tx'.on = tx.on /\ tx'.left = tx.left
          /\ tx'.pending = tx.pending \cup {"rxError"}
      BY <1>1, <2>3 DEF Uart!RxError, Write
    <3> QED
      BY <1>1, <1>2, <3>1 DEF OneStage
  <2>4. CASE Uart!TxDmaError
    <3>1. /\ tx.on /\ tx.left > 0 /\ tx'.on = FALSE /\ tx'.left = tx.left
          /\ tx'.pending = tx.pending \cup {"txError"}
      BY <1>1, <2>4 DEF Uart!TxDmaError, Write
    <3> QED
      BY <1>1, <1>2, <3>1 DEF OneStage
  <2> QED
    BY <2>1, <2>2, <2>3, <2>4 DEF Uart!Hardware
<1>4. ~tx.busy /\ Uart!Sent => Uart!Sent'
  <2> SUFFICES ASSUME ~tx.busy, Uart!Sent PROVE Uart!Sent'
    OBVIOUS
  <2>1. tx.left = 0 /\ tx.shift = 0 /\ ~tx.on
    BY <1>1 DEF OneStage, Uart!Sent
  <2>2. Uart!RxError
    BY <2>1 DEF Uart!Hardware, Uart!ByteFed, Uart!ByteSent, Uart!TxDmaError
  <2> QED
    BY <1>1, <2>1, <2>2 DEF Uart!RxError, Uart!Sent, Write
<1>5. ErrorOfCall' /\ Uart!FailsForCause'
  BY <1>2 DEF WriteInv, ErrorOfCall, Uart!FailsForCause
<1>6. DoneOfFrame' /\ Uart!AllMeansSent'
  BY <1>2, <1>4 DEF WriteInv, DoneOfFrame, Uart!AllMeansSent
<1> QED
  BY <1>2, <1>3, <1>5, <1>6 DEF WriteInv

LEMMA AlwaysWrites == Spec => []WriteInv
<1>1. ASSUME WriteInv, [Next]_vars PROVE WriteInv'
  <2>1. Uart!Next \/ UNCHANGED tx
    BY <1>1, StepOfPart
  <2>2. CASE UNCHANGED tx
    BY <1>1, <2>2
    DEF WriteInv, OneStage, ErrorOfCall, DoneOfFrame, Uart!FailsForCause,
        Uart!AllMeansSent, Uart!Sent
  <2> QED
    BY <1>1, <2>1, <2>2, CallWrites, StartWrites, LoopWrites, InterruptWrites,
       HardwareWrites
    DEF Uart!Next, Uart!Running
<1> QED
  BY <1>1, InitWrite, PTL DEF Spec

--------------------------------------------------------------------------------
(* The button of the STM32, for a counter of any width. *)

ButtonTicks == 0..(W - 1)

ButtonState ==
  [down : BOOLEAN, pending : BOOLEAN, inHandler : BOOLEAN, now : ButtonTicks,
   pressOn : ButtonTicks, time : ButtonTicks, isPressed : BOOLEAN, held : ButtonTicks,
   read : BOOLEAN, blurred : BOOLEAN]

(* press_on is when the press began that the handler saw last. *)
SincePress == btn.held = (btn.now - btn.pressOn) % W

(* An edge that waits for its handler is the last one, and no tick came    *)
(* since.                                                                  *)
EdgeFirst ==
  /\ btn.inHandler => btn.pending
  /\ btn.pending => ~btn.read /\ (btn.down => btn.held = 0)

(* What the handler knows of the button: everything between two edges, the *)
(* state before the edge until it reads the pin, and the one after it then.*)
Knows ==
  /\ Button!Quiet =>
       /\ btn.isPressed = btn.down
       /\ btn.time = IF btn.down \/ btn.read THEN 0 ELSE btn.held
       /\ btn.down => SincePress
  /\ btn.pending /\ ~btn.inHandler =>
       /\ btn.isPressed = ~btn.down
       /\ ~btn.down => SincePress
  /\ btn.inHandler =>
       /\ btn.isPressed = btn.down
       /\ btn.down => btn.pressOn = btn.now /\ btn.time = 0
       /\ ~btn.down => btn.time = btn.held

ButtonInv == btn \in ButtonState /\ EdgeFirst /\ (~btn.blurred => Knows)

LEMMA WidthIsPositive == W \in Nat \ {0}
  BY HalAssumption DEF HalAssumption, Button!WidthAssumption

(* A difference of two readings of a counter, and one tick more. *)
LEMMA Wraps ==
  ASSUME NEW n \in (-W)..(2 * W - 1)
  PROVE  n % W = IF n < 0 THEN n + W ELSE IF n < W THEN n ELSE n - W
  BY WidthIsPositive, Z3

LEMMA TickElapses ==
  ASSUME NEW n \in ButtonTicks, NEW p \in ButtonTicks
  PROVE  /\ (n - p) % W \in ButtonTicks
         /\ (n + 1) % W \in ButtonTicks
         /\ (((n + 1) % W) - p) % W = (((n - p) % W) + 1) % W
         /\ (n - n) % W = 0
<1>1. W \in Nat \ {0}
  BY WidthIsPositive
<1>2. /\ (n - p) % W = IF n - p < 0 THEN n - p + W ELSE n - p
      /\ (n + 1) % W = IF n + 1 < W THEN n + 1 ELSE 0
      /\ (n - n) % W = 0
  BY <1>1, Wraps DEF ButtonTicks
<1>3. (((n - p) % W) + 1) % W = IF ((n - p) % W) + 1 < W THEN ((n - p) % W) + 1 ELSE 0
  <2> DEFINE d == (n - p) % W
  <2>1. d \in ButtonTicks /\ d + 1 \in (-W)..(2 * W - 1)
    BY <1>1, <1>2 DEF ButtonTicks
  <2> HIDE DEF d
  <2> QED
    BY <1>1, <2>1, Wraps DEF d, ButtonTicks
<1>4. (((n + 1) % W) - p) % W
        = IF ((n + 1) % W) - p < 0 THEN ((n + 1) % W) - p + W ELSE ((n + 1) % W) - p
  <2> DEFINE m == (n + 1) % W
  <2>1. m \in ButtonTicks
    BY <1>1, <1>2 DEF ButtonTicks
  <2> HIDE DEF m
  <2> DEFINE e == m - p
  <2>2. e \in (-W)..(2 * W - 1) /\ e < W
    BY <1>1, <2>1 DEF ButtonTicks
  <2> HIDE DEF e
  <2>3. e % W = IF e < 0 THEN e + W ELSE e
    BY <2>2, Wraps
  <2> QED
    BY <2>3 DEF e, m
<1> DEFINE d == (n - p) % W  m == (n + 1) % W
<1>5. /\ d = IF n - p < 0 THEN n - p + W ELSE n - p
      /\ m = IF n + 1 < W THEN n + 1 ELSE 0
      /\ (d + 1) % W = IF d + 1 < W THEN d + 1 ELSE 0
      /\ (m - p) % W = IF m - p < 0 THEN m - p + W ELSE m - p
  BY <1>2, <1>3, <1>4
<1> HIDE DEF d, m
<1>6. d \in ButtonTicks /\ m \in ButtonTicks
  BY <1>1, <1>5 DEF ButtonTicks
<1>7. (m - p) % W = (d + 1) % W
  BY <1>1, <1>5, <1>6 DEF ButtonTicks
<1> QED
  BY <1>2, <1>6, <1>7 DEF d, m

LEMMA InitButton == ASSUME Button!Init PROVE ButtonInv
<1>1. 0 \in ButtonTicks
  BY WidthIsPositive DEF ButtonTicks
<1> QED
  BY <1>1 DEF Button!Init, ButtonInv, ButtonState, EdgeFirst, Knows, Button!Quiet

LEMMA TickKnows == ASSUME ButtonInv, Button!Tick PROVE ButtonInv'
<1>1. /\ btn \in ButtonState /\ Button!Quiet
      /\ btn' = [btn EXCEPT !.now = (@ + 1) % W,
                            !.held = IF btn.down THEN (@ + 1) % W ELSE @]
  BY DEF ButtonInv, Button!Tick
<1>2. /\ btn.now \in ButtonTicks /\ btn.pressOn \in ButtonTicks /\ btn.held \in ButtonTicks
      /\ btn.down \in BOOLEAN /\ btn.read \in BOOLEAN
  BY <1>1 DEF ButtonState
<1>3. /\ (btn.now + 1) % W \in ButtonTicks /\ (btn.held + 1) % W \in ButtonTicks
      /\ (((btn.now + 1) % W) - btn.pressOn) % W = (((btn.now - btn.pressOn) % W) + 1) % W
  BY <1>2, TickElapses
<1>4. btn' \in ButtonState
  BY <1>1, <1>2, <1>3 DEF ButtonState
<1>5. /\ btn'.now = (btn.now + 1) % W
      /\ btn'.held = IF btn.down THEN (btn.held + 1) % W ELSE btn.held
      /\ btn'.pressOn = btn.pressOn /\ btn'.time = btn.time /\ btn'.down = btn.down
      /\ btn'.read = btn.read /\ btn'.isPressed = btn.isPressed
      /\ btn'.pending = btn.pending /\ btn'.inHandler = btn.inHandler
      /\ btn'.blurred = btn.blurred
  BY <1>1 DEF ButtonState
<1>6. EdgeFirst'
  BY <1>1, <1>5 DEF ButtonInv, EdgeFirst, Button!Quiet
<1>7. ASSUME ~btn'.blurred PROVE Knows'
  <2>1. Knows
    BY <1>5, <1>7 DEF ButtonInv
  <2>2. btn.down => SincePress'
    BY <1>1, <1>3, <1>5, <2>1 DEF Knows, SincePress
  <2> QED
    BY <1>1, <1>5, <2>1, <2>2 DEF Knows, Button!Quiet
<1> QED
  BY <1>4, <1>6, <1>7 DEF ButtonInv

LEMMA EdgeKnows == ASSUME ButtonInv, Button!Edge PROVE ButtonInv'
<1>1. /\ btn \in ButtonState
      /\ btn' = [btn EXCEPT !.down = ~@, !.pending = TRUE, !.read = FALSE,
                            !.held = IF btn.down THEN @ ELSE 0,
                            !.blurred = @ \/ btn.pending \/ btn.inHandler]
  BY DEF ButtonInv, Button!Edge
<1>2. 0 \in ButtonTicks
  BY WidthIsPositive DEF ButtonTicks
<1>3. btn' \in ButtonState
  BY <1>1, <1>2 DEF ButtonState
<1>4. /\ btn'.down = ~btn.down /\ btn'.pending = TRUE /\ btn'.read = FALSE
      /\ btn'.held = IF btn.down THEN btn.held ELSE 0
      /\ btn'.blurred = (btn.blurred \/ btn.pending \/ btn.inHandler)
      /\ btn'.now = btn.now /\ btn'.pressOn = btn.pressOn /\ btn'.time = btn.time
      /\ btn'.isPressed = btn.isPressed /\ btn'.inHandler = btn.inHandler
      /\ btn.down \in BOOLEAN
  BY <1>1 DEF ButtonState
<1>5. EdgeFirst'
  BY <1>4 DEF EdgeFirst
<1>6. ASSUME ~btn'.blurred PROVE Knows'
  <2>1. Button!Quiet /\ Knows
    BY <1>4, <1>6 DEF ButtonInv, Button!Quiet
  <2> QED
    BY <1>4, <2>1 DEF Knows, Button!Quiet, SincePress
<1> QED
  BY <1>3, <1>5, <1>6 DEF ButtonInv

LEMMA ReadPinKnows == ASSUME ButtonInv, Button!ReadPin PROVE ButtonInv'
<1>1. btn \in ButtonState /\ btn.pending /\ ~btn.inHandler /\ EdgeFirst
  BY DEF ButtonInv, Button!ReadPin
<1>2. /\ btn.now \in ButtonTicks /\ btn.pressOn \in ButtonTicks /\ 0 \in ButtonTicks
      /\ Button!PressTime \in ButtonTicks
  <2>1. btn.now \in ButtonTicks /\ btn.pressOn \in ButtonTicks
    BY <1>1 DEF ButtonState
  <2> QED
    BY <2>1, TickElapses, WidthIsPositive DEF Button!PressTime, ButtonTicks
<1>3. CASE /\ btn.down
           /\ btn' = [btn EXCEPT !.inHandler = TRUE, !.blurred = FALSE,
                                 !.pressOn = btn.now, !.time = 0, !.isPressed = TRUE]
  <2>1. btn' \in ButtonState
    BY <1>1, <1>2, <1>3 DEF ButtonState
  <2>2. /\ btn'.inHandler /\ btn'.pressOn = btn.now /\ btn'.time = 0
        /\ btn'.isPressed = TRUE /\ btn'.now = btn.now /\ btn'.down = btn.down
        /\ btn'.held = btn.held /\ btn'.read = btn.read /\ btn'.pending = btn.pending
        /\ btn.down = TRUE
    BY <1>1, <1>3 DEF ButtonState
  <2> QED
    BY <1>1, <2>1, <2>2 DEF ButtonInv, EdgeFirst, Knows, Button!Quiet
<1>4. CASE /\ ~btn.down
           /\ btn' = [btn EXCEPT !.inHandler = TRUE,
                                 !.time = Button!PressTime, !.isPressed = FALSE]
  <2>1. btn' \in ButtonState
    BY <1>1, <1>2, <1>4 DEF ButtonState
  <2>2. /\ btn'.inHandler /\ btn'.pressOn = btn.pressOn /\ btn'.time = Button!PressTime
        /\ btn'.isPressed = FALSE /\ btn'.now = btn.now /\ btn'.down = btn.down
        /\ btn'.held = btn.held /\ btn'.read = btn.read /\ btn'.pending = btn.pending
        /\ btn'.blurred = btn.blurred /\ btn.down = FALSE
    BY <1>1, <1>4 DEF ButtonState
  <2>3. ~btn.blurred => btn.held = Button!PressTime
    BY <1>1, <1>4 DEF ButtonInv, Knows, SincePress, Button!PressTime
  <2> QED
    BY <1>1, <2>1, <2>2, <2>3 DEF ButtonInv, EdgeFirst, Knows, Button!Quiet
<1> QED
  BY <1>3, <1>4 DEF Button!ReadPin

LEMMA ClearFlagKnows == ASSUME ButtonInv, Button!ClearFlag PROVE ButtonInv'
<1>1. /\ btn \in ButtonState /\ btn.inHandler /\ EdgeFirst
      /\ btn' = [btn EXCEPT !.inHandler = FALSE, !.pending = FALSE]
  BY DEF ButtonInv, Button!ClearFlag
<1>2. btn' \in ButtonState
  BY <1>1 DEF ButtonState
<1>3. /\ btn'.inHandler = FALSE /\ btn'.pending = FALSE
      /\ btn'.pressOn = btn.pressOn /\ btn'.time = btn.time
      /\ btn'.isPressed = btn.isPressed /\ btn'.now = btn.now /\ btn'.down = btn.down
      /\ btn'.held = btn.held /\ btn'.read = btn.read /\ btn'.blurred = btn.blurred
      /\ btn.now \in ButtonTicks /\ btn.read \in BOOLEAN
  BY <1>1 DEF ButtonState
<1>4. ~btn.read /\ (btn.down => btn.held = 0) /\ (btn.now - btn.now) % W = 0
  BY <1>1, <1>3, TickElapses DEF EdgeFirst
<1>5. ASSUME ~btn'.blurred PROVE Knows'
  <2>1. Knows
    BY <1>3, <1>5 DEF ButtonInv
  <2> QED
    BY <1>1, <1>3, <1>4, <2>1 DEF Knows, Button!Quiet, SincePress
<1> QED
  BY <1>2, <1>3, <1>5 DEF ButtonInv, EdgeFirst

LEMMA GetPressTimeKnows ==
  ASSUME ButtonInv, Button!GetPressTime PROVE ButtonInv'
<1>1. /\ btn \in ButtonState /\ Button!Quiet
      /\ btn' = [btn EXCEPT !.time = 0, !.read = @ \/ ~btn.down]
  BY DEF ButtonInv, Button!GetPressTime
<1>2. 0 \in ButtonTicks
  BY WidthIsPositive DEF ButtonTicks
<1>3. btn' \in ButtonState
  BY <1>1, <1>2 DEF ButtonState
<1>4. /\ btn'.inHandler = btn.inHandler /\ btn'.pending = btn.pending
      /\ btn'.pressOn = btn.pressOn /\ btn'.time = 0
      /\ btn'.isPressed = btn.isPressed /\ btn'.now = btn.now /\ btn'.down = btn.down
      /\ btn'.held = btn.held /\ btn'.read = (btn.read \/ ~btn.down)
      /\ btn'.blurred = btn.blurred
  BY <1>1 DEF ButtonState
<1>5. ASSUME ~btn'.blurred PROVE Knows'
  <2>1. Knows
    BY <1>4, <1>5 DEF ButtonInv
  <2> QED
    BY <1>1, <1>4, <2>1 DEF Knows, Button!Quiet, SincePress
<1> QED
  BY <1>1, <1>3, <1>4, <1>5 DEF ButtonInv, EdgeFirst, Button!Quiet

LEMMA NextButton == ASSUME ButtonInv, [Button!Next]_btn PROVE ButtonInv'
<1>1. CASE UNCHANGED btn
  BY <1>1 DEF ButtonInv, EdgeFirst, Knows, Button!Quiet, SincePress
<1> QED
  BY <1>1, EdgeKnows, TickKnows, ReadPinKnows, ClearFlagKnows, GetPressTimeKnows
  DEF Button!Next

LEMMA AlwaysKnows == Button!Spec => []ButtonInv
<1>1. Button!Init => ButtonInv
  BY InitButton
<1>2. ButtonInv /\ [Button!Next]_btn => ButtonInv'
  BY NextButton
<1> QED
  BY <1>1, <1>2, PTL DEF Button!Spec

--------------------------------------------------------------------------------
(* The button of the sketch. *)

LEMMA Remainder ==
  ASSUME NEW n \in Int, W \in Nat \ {0} PROVE n % W \in 0..(W - 1)
  OBVIOUS

SketchState ==
  [micros : 0..(W - 1), down : BOOLEAN, pressed : BOOLEAN, start : 0..(W - 1),
   time : 0..(W - 1), pc : {"idle", "read"}]

LEMMA EdgeTyped ==
  ASSUME sk \in SketchState, Sketch!EdgeInterrupt PROVE sk' \in SketchState
<1>1. /\ sk.micros \in 0..(W - 1) /\ sk.start \in 0..(W - 1)
      /\ W \in Nat \ {0}
  BY WidthIsPositive DEF SketchState
<1>2. CASE sk' = [sk EXCEPT !.down = ~sk.down]
  BY <1>1, <1>2 DEF SketchState
<1>3. CASE sk' = [sk EXCEPT !.down = ~sk.down, !.pressed = TRUE, !.start = sk.micros]
  BY <1>1, <1>3 DEF SketchState
<1>4. ASSUME NEW then \in {sk.micros, Sketch!Later(sk.micros)},
             sk' = [sk EXCEPT !.down = ~sk.down, !.pressed = FALSE, !.micros = then,
                              !.time = Sketch!Elapsed(sk.micros, then, sk.start)]
      PROVE  sk' \in SketchState
  <2>1. then \in 0..(W - 1)
    BY <1>1, Remainder DEF Sketch!Later
  <2>2. Sketch!Elapsed(sk.micros, then, sk.start) \in 0..(W - 1)
    <3>1. then - sk.start \in Int /\ then + (W - 1 - sk.start) + 1 \in Int
      BY <1>1, <2>1
    <3> QED
      BY <1>1, <3>1, Remainder DEF Sketch!Elapsed
  <2> QED
    BY <1>1, <1>4, <2>1, <2>2 DEF SketchState
<1> QED
  BY <1>2, <1>3, <1>4 DEF Sketch!EdgeInterrupt

LEMMA SketchTypes == Sketch!Spec => []Sketch!TypeOK
<1>1. Sketch!Init => sk \in SketchState
  BY WidthIsPositive DEF Sketch!Init, SketchState
<1>2. sk \in SketchState /\ [Sketch!Next]_sk => (sk \in SketchState)'
  <2> SUFFICES ASSUME sk \in SketchState, [Sketch!Next]_sk
               PROVE  sk' \in SketchState
    OBVIOUS
  <2>1. CASE Sketch!CounterMoves
    <3>1. Sketch!Later(sk.micros) \in 0..(W - 1)
      BY WidthIsPositive, Remainder DEF Sketch!Later, SketchState
    <3> QED
      BY <2>1, <3>1 DEF Sketch!CounterMoves, SketchState
  <2>2. CASE Sketch!ReadTime
    BY <2>2 DEF Sketch!ReadTime, SketchState
  <2>3. CASE Sketch!ClearTime
    <3>1. 0 \in 0..(W - 1)
      BY WidthIsPositive
    <3> QED
      BY <2>3, <3>1 DEF Sketch!ClearTime, SketchState
  <2>4. CASE UNCHANGED sk
    BY <2>4
  <2> QED
    BY <2>1, <2>2, <2>3, <2>4, EdgeTyped DEF Sketch!Next
<1>3. sk \in SketchState => Sketch!TypeOK
  BY DEF SketchState, Sketch!TypeOK
<1> QED
  BY <1>1, <1>2, <1>3, PTL DEF Sketch!Spec

--------------------------------------------------------------------------------
(* What the run Hal checks, for all values of the constants. *)

(* A write that reports all its bytes has sent them, however the errors of *)
(* reception and transmission and the end of an older frame fall between   *)
(* its steps, unless it began while that older frame was being sent        *)
(* (hal_uart.c 228-250).                                                   *)
THEOREM WritesAreSent == Spec => []AllMeansSent
<1>1. WriteInv => AllMeansSent
  BY DEF WriteInv, AllMeansSent
<1> QED
  BY <1>1, AlwaysWrites, PTL

(* No write fails for an error that came before it began (hal_uart.c       *)
(* 232-247).                                                               *)
THEOREM FailuresHaveCause == Spec => []FailsForCause
<1>1. WriteInv => FailsForCause
  BY DEF WriteInv, FailsForCause
<1> QED
  BY <1>1, AlwaysWrites, PTL

(* One call of the STM32's SPI finds nothing left of the one before, in    *)
(* whatever order interrupts and errors come (hal_spi.c 41-80).            *)
THEOREM SpiCallsApart == Spec => []CallsApart
<1>1. Spi!Spec => []Spi!CallsApart
  BY HalAssumption, Spi!CallsStayApart
<1> QED
  BY <1>1, PartsBehave, PTL DEF CallsApart

(* It is the blocking transfer that platform.h promises. *)
THEOREM SpiIsBlocking == Spec => SpiBlocks
<1>1. Spi!Spec => Spi!SpiBlocks
  BY HalAssumption, Spi!SpiKeepsPromise
<1> QED
  BY <1>1, PartsBehave DEF SpiBlocks

(* The nRF's SPI clocks the bytes of a call, and one more exactly when its *)
(* last block is empty, for every length of a block (hal_spi.c 83-100).    *)
THEOREM NrfClocksExactly == Spec => []ClocksWhatItMust
<1>1. Nrf!Spec => []Nrf!ClocksWhatItMust
  BY HalAssumption, Nrf!ClocksExactly
<1> QED
  BY <1>1, PartsBehave, PTL DEF ClocksWhatItMust

(* Its blocks make up one blocking transfer. *)
THEOREM NrfIsBlocking == Spec => NrfBlocks
<1>1. Nrf!Spec => Nrf!NrfBlocks
  BY HalAssumption, Nrf!NrfKeepsPromise
<1> QED
  BY <1>1, PartsBehave DEF NrfBlocks

(* No turn of the loop of platform_bmlite_uart_receive writes past the     *)
(* caller's buffer, if it comes in time (platform.c 79-85).                *)
THEOREM ReadsFit ==
  ASSUME Ring!CounterFits, Ring!PollsInTime PROVE Spec => []FitsBuffer
<1>1. Ring!Spec => []Ring!FitsBuffer
  BY HalAssumption, Ring!ReadFits
<1> QED
  BY <1>1, RingBehaves, PTL DEF FitsBuffer

(* Then the bytes of a read are in order, none left out and none twice     *)
(* (hal_uart.c 268-296).                                                   *)
THEOREM ReadsInOrder ==
  ASSUME Ring!CounterFits, Ring!PollsInTime PROVE Spec => []InOrder
<1>1. Ring!Spec => []Ring!InOrder
  BY HalAssumption, Ring!ReadInOrder
<1> QED
  BY <1>1, RingBehaves, PTL DEF InOrder

(* And nothing is lost between two reads (hal_uart.c 256-298). *)
THEOREM ReadsLoseNothing ==
  ASSUME Ring!CounterFits, Ring!PollsInTime PROVE Spec => []NothingLost
<1>1. Ring!Spec => []Ring!NothingLost
  BY HalAssumption, Ring!ReadLosesNothing
<1> QED
  BY <1>1, RingBehaves, PTL DEF NothingLost

(* Ring, counters and copies are a queue of the bytes that came in         *)
(* (hal_uart.c 252-299, platform.c 73-101).                                *)
THEOREM RingIsByteQueue ==
  ASSUME Ring!CounterFits, Ring!PollsInTime PROVE Spec => RingQueues
<1>1. Ring!Spec => Ring!RingQueues
  BY HalAssumption, Ring!RingIsQueue
<1> QED
  BY <1>1, RingBehaves DEF RingQueues

(* The level of the STM32's button that platform.c polls is that of the    *)
(* pin, once its edges were served one by one (hal_buttons.c 70-92).       *)
THEOREM PolledLevelIsKnown == Spec => []KnowsLevel
<1>1. ButtonInv => Button!KnowsLevel
  BY DEF ButtonInv, Button!KnowsLevel, Knows
<1> QED
  BY <1>1, AlwaysKnows, PartsBehave, PTL DEF KnowsLevel

(* The time it hands over is that of the last press (hal_buttons.c 70-108).*)
THEOREM PressIsTimed == Spec => []TimeOfPress
<1>1. ButtonInv => Button!TimeOfPress
  BY DEF ButtonInv, Button!TimeOfPress, Knows
<1> QED
  BY <1>1, AlwaysKnows, PartsBehave, PTL DEF TimeOfPress

(* So is that of the nRF's button: but for a press that ends between the   *)
(* read and the clear (hal_timebase.c 102-126).                            *)
THEOREM LastPressIsTimed == Spec => []LastPressRead
<1>1. Time!Spec => []Time!LastPressRead
  BY HalAssumption, Time!TimeIsOfLastPress
<1> QED
  BY <1>1, PartsBehave, PTL DEF LastPressRead

(* No busy wait is shorter than asked for, whatever the range of the       *)
(* counter and wherever it wraps (hal_timebase.c 83-95).                   *)
THEOREM WaitsLastLongEnough == Spec => WaitsLongEnough
<1>1. Time!Spec => Time!WaitsLongEnough
  BY HalAssumption, Time!WaitsAreLongEnough
<1> QED
  BY <1>1, PartsBehave DEF WaitsLongEnough

(* The handles, flags and counters of all parts keep to their types; the   *)
(* counters of the ring to the ring.                                       *)
THEOREM HalTypeCorrect ==
  ASSUME Ring!CounterFits, Ring!PollsInTime PROVE Spec => []TypeOK
<1>1. Spi!Spec => []Spi!TypeOK
  BY HalAssumption, Spi!SpiTypeCorrect
<1>2. Nrf!Spec => []Nrf!TypeOK
  BY HalAssumption, Nrf!NrfTypeCorrect
<1>3. Ring!Spec => []Ring!TypeOK
  BY HalAssumption, Ring!CountersStayInRing
<1>4. WriteInv => Uart!TypeOK
  BY DEF WriteInv, Write, Uart!TypeOK
<1>5. Button!Spec => []ButtonInv
  BY AlwaysKnows
<1>6. ButtonInv => Button!TypeOK
  BY DEF ButtonInv, ButtonState, ButtonTicks, Button!TypeOK
<1>7. Time!Spec => []Time!TimebaseInv
  BY HalAssumption, Time!AlwaysTimebase
<1>8. Time!TimebaseInv => Time!TypeOK
  BY DEF Time!TimebaseInv, Time!Timebase, Time!Ticks, Time!TypeOK
<1>9. Sketch!Spec => []Sketch!TypeOK
  BY SketchTypes
<1> QED
  BY <1>1, <1>2, <1>3, <1>4, <1>5, <1>6, <1>7, <1>8, <1>9, PartsBehave, RingBehaves,
     AlwaysWrites, PTL DEF TypeOK
================================================================================
