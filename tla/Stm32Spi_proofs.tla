---------------------------- MODULE Stm32Spi_proofs ----------------------------
(***************************************************************************)
(* Theorems about Stm32Spi, for transfers of any sizes, with errors of the *)
(* hardware and without.                                                   *)
(***************************************************************************)
EXTENDS Stm32Spi, TLAPS

Places == {"idle", "await", "select", "start", "wait"}

Flags == {"fed", "stored", "overrun", "rxError", "txError"}

Transfer ==
  [pc : Places, size : Nat, result : {"none", "ok", "error"}, low : BOOLEAN,
   done : BOOLEAN, state : {"ready", "busy"}, dma : [Channels -> {"ready", "busy"}],
   on : SUBSET Channels, left : [Channels -> Nat], inFlight : Nat,
   pending : SUBSET Flags, failed : BOOLEAN, used : BOOLEAN]

(* Between two transfers the handle, its channels and the line are free,   *)
(* and no interrupt of the last transfer is to come.                       *)
Free ==
  /\ spi.state = "ready" /\ spi.on = {} /\ spi.pending = {}
  /\ spi.dma["rx"] = "ready" /\ spi.dma["tx"] = "ready"
  /\ spi.left["rx"] = 0 /\ spi.left["tx"] = 0 /\ spi.inFlight = 0

(* What was sent came back, and is stored or in flight; the two channels   *)
(* and the flag say how far it has got.                                    *)
UnderWay ==
  /\ spi.left["rx"] = spi.left["tx"] + spi.inFlight
  /\ spi.left["rx"] <= spi.size
  /\ "stored" \in spi.pending => spi.left["rx"] = 0
  /\ spi.left["tx"] = 0 /\ "fed" \notin spi.pending =>
       spi.dma["tx"] = "ready" /\ "tx" \notin spi.on
  /\ spi.done => /\ spi.left["rx"] = 0 /\ spi.state = "ready"
                 /\ spi.dma["rx"] = "ready" /\ "rx" \notin spi.on

SpiInv ==
  /\ spi \in Transfer /\ spi.size \in Sizes \cup {0}
  /\ spi.low <=> spi.pc \in {"start", "wait"} \/ ~spi.used
  /\ spi.pc # "wait" => Free
  /\ spi.pc = "start" => ~spi.done
  /\ spi.pc = "wait" => UnderWay

--------------------------------------------------------------------------------
LEMMA InitSpi == SpiAssumption /\ Init => SpiInv
<1> SUFFICES ASSUME SpiAssumption, Init PROVE SpiInv
  OBVIOUS
<1>1. spi \in Transfer
  BY DEF Init, Transfer, Places, Channels
<1> QED
  BY <1>1 DEF Init, SpiInv, Free, Channels

(* The steps of the thread outside of the transfer itself. *)
LEMMA CallKeeps == ASSUME SpiAssumption, SpiInv, Call PROVE SpiInv'
<1>1. PICK n \in Sizes :
        spi' = [spi EXCEPT !.pc = "await", !.size = n, !.result = "none"]
  BY Zenon DEF Call
<1>2. spi \in Transfer /\ Free /\ spi.pc = "idle" /\ n \in Nat
  <2>1. spi.pc = "idle"
    BY Zenon DEF Call, Runs
  <2> QED
    BY <2>1 DEF SpiInv, SpiAssumption
<1>3. spi' \in Transfer
  BY <1>1, <1>2 DEF Transfer, Places
<1>4. /\ spi'.pc = "await" /\ spi'.size = n /\ spi'.low = spi.low
      /\ spi'.used = spi.used /\ spi'.state = spi.state /\ spi'.on = spi.on /\ spi'.pending = spi.pending
      /\ spi'.dma = spi.dma /\ spi'.left = spi.left /\ spi'.inFlight = spi.inFlight
  BY <1>1, <1>2 DEF Transfer
<1> QED
  BY <1>2, <1>3, <1>4 DEF SpiInv, Free

LEMMA AwaitReadyKeeps == ASSUME SpiAssumption, SpiInv, AwaitReady PROVE SpiInv'
<1>1. /\ spi \in Transfer /\ Free /\ spi.pc = "await"
      /\ spi' = [spi EXCEPT !.pc = "select"]
  BY DEF SpiInv, AwaitReady, Runs
<1>2. spi' \in Transfer
  BY <1>1 DEF Transfer, Places
<1>3. /\ spi'.pc = "select" /\ spi'.size = spi.size /\ spi'.low = spi.low
      /\ spi'.used = spi.used /\ spi'.state = spi.state /\ spi'.on = spi.on /\ spi'.pending = spi.pending
      /\ spi'.dma = spi.dma /\ spi'.left = spi.left /\ spi'.inFlight = spi.inFlight
  BY <1>1 DEF Transfer
<1> QED
  BY <1>1, <1>2, <1>3 DEF SpiInv, Free

LEMMA SelectKeeps == ASSUME SpiAssumption, SpiInv, Select PROVE SpiInv'
<1>1. /\ spi \in Transfer /\ Free
      /\ spi' = [spi EXCEPT !.pc = "start", !.low = TRUE, !.done = FALSE]
  BY DEF SpiInv, Select, Runs
<1>2. spi' \in Transfer
  BY <1>1 DEF Transfer, Places
<1>3. /\ spi'.pc = "start" /\ spi'.size = spi.size /\ spi'.low = TRUE
      /\ spi'.done = FALSE
      /\ spi'.state = spi.state /\ spi'.on = spi.on /\ spi'.pending = spi.pending
      /\ spi'.dma = spi.dma /\ spi'.left = spi.left /\ spi'.inFlight = spi.inFlight
  BY <1>1 DEF Transfer
<1> QED
  BY <1>1, <1>2, <1>3 DEF SpiInv, Free

LEMMA StartKeeps == ASSUME SpiAssumption, SpiInv, Start PROVE SpiInv'
<1>1. /\ spi \in Transfer /\ Free /\ spi.size \in Nat \ {0} /\ spi.low /\ ~spi.done
      /\ spi' = [spi EXCEPT !.pc = "wait", !.state = "busy",
                            !.dma = [c \in Channels |-> "busy"], !.on = Channels,
                            !.left = [c \in Channels |-> spi.size]]
  BY DEF SpiInv, Start, Runs, Transfer
<1>2. spi' \in Transfer
  BY <1>1 DEF Transfer, Places
<1>3. /\ spi'.pc = "wait" /\ spi'.size = spi.size /\ spi'.low = TRUE /\ spi'.done = FALSE
      /\ spi'.left["rx"] = spi.size /\ spi'.left["tx"] = spi.size
      /\ spi'.inFlight = 0 /\ spi'.pending = {}
  BY <1>1 DEF Transfer, Channels, Free
<1> QED
  BY <1>1, <1>2, <1>3 DEF SpiInv, UnderWay

(* A start fails for a size of 0 only: the channels are always free. *)
LEMMA StartFailsKeeps ==
  ASSUME SpiAssumption, SpiInv, StartFails
  PROVE  SpiInv' /\ spi.size = 0 /\ spi'.left = spi.left
<1>1. spi \in Transfer /\ Free /\ spi.size = 0
  BY DEF SpiInv, StartFails, Runs, Free, Channels
<1>2. /\ spi'.pc = "idle" /\ spi'.size = spi.size /\ spi'.low = FALSE /\ spi'.used
      /\ spi'.done = spi.done /\ spi'.result = "error" /\ spi'.failed = spi.failed
      /\ spi'.state = spi.state /\ spi'.on = spi.on /\ spi'.pending = spi.pending
      /\ spi'.dma["rx"] = "ready" /\ spi'.dma["tx"] = "ready"
      /\ spi'.left = spi.left /\ spi'.inFlight = spi.inFlight
  BY <1>1 DEF StartFails, Transfer, Free, Channels
<1>3. spi' \in Transfer
  BY <1>1 DEF StartFails, Transfer, Places, Free, Channels
<1> QED
  BY <1>1, <1>2, <1>3 DEF SpiInv, Free

(* A call that ends has served both interrupts of its transfer. *)
LEMMA FinishKeeps ==
  ASSUME SpiAssumption, SpiInv, Finish
  PROVE  SpiInv' /\ spi.left["rx"] = 0 /\ spi'.left = spi.left
<1>1. /\ spi \in Transfer /\ UnderWay /\ spi.done /\ spi.pending = {}
      /\ spi' = [spi EXCEPT !.pc = "idle", !.result = "ok", !.low = FALSE, !.used = TRUE]
  BY DEF SpiInv, Finish, Finished, Runs
<1>2. spi' \in Transfer
  BY <1>1 DEF Transfer, Places
<1>3. /\ spi'.pc = "idle" /\ spi'.size = spi.size /\ spi'.low = FALSE /\ spi'.used
      /\ spi'.state = spi.state /\ spi'.on = spi.on /\ spi'.pending = spi.pending
      /\ spi'.dma = spi.dma /\ spi'.left = spi.left /\ spi'.inFlight = spi.inFlight
      /\ spi.left["tx"] \in Nat /\ spi.inFlight \in Nat /\ spi.on \subseteq Channels
  BY <1>1 DEF Transfer, Channels
<1>4. spi.left["rx"] = 0 /\ spi.left["tx"] = 0 /\ spi.inFlight = 0
  BY <1>1, <1>3 DEF UnderWay
<1>5. Free
  BY <1>1, <1>3, <1>4 DEF UnderWay, Free, Channels
<1> QED
  BY <1>2, <1>3, <1>4, <1>5 DEF SpiInv, Free

(* Interrupts come, and bytes move, only while the call waits for them. *)
LEMMA OnlyUnderWay ==
  ASSUME SpiAssumption, SpiInv, Interrupt \/ Hardware
  PROVE  spi \in Transfer /\ spi.pc = "wait" /\ UnderWay /\ spi.low
<1>1. spi.pc = "wait"
  BY DEF SpiInv, Free, Interrupt, FedInterrupt, StoredInterrupt, StoredInterruptFails, OverrunInterrupt,
         RxErrorInterrupt, TxErrorInterrupt, Taken, Hardware, ByteExchanged,
         ByteStored, Overrun, RxDmaError, TxDmaError
<1> QED
  BY <1>1 DEF SpiInv

LEMMA InterruptKeeps ==
  ASSUME SpiAssumption, SpiInv, Interrupt
  PROVE  /\ SpiInv'
         /\ spi'.pc = "wait" /\ spi'.size = spi.size /\ spi'.left = spi.left
         /\ spi'.result = spi.result
<1>1. spi \in Transfer /\ spi.pc = "wait" /\ UnderWay /\ spi.low
  BY OnlyUnderWay
<1> DEFINE Kept ==
      /\ spi'.pc = "wait" /\ spi'.size = spi.size /\ spi'.left = spi.left
      /\ spi'.result = spi.result /\ spi'.low = spi.low /\ spi'.inFlight = spi.inFlight
<1>2. ASSUME spi' \in Transfer, Kept, UnderWay' PROVE SpiInv'
  BY <1>1, <1>2 DEF SpiInv
<1>3. CASE FedInterrupt
  <2>1. /\ Kept /\ spi'.done = spi.done /\ spi'.state = spi.state
        /\ spi'.pending = spi.pending \ {"fed"} /\ spi'.on = spi.on \ {"tx"}
        /\ spi'.dma["tx"] = "ready" /\ spi'.dma["rx"] = spi.dma["rx"]
    BY <1>1, <1>3 DEF FedInterrupt, Transfer, Channels
  <2>2. spi' \in Transfer
    BY <1>1, <1>3 DEF FedInterrupt, Transfer, Channels
  <2> QED
    BY <1>1, <1>2, <2>1, <2>2 DEF UnderWay
<1>4. CASE StoredInterrupt \/ StoredInterruptFails
  <2>1. /\ Kept /\ spi'.state = "ready"
        /\ spi'.pending = spi.pending \ {"stored", "overrun"}
        /\ spi'.on = spi.on \ {"rx"}
        /\ spi'.dma["rx"] = "ready" /\ spi'.dma["tx"] = spi.dma["tx"]
        /\ spi' \in Transfer
    <3>1. CASE StoredInterrupt
      BY <1>1, <3>1 DEF StoredInterrupt, Transfer, Channels
    <3>2. CASE StoredInterruptFails
      BY <1>1, <3>2 DEF StoredInterruptFails, Transfer, Channels
    <3> QED
      BY <1>4, <3>1, <3>2
  <2>3. "stored" \in spi.pending
    BY <1>4 DEF StoredInterrupt, StoredInterruptFails, Taken
  <2> QED
    BY <1>1, <1>2, <2>1, <2>3 DEF UnderWay
<1>5. CASE OverrunInterrupt
  <2>1. /\ Kept /\ spi'.done = spi.done /\ spi'.state = "ready"
        /\ spi'.pending = (spi.pending \ {"overrun"}) \ AbortClears
        /\ spi'.on = {} /\ spi'.dma["rx"] = "ready" /\ spi'.dma["tx"] = "ready"
    BY <1>1, <1>5 DEF OverrunInterrupt, Transfer, Channels
  <2>2. spi' \in Transfer
    BY <1>1, <1>5 DEF OverrunInterrupt, Transfer, Channels
  <2> QED
    BY <1>1, <1>2, <2>1, <2>2 DEF UnderWay
<1>6. CASE RxErrorInterrupt
  <2>1. /\ Kept /\ spi'.done = spi.done /\ spi'.state = "ready"
        /\ spi'.pending = spi.pending \ {"rxError"}
        /\ spi'.on = {} /\ spi'.dma["rx"] = "ready" /\ spi'.dma["tx"] = spi.dma["tx"]
    BY <1>1, <1>6 DEF RxErrorInterrupt, Transfer, Channels
  <2>2. spi' \in Transfer
    BY <1>1, <1>6 DEF RxErrorInterrupt, Transfer, Channels
  <2> QED
    BY <1>1, <1>2, <2>1, <2>2 DEF UnderWay
<1>7. CASE TxErrorInterrupt
  <2>1. /\ Kept /\ spi'.done = spi.done /\ spi'.state = spi.state
        /\ spi'.pending = spi.pending \ {"txError"} /\ spi'.on = spi.on
        /\ spi'.dma["tx"] = "ready" /\ spi'.dma["rx"] = spi.dma["rx"]
    BY <1>1, <1>7 DEF TxErrorInterrupt, Transfer, Channels
  <2>2. spi' \in Transfer
    BY <1>1, <1>7 DEF TxErrorInterrupt, Transfer, Channels
  <2> QED
    BY <1>1, <1>2, <2>1, <2>2 DEF UnderWay
<1> QED
  BY <1>3, <1>4, <1>5, <1>6, <1>7 DEF Interrupt

(* A byte goes into memory one at a time, and no other step of the         *)
(* hardware touches what is left to store.                                 *)
LEMMA HardwareKeeps ==
  ASSUME SpiAssumption, SpiInv, Hardware
  PROVE  /\ SpiInv'
         /\ spi'.pc = "wait" /\ spi'.size = spi.size /\ spi'.result = spi.result
         /\ \/ spi'.left["rx"] = spi.left["rx"]
            \/ spi.left["rx"] > 0 /\ spi'.left["rx"] = spi.left["rx"] - 1
<1>1. spi \in Transfer /\ spi.pc = "wait" /\ UnderWay /\ spi.low
  BY OnlyUnderWay
<1>2. /\ spi.left["rx"] \in Nat /\ spi.left["tx"] \in Nat /\ spi.inFlight \in Nat
      /\ spi.size \in Nat
  BY <1>1 DEF Transfer, Channels
<1> DEFINE Kept ==
      /\ spi'.pc = "wait" /\ spi'.size = spi.size /\ spi'.result = spi.result
      /\ spi'.low = spi.low /\ spi'.done = spi.done /\ spi'.state = spi.state
      /\ spi'.dma = spi.dma
<1>3. ASSUME spi' \in Transfer, Kept, UnderWay' PROVE SpiInv'
  BY <1>1, <1>3 DEF SpiInv
<1>4. CASE ByteExchanged
  <2>1. /\ Kept /\ spi'.on = spi.on /\ spi'.left["rx"] = spi.left["rx"]
        /\ spi'.left["tx"] = spi.left["tx"] - 1
        /\ spi'.inFlight = spi.inFlight + 1
        /\ spi'.pending = IF spi.left["tx"] = 1 THEN spi.pending \cup {"fed"}
                                                ELSE spi.pending
        /\ spi.left["tx"] > 0
    BY <1>1, <1>4 DEF ByteExchanged, Pends, Transfer, Channels
  <2>2. spi' \in Transfer
    <3>1. /\ spi' = [spi EXCEPT !.left = [spi.left EXCEPT !["tx"] = @ - 1],
                                !.inFlight = spi.inFlight + 1,
                                !.pending = spi'.pending]
          /\ spi.left \in [Channels -> Nat]
      BY <1>1, <1>4, <2>1 DEF ByteExchanged, Pends, Transfer
    <3>2. /\ [spi.left EXCEPT !["tx"] = @ - 1] \in [Channels -> Nat]
          /\ spi.inFlight + 1 \in Nat
      BY <1>2, <2>1, <3>1 DEF Channels
    <3>3. spi'.pending \subseteq Flags
      BY <1>1, <2>1 DEF Transfer, Flags
    <3> QED
      BY <1>1, <3>1, <3>2, <3>3 DEF Transfer
  <2>3. UnderWay'
    BY <1>1, <1>2, <2>1 DEF UnderWay
  <2> QED
    BY <1>3, <2>1, <2>2, <2>3
<1>5. CASE ByteStored
  <2>1. /\ Kept /\ spi'.on = spi.on /\ spi'.left["tx"] = spi.left["tx"]
        /\ spi'.left["rx"] = spi.left["rx"] - 1
        /\ spi'.inFlight = spi.inFlight - 1
        /\ spi'.pending = IF spi.left["rx"] = 1 THEN spi.pending \cup {"stored"}
                                                ELSE spi.pending
        /\ spi.left["rx"] > 0 /\ spi.inFlight > 0
    BY <1>1, <1>5 DEF ByteStored, Pends, Transfer, Channels
  <2>2. spi' \in Transfer
    <3>1. /\ spi' = [spi EXCEPT !.left = [spi.left EXCEPT !["rx"] = @ - 1],
                                !.inFlight = spi.inFlight - 1,
                                !.pending = spi'.pending]
          /\ spi.left \in [Channels -> Nat]
      BY <1>1, <1>5, <2>1 DEF ByteStored, Pends, Transfer
    <3>2. /\ [spi.left EXCEPT !["rx"] = @ - 1] \in [Channels -> Nat]
          /\ spi.inFlight - 1 \in Nat
      BY <1>2, <2>1, <3>1 DEF Channels
    <3>3. spi'.pending \subseteq Flags
      BY <1>1, <2>1 DEF Transfer, Flags
    <3> QED
      BY <1>1, <3>1, <3>2, <3>3 DEF Transfer
  <2>3. UnderWay'
    BY <1>1, <1>2, <2>1 DEF UnderWay
  <2> QED
    BY <1>3, <2>1, <2>2, <2>3
<1>6. CASE Overrun \/ RxDmaError \/ TxDmaError
  <2>1. /\ Kept /\ spi'.left = spi.left /\ spi'.inFlight = spi.inFlight
        /\ spi'.on \subseteq spi.on
        /\ spi'.pending \subseteq Flags /\ spi.pending \subseteq spi'.pending
        /\ "stored" \in spi'.pending => "stored" \in spi.pending
        /\ spi' \in Transfer
    <3>1. CASE Overrun
      BY <1>1, <3>1 DEF Overrun, Transfer, Flags
    <3>2. CASE RxDmaError
      BY <1>1, <3>2 DEF RxDmaError, Transfer, Flags
    <3>3. CASE TxDmaError
      BY <1>1, <3>3 DEF TxDmaError, Transfer, Flags
    <3> QED
      BY <1>6, <3>1, <3>2, <3>3
  <2>2. /\ "fed" \in spi.pending => "fed" \in spi'.pending
        /\ "tx" \in spi'.on => "tx" \in spi.on
        /\ "rx" \in spi'.on => "rx" \in spi.on
    BY <2>1
  <2>3. UnderWay'
    BY <1>1, <2>1, <2>2 DEF UnderWay
  <2> QED
    BY <1>3, <2>1, <2>3
<1> QED
  BY <1>4, <1>5, <1>6 DEF Hardware

LEMMA NextSpi == ASSUME SpiAssumption, SpiInv, [Next]_spi PROVE SpiInv'
<1>1. CASE UNCHANGED spi
  BY <1>1 DEF SpiInv, Free, UnderWay
<1> QED
  BY <1>1, CallKeeps, AwaitReadyKeeps, SelectKeeps, StartKeeps, StartFailsKeeps,
     FinishKeeps, InterruptKeeps, HardwareKeeps DEF Next, Running

LEMMA AlwaysSpi == ASSUME SpiAssumption PROVE Spec => []SpiInv
<1>1. Init => SpiInv
  BY InitSpi
<1>2. SpiInv /\ [Next]_spi => SpiInv'
  BY NextSpi
<1> QED
  BY <1>1, <1>2, PTL DEF Spec

(* What the driver and the two interrupts leave in the handles is of the   *)
(* types ST's driver expects, at every point of a call.                    *)
THEOREM SpiTypeCorrect == ASSUME SpiAssumption PROVE Spec => []TypeOK
<1>1. SpiInv => TypeOK
  BY DEF SpiInv, TypeOK, Transfer, Places, Flags
<1> QED
  BY <1>1, AlwaysSpi, PTL

(* Calls do not run into each other, in whatever order the interrupts of   *)
(* the two channels come and whatever errors the hardware reports.         *)
THEOREM CallsStayApart == ASSUME SpiAssumption PROVE Spec => []CallsApart
<1>1. SpiInv => CallsApart
  BY DEF SpiInv, Free, CallsApart, Channels
<1> QED
  BY <1>1, AlwaysSpi, PTL

--------------------------------------------------------------------------------
(* The implementation of BlockingTransfer. *)

LEMMA PromiseInit == SpiAssumption /\ Init => Promise!Init
  BY DEF Init, Promise!Init, Moved, Channels

LEMMA PromiseCall == ASSUME SpiAssumption, SpiInv, Call PROVE Promise!Call
<1>1. PICK n \in Sizes :
        spi' = [spi EXCEPT !.pc = "await", !.size = n, !.result = "none"]
  BY Zenon DEF Call
<1>2. spi \in Transfer /\ spi.pc = "idle"
  <2>1. spi.pc = "idle"
    BY Zenon DEF Call, Runs
  <2> QED
    BY <2>1 DEF SpiInv
<1>3. spi'.pc = "await" /\ spi'.size = n /\ spi'.result = "none"
  BY <1>1, <1>2 DEF Transfer
<1> QED
  BY <1>2, <1>3 DEF Promise!Call, Moved

(* Until the transfer has begun nothing has moved. *)
LEMMA PromisePrepare ==
  ASSUME SpiAssumption, SpiInv, AwaitReady \/ Select \/ Start
  PROVE  UNCHANGED Promise!vars
<1>1. spi \in Transfer /\ spi.pc \in {"await", "select", "start"}
  BY DEF SpiInv, AwaitReady, Select, Start, Runs
<1>2. /\ spi'.pc # "idle" /\ spi'.size = spi.size /\ spi'.result = spi.result
      /\ spi'.pc = "wait" => spi'.left["rx"] = spi.size
      /\ spi'.pc \in Places /\ spi.size \in Nat
  <2>1. CASE AwaitReady
    BY <1>1, <2>1 DEF AwaitReady, Transfer, Places
  <2>2. CASE Select
    BY <1>1, <2>2 DEF Select, Transfer, Places
  <2>3. CASE Start
    BY <1>1, <2>3 DEF Start, Transfer, Places, Channels
  <2> QED
    BY <2>1, <2>2, <2>3
<1>3. Moved = 0 /\ Moved' = 0
  BY <1>1, <1>2 DEF Moved, Places
<1> QED
  BY <1>1, <1>2, <1>3 DEF Promise!vars

LEMMA PromiseReturns ==
  ASSUME SpiAssumption, SpiInv, StartFails \/ Finish
  PROVE  Promise!ReturnOk \/ Promise!ReturnError
<1>1. spi \in Transfer
  BY DEF SpiInv
<1>2. CASE StartFails
  <2>1. spi.size = 0 /\ spi'.left = spi.left /\ spi.left["rx"] = 0 /\ spi.pc = "start"
    BY <1>2, StartFailsKeeps DEF SpiInv, Free, StartFails, Runs
  <2>2. spi'.pc = "idle" /\ spi'.result = "error" /\ spi'.size = spi.size
    BY <1>1, <1>2 DEF StartFails, Transfer
  <2> QED
    BY <2>1, <2>2 DEF Promise!ReturnError, Moved
<1>3. CASE Finish
  <2>1. spi'.left = spi.left /\ spi.left["rx"] = 0 /\ spi.pc = "wait"
    BY <1>3, FinishKeeps DEF Finish, Runs
  <2>2. spi'.pc = "idle" /\ spi'.result = "ok" /\ spi'.size = spi.size
        /\ spi.size \in Nat
    BY <1>1, <1>3 DEF Finish, Transfer
  <2> QED
    BY <2>1, <2>2 DEF Promise!ReturnOk, Moved
<1> QED
  BY <1>2, <1>3

LEMMA PromiseMoves ==
  ASSUME SpiAssumption, SpiInv, Interrupt \/ Hardware
  PROVE  Promise!BytesMove \/ UNCHANGED Promise!vars
<1>1. spi \in Transfer /\ spi.pc = "wait" /\ UnderWay
  BY OnlyUnderWay
<1>2. /\ spi'.pc = "wait" /\ spi'.size = spi.size /\ spi'.result = spi.result
      /\ \/ spi'.left["rx"] = spi.left["rx"]
         \/ spi.left["rx"] > 0 /\ spi'.left["rx"] = spi.left["rx"] - 1
  BY InterruptKeeps, HardwareKeeps
<1>3. spi.left["rx"] \in Nat /\ spi.size \in Nat /\ spi.left["rx"] <= spi.size
  BY <1>1 DEF Transfer, UnderWay, Channels
<1>4. Moved = spi.size - spi.left["rx"] /\ Moved' = spi.size - spi'.left["rx"]
  BY <1>1, <1>2 DEF Moved
<1> QED
  BY <1>1, <1>2, <1>3, <1>4 DEF Promise!BytesMove, Promise!vars

LEMMA PromiseNext ==
  ASSUME SpiAssumption, SpiInv, [Next]_spi
  PROVE  [Promise!Next]_(Promise!vars)
<1>1. CASE UNCHANGED spi
  BY <1>1 DEF Promise!vars, Moved
<1> QED
  BY <1>1, PromiseCall, PromisePrepare, PromiseReturns, PromiseMoves
     DEF Next, Running, Promise!Next

(* A call is the blocking transfer that platform.h promises: no byte moves *)
(* outside of it, and OK means all of them.                                *)
THEOREM SpiKeepsPromise == ASSUME SpiAssumption PROVE Spec => SpiBlocks
<1>1. Init => Promise!Init
  BY PromiseInit
<1>2. SpiInv /\ [Next]_spi => [Promise!Next]_(Promise!vars)
  BY PromiseNext
<1> QED
  BY <1>1, <1>2, AlwaysSpi, PTL DEF Spec, SpiBlocks, Promise!Spec
================================================================================
