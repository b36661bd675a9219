---------------------------- MODULE Nrf52Spi_proofs ----------------------------
(***************************************************************************)
(* Theorems about Nrf52Spi, for transfers of any sizes and blocks of any   *)
(* length.                                                                 *)
(***************************************************************************)
EXTENDS Nrf52Spi, TLAPS

InBlock == {"look", "sleep", "asleep", "end"}

Transfer ==
  [pc : {"idle", "block"} \cup InBlock, size : Nat, result : {"none", "ok"},
   rest : Nat, length : 0..Block, low : BOOLEAN, done : BOOLEAN, received : Nat,
   txd : 0..2, rxd : 0..2, event : BOOLEAN, clocked : Nat]

(* The bytes that nrfx clocks for the block: at least one. *)
BlockBytes == IF nrf.length = 0 THEN 1 ELSE nrf.length

(* The blocks that came before were full ones. *)
FullBlocksBefore(n) == \E k \in Nat : n = k * Block

(* Between two blocks. *)
AtBlock ==
  /\ nrf.txd = 0 /\ nrf.rxd = 0
  /\ nrf.rest <= nrf.size /\ nrf.clocked = nrf.size - nrf.rest
  /\ FullBlocksBefore(nrf.size - nrf.rest)

(* During a block: TXD and RXD hold what is under way, two bytes as long   *)
(* as there are two, and spi_xfer_done is set with the last one.           *)
BlockUnderWay ==
  /\ nrf.received <= BlockBytes
  /\ nrf.txd + nrf.rxd = IF BlockBytes - nrf.received < 2
                           THEN BlockBytes - nrf.received ELSE 2
  /\ nrf.done <=> nrf.received = BlockBytes
  /\ nrf.rest + nrf.length <= nrf.size
  /\ nrf.clocked = (nrf.size - nrf.rest - nrf.length) + nrf.received + nrf.rxd
  /\ FullBlocksBefore(nrf.size - nrf.rest - nrf.length)
  /\ nrf.length < Block => nrf.rest = 0

(* After the last block, which was not a full one. *)
CallOver ==
  /\ nrf.txd = 0 /\ nrf.rxd = 0
  /\ nrf.length < Block /\ nrf.length <= nrf.size
  /\ nrf.clocked = (nrf.size - nrf.length) + BlockBytes
  /\ FullBlocksBefore(nrf.size - nrf.length)

NrfInv ==
  /\ nrf \in Transfer /\ nrf.size \in Sizes \cup {0}
  /\ nrf.pc = "idle" =>
       \/ nrf.result = "none" /\ nrf.txd = 0 /\ nrf.rxd = 0
       \/ CallOver
  /\ nrf.pc = "block" => AtBlock
  /\ nrf.pc \in InBlock => BlockUnderWay
  /\ nrf.pc = "end" => nrf.done
  /\ nrf.pc # "idle" => nrf.result = "none"

--------------------------------------------------------------------------------
LEMMA MinOfTwo ==
  ASSUME NEW a \in Int, NEW b \in Int
  PROVE  Min({a, b}) = IF a <= b THEN a ELSE b
<1> DEFINE m == IF a <= b THEN a ELSE b
<1>1. m \in {a, b} /\ \A y \in {a, b} : m <= y
  OBVIOUS
<1>2. \A x \in {a, b} : (\A y \in {a, b} : x <= y) => x = m
  OBVIOUS
<1> HIDE DEF m
<1>3. (CHOOSE x \in {a, b} : \A y \in {a, b} : x <= y) = m
  BY <1>1, <1>2
<1> QED
  BY <1>3 DEF Min, m

(* What follows k full blocks, if it is not a full one, is the remainder.  *)
LEMMA Remainder ==
  ASSUME NEW b \in Nat \ {0}, NEW k \in Nat, NEW r \in 0..(b - 1)
  PROVE  (k * b + r) % b = r
<1> DEFINE n == k * b + r  q == n \div b  s == n % b
<1>1. n \in Nat /\ q \in Int /\ s \in 0..(b - 1) /\ n = b * q + s
  BY Z3
<1>2. (k - q) * b = s - r
  BY <1>1, Z3
<1>3. CASE k - q >= 1
  <2>1. (k - q) * b >= b
    BY <1>1, <1>3, Z3
  <2> QED
    BY <1>1, <1>2, <2>1
<1>4. CASE k - q <= -1
  <2>1. (k - q) * b <= -b
    BY <1>1, <1>4, Z3
  <2> QED
    BY <1>1, <1>2, <2>1
<1>5. CASE k - q = 0
  <2>1. (k - q) * b = 0
    BY <1>1, <1>5, Z3
  <2> QED
    BY <1>1, <1>2, <2>1
<1> QED
  BY <1>1, <1>3, <1>4, <1>5

LEMMA InitNrf == NrfAssumption /\ Init => NrfInv
<1> SUFFICES ASSUME NrfAssumption, Init PROVE NrfInv
  OBVIOUS
<1>1. nrf \in Transfer
  BY DEF Init, Transfer, InBlock, NrfAssumption
<1> QED
  BY <1>1 DEF Init, NrfInv, InBlock

LEMMA CallKeeps ==
  ASSUME NrfAssumption, NrfInv, Call
  PROVE  /\ NrfInv'
         /\ nrf.pc = "idle" /\ nrf'.pc = "block" /\ nrf'.size \in Sizes
         /\ nrf'.result = "none" /\ nrf'.clocked = 0
<1>1. PICK n \in Sizes :
        nrf' = [nrf EXCEPT !.pc = "block", !.size = n, !.rest = n,
                           !.result = "none", !.clocked = 0]
  BY Zenon DEF Call
<1>2. nrf \in Transfer /\ nrf.pc = "idle" /\ nrf.txd = 0 /\ nrf.rxd = 0 /\ n \in Nat
  <2>1. nrf.pc = "idle"
    BY Zenon DEF Call, Runs
  <2> QED
    BY <2>1 DEF NrfInv, CallOver, NrfAssumption
<1>3. nrf' \in Transfer
  BY <1>1, <1>2 DEF Transfer, InBlock
<1>4. /\ nrf'.pc = "block" /\ nrf'.size = n /\ nrf'.rest = n /\ nrf'.clocked = 0
      /\ nrf'.result = "none" /\ nrf'.txd = 0 /\ nrf'.rxd = 0
  BY <1>1, <1>2 DEF Transfer
<1>5. FullBlocksBefore(n - n)
  <2>1. n - n = 0 * Block
    BY <1>2 DEF NrfAssumption
  <2> QED
    BY <2>1 DEF FullBlocksBefore
<1>6. AtBlock'
  BY <1>2, <1>4, <1>5 DEF AtBlock, FullBlocksBefore
<1> QED
  BY <1>2, <1>3, <1>4, <1>6 DEF NrfInv, InBlock

(* A block starts with at most Block bytes, and all that is left but for a *)
(* full one.                                                               *)
LEMMA StartBlockKeeps ==
  ASSUME NrfAssumption, NrfInv, StartBlock
  PROVE  /\ NrfInv'
         /\ nrf.pc = "block" /\ nrf'.pc = "look" /\ nrf'.size = nrf.size
         /\ nrf'.result = nrf.result /\ nrf'.clocked = nrf.clocked
<1>1. /\ nrf \in Transfer /\ nrf.pc = "block" /\ AtBlock /\ nrf.result = "none"
      /\ Block \in Nat \ {0} /\ nrf.rest \in Nat /\ nrf.size \in Nat
      /\ nrf.size \in Sizes \cup {0}
  BY DEF NrfInv, StartBlock, Runs, NrfAssumption, Transfer
<1> DEFINE l == NextLength
<1>2. l = IF nrf.rest <= Block THEN nrf.rest ELSE Block
  BY <1>1, MinOfTwo DEF NextLength
<1>3. /\ nrf' = [nrf EXCEPT !.pc = "look", !.low = TRUE, !.done = FALSE,
                            !.length = l, !.rest = @ - l,
                            !.received = 0, !.txd = BytesQueued]
      /\ BytesQueued = IF l > 1 THEN 2 ELSE 1
  BY DEF StartBlock, BytesQueued
<1> HIDE DEF l
<1>4. l \in 0..Block /\ nrf.rest - l \in Nat /\ (l < Block => nrf.rest - l = 0)
      /\ l <= nrf.rest
  BY <1>1, <1>2
<1>5. nrf' \in Transfer
  <2>1. BytesQueued \in 0..2
    BY <1>3, <1>4
  <2>2. nrf' = [nrf EXCEPT !.pc = "look", !.low = TRUE, !.done = FALSE,
                           !.length = l, !.rest = nrf.rest - l,
                           !.received = 0, !.txd = BytesQueued]
    BY <1>3
  <2> QED
    BY <1>1, <1>4, <2>1, <2>2 DEF Transfer, InBlock
<1>6. /\ nrf'.pc = "look" /\ nrf'.size = nrf.size /\ nrf'.result = nrf.result
      /\ nrf'.rest = nrf.rest - l /\ nrf'.length = l /\ nrf'.done = FALSE
      /\ nrf'.received = 0 /\ nrf'.txd = (IF l > 1 THEN 2 ELSE 1) /\ nrf'.rxd = 0
      /\ nrf'.clocked = nrf.clocked
  BY <1>1, <1>3 DEF Transfer, AtBlock
<1>7. nrf'.size - nrf'.rest - nrf'.length = nrf.size - nrf.rest
  BY <1>1, <1>4, <1>6
<1>8. BlockUnderWay'
  <2>1. FullBlocksBefore(nrf.size - nrf.rest - nrf.length)'
    BY <1>1, <1>7 DEF AtBlock, FullBlocksBefore
  <2>2. BlockBytes' = IF l = 0 THEN 1 ELSE l
    BY <1>6 DEF BlockBytes
  <2>3. /\ nrf'.received <= BlockBytes'
        /\ nrf'.txd + nrf'.rxd = IF BlockBytes' - nrf'.received < 2
                                   THEN BlockBytes' - nrf'.received ELSE 2
        /\ nrf'.done <=> nrf'.received = BlockBytes'
    BY <1>4, <1>6, <2>2
  <2>4. /\ nrf'.rest + nrf'.length <= nrf'.size
        /\ nrf'.clocked = nrf'.size - nrf'.rest - nrf'.length
        /\ nrf'.length < Block => nrf'.rest = 0
    BY <1>1, <1>4, <1>6, <1>7 DEF AtBlock
  <2>5. nrf'.clocked = (nrf'.size - nrf'.rest - nrf'.length) + nrf'.received + nrf'.rxd
    BY <1>1, <1>6, <2>4 DEF AtBlock
  <2> QED
    BY <2>1, <2>3, <2>4, <2>5 DEF BlockUnderWay
<1> QED
  BY <1>1, <1>5, <1>6, <1>8 DEF NrfInv, InBlock

(* The thread looks and sleeps until the flag is set: the block does not   *)
(* depend on it.                                                           *)
LEMMA WaitKeeps ==
  ASSUME NrfAssumption, NrfInv, Look \/ Sleep \/ Wake
  PROVE  /\ NrfInv'
         /\ nrf.pc # "idle" /\ nrf'.pc # "idle" /\ nrf'.size = nrf.size
         /\ nrf'.result = nrf.result /\ nrf'.clocked = nrf.clocked
<1>1. nrf \in Transfer /\ nrf.pc \in InBlock /\ BlockUnderWay
  BY DEF NrfInv, Look, Sleep, Wake, Runs, InBlock
<1> DEFINE Kept ==
      /\ nrf' \in Transfer /\ nrf'.pc \in InBlock /\ (nrf'.pc = "end" => nrf.done)
      /\ nrf'.size = nrf.size /\ nrf'.result = nrf.result
      /\ nrf'.rest = nrf.rest /\ nrf'.length = nrf.length /\ nrf'.done = nrf.done
      /\ nrf'.received = nrf.received /\ nrf'.txd = nrf.txd /\ nrf'.rxd = nrf.rxd
      /\ nrf'.clocked = nrf.clocked
<1>2. CASE Look
  <2>1. Kept
    BY <1>1, <1>2 DEF Look, Transfer, InBlock
  <2> QED
    BY <1>1, <2>1 DEF NrfInv, InBlock, BlockUnderWay, BlockBytes, FullBlocksBefore
<1>3. CASE Sleep
  <2>1. Kept
    BY <1>1, <1>3 DEF Sleep, Transfer, InBlock
  <2> QED
    BY <1>1, <2>1 DEF NrfInv, InBlock, BlockUnderWay, BlockBytes, FullBlocksBefore
<1>4. CASE Wake
  <2>1. Kept
    BY <1>1, <1>4 DEF Wake, Transfer, InBlock
  <2> QED
    BY <1>1, <2>1 DEF NrfInv, InBlock, BlockUnderWay, BlockBytes, FullBlocksBefore
<1> QED
  BY <1>2, <1>3, <1>4

(* A block is left when its last byte has come; a full one adds to those   *)
(* before, and after any other nothing is left.                            *)
LEMMA EndBlockKeeps ==
  ASSUME NrfAssumption, NrfInv, EndBlock
  PROVE  /\ NrfInv'
         /\ nrf.pc = "end" /\ nrf'.size = nrf.size /\ nrf'.clocked = nrf.clocked
         /\ \/ nrf'.pc = "block" /\ nrf'.result = nrf.result
            \/ nrf'.pc = "idle" /\ nrf'.result = "ok" /\ nrf.clocked >= nrf.size
<1>1. /\ nrf \in Transfer /\ nrf.pc = "end" /\ BlockUnderWay /\ nrf.done
      /\ nrf.result = "none"
  BY DEF NrfInv, EndBlock, Runs, InBlock
<1>2. /\ nrf.size \in Nat /\ nrf.rest \in Nat /\ nrf.length \in 0..Block
      /\ nrf.clocked \in Nat /\ nrf.received \in Nat /\ nrf.txd \in 0..2
      /\ nrf.rxd \in 0..2 /\ Block \in Nat \ {0}
  BY <1>1 DEF Transfer, NrfAssumption
<1>3. nrf.received = BlockBytes /\ nrf.txd = 0 /\ nrf.rxd = 0
  BY <1>1, <1>2 DEF BlockUnderWay
<1>4. CASE nrf.length = Block
  <2>1. nrf' = [nrf EXCEPT !.pc = "block"]
    BY <1>4 DEF EndBlock, MoreBlocks
  <2>2. nrf' \in Transfer
    BY <1>1, <2>1 DEF Transfer
  <2>3. /\ nrf'.pc = "block" /\ nrf'.size = nrf.size /\ nrf'.result = nrf.result
        /\ nrf'.rest = nrf.rest /\ nrf'.clocked = nrf.clocked
        /\ nrf'.txd = 0 /\ nrf'.rxd = 0
    BY <1>1, <1>3, <2>1 DEF Transfer
  <2>4. nrf.clocked = nrf.size - nrf.rest /\ nrf.rest <= nrf.size
    BY <1>1, <1>2, <1>3, <1>4 DEF BlockUnderWay, BlockBytes
  <2>5. FullBlocksBefore(nrf.size - nrf.rest)
    <3>1. PICK k \in Nat : nrf.size - nrf.rest - nrf.length = k * Block
      BY <1>1 DEF BlockUnderWay, FullBlocksBefore
    <3>2. (k + 1) * Block = k * Block + Block
      BY <1>2, Z3
    <3>3. nrf.size - nrf.rest = (k + 1) * Block
      BY <1>2, <1>4, <3>1, <3>2
    <3> QED
      BY <3>3 DEF FullBlocksBefore
  <2>6. AtBlock'
    BY <2>3, <2>4, <2>5 DEF AtBlock, FullBlocksBefore
  <2> QED
    BY <1>1, <2>2, <2>3, <2>6 DEF NrfInv, InBlock
<1>5. CASE nrf.length # Block
  <2>1. nrf' = [nrf EXCEPT !.pc = "idle", !.low = FALSE, !.result = "ok"]
    BY <1>5 DEF EndBlock, MoreBlocks
  <2>2. nrf' \in Transfer
    BY <1>1, <2>1 DEF Transfer
  <2>3. /\ nrf'.pc = "idle" /\ nrf'.size = nrf.size /\ nrf'.result = "ok"
        /\ nrf'.length = nrf.length /\ nrf'.clocked = nrf.clocked
        /\ nrf'.txd = 0 /\ nrf'.rxd = 0
    BY <1>1, <1>3, <2>1 DEF Transfer
  <2>4. nrf.length < Block /\ nrf.rest = 0
    <3>1. nrf.length < Block => nrf.rest = 0
      BY <1>1 DEF BlockUnderWay
    <3> QED
      BY <1>2, <1>5, <3>1
  <2>5. /\ nrf.clocked = (nrf.size - nrf.length) + BlockBytes
        /\ nrf.length <= nrf.size
        /\ nrf.size - nrf.rest - nrf.length = nrf.size - nrf.length
    BY <1>1, <1>2, <1>3, <2>4 DEF BlockUnderWay
  <2>6. FullBlocksBefore(nrf.size - nrf.length)
    BY <1>1, <2>5 DEF BlockUnderWay
  <2>7. nrf.clocked >= nrf.size
    BY <1>2, <2>5 DEF BlockBytes
  <2>8. CallOver'
    BY <2>3, <2>4, <2>5, <2>6 DEF CallOver, BlockBytes, FullBlocksBefore
  <2> QED
    BY <1>1, <2>2, <2>3, <2>7, <2>8 DEF NrfInv, InBlock
<1> QED
  BY <1>4, <1>5

LEMMA OnlyInBlock ==
  ASSUME NrfAssumption, NrfInv, nrf.txd > 0 \/ nrf.rxd > 0
  PROVE  nrf \in Transfer /\ nrf.pc \in InBlock /\ BlockUnderWay
  BY DEF NrfInv, CallOver, AtBlock, InBlock, Transfer

(* The handler counts a byte, and refills TXD while there is one more.     *)
LEMMA ReadyKeeps ==
  ASSUME NrfAssumption, NrfInv, ReadyInterrupt
  PROVE  /\ NrfInv'
         /\ nrf.pc # "idle" /\ nrf'.pc = nrf.pc /\ nrf'.size = nrf.size
         /\ nrf'.result = nrf.result /\ nrf'.clocked = nrf.clocked
<1>1. nrf \in Transfer /\ nrf.pc \in InBlock /\ BlockUnderWay /\ nrf.rxd > 0
  BY OnlyInBlock DEF ReadyInterrupt
<1>2. /\ nrf.size \in Nat /\ nrf.rest \in Nat /\ nrf.length \in 0..Block
      /\ nrf.clocked \in Nat /\ nrf.received \in Nat /\ nrf.txd \in 0..2
      /\ nrf.rxd \in 1..2 /\ Block \in Nat \ {0} /\ nrf.done \in BOOLEAN
  BY <1>1 DEF Transfer, NrfAssumption
<1> DEFINE r == nrf.received + 1
           t == IF r + 1 < nrf.length THEN nrf.txd + 1 ELSE nrf.txd
           d == nrf.done \/ r >= nrf.length
<1>3. nrf' = [nrf EXCEPT !.rxd = nrf.rxd - 1, !.received = r, !.txd = t,
                         !.done = d, !.event = TRUE]
  BY DEF ReadyInterrupt, Refills
<1>4. /\ r <= BlockBytes /\ (r >= nrf.length <=> r = BlockBytes) /\ ~nrf.done
      /\ t + (nrf.rxd - 1) = IF BlockBytes - r < 2 THEN BlockBytes - r ELSE 2
      /\ r \in Nat /\ t \in 0..2 /\ BlockBytes \in Nat
  <2>1. /\ BlockBytes = IF nrf.length = 0 THEN 1 ELSE nrf.length
        /\ nrf.received <= BlockBytes
        /\ nrf.txd + nrf.rxd = IF BlockBytes - nrf.received < 2
                                 THEN BlockBytes - nrf.received ELSE 2
        /\ nrf.done <=> nrf.received = BlockBytes
    BY <1>1 DEF BlockUnderWay, BlockBytes
  <2> DEFINE b == BlockBytes  n == nrf.received  l == nrf.length
             x == nrf.txd  y == nrf.rxd
  <2>2. /\ l \in Nat /\ b = (IF l = 0 THEN 1 ELSE l) /\ n \in Nat /\ n <= b
        /\ x \in 0..2 /\ y \in 1..2
        /\ x + y = (IF b - n < 2 THEN b - n ELSE 2)
        /\ r = n + 1 /\ t = IF r + 1 < l THEN x + 1 ELSE x
    BY <1>2, <2>1
  <2> HIDE DEF r, t, b, n, l, x, y
  <2>3. /\ r <= b /\ (r >= l <=> r = b) /\ n # b
        /\ t + (y - 1) = IF b - r < 2 THEN b - r ELSE 2
        /\ r \in Nat /\ t \in 0..2 /\ b \in Nat
    BY <2>2
  <2> QED
    BY <2>1, <2>3 DEF b, n, l, y
<1> HIDE DEF r, t
<1>5. nrf' \in Transfer
  <2>1. d \in BOOLEAN /\ nrf.rxd - 1 \in 0..2
    BY <1>2
  <2> HIDE DEF d
  <2> QED
    BY <1>1, <1>3, <1>4, <2>1 DEF Transfer
<1>6. /\ nrf'.pc = nrf.pc /\ nrf'.size = nrf.size /\ nrf'.result = nrf.result
      /\ nrf'.rest = nrf.rest /\ nrf'.length = nrf.length
      /\ nrf'.done = (nrf.done \/ r >= nrf.length)
      /\ nrf'.received = r /\ nrf'.txd = t /\ nrf'.rxd = nrf.rxd - 1
      /\ nrf'.clocked = nrf.clocked
  BY <1>1, <1>3 DEF Transfer
<1>7. r + (nrf.rxd - 1) = nrf.received + nrf.rxd
  BY <1>2 DEF r
<1>8. BlockUnderWay'
  <2>1. BlockBytes' = BlockBytes
    BY <1>6 DEF BlockBytes
  <2>2. /\ nrf'.received <= BlockBytes'
        /\ nrf'.txd + nrf'.rxd = IF BlockBytes' - nrf'.received < 2
                                   THEN BlockBytes' - nrf'.received ELSE 2
        /\ nrf'.done <=> nrf'.received = BlockBytes'
    BY <1>4, <1>6, <2>1
  <2>3. nrf'.clocked = (nrf'.size - nrf'.rest - nrf'.length) + nrf'.received + nrf'.rxd
    BY <1>1, <1>2, <1>4, <1>6, <1>7 DEF BlockUnderWay
  <2>4. /\ nrf'.rest + nrf'.length <= nrf'.size
        /\ FullBlocksBefore(nrf.size - nrf.rest - nrf.length)'
        /\ nrf'.length < Block => nrf'.rest = 0
    BY <1>1, <1>6 DEF BlockUnderWay, FullBlocksBefore
  <2> QED
    BY <2>2, <2>3, <2>4 DEF BlockUnderWay
<1>9. nrf.pc # "end"
  BY <1>4 DEF NrfInv
<1> QED
  BY <1>1, <1>5, <1>6, <1>8, <1>9 DEF NrfInv, InBlock

LEMMA ByteClockedKeeps ==
  ASSUME NrfAssumption, NrfInv, ByteClocked
  PROVE  /\ NrfInv'
         /\ nrf.pc # "idle" /\ nrf'.pc = nrf.pc /\ nrf'.size = nrf.size
         /\ nrf'.result = nrf.result /\ nrf'.clocked = nrf.clocked + 1
<1>1. /\ nrf \in Transfer /\ nrf.pc \in InBlock /\ BlockUnderWay
      /\ nrf' = [nrf EXCEPT !.txd = @ - 1, !.rxd = @ + 1, !.clocked = @ + 1]
      /\ nrf.txd > 0 /\ nrf.rxd < 2
  BY OnlyInBlock DEF ByteClocked
<1>2. /\ nrf.size \in Nat /\ nrf.rest \in Nat /\ nrf.length \in 0..Block
      /\ nrf.clocked \in Nat /\ nrf.received \in Nat /\ nrf.txd \in 1..2
      /\ nrf.rxd \in 0..1 /\ Block \in Nat \ {0} /\ nrf.done \in BOOLEAN
  BY <1>1 DEF Transfer, NrfAssumption
<1>3. nrf' \in Transfer
  <2>1. /\ nrf.txd - 1 \in 0..2 /\ nrf.rxd + 1 \in 0..2 /\ nrf.clocked + 1 \in Nat
        /\ nrf' = [nrf EXCEPT !.txd = nrf.txd - 1, !.rxd = nrf.rxd + 1,
                              !.clocked = nrf.clocked + 1]
    BY <1>1, <1>2
  <2> QED
    BY <1>1, <2>1 DEF Transfer
<1>4. /\ nrf'.pc = nrf.pc /\ nrf'.size = nrf.size /\ nrf'.result = nrf.result
      /\ nrf'.rest = nrf.rest /\ nrf'.length = nrf.length /\ nrf'.done = nrf.done
      /\ nrf'.received = nrf.received
      /\ nrf'.txd = nrf.txd - 1 /\ nrf'.rxd = nrf.rxd + 1
      /\ nrf'.clocked = nrf.clocked + 1
  BY <1>1 DEF Transfer
<1>5. (nrf.txd - 1) + (nrf.rxd + 1) = nrf.txd + nrf.rxd
  BY <1>2
<1>6. BlockUnderWay'
  <2>1. BlockBytes' = BlockBytes
    BY <1>4 DEF BlockBytes
  <2>2. nrf'.clocked = (nrf'.size - nrf'.rest - nrf'.length) + nrf'.received + nrf'.rxd
    BY <1>1, <1>2, <1>4 DEF BlockUnderWay
  <2> QED
    BY <1>1, <1>4, <1>5, <2>1, <2>2 DEF BlockUnderWay, FullBlocksBefore
<1> QED
  BY <1>1, <1>3, <1>4, <1>6 DEF NrfInv, InBlock

LEMMA NextNrf == ASSUME NrfAssumption, NrfInv, [Next]_nrf PROVE NrfInv'
<1>1. CASE UNCHANGED nrf
  BY <1>1 DEF NrfInv, CallOver, AtBlock, BlockUnderWay, BlockBytes, FullBlocksBefore
<1> QED
  BY <1>1, CallKeeps, StartBlockKeeps, WaitKeeps, EndBlockKeeps, ReadyKeeps,
     ByteClockedKeeps DEF Next, Running

LEMMA AlwaysNrf == ASSUME NrfAssumption PROVE Spec => []NrfInv
<1>1. Init => NrfInv
  BY InitNrf
<1>2. NrfInv /\ [Next]_nrf => NrfInv'
  BY NextNrf
<1> QED
  BY <1>1, <1>2, PTL DEF Spec

(* TXD and RXD never hold more than their two bytes each, and a block is   *)
(* never longer than the driver can take.                                  *)
THEOREM NrfTypeCorrect == ASSUME NrfAssumption PROVE Spec => []TypeOK
<1>1. NrfInv => TypeOK
  BY DEF NrfInv, TypeOK, Transfer, InBlock
<1> QED
  BY <1>1, AlwaysNrf, PTL

(* A call clocks its size in bytes, and one more exactly when its last     *)
(* block is empty: for every size and every length of a block.             *)
THEOREM ClocksExactly == ASSUME NrfAssumption PROVE Spec => []ClocksWhatItMust
<1>1. ASSUME NrfInv, nrf.pc = "idle", nrf.result = "ok"
      PROVE  nrf.clocked = nrf.size + (IF nrf.size % Block = 0 THEN 1 ELSE 0)
  <2>1. /\ CallOver /\ Block \in Nat \ {0} /\ nrf.length \in Nat /\ nrf.size \in Nat
    BY <1>1 DEF NrfInv, Transfer, NrfAssumption
  <2>2. PICK k \in Nat : nrf.size - nrf.length = k * Block
    BY <2>1 DEF CallOver, FullBlocksBefore
  <2>3. nrf.size = k * Block + nrf.length /\ nrf.length \in 0..(Block - 1)
    BY <2>1, <2>2 DEF CallOver
  <2>4. nrf.size % Block = nrf.length
    BY <2>1, <2>3, Remainder
  <2>5. nrf.clocked = (nrf.size - nrf.length) + (IF nrf.length = 0 THEN 1 ELSE nrf.length)
    BY <2>1 DEF CallOver, BlockBytes
  <2> QED
    BY <2>1, <2>4, <2>5
<1>2. NrfInv => ClocksWhatItMust
  BY <1>1 DEF ClocksWhatItMust
<1> QED
  BY <1>2, AlwaysNrf, PTL

--------------------------------------------------------------------------------
(* The implementation of BlockingTransfer. *)

LEMMA PromiseInit == Init => Promise!Init
<1> SUFFICES ASSUME Init PROVE Promise!Init
  OBVIOUS
<1>1. nrf.clocked = 0 /\ nrf.size = 0 /\ Min({0, 0}) = 0
  BY MinOfTwo DEF Init
<1> QED
  BY <1>1 DEF Init, Promise!Init, Moved

LEMMA MovedOf ==
  ASSUME NrfInv
  PROVE  /\ Moved = IF nrf.clocked <= nrf.size THEN nrf.clocked ELSE nrf.size
         /\ nrf.clocked \in Nat /\ nrf.size \in Nat
<1>1. nrf.clocked \in Nat /\ nrf.size \in Nat
  BY DEF NrfInv, Transfer
<1> QED
  BY <1>1, MinOfTwo DEF Moved

LEMMA MovedNext ==
  ASSUME NEW c \in Nat, NEW n \in Nat, nrf'.clocked = c, nrf'.size = n
  PROVE  Moved' = IF c <= n THEN c ELSE n
  BY MinOfTwo DEF Moved

LEMMA PromiseNext ==
  ASSUME NrfAssumption, NrfInv, [Next]_nrf
  PROVE  [Promise!Next]_(Promise!vars)
<1>1. /\ Moved = IF nrf.clocked <= nrf.size THEN nrf.clocked ELSE nrf.size
      /\ nrf.clocked \in Nat /\ nrf.size \in Nat
  BY MovedOf
<1>2. CASE UNCHANGED nrf
  BY <1>2 DEF Promise!vars, Moved
<1>3. CASE Call
  <2>1. /\ nrf.pc = "idle" /\ nrf'.pc = "block" /\ nrf'.size \in Sizes
        /\ nrf'.size \in Nat /\ nrf'.result = "none" /\ nrf'.clocked = 0
    BY <1>3, CallKeeps DEF NrfAssumption
  <2>2. Moved' = 0
    BY <2>1, MovedNext
  <2> QED
    BY <2>1, <2>2 DEF Promise!Next, Promise!Call
<1>4. CASE StartBlock \/ Look \/ Sleep \/ Wake \/ ReadyInterrupt
  <2>1. /\ nrf.pc # "idle" /\ nrf'.pc # "idle" /\ nrf'.size = nrf.size
        /\ nrf'.result = nrf.result /\ nrf'.clocked = nrf.clocked
    BY <1>4, StartBlockKeeps, WaitKeeps, ReadyKeeps
  <2>2. Moved' = Moved
    BY <1>1, <2>1, MovedNext
  <2> QED
    BY <2>1, <2>2 DEF Promise!vars
<1>5. CASE EndBlock
  <2>1. /\ nrf.pc = "end" /\ nrf'.size = nrf.size /\ nrf'.clocked = nrf.clocked
        /\ \/ nrf'.pc = "block" /\ nrf'.result = nrf.result
           \/ nrf'.pc = "idle" /\ nrf'.result = "ok" /\ nrf.clocked >= nrf.size
    BY <1>5, EndBlockKeeps
  <2>2. Moved' = Moved
    BY <1>1, <2>1, MovedNext
  <2>3. nrf.clocked >= nrf.size => Moved = nrf.size
    BY <1>1
  <2> QED
    BY <2>1, <2>2, <2>3 DEF Promise!vars, Promise!Next, Promise!ReturnOk
<1>6. CASE ByteClocked
  <2>1. /\ nrf.pc # "idle" /\ nrf'.pc = nrf.pc /\ nrf'.size = nrf.size
        /\ nrf'.result = nrf.result /\ nrf'.clocked = nrf.clocked + 1
        /\ nrf.clocked + 1 \in Nat
    BY <1>1, <1>6, ByteClockedKeeps
  <2>2. Moved' = IF nrf.clocked + 1 <= nrf.size THEN nrf.clocked + 1 ELSE nrf.size
    BY <1>1, <2>1, MovedNext
  <2>3. Moved' = Moved \/ Moved' \in (Moved + 1)..nrf.size
    BY <1>1, <2>2
  <2> QED
    BY <2>1, <2>3 DEF Promise!vars, Promise!Next, Promise!BytesMove
<1> QED
  BY <1>2, <1>3, <1>4, <1>5, <1>6 DEF Next, Running

(* The call, cut into blocks of any length, is one blocking transfer: no   *)
(* block is left before its last byte.                                     *)
THEOREM NrfKeepsPromise == ASSUME NrfAssumption PROVE Spec => NrfBlocks
<1>1. Init => Promise!Init
  BY PromiseInit
<1>2. NrfInv /\ [Next]_nrf => [Promise!Next]_(Promise!vars)
  BY PromiseNext
<1> QED
  BY <1>1, <1>2, AlwaysNrf, PTL DEF Spec, NrfBlocks, Promise!Spec
================================================================================
