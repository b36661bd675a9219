--------------------------- MODULE NrfTimebase_proofs ---------------------------
(***************************************************************************)
(* Theorems about NrfTimebase, for a counter of any width.                 *)
(***************************************************************************)
EXTENDS NrfTimebase, TLAPS

Ticks == 0..(W - 1)

Timebase ==
  [systick : Ticks, down : BOOLEAN, pressed : BOOLEAN, start : Ticks, time : Ticks,
   pc : {"idle", "read", "wait"}, got : Ticks, delay : Delays \cup {0},
   since : Ticks, waited : 0..W, was : BOOLEAN, held : Ticks, last : Ticks,
   unread : BOOLEAN, raced : BOOLEAN]

(* What check_buttons knows of the press under way. *)
PressKnown(t) ==
  /\ t.pressed = t.was
  /\ t.was => t.held = (t.systick - t.start) % W

(* The time of the last press that ended, until it is cleared. *)
TimeKept(t) ==
  /\ t.time = IF t.unread THEN t.last ELSE 0
  /\ t.pc = "read" /\ ~t.raced => t.got = t.time

(* A wait is for one of Delays, and its ticks are what the counter has gone *)
(* on since, unless it went round.                                         *)
WaitCounted(t) ==
  t.pc = "wait" =>
    /\ t.delay \in Delays
    /\ t.waited < W => (t.systick - t.since) % W = t.waited

TimebaseInv ==
  tb \in Timebase /\ PressKnown(tb) /\ TimeKept(tb) /\ WaitCounted(tb)

--------------------------------------------------------------------------------
(* A difference of two readings of a counter, and one tick more. *)
LEMMA Wraps ==
  ASSUME TimebaseAssumption, NEW n \in (-W)..(2 * W - 1)
  PROVE  n % W = IF n < 0 THEN n + W ELSE IF n < W THEN n ELSE n - W
  BY Z3 DEF TimebaseAssumption

LEMMA TickElapses ==
  ASSUME TimebaseAssumption, NEW n \in Ticks, NEW p \in Ticks
  PROVE  /\ (n - p) % W \in Ticks
         /\ (n + 1) % W \in Ticks
         /\ (((n + 1) % W) - p) % W = (((n - p) % W) + 1) % W
         /\ (n - n) % W = 0
<1>1. W \in Nat \ {0}
  BY DEF TimebaseAssumption
<1>2. /\ (n - p) % W = IF n - p < 0 THEN n - p + W ELSE n - p
      /\ (n + 1) % W = IF n + 1 < W THEN n + 1 ELSE 0
      /\ (n - n) % W = 0
  BY <1>1, Wraps DEF Ticks
<1>3. (((n - p) % W) + 1) % W = IF ((n - p) % W) + 1 < W THEN ((n - p) % W) + 1 ELSE 0
  <2> DEFINE d == (n - p) % W
  <2>1. d \in Ticks /\ d + 1 \in (-W)..(2 * W - 1)
    BY <1>1, <1>2 DEF Ticks
  <2> HIDE DEF d
  <2> QED
    BY <1>1, <2>1, Wraps DEF d, Ticks
<1>4. (((n + 1) % W) - p) % W
        = IF ((n + 1) % W) - p < 0 THEN ((n + 1) % W) - p + W ELSE ((n + 1) % W) - p
  <2> DEFINE m == (n + 1) % W
  <2>1. m \in Ticks
    BY <1>1, <1>2 DEF Ticks
  <2> HIDE DEF m
  <2> DEFINE e == m - p
  <2>2. e \in (-W)..(2 * W - 1) /\ e < W
    BY <1>1, <2>1 DEF Ticks
  <2> HIDE DEF e
  <2>3. e % W = IF e < 0 THEN e + W ELSE e
    BY <2>2, Wraps
  <2> QED
    BY <2>3 DEF e, m
<1> DEFINE d == (n - p) % W  m == (n + 1) % W
<1>5. /\ d = IF n - p < 0 THEN n - p + W ELSE n - p
      /\ m = IF n + 1 < W THEN n + 1 ELSE 0
      /\ (d + 1) % W = IF d + 1 < W THEN d + 1 ELSE 0
      /\ (m - p) % W = IF m - p < 0 THEN m - p + W ELSE m - p
  BY <1>2, <1>3, <1>4
<1> HIDE DEF d, m
<1>6. d \in Ticks /\ m \in Ticks
  BY <1>1, <1>5 DEF Ticks
<1>7. (m - p) % W = (d + 1) % W
  BY <1>1, <1>5, <1>6 DEF Ticks
<1> QED
  BY <1>2, <1>6, <1>7 DEF d, m

(* The branch of the code for a counter that went round agrees with the    *)
(* other one: both are the difference modulo the width.                    *)
LEMMA ElapsedIs ==
  ASSUME TimebaseAssumption, NEW now \in Ticks, NEW start \in Ticks
  PROVE  Elapsed(now, start) = (now - start) % W /\ Elapsed(now, start) \in Ticks
<1>1. W \in Nat \ {0}
  BY DEF TimebaseAssumption
<1>2. (now - start) % W = IF now < start THEN now - start + W ELSE now - start
  BY <1>1, Wraps DEF Ticks
<1>3. CASE now > start
  BY <1>1, <1>2, <1>3 DEF Elapsed, Ticks
<1>4. CASE now <= start
  <2> DEFINE e == now + (W - 1 - start) + 1
  <2>1. e \in 1..W /\ e = now - start + W /\ e \in (-W)..(2 * W - 1)
    BY <1>1, <1>4 DEF Ticks
  <2>2. Elapsed(now, start) = e % W
    BY <1>4 DEF Elapsed, Ticks
  <2> HIDE DEF e
  <2>3. e % W = IF e < W THEN e ELSE 0
    BY <1>1, <2>1, Wraps
  <2> QED
    BY <1>1, <1>2, <1>4, <2>1, <2>2, <2>3 DEF Ticks
<1> QED
  BY <1>3, <1>4 DEF Ticks

LEMMA InitTimebase == TimebaseAssumption /\ Init => TimebaseInv
<1> SUFFICES ASSUME TimebaseAssumption, Init PROVE TimebaseInv
  OBVIOUS
<1>1. 0 \in Ticks /\ 0 \in 0..W
  BY DEF TimebaseAssumption, Ticks
<1> QED
  BY <1>1 DEF Init, TimebaseInv, Timebase, PressKnown, TimeKept, WaitCounted

(* A tick of the counter. *)
LEMMA TickedKeeps ==
  ASSUME TimebaseAssumption, TimebaseInv
  PROVE  /\ Ticked(tb) \in Timebase /\ PressKnown(Ticked(tb))
         /\ TimeKept(Ticked(tb)) /\ WaitCounted(Ticked(tb))
         /\ Ticked(tb).pc = tb.pc
<1> DEFINE s == (tb.systick + 1) % W
           w == IF tb.pc = "wait" /\ tb.waited < W THEN tb.waited + 1 ELSE tb.waited
           h == IF tb.was THEN (tb.held + 1) % W ELSE tb.held
<1>1. /\ tb \in Timebase /\ W \in Nat \ {0}
      /\ tb.systick \in Ticks /\ tb.start \in Ticks /\ tb.since \in Ticks
      /\ tb.held \in Ticks /\ tb.waited \in 0..W
  BY DEF TimebaseInv, Timebase, TimebaseAssumption
<1>2. /\ s \in Ticks /\ (tb.held + 1) % W \in Ticks
      /\ (s - tb.start) % W = (((tb.systick - tb.start) % W) + 1) % W
      /\ (s - tb.since) % W = (((tb.systick - tb.since) % W) + 1) % W
  BY <1>1, TickElapses
<1>3. w \in 0..W /\ h \in Ticks
  BY <1>1, <1>2
<1>4. Ticked(tb) = [tb EXCEPT !.systick = s, !.waited = w, !.held = h]
  BY DEF Ticked
<1>5. w < W /\ tb.pc = "wait" => /\ tb.waited < W /\ w = tb.waited + 1
                                 /\ w = (tb.waited + 1) % W
  <2> SUFFICES ASSUME w < W, tb.pc = "wait"
      PROVE  tb.waited < W /\ w = tb.waited + 1 /\ w = (tb.waited + 1) % W
    OBVIOUS
  <2>1. tb.waited < W /\ w = tb.waited + 1
    BY <1>1
  <2>2. w \in (-W)..(2 * W - 1)
    BY <1>1, <1>3
  <2> HIDE DEF w
  <2>3. w % W = w
    BY <1>3, <2>2, Wraps
  <2> QED
    BY <2>1, <2>3
<1>6. tb.was => h = (s - tb.start) % W
  BY <1>2 DEF TimebaseInv, PressKnown
<1>7. w < W /\ tb.pc = "wait" => (s - tb.since) % W = w
  BY <1>2, <1>5 DEF TimebaseInv, WaitCounted
<1> HIDE DEF s, w, h
<1>8. Ticked(tb) \in Timebase
  BY <1>1, <1>2, <1>3, <1>4 DEF Timebase
<1>9. /\ Ticked(tb).systick = s /\ Ticked(tb).waited = w /\ Ticked(tb).held = h
      /\ Ticked(tb).pc = tb.pc /\ Ticked(tb).was = tb.was
      /\ Ticked(tb).pressed = tb.pressed /\ Ticked(tb).start = tb.start
      /\ Ticked(tb).since = tb.since /\ Ticked(tb).delay = tb.delay
      /\ Ticked(tb).time = tb.time
      /\ Ticked(tb).unread = tb.unread /\ Ticked(tb).last = tb.last
      /\ Ticked(tb).raced = tb.raced /\ Ticked(tb).got = tb.got
  BY <1>1, <1>4 DEF Timebase
<1> QED
  BY <1>6, <1>7, <1>8, <1>9 DEF TimebaseInv, PressKnown, TimeKept, WaitCounted

(* A look at the button, at any time of the thread. *)
LEMMA SampledKeeps ==
  ASSUME TimebaseAssumption, NEW t \in Timebase,
         PressKnown(t), TimeKept(t), WaitCounted(t)
  PROVE  /\ Sampled(t) \in Timebase /\ PressKnown(Sampled(t))
         /\ TimeKept(Sampled(t)) /\ WaitCounted(Sampled(t))
         /\ Sampled(t).pc = t.pc
<1>1. /\ t.systick \in Ticks /\ t.start \in Ticks /\ t.was \in BOOLEAN
      /\ t.pressed = t.was /\ t.down \in BOOLEAN /\ 0 \in Ticks
      /\ t.held \in Ticks
  BY DEF Timebase, PressKnown, TimebaseAssumption, Ticks
<1>2. CASE t.down /\ ~t.was
  <2>1. Sampled(t) = [t EXCEPT !.start = t.systick, !.pressed = TRUE,
                               !.was = TRUE, !.held = 0]
    BY <1>1, <1>2 DEF Sampled, CheckButtons, Timebase
  <2>2. (t.systick - t.systick) % W = 0
    BY <1>1, TickElapses
  <2>3. Sampled(t) \in Timebase
    BY <1>1, <2>1 DEF Timebase
  <2>4. /\ Sampled(t).pc = t.pc /\ Sampled(t).systick = t.systick
        /\ Sampled(t).waited = t.waited /\ Sampled(t).held = 0
        /\ Sampled(t).was = TRUE /\ Sampled(t).pressed = TRUE
        /\ Sampled(t).start = t.systick /\ Sampled(t).since = t.since
        /\ Sampled(t).delay = t.delay
        /\ Sampled(t).time = t.time /\ Sampled(t).unread = t.unread
        /\ Sampled(t).last = t.last /\ Sampled(t).raced = t.raced
        /\ Sampled(t).got = t.got
    BY <2>1 DEF Timebase
  <2> QED
    BY <2>2, <2>3, <2>4 DEF PressKnown, TimeKept, WaitCounted
<1>3. CASE ~t.down /\ t.was
  <2> DEFINE e == Elapsed(t.systick, t.start)
             r == t.raced \/ t.pc = "read"
  <2>1. Sampled(t) = [t EXCEPT !.time = e, !.pressed = FALSE, !.was = FALSE,
                               !.held = 0, !.last = t.held, !.unread = TRUE,
                               !.raced = r]
    BY <1>1, <1>3 DEF Sampled, CheckButtons, Timebase
  <2>2. e = t.held /\ e \in Ticks /\ r \in BOOLEAN
    BY <1>1, <1>3, ElapsedIs DEF PressKnown, Timebase
  <2>3. t.pc = "read" => r
    OBVIOUS
  <2> HIDE DEF e, r
  <2>4. Sampled(t) \in Timebase
    BY <1>1, <2>1, <2>2 DEF Timebase
  <2>5. /\ Sampled(t).pc = t.pc /\ Sampled(t).systick = t.systick
        /\ Sampled(t).waited = t.waited /\ Sampled(t).since = t.since
        /\ Sampled(t).delay = t.delay
        /\ Sampled(t).was = FALSE /\ Sampled(t).pressed = FALSE
        /\ Sampled(t).time = e /\ Sampled(t).unread = TRUE
        /\ Sampled(t).last = t.held /\ Sampled(t).raced = r
    BY <2>1 DEF Timebase
  <2> QED
    BY <2>2, <2>3, <2>4, <2>5 DEF PressKnown, TimeKept, WaitCounted
<1>4. CASE t.down = t.was
  <2>1. /\ Sampled(t) \in Timebase /\ Sampled(t).pc = t.pc
        /\ Sampled(t).systick = t.systick /\ Sampled(t).waited = t.waited
        /\ Sampled(t).held = t.held /\ Sampled(t).was = t.was
        /\ Sampled(t).pressed = t.pressed /\ Sampled(t).start = t.start
        /\ Sampled(t).since = t.since /\ Sampled(t).time = t.time
        /\ Sampled(t).delay = t.delay
        /\ Sampled(t).unread = t.unread /\ Sampled(t).last = t.last
        /\ Sampled(t).raced = t.raced /\ Sampled(t).got = t.got
    BY <1>1, <1>4 DEF Sampled, CheckButtons, Timebase
  <2> QED
    BY <2>1 DEF PressKnown, TimeKept, WaitCounted
<1> QED
  BY <1>1, <1>2, <1>3, <1>4

(* Neither the counter nor the button touches the thread; and nothing that *)
(* is known of a press that has ended, or of the counter, depends on the   *)
(* button.                                                                 *)
LEMMA OutsideKeeps ==
  ASSUME TimebaseAssumption, TimebaseInv, TimerInterrupt \/ ButtonMoves
  PROVE  TimebaseInv' /\ tb'.pc = tb.pc
<1>1. CASE TimerInterrupt
  <2>1. tb' = Sampled(Ticked(tb))
    BY <1>1 DEF TimerInterrupt
  <2>2. /\ Ticked(tb) \in Timebase /\ PressKnown(Ticked(tb))
        /\ TimeKept(Ticked(tb)) /\ WaitCounted(Ticked(tb))
        /\ Ticked(tb).pc = tb.pc
    BY TickedKeeps
  <2> DEFINE t == Ticked(tb)
  <2> HIDE DEF t
  <2>3. /\ Sampled(t) \in Timebase /\ PressKnown(Sampled(t))
        /\ TimeKept(Sampled(t)) /\ WaitCounted(Sampled(t))
        /\ Sampled(t).pc = t.pc
    BY <2>2, SampledKeeps DEF t
  <2> QED
    BY <2>1, <2>2, <2>3 DEF t, TimebaseInv, PressKnown, TimeKept, WaitCounted
<1>2. CASE ButtonMoves
  <2>1. tb \in Timebase /\ tb' = [tb EXCEPT !.down = ~@]
    BY <1>2 DEF ButtonMoves, TimebaseInv
  <2>2. tb' \in Timebase
    BY <2>1 DEF Timebase
  <2>3. /\ tb'.systick = tb.systick /\ tb'.waited = tb.waited
        /\ tb'.held = tb.held /\ tb'.pc = tb.pc /\ tb'.was = tb.was
        /\ tb'.pressed = tb.pressed /\ tb'.start = tb.start
        /\ tb'.since = tb.since /\ tb'.delay = tb.delay
        /\ tb'.time = tb.time
        /\ tb'.unread = tb.unread /\ tb'.last = tb.last
        /\ tb'.raced = tb.raced /\ tb'.got = tb.got
    BY <2>1 DEF Timebase
  <2> QED
    BY <2>2, <2>3 DEF TimebaseInv, PressKnown, TimeKept, WaitCounted
<1> QED
  BY <1>1, <1>2

LEMMA ThreadKeeps ==
  ASSUME TimebaseAssumption, TimebaseInv, ReadTime \/ ClearTime \/ WaitEnds
  PROVE  TimebaseInv'
<1>1. /\ tb \in Timebase /\ 0 \in Ticks /\ 0 \in 0..W
      /\ PressKnown(tb) /\ TimeKept(tb) /\ WaitCounted(tb)
  BY DEF TimebaseInv, Ticks, TimebaseAssumption
<1>2. CASE ReadTime
  <2>1. tb' = [tb EXCEPT !.pc = "read", !.got = tb.time]
    BY <1>2 DEF ReadTime
  <2>2. tb' \in Timebase
    BY <1>1, <2>1 DEF Timebase
  <2>3. /\ tb'.pc = "read" /\ tb'.got = tb.time /\ tb'.time = tb.time
        /\ tb'.systick = tb.systick /\ tb'.held = tb.held /\ tb'.was = tb.was
        /\ tb'.pressed = tb.pressed /\ tb'.start = tb.start
        /\ tb'.unread = tb.unread /\ tb'.last = tb.last
    BY <1>1, <2>1 DEF Timebase
  <2> QED
    BY <1>1, <2>2, <2>3 DEF TimebaseInv, PressKnown, TimeKept, WaitCounted
<1>3. CASE ClearTime
  <2>1. tb' = [tb EXCEPT !.pc = "idle", !.got = 0, !.time = 0,
                         !.last = 0, !.unread = FALSE, !.raced = FALSE]
    BY <1>3 DEF ClearTime
  <2>2. tb' \in Timebase
    BY <1>1, <2>1 DEF Timebase
  <2>3. /\ tb'.pc = "idle" /\ tb'.time = 0 /\ tb'.unread = FALSE
        /\ tb'.systick = tb.systick /\ tb'.held = tb.held /\ tb'.was = tb.was
        /\ tb'.pressed = tb.pressed /\ tb'.start = tb.start
    BY <1>1, <2>1 DEF Timebase
  <2> QED
    BY <1>1, <2>2, <2>3 DEF TimebaseInv, PressKnown, TimeKept, WaitCounted
<1>4. CASE WaitEnds
  <2>1. tb' = [tb EXCEPT !.pc = "idle", !.delay = 0, !.since = 0, !.waited = 0]
    BY <1>4 DEF WaitEnds
  <2>2. tb' \in Timebase
    BY <1>1, <2>1 DEF Timebase
  <2>3. /\ tb'.pc = "idle" /\ tb'.time = tb.time /\ tb'.unread = tb.unread
        /\ tb'.systick = tb.systick /\ tb'.held = tb.held /\ tb'.was = tb.was
        /\ tb'.pressed = tb.pressed /\ tb'.start = tb.start /\ tb'.last = tb.last
    BY <1>1, <2>1 DEF Timebase
  <2> QED
    BY <1>1, <2>2, <2>3 DEF TimebaseInv, PressKnown, TimeKept, WaitCounted
<1> QED
  BY <1>2, <1>3, <1>4

LEMMA BusyWaitKeeps ==
  ASSUME TimebaseAssumption, TimebaseInv, BusyWait PROVE TimebaseInv'
<1>1. PICK d \in Delays \ {0} :
        tb' = [tb EXCEPT !.pc = "wait", !.delay = d, !.since = tb.systick, !.waited = 0]
  BY Zenon DEF BusyWait
<1>2. /\ tb \in Timebase /\ 0 \in 0..W /\ tb.systick \in Ticks
      /\ PressKnown(tb) /\ TimeKept(tb)
  BY DEF TimebaseInv, Timebase, TimebaseAssumption
<1>3. tb' \in Timebase
  BY <1>1, <1>2 DEF Timebase
<1>4. /\ tb'.pc = "wait" /\ tb'.since = tb.systick /\ tb'.waited = 0 /\ tb'.delay = d
      /\ tb'.time = tb.time /\ tb'.unread = tb.unread
      /\ tb'.systick = tb.systick /\ tb'.held = tb.held /\ tb'.was = tb.was
      /\ tb'.pressed = tb.pressed /\ tb'.start = tb.start /\ tb'.last = tb.last
  BY <1>1, <1>2 DEF Timebase
<1>5. (tb.systick - tb.systick) % W = 0
  BY <1>2, TickElapses
<1> QED
  BY <1>2, <1>3, <1>4, <1>5 DEF TimebaseInv, PressKnown, TimeKept, WaitCounted

LEMMA NextTimebase ==
  ASSUME TimebaseAssumption, TimebaseInv, [Next]_tb PROVE TimebaseInv'
<1>1. CASE UNCHANGED tb
  BY <1>1 DEF TimebaseInv, PressKnown, TimeKept, WaitCounted
<1> QED
  BY <1>1, OutsideKeeps, ThreadKeeps, BusyWaitKeeps DEF Next

LEMMA AlwaysTimebase == ASSUME TimebaseAssumption PROVE Spec => []TimebaseInv
<1>1. Init => TimebaseInv
  BY InitTimebase
<1>2. TimebaseInv /\ [Next]_tb => TimebaseInv'
  BY NextTimebase
<1> QED
  BY <1>1, <1>2, PTL DEF Spec

(* The time main reads is that of the last press that ended and was not    *)
(* handed over, wherever the press crosses the wrap of the counter.        *)
THEOREM TimeIsOfLastPress == ASSUME TimebaseAssumption PROVE Spec => []LastPressRead
<1>1. TimebaseInv => LastPressRead
  BY DEF TimebaseInv, TimeKept, LastPressRead
<1> QED
  BY <1>1, AlwaysTimebase, PTL

(* A wait has seen one tick more than its milliseconds when it ends: for   *)
(* every delay but the largest number there is, whose successor is 0.      *)
THEOREM WaitsAreLongEnough ==
  ASSUME TimebaseAssumption PROVE Spec => WaitsLongEnough
<1>1. ASSUME TimebaseInv, Next, tb.pc = "wait", tb'.pc = "idle"
      PROVE  tb.waited > tb.delay
  <2>1. WaitEnds
    BY <1>1, OutsideKeeps DEF Next, ReadTime, ClearTime, BusyWait
  <2>2. /\ tb.delay \in 0..(W - 2) /\ tb.waited \in 0..W /\ W \in Nat \ {0}
        /\ tb.waited < W => (tb.systick - tb.since) % W = tb.waited
        /\ (tb.systick - tb.since) % W >= (tb.delay + 1) % W
    BY <1>1, <2>1 DEF TimebaseInv, Timebase, WaitCounted, WaitEnds, WaitOver,
                      TimebaseAssumption
  <2>3. (tb.delay + 1) % W = tb.delay + 1
    BY <2>2, Wraps
  <2> QED
    BY <2>2, <2>3
<1>2. TimebaseInv /\ [Next]_tb =>
        [tb.pc = "wait" /\ tb'.pc = "idle" => tb.waited > tb.delay]_tb
  BY <1>1
<1> QED
  BY <1>2, AlwaysTimebase, PTL DEF Spec, WaitsLongEnough
================================================================================
