------------------------------ MODULE NrfTimebase ------------------------------
(***************************************************************************)
(* The time base of the nRF52840 (HAL_Driver/nRF52840/src/hal_timebase.c): *)
(* the timer's handler, which counts milliseconds and looks at the button, *)
(* hal_timebase_busy_wait, and the functions through which main and        *)
(* platform.c read the button.                                             *)
(***************************************************************************)
EXTENDS Integers

CONSTANTS
  W,          \* the counter is modulo W (2^32 in the code)
  Delays      \* parameters of hal_timebase_busy_wait

(* Assumed of the constants; MCHal checks it. *)
TimebaseAssumption == W \in Nat \ {0} /\ Delays \subseteq 0..(W - 2)

VARIABLE
  tb   \* a record:
       \*   systick    the counter
       \*   down       the button is pressed
       \*   pressed    btn_pressed
       \*   start      btn_press_start
       \*   time       button_pressed_time
       \*   pc         "idle", "read" in hal_get_button_press_time between its
       \*              two statements, "wait" in hal_timebase_busy_wait
       \*   got        what the former has read
       \*   delay      parameter of the wait
       \*   since      start of the wait
       \*   waited     ghost: ticks since then, W for more
       \*   was        ghost: check_buttons saw the button pressed last time
       \*   held       ghost: ticks since it saw it pressed first
       \*   last       ghost: ticks of the last press that it saw end
       \*   unread     ghost: that press was not handed over
       \*   raced      ghost: it ended while the time was being read

Init ==
  tb = [systick |-> 0, down |-> FALSE, pressed |-> FALSE, start |-> 0,
        time |-> 0, pc |-> "idle", got |-> 0, delay |-> 0, since |-> 0,
        waited |-> 0, was |-> FALSE, held |-> 0, last |-> 0,
        unread |-> FALSE, raced |-> FALSE]

--------------------------------------------------------------------------------
(* Counter and button. *)

(* Mutant of Elapsed: the complement is taken for the negative. *)
ElapsedOneOff(now, start) ==
  IF now > start THEN now - start ELSE (now + (W - 1 - start)) % W

(* button_pressed_time; ~start + 1 in the second case is -start. *)
Elapsed(now, start) ==
  IF now > start THEN now - start ELSE (now + (W - 1 - start) + 1) % W

CheckButtons(t) ==
  CASE t.down /\ ~t.pressed -> [t EXCEPT !.start = t.systick, !.pressed = TRUE]
    [] ~t.down /\ t.pressed -> [t EXCEPT !.time = Elapsed(t.systick, t.start),
                                              !.pressed = FALSE]
    [] OTHER -> t

(* check_buttons, and what the ghosts make of it. *)
Sampled(t) ==
  LET begins == t.down /\ ~t.was
      ends == ~t.down /\ t.was
  IN  [CheckButtons(t) EXCEPT !.was = t.down,
         !.held = IF begins \/ ends THEN 0 ELSE @,
         !.last = IF ends THEN t.held ELSE @,
         !.unread = @ \/ ends,
         !.raced = @ \/ (ends /\ t.pc = "read")]

Ticked(t) ==
  [t EXCEPT !.systick = (@ + 1) % W,
            !.waited = IF t.pc = "wait" /\ @ < W THEN @ + 1 ELSE @,
            !.held = IF t.was THEN (@ + 1) % W ELSE @]

(* timer_event_handler. *)
TimerInterrupt == tb' = Sampled(Ticked(tb))

(* The button is pressed or released. *)
ButtonMoves == tb' = [tb EXCEPT !.down = ~@]

--------------------------------------------------------------------------------
(* The thread. *)

(* hal_get_button_press_time, its first and its other statements. *)
ReadTime ==
  /\ tb.pc = "idle"
  /\ tb' = [tb EXCEPT !.pc = "read", !.got = tb.time]

ClearTime ==
  /\ tb.pc = "read"
  /\ tb' = [tb EXCEPT !.pc = "idle", !.got = 0, !.time = 0,
                      !.last = 0, !.unread = FALSE, !.raced = FALSE]

(* hal_timebase_busy_wait; a wait of 0 is none. *)
BusyWait ==
  /\ tb.pc = "idle"
  /\ \E d \in Delays \ {0} :
       tb' = [tb EXCEPT !.pc = "wait", !.delay = d, !.since = tb.systick, !.waited = 0]

(* Mutant of WaitOver: the running millisecond is counted as a whole one.  *)
WaitOverShort == (tb.systick - tb.since) % W >= tb.delay

(* delay_internal is delay + 1. *)
WaitOver == (tb.systick - tb.since) % W >= (tb.delay + 1) % W

WaitEnds ==
  /\ tb.pc = "wait"
  /\ WaitOver
  /\ tb' = [tb EXCEPT !.pc = "idle", !.delay = 0, !.since = 0, !.waited = 0]

Next ==
  \/ TimerInterrupt \/ ButtonMoves
  \/ ReadTime \/ ClearTime \/ BusyWait \/ WaitEnds

Spec == Init /\ [][Next]_tb

--------------------------------------------------------------------------------
(* Properties. *)

TypeOK ==
  /\ {tb.systick, tb.start, tb.time, tb.got, tb.since, tb.held, tb.last}
       \subseteq 0..(W - 1)
  /\ tb.delay \in Delays \cup {0} /\ tb.waited \in 0..W
  /\ {tb.down, tb.pressed, tb.was, tb.unread, tb.raced} \subseteq BOOLEAN
  /\ tb.pc \in {"idle", "read", "wait"}

(* The time main reads is that of the last press that ended, over the wrap *)
(* of the counter too, or 0 when it was handed over before (README.md line *)
(* 75, hal_timebase.c 102-126).  Only a press that ends between the read   *)
(* and the clear at hal_timebase.c 123-124 is lost.                        *)
LastPressRead ==
  /\ tb.pc # "read" => tb.time = IF tb.unread THEN tb.last ELSE 0
  /\ tb.pc = "read" /\ ~tb.raced => tb.got = tb.time

(* A wait of d ms has seen d + 1 ticks when it ends, of which the first    *)
(* may come at once: it takes no less than d ms, over the wrap of the      *)
(* counter too (bmlite_hal.h lines 114-120, hal_timebase.c 83-95).         *)
WaitsLongEnough ==
  [][tb.pc = "wait" /\ tb'.pc = "idle" => tb.waited > tb.delay]_tb
================================================================================
