------------------------------ MODULE Stm32Button ------------------------------
(***************************************************************************)
(* The button of the STM32WB55 board (HAL_Driver/stm32wb55/src/            *)
(* hal_buttons.c): an interrupt at each edge of the pin, whose handler     *)
(* reads the level first and clears the pending flag last, and the         *)
(* functions of bmlite_hal.h that main and platform.c poll.                *)
(*                                                                         *)
(* Edges come at any time, bounces included, and may be served as one or   *)
(* fall into the handler.  The millisecond counter does not move while an  *)
(* edge waits for its handler, which the core enters at once.              *)
(***************************************************************************)
EXTENDS Integers

CONSTANT W    \* the counter of HAL_GetTick is modulo W (2^32 in the code)

(* Assumed of the constants; MCHal checks it. *)
WidthAssumption == W \in Nat \ {0}

VARIABLE
  btn   \* a record:
        \*   down       the button is pressed (the pin is low)
        \*   pending    the edge is flagged in the EXTI
        \*   inHandler  the handler has read the pin, the flag is still set
        \*   now        HAL_GetTick
        \*   pressOn    press_on of the handler
        \*   time       button_press_time
        \*   isPressed  button_is_pressed
        \*   held       ghost: how long the button is or was pressed last
        \*   read       ghost: the time of that press was handed over
        \*   blurred    ghost: edges were served as one, or one was missed,
        \*              since the handler last saw the button down

Init ==
  btn = [down |-> FALSE, pending |-> FALSE, inHandler |-> FALSE, now |-> 0,
         pressOn |-> 0, time |-> 0, isPressed |-> FALSE, held |-> 0,
         read |-> TRUE, blurred |-> FALSE]

Quiet == ~btn.pending /\ ~btn.inHandler

(* The pin changes its level (external). *)
Edge ==
  btn' = [btn EXCEPT !.down = ~@, !.pending = TRUE, !.read = FALSE,
                     !.held = IF btn.down THEN @ ELSE 0,
                     !.blurred = @ \/ btn.pending \/ btn.inHandler]

(* SysTick_Handler. *)
Tick ==
  /\ Quiet
  /\ btn' = [btn EXCEPT !.now = (@ + 1) % W,
                        !.held = IF btn.down THEN (@ + 1) % W ELSE @]

(* Mutant of PressTime: a counter that passed W is taken for no time. *)
PressTimeNoWrap == IF btn.now > btn.pressOn THEN btn.now - btn.pressOn ELSE 0

(* HAL_GetTick() - press_on *)
PressTime == (btn.now - btn.pressOn) % W

(* Mutant of ReadPin: the flag for the level is not taken back. *)
ReadPinPressOnly ==
  /\ btn.pending /\ ~btn.inHandler
  /\ \/ /\ btn.down
        /\ btn' = [btn EXCEPT !.inHandler = TRUE, !.blurred = FALSE,
                              !.pressOn = btn.now, !.time = 0, !.isPressed = TRUE]
     \/ /\ ~btn.down
        /\ btn' = [btn EXCEPT !.inHandler = TRUE, !.time = PressTime]

(* DEMO_BUTTON_IRQ_HANDLER up to the flag. *)
ReadPin ==
  /\ btn.pending /\ ~btn.inHandler
  /\ \/ /\ btn.down
        /\ btn' = [btn EXCEPT !.inHandler = TRUE, !.blurred = FALSE,
                              !.pressOn = btn.now, !.time = 0, !.isPressed = TRUE]
     \/ /\ ~btn.down
        /\ btn' = [btn EXCEPT !.inHandler = TRUE,
                              !.time = PressTime, !.isPressed = FALSE]

ClearFlag ==
  /\ btn.inHandler
  /\ btn' = [btn EXCEPT !.inHandler = FALSE, !.pending = FALSE]

(* hal_get_button_press_time, with interrupts disabled.  A time of 0, read *)
(* while the button is down, hands nothing over.                           *)
GetPressTime ==
  /\ Quiet
  /\ btn' = [btn EXCEPT !.time = 0, !.read = @ \/ ~btn.down]

Next == Edge \/ Tick \/ ReadPin \/ ClearFlag \/ GetPressTime

Spec == Init /\ [][Next]_btn

--------------------------------------------------------------------------------
(* Properties. *)

TypeOK ==
  /\ {btn.down, btn.pending, btn.inHandler, btn.isPressed, btn.read, btn.blurred}
       \subseteq BOOLEAN
  /\ {btn.now, btn.pressOn, btn.time, btn.held} \subseteq 0..(W - 1)

(* What platform.c polls to break a wait is the state of the button, once  *)
(* its edges were served one by one since it was last seen down.  When an  *)
(* edge falls into the handler, its flag is cleared with the first one's   *)
(* and button_is_pressed may stay set: every wait is then broken until the *)
(* button is used again (hal_buttons.c 72-86).                             *)
KnowsLevel == (Quiet /\ ~btn.blurred) => btn.isPressed = btn.down

(* The time handed to main is how long the button was pressed last, over   *)
(* the wrap of the counter too (README.md line 75).  It is not, when a     *)
(* press and its release are served as one: the time since an older press  *)
(* comes out, which main may take for the 5 s that erase all templates.    *)
TimeOfPress ==
  (Quiet /\ ~btn.blurred) => btn.time = IF btn.down \/ btn.read THEN 0 ELSE btn.held
================================================================================
