------------------------------ MODULE SketchButton ------------------------------
(***************************************************************************)
(* The button of the sketch in the Arduino library (bmlite_demo.ino):      *)
(* check_buttons, which the core calls at every edge of the pin, and       *)
(* hal_get_button_press_time.  Presses are measured with micros(); the     *)
(* waits of the sketch use another counter, millis(), and do not meet      *)
(* them.                                                                   *)
(***************************************************************************)
EXTENDS Integers

CONSTANT W   \* micros() is modulo W (2^32 in the code)

(* Assumed of it; MCHal checks it. *)
SketchAssumption == W \in Nat \ {0}

VARIABLE
  sk   \* a record:
       \*   micros     the counter
       \*   down       the button is pressed
       \*   pressed    btn_pressed
       \*   start      btn_press_start
       \*   time       button_pressed_time
       \*   pc         "idle", or "read" in hal_get_button_press_time between
       \*              its first two statements

Init ==
  sk = [micros |-> 0, down |-> FALSE, pressed |-> FALSE, start |-> 0,
        time |-> 0, pc |-> "idle"]

Later(t) == (t + 1) % W

CounterMoves == sk' = [sk EXCEPT !.micros = Later(@)]

(* button_pressed_time: now and then are the two readings of micros(). *)
Elapsed(now, then, start) ==
  IF now > start THEN (then - start) % W ELSE (then + (W - 1 - start) + 1) % W

(* The pin has its pull-up: the button makes it LOW. *)
PinIsHigh(down) == ~down

(* The button is pressed or released, and check_buttons runs.  Another     *)
(* microsecond may pass between its two looks at the counter.              *)
EdgeInterrupt ==
  LET down == ~sk.down
  IN  \/ /\ PinIsHigh(down) /\ ~sk.pressed
         /\ sk' = [sk EXCEPT !.down = down, !.pressed = TRUE, !.start = sk.micros]
      \/ /\ ~PinIsHigh(down) /\ sk.pressed
         /\ \E then \in {sk.micros, Later(sk.micros)} :
              sk' = [sk EXCEPT !.down = down, !.pressed = FALSE, !.micros = then,
                               !.time = Elapsed(sk.micros, then, sk.start)]
      \/ /\ PinIsHigh(down) = sk.pressed
         /\ sk' = [sk EXCEPT !.down = down]

ReadTime == sk.pc = "idle" /\ sk' = [sk EXCEPT !.pc = "read"]

ClearTime == sk.pc = "read" /\ sk' = [sk EXCEPT !.pc = "idle", !.time = 0]

Next == CounterMoves \/ EdgeInterrupt \/ ReadTime \/ ClearTime

Spec == Init /\ [][Next]_sk

--------------------------------------------------------------------------------
(* Properties. *)

TypeOK ==
  /\ {sk.micros, sk.start, sk.time} \subseteq 0..(W - 1)
  /\ {sk.down, sk.pressed} \subseteq BOOLEAN
  /\ sk.pc \in {"idle", "read"}

(* A press time is set when the button is released (the comment at         *)
(* bmlite_demo.ino:308).                                                   *)
SetAtRelease ==
  [][sk'.time \notin {0, sk.time} => ~sk'.down]_sk
================================================================================
