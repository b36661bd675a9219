------------------------------ MODULE EmbeddedApp ------------------------------
(***************************************************************************)
(* The embedded example application (BMLite_examples/embedded_app/src/     *)
(* main.c) on top of the sensor functions of BMLite_sdk/src/bmlite_if.c:   *)
(* bep_enroll_finger, bep_identify_finger, bep_capture and                 *)
(* sensor_wait_finger_not_present, with the button that starts them and    *)
(* the finger that comes and goes while they wait.                         *)
(*                                                                         *)
(* A call of bmlite_tranceive is one step here.  What HcpTransport shows   *)
(* of it for SPI is used as follows: while every error was followed by a   *)
(* reset of the module ("insync") a call that returns OK has the answer of *)
(* its own command, but for an answer whose body could not be read, which  *)
(* the code does not notice; after that, or after an error without a       *)
(* reset, nothing is known of the next answers.  Answers are far smaller   *)
(* than the 5120 bytes of hcp_data_buffer, so that NO_MEMORY does not      *)
(* occur.  The sensor module is external, modelled from how the code uses  *)
(* it, and free to refuse any command but VERSION; it keeps its templates  *)
(* over a reset and nothing else.                                          *)
(***************************************************************************)
EXTENDS Integers

CONSTANTS
  Samples,      \* images the module wants for one template
  MaxAttempts,  \* MAX_CAPTURE_ATTEMPTS (15 in the code)
  MaxShots,     \* MAX_SINGLE_CAPTURE_ATTEMPTS (3 in the code)
  Hal,          \* "nrf" or "stm32": what hal_check_button_pressed returns
  MaxPresses,   \* bound: button presses of one behaviour
  MaxFaults,    \* bound: exchanges that fail for no reason of their own
  MaxReboots    \* bound: power cycles of the host and the module

ASSUME AppAssumption ==
  /\ Samples \in Nat \ {0}
  /\ MaxAttempts \in Nat \ {0} /\ MaxShots \in Nat \ {0}
  /\ Hal \in {"nrf", "stm32"}
  /\ MaxPresses \in Nat /\ MaxFaults \in Nat /\ MaxReboots \in Nat

VARIABLES
  pc,          \* the call or loop the application is at
  caller,      \* who called bep_capture or sensor_wait_finger_not_present
  attempt,     \* i of bep_enroll_finger
  shot,        \* i of bep_capture
  enrollDone,  \* enroll_done of bep_enroll_finger
  opened,      \* ghost: ENROLL START succeeded, ENROLL FINISH was not sent yet
  match,       \* match of main
  currentId,   \* current_id of main
  rxTimeout,   \* chain->phy_rx_timeout
  prevTimeout  \* prev_timeout of bep_capture and sensor_wait_...

VARIABLES
  held,        \* the button is down
  pressTime,   \* button_pressed_time: "none", "tap" (< 200 ms), "short", "long"
  finger,      \* a finger lies on the sensor
  module,      \* the sensor module, a record (see ModuleTypes)
  insync,      \* no read has failed since the module was last reset
  enrolls,     \* ghost: enrollments the application has started
  doubtful,    \* ghost: current_id may not tell the ids in use (reboot, failed erase)
  presses, faults, reboots    \* how much of the bounds is used

enrollVars == <<attempt, enrollDone, opened>>
captureVars == <<caller, shot, rxTimeout, prevTimeout>>
mainVars == <<match, currentId, enrolls, doubtful>>
buttonVars == <<held, pressTime, presses>>
linkVars == <<module, insync, faults>>
userVars == <<buttonVars, finger>>
vars == <<pc, enrollVars, captureVars, mainVars, linkVars, userVars, reboots>>

ConfigTimeout == 2000
CaptureTimeout == 3000
Ids == 0..MaxPresses

Closed == Samples + 1    \* module.remaining when no enrollment is open

--------------------------------------------------------------------------------
(* The sensor module (external). *)

EmptyStore == [id \in Ids |-> 0]
PoweredUp(store) ==
  [image |-> "none", features |-> "none", remaining |-> Closed, ram |-> 0,
   store |-> store]

Answer(b, a, m) == [bep |-> b, arg |-> a, module |-> m]
Refused(a) == Answer("FAIL", a, module)

(* What running command c can do to the module, with the answer it gives.  *)
Effects(c) ==
  CASE c = "version" -> {Answer("OK", "none", module)}
    [] c = "capture" ->
         {Refused("none")} \cup
         (IF finger THEN {Answer("OK", "none", [module EXCEPT !.image = "new"])} ELSE {})
    [] c = "wait"    -> {Answer("OK", "none", module), Refused("none")}
    [] c = "start"   -> {Answer("OK", "none", [module EXCEPT !.remaining = Samples]),
                         Refused("none")}
    [] c = "add"     ->
         {Refused("none"), Refused("more")} \cup
         (IF module.image # "none" /\ module.remaining \in 1..Samples
            THEN {Answer("OK", IF module.remaining = 1 THEN "zero" ELSE "more",
                         [module EXCEPT !.remaining = @ - 1])}
            ELSE {})
    [] c = "finish"  ->
         {Answer("FAIL", "none", [module EXCEPT !.remaining = Closed])} \cup
         (IF module.remaining = 0
            THEN {Answer("OK", "none", [module EXCEPT !.remaining = Closed, !.ram = enrolls])}
            ELSE {})
    [] c = "save"    ->
         {Refused("none")} \cup
         (IF module.ram # 0
            THEN {Answer("OK", "none", [module EXCEPT !.store[currentId] = module.ram])}
            ELSE {})
    [] c = "erase"   -> {Refused("none"), Answer("OK", "none", [module EXCEPT !.store = EmptyStore])}
    [] c = "extract" ->
         {Refused("none")} \cup
         (IF module.image # "none"
            THEN {Answer("OK", "none", [module EXCEPT !.features = module.image])}
            ELSE {})
    [] c = "identify" ->
         {Refused("none"), Answer("OK", "nomatch", module), Answer("OK", "none", module)} \cup
         (IF module.features # "none" /\ module.store # EmptyStore
            THEN {Answer("OK", "match", module)}
            ELSE {})

(* Has the module, which may be waiting for the finger, come to an answer? *)
Answers(c) ==
  CASE c = "capture" -> finger \/ rxTimeout # 0
    [] c = "wait"    -> ~finger
    [] OTHER         -> TRUE

--------------------------------------------------------------------------------
(* One call of bmlite_tranceive. *)

(* Mutant of ButtonBreaks: the weak default of platform.c is linked in.     *)
ButtonBreaksNever == FALSE

(* hal_check_button_pressed. *)
ButtonBreaks == IF Hal = "nrf" THEN pressTime # "none" ELSE held

(* A read fails: the button breaks it, or the link does. *)
ReadBreaks ==
  \/ ButtonBreaks /\ UNCHANGED faults
  \/ faults < MaxFaults /\ faults' = faults + 1

(* The host gives up: a read fails, or the timeout of the capture it told  *)
(* the module is also its own.                                             *)
GivesUp(c) ==
  \/ ReadBreaks
  \/ c = "capture" /\ rxTimeout # 0 /\ ~finger /\ UNCHANGED faults

(* The call returns r, with b in chain->bep_result and with argument a in  *)
(* the answer; the module may have run the command in any case.  After an  *)
(* error nothing looks at b and a before the next call sets them.  When    *)
(* the read of the answer's body breaks, the host takes the frame it sent  *)
(* for the answer, and finds no ARG_RESULT in it: OK, whatever the module  *)
(* answered.                                                               *)
Tranceive(c, r, b, a) ==
  \/ /\ insync
     /\ Answers(c)
     /\ \E o \in Effects(c) :
          r = "OK" /\ b = o.bep /\ a = o.arg /\ module' = o.module
     /\ UNCHANGED <<insync, faults>>
  \/ /\ r \in {"TIMEOUT", "IO_ERROR"} /\ b = "OK" /\ a = "none"
     /\ module' \in {module} \cup {o.module : o \in Effects(c)}
     /\ insync' = FALSE
     /\ GivesUp(c)
  \/ /\ insync
     /\ Answers(c)
     /\ r = "OK" /\ b = "OK" /\ a = "none"
     /\ module' \in {o.module : o \in Effects(c)}
     /\ insync' = FALSE
     /\ ReadBreaks
  \/ /\ ~insync
     /\ module' \in {module} \cup {o.module : o \in Effects(c)}
     /\ UNCHANGED <<insync, faults>>

CallResults == {"OK", "TIMEOUT", "IO_ERROR"}
Beps == {"OK", "FAIL"}
Args == {"none", "zero", "more", "match", "nomatch"}

--------------------------------------------------------------------------------
(* bep_capture and sensor_wait_finger_not_present. *)

(* The functions take chain->phy_rx_timeout for their own.  Local          *)
(* variables that are out of scope have their first values here.           *)
Begin(function, who, timeout) ==
  /\ pc' = function
  /\ caller' = who
  /\ prevTimeout' = rxTimeout
  /\ rxTimeout' = timeout
  /\ shot' = 1

BeginCapture ==
  /\ \/ pc = "enrollCapture" /\ Begin("capture", "enroll", CaptureTimeout) /\ UNCHANGED match
     \/ pc = "identifyStart" /\ Begin("capture", "identify", 0) /\ match' = FALSE
  /\ module' = [module EXCEPT !.image = IF @ = "new" THEN "old" ELSE @,
                              !.features = IF @ = "new" THEN "old" ELSE @]
  /\ UNCHANGED <<enrollVars, currentId, enrolls, doubtful, insync,
                 faults, userVars, reboots>>

BeginWait ==
  /\ \/ pc = "enrollWait" /\ Begin("wait", "enroll", 0)
     \/ pc = "mainWait" /\ Begin("wait", "main", 0)
  /\ UNCHANGED <<enrollVars, mainVars, linkVars, userVars, reboots>>

(* Mutant of NextAttempt: the enrollment is left without ENROLL FINISH. *)
NextAttemptNoFinish ==
  \/ attempt < MaxAttempts /\ attempt' = attempt + 1 /\ pc' = "enrollCapture"
  \/ attempt >= MaxAttempts /\ pc' = "save" /\ UNCHANGED attempt

(* Mutant of NextAttempt: the loop takes one turn too many. *)
NextAttemptOneMore ==
  \/ attempt <= MaxAttempts /\ attempt' = attempt + 1 /\ pc' = "enrollCapture"
  \/ attempt > MaxAttempts /\ pc' = "finish" /\ UNCHANGED attempt

(* The loop of bep_enroll_finger goes on, or ends after its last turn. *)
NextAttempt ==
  \/ attempt < MaxAttempts /\ attempt' = attempt + 1 /\ pc' = "enrollCapture"
  \/ attempt >= MaxAttempts /\ pc' = "finish" /\ UNCHANGED attempt

(* Mutant of ErrorStops: exit_if_err looks at the transfer only. *)
ErrorStopsTransfer(r, b) == r # "OK"

(* exit_if_err of bep_identify_finger. *)
ErrorStops(r, b) == r # "OK" \/ b # "OK"

(* bep_identify_finger returns r to main. *)
IdentifyReturns(r) ==
  pc' = CASE r \in {"TIMEOUT", "IO_ERROR"} -> "reset"
          [] r = "OK"                      -> "led"
          [] OTHER                         -> "loop"

(* bep_capture returns r: only the transfer counts for an enrollment. *)
CaptureReturns(r, b) ==
  \/ /\ caller = "enroll"
     /\ \/ r # "OK" /\ NextAttempt
        \/ r = "OK" /\ pc' = "add" /\ UNCHANGED attempt
  \/ /\ caller = "identify"
     /\ \/ ErrorStops(r, b) /\ IdentifyReturns(r)
        \/ ~ErrorStops(r, b) /\ pc' = "extract"
     /\ UNCHANGED attempt

(* Mutant of CaptureEnds: after its last attempt the loop of bep_capture   *)
(* returns at once, past the line that puts phy_rx_timeout back.           *)
CaptureEndsEarly(r, b) ==
  /\ CaptureReturns(r, b)
  /\ rxTimeout' = IF r # "OK" THEN rxTimeout ELSE prevTimeout

(* The end of bep_capture. *)
CaptureEnds(r, b) == CaptureReturns(r, b) /\ rxTimeout' = prevTimeout

(* One turn of the loop of bep_capture. *)
Capture ==
  /\ pc = "capture"
  /\ \E r \in CallResults, b \in Beps, a \in Args :
       /\ Tranceive("capture", r, b, a)
       /\ \/ /\ r # "OK" \/ b = "OK" \/ shot >= MaxShots
             /\ CaptureEnds(r, b)
             /\ shot' = 1 /\ caller' = "main"
          \/ /\ r = "OK" /\ b # "OK" /\ shot < MaxShots
             /\ shot' = shot + 1
             /\ UNCHANGED <<pc, attempt, caller, rxTimeout>>
  /\ UNCHANGED <<enrollDone, opened, prevTimeout, match, currentId, enrolls,
                 doubtful, userVars, reboots>>

(* The command of sensor_wait_finger_not_present; no caller looks at its   *)
(* result.                                                                 *)
Wait ==
  /\ pc = "wait"
  /\ \E r \in CallResults, b \in Beps, a \in Args : Tranceive("wait", r, b, a)
  /\ rxTimeout' = prevTimeout
  /\ \/ caller = "enroll" /\ NextAttempt
     \/ caller = "main" /\ pc' = "loop" /\ UNCHANGED attempt
  /\ caller' = "main"
  /\ UNCHANGED <<enrollDone, opened, shot, prevTimeout, mainVars, userVars, reboots>>

--------------------------------------------------------------------------------
(* bep_enroll_finger. *)

EnrollStart ==
  /\ pc = "enrollStart"
  /\ enrollDone' = FALSE
  /\ enrolls' = enrolls + 1
  /\ \E r \in CallResults, b \in Beps, a \in Args :
       /\ Tranceive("start", r, b, a)
       /\ \/ ErrorStops(r, b) /\ pc' = "save" /\ UNCHANGED <<attempt, opened>>
          \/ ~ErrorStops(r, b) /\ pc' = "enrollCapture" /\ attempt' = 1 /\ opened' = TRUE
  /\ UNCHANGED <<captureVars, match, currentId, doubtful, userVars, reboots>>

(* Mutant of SamplesRead: without an ARG_COUNT it keeps its initial 0. *)
SamplesReadZero(b, a) == IF a = "more" THEN {1} ELSE {0}

(* What samples_remaining reads when the answer holds argument a: without  *)
(* an ARG_COUNT chain->arg is still the ARG_RESULT of bmlite_tranceive,    *)
(* whose first byte is not 0 when the module refused, or an older one.     *)
SamplesRead(b, a) ==
  CASE a = "zero" -> {0}
    [] a = "more" -> {1}
    [] OTHER      -> IF b = "FAIL" THEN {1} ELSE {0, 1}

EnrollAdd ==
  /\ pc = "add"
  /\ \E r \in CallResults, b \in Beps, a \in Args :
       /\ Tranceive("add", r, b, a)
       /\ \/ r # "OK" /\ NextAttempt /\ UNCHANGED enrollDone
          \/ /\ r = "OK"
             /\ \E left \in SamplesRead(b, a) :
                  \/ left = 0 /\ enrollDone' = TRUE /\ pc' = "finish"
                  \/ left # 0 /\ pc' = "enrollWait" /\ UNCHANGED enrollDone
             /\ UNCHANGED attempt
  /\ UNCHANGED <<opened, captureVars, mainVars, userVars, reboots>>

EnrollFinish ==
  /\ pc = "finish"
  /\ \E r \in CallResults, b \in Beps, a \in Args :
       Tranceive("finish", r, b, a)
  /\ pc' = "save"
  /\ attempt' = 1 /\ enrollDone' = FALSE /\ opened' = FALSE
  /\ UNCHANGED <<captureVars, match, currentId, enrolls, doubtful,
                 userVars, reboots>>

--------------------------------------------------------------------------------
(* The rest of bep_identify_finger. *)

Extract ==
  /\ pc = "extract"
  /\ \E r \in CallResults, b \in Beps, a \in Args :
       /\ Tranceive("extract", r, b, a)
       /\ \/ ErrorStops(r, b) /\ IdentifyReturns(r)
          \/ ~ErrorStops(r, b) /\ pc' = "identify"
  /\ UNCHANGED <<enrollVars, captureVars, match, currentId, enrolls, doubtful,
                 userVars, reboots>>

Identify ==
  /\ pc = "identify"
  /\ \E r \in CallResults, b \in Beps, a \in Args :
       /\ Tranceive("identify", r, b, a)
       /\ \/ ErrorStops(r, b) /\ IdentifyReturns(r) /\ UNCHANGED match
          \/ /\ ~ErrorStops(r, b)
             /\ \/ /\ a \in {"match", "nomatch"}
                   /\ match' = (a = "match")
                   /\ IdentifyReturns("OK")
                \/ /\ a \notin {"match", "nomatch"}
                   /\ IdentifyReturns("INVALID_ARGUMENT")
                   /\ UNCHANGED match
  /\ UNCHANGED <<enrollVars, captureVars, currentId, enrolls, doubtful, userVars, reboots>>

--------------------------------------------------------------------------------
(* The loop of main. *)

(* The version is read once, for debugging only. *)
ReadVersion ==
  /\ pc = "version"
  /\ \E r \in CallResults, b \in Beps, a \in Args : Tranceive("version", r, b, a)
  /\ pc' = "loop"
  /\ UNCHANGED <<enrollVars, captureVars, mainVars, userVars, reboots>>

(* hal_get_button_press_time, and what the time calls for. *)
ReadButton ==
  /\ pc = "loop"
  /\ pressTime' = "none"
  /\ pc' = CASE pressTime = "short" -> "enrollStart"
             [] pressTime = "long"  -> "erase"
             [] OTHER               -> "identifyStart"
  /\ UNCHANGED <<enrollVars, captureVars, mainVars, linkVars, held, presses, finger, reboots>>

(* Mutant of NextId: the id is used up only when the module says so. *)
NextIdWhenSaved(r, b) == IF ErrorStops(r, b) THEN currentId ELSE currentId + 1

(* current_id++. *)
NextId(r, b) == currentId + 1

(* bep_template_save, whatever bep_enroll_finger returned. *)
Save ==
  /\ pc = "save"
  /\ \E r \in CallResults, b \in Beps, a \in Args :
       Tranceive("save", r, b, a) /\ currentId' = NextId(r, b)
  /\ pc' = "identifyStart"
  /\ UNCHANGED <<enrollVars, captureVars, match, enrolls, doubtful, userVars, reboots>>

(* bep_template_remove_all. *)
Erase ==
  /\ pc = "erase"
  /\ \E r \in CallResults, b \in Beps, a \in Args : Tranceive("erase", r, b, a)
  /\ doubtful' = (module'.store # EmptyStore \/ ~insync')
  /\ currentId' = 0
  /\ pc' = "identifyStart"
  /\ UNCHANGED <<enrollVars, captureVars, match, enrolls, userVars, reboots>>

(* platform_bmlite_reset. *)
Reset ==
  /\ pc = "reset"
  /\ module' = PoweredUp(module.store)
  /\ insync' = TRUE
  /\ pc' = "loop"
  /\ UNCHANGED <<enrollVars, captureVars, mainVars, faults, userVars, reboots>>

(* The LED shows whether the finger matched. *)
ShowMatch ==
  /\ pc = "led"
  /\ pc' = "mainWait"
  /\ UNCHANGED <<enrollVars, captureVars, mainVars, linkVars, userVars, reboots>>

--------------------------------------------------------------------------------
(* The user and the power supply. *)

Press ==
  /\ ~held
  /\ presses < MaxPresses
  /\ presses' = presses + 1
  /\ held' = TRUE
  /\ pressTime' = IF Hal = "stm32" THEN "none" ELSE pressTime
  /\ UNCHANGED <<pc, enrollVars, captureVars, mainVars, linkVars, finger, reboots>>

Release ==
  /\ held
  /\ held' = FALSE
  /\ pressTime' \in {"tap", "short", "long"}
  /\ UNCHANGED <<pc, enrollVars, captureVars, mainVars, linkVars, finger, presses, reboots>>

MoveFinger ==
  /\ finger' = ~finger
  /\ UNCHANGED <<pc, enrollVars, captureVars, mainVars, linkVars, buttonVars, reboots>>

Init ==
  /\ pc = "version" /\ caller = "main" /\ attempt = 1 /\ shot = 1
  /\ enrollDone = FALSE /\ opened = FALSE /\ match = FALSE
  /\ currentId = 0
  /\ rxTimeout = ConfigTimeout /\ prevTimeout = ConfigTimeout
  /\ held = FALSE /\ pressTime = "none" /\ finger = FALSE
  /\ module = PoweredUp(EmptyStore)
  /\ insync = TRUE
  /\ enrolls = 0 /\ doubtful = FALSE
  /\ presses = 0 /\ faults = 0 /\ reboots = 0

(* The board is switched off and on: main starts anew, the templates stay. *)
Reboot ==
  /\ reboots < MaxReboots
  /\ reboots' = reboots + 1
  /\ pc' = "version"
  /\ match' = FALSE /\ currentId' = 0
  /\ caller' = "main" /\ attempt' = 1 /\ shot' = 1
  /\ enrollDone' = FALSE /\ opened' = FALSE
  /\ rxTimeout' = ConfigTimeout /\ prevTimeout' = ConfigTimeout
  /\ pressTime' = "none"
  /\ module' = PoweredUp(module.store)
  /\ insync' = TRUE
  /\ doubtful' = (module.store # EmptyStore)
  /\ UNCHANGED <<enrolls, held, presses, finger, faults>>

HostStep ==
  \/ BeginCapture \/ BeginWait \/ Capture \/ Wait
  \/ EnrollStart \/ EnrollAdd \/ EnrollFinish
  \/ Extract \/ Identify
  \/ ReadVersion \/ ReadButton \/ Save \/ Erase \/ Reset \/ ShowMatch

UserStep == Press \/ Release \/ MoveFinger

Next == HostStep \/ UserStep \/ Reboot

Spec == Init /\ [][Next]_vars

(* A read without a timeout ends only with an answer or with the button.   *)
MustReturn == insync \/ rxTimeout # 0 \/ ButtonBreaks

(* The processor runs on and every other wait ends; no fault, press or     *)
(* finger is promised.                                                     *)
FairSpec == Spec /\ WF_vars(HostStep /\ MustReturn /\ faults' = faults)

--------------------------------------------------------------------------------
(* Properties. *)

ModuleStates ==
  [image : {"none", "old", "new"}, features : {"none", "old", "new"},
   remaining : 0..Closed, ram : 0..MaxPresses, store : [Ids -> 0..MaxPresses]]

(* Every variable keeps to its values: no loop takes more turns than its   *)
(* bound, no template gets an id or a number it could not have, and what   *)
(* main and bmlite_if.c see of results are the codes they test for.        *)
TypeOK ==
  /\ pc \in {"version", "loop", "enrollStart", "enrollCapture", "capture", "add",
            "enrollWait", "wait", "finish", "save", "erase", "identifyStart",
            "extract", "identify", "reset", "led", "mainWait"}
  /\ caller \in {"enroll", "identify", "main"}
  /\ attempt \in 1..MaxAttempts /\ shot \in 1..MaxShots
  /\ {enrollDone, opened, match} \subseteq BOOLEAN
  /\ currentId \in Ids /\ enrolls \in 0..MaxPresses
  /\ {rxTimeout, prevTimeout} \subseteq {0, ConfigTimeout, CaptureTimeout}
  /\ {held, finger, insync, doubtful} \subseteq BOOLEAN
  /\ pressTime \in {"none", "tap", "short", "long"}
  /\ module \in ModuleStates
  /\ presses \in 0..MaxPresses /\ faults \in 0..MaxFaults /\ reboots \in 0..MaxReboots

(* Only a wait for the finger has a timeout of its own: whatever way       *)
(* bep_capture and sensor_wait_finger_not_present end, and however often   *)
(* they follow each other, phy_rx_timeout is the configured one again      *)
(* (bmlite_if.c lines 137-141 and 149-162); a 0 left behind would let any  *)
(* later exchange wait for ever.                                           *)
TimeoutRestored == rxTimeout # ConfigTimeout => pc \in {"capture", "wait"}

(* The enrollment loop of bmlite_if.c (lines 61-88) takes the template for *)
(* complete only when the module has all the images it wants, although it  *)
(* ignores the result of every ADD and of the search for ARG_COUNT.        *)
EnrolledWhenDone ==
  (pc = "finish" /\ enrollDone /\ insync) => module.remaining = 0

(* A match that main shows is one of the finger of this very call of       *)
(* bep_identify_finger: neither an image nor features of an earlier        *)
(* capture pass for it (bmlite_if.c lines 97-118).  This holds for a       *)
(* module in step only: out of step the host reads older answers.          *)
MatchFresh == (pc = "led" /\ match /\ insync) => module.features = "new"

(* The program is in bep_enroll_finger past ENROLL START, or in what it    *)
(* calls.                                                                  *)
Enrolling ==
  \/ pc \in {"enrollCapture", "add", "enrollWait", "finish"}
  \/ pc \in {"capture", "wait"} /\ caller = "enroll"

(* bep_enroll_finger leaves no enrollment open behind it: once ENROLL      *)
(* START succeeded it does not return without ENROLL FINISH, also by the   *)
(* `continue` after a transfer that failed and left the module out of step *)
(* (bmlite_if.c lines 67-75 and 90); and a module in step has none open,   *)
(* whatever it refused.  (A START whose answer is lost may leave one open  *)
(* in a module out of step: the code sends no FINISH then.)                *)
NoOpenEnrollment ==
  ~Enrolling => ~opened /\ (insync => module.remaining = Closed)

(* A template in flash is never overwritten: an id is not used a second    *)
(* time, even when the answer to the save is lost (main.c lines 119-124).  *)
(* After a reboot, or an erase that failed, current_id starts at 0 and     *)
(* promises nothing.                                                       *)
NoTemplateLost ==
  [][\A id \in Ids : module.store[id] \in {0, module'.store[id]}
                      \/ pc = "erase" \/ doubtful]_vars

(* A press of the button is read by main, whatever it is waiting for: the  *)
(* waits without a timeout are broken (README.md line 44).                 *)
PressRead == (pressTime # "none") ~> (pressTime = "none")

(* An image is captured before it is added to the template (bmlite_if.h    *)
(* lines 20-23 and 69-71).                                                 *)
CapturedBeforeAdd == (pc = "add" /\ insync) => module.image = "new"

================================================================================
