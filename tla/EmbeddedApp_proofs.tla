-------------------------- MODULE EmbeddedApp_proofs ---------------------------
(***************************************************************************)
(* Theorems about EmbeddedApp, for all bounds, both buttons and any        *)
(* behaviour of the module, the link, the user and the power supply.       *)
(***************************************************************************)
EXTENDS EmbeddedApp, TLAPS

(* The timeout is the configured one outside of the waits, and saved while *)
(* one is going on.                                                        *)
TimeoutInv ==
  /\ TimeoutRestored
  /\ pc \in {"capture", "wait"} => prevTimeout = ConfigTimeout

LEMMA TimeoutInit == Init => TimeoutInv
  BY DEF Init, TimeoutInv, TimeoutRestored

(* A wait begins where the timeout is the configured one, and saves it.    *)
LEMMA TimeoutBegin ==
  ASSUME TimeoutInv, BeginCapture \/ BeginWait
  PROVE  TimeoutInv'
<1>1. rxTimeout = ConfigTimeout
  BY DEF BeginCapture, BeginWait, TimeoutInv, TimeoutRestored
<1>2. pc' \in {"capture", "wait"} /\ prevTimeout' = rxTimeout
  BY DEF BeginCapture, BeginWait, Begin
<1> QED
  BY <1>1, <1>2 DEF TimeoutInv, TimeoutRestored

(* A turn of the loop of bep_capture goes on waiting, or puts it back.     *)
LEMMA TimeoutCapture ==
  ASSUME TimeoutInv, Capture
  PROVE  TimeoutInv'
<1>1. prevTimeout = ConfigTimeout /\ prevTimeout' = prevTimeout
  BY DEF Capture, TimeoutInv
<1>2. \/ rxTimeout' = prevTimeout
      \/ pc' = "capture" /\ UNCHANGED rxTimeout
  BY DEF Capture, CaptureEnds
<1> QED
  BY <1>1, <1>2 DEF TimeoutInv, TimeoutRestored

LEMMA TimeoutWait ==
  ASSUME TimeoutInv, Wait
  PROVE  TimeoutInv'
<1>1. prevTimeout = ConfigTimeout /\ prevTimeout' = prevTimeout
  BY DEF Wait, TimeoutInv
<1>2. rxTimeout' = prevTimeout
  BY DEF Wait
<1> QED
  BY <1>1, <1>2 DEF TimeoutInv, TimeoutRestored

(* What the other steps of the host have in common: they are not in a      *)
(* wait, and leave the timeouts alone.                                     *)
LEMMA TimeoutElsewhere ==
  ASSUME TimeoutInv, pc \notin {"capture", "wait"}, pc' \notin {"capture", "wait"},
         UNCHANGED captureVars
  PROVE  TimeoutInv'
  BY DEF TimeoutInv, TimeoutRestored, captureVars

LEMMA TimeoutHost ==
  ASSUME TimeoutInv, HostStep
  PROVE  TimeoutInv'
<1>1. CASE BeginCapture \/ BeginWait
  BY <1>1, TimeoutBegin
<1>2. CASE Capture
  BY <1>2, TimeoutCapture
<1>3. CASE Wait
  BY <1>3, TimeoutWait
<1>4. CASE EnrollStart
  <2>1. pc = "enrollStart" /\ pc' \in {"save", "enrollCapture"} /\ UNCHANGED captureVars
    BY <1>4 DEF EnrollStart
  <2> QED
    BY <2>1, TimeoutElsewhere
<1>5. CASE EnrollAdd
  <2>1. pc = "add" /\ UNCHANGED captureVars
        /\ pc' \in {"enrollCapture", "finish", "enrollWait"}
    BY <1>5 DEF EnrollAdd, NextAttempt
  <2> QED
    BY <2>1, TimeoutElsewhere
<1>6. CASE EnrollFinish
  <2>1. pc = "finish" /\ pc' = "save" /\ UNCHANGED captureVars
    BY <1>6 DEF EnrollFinish
  <2> QED
    BY <2>1, TimeoutElsewhere
<1>7. CASE Extract
  <2>1. pc = "extract" /\ UNCHANGED captureVars
        /\ pc' \in {"reset", "led", "loop", "identify"}
    BY <1>7 DEF Extract, IdentifyReturns
  <2> QED
    BY <2>1, TimeoutElsewhere
<1>8. CASE Identify
  <2>1. pc = "identify" /\ UNCHANGED captureVars
        /\ pc' \in {"reset", "led", "loop"}
    BY <1>8 DEF Identify, IdentifyReturns
  <2> QED
    BY <2>1, TimeoutElsewhere
<1>9. CASE ReadVersion \/ ReadButton \/ Save \/ Erase \/ Reset \/ ShowMatch
  <2>1. pc \in {"version", "loop", "save", "erase", "reset", "led"} /\ UNCHANGED captureVars
        /\ pc' \in {"loop", "enrollStart", "erase", "identifyStart", "mainWait"}
    BY <1>9 DEF ReadVersion, ReadButton, Save, Erase, Reset, ShowMatch
  <2> QED
    BY <2>1, TimeoutElsewhere
<1> QED
  BY <1>1, <1>2, <1>3, <1>4, <1>5, <1>6, <1>7, <1>8, <1>9 DEF HostStep

(* However captures and waits follow each other and whatever way they end, *)
(* phy_rx_timeout is the configured one outside of them (bmlite_if.c lines *)
(* 137-141 and 149-162).                                                   *)
THEOREM TimeoutAlwaysRestored == Spec => []TimeoutRestored
<1>1. TimeoutInv /\ [Next]_vars => TimeoutInv'
  <2> SUFFICES ASSUME TimeoutInv, [Next]_vars
               PROVE  TimeoutInv'
    OBVIOUS
  <2>1. CASE HostStep
    BY <2>1, TimeoutHost
  <2>2. CASE UserStep
    <3>1. UNCHANGED <<pc, captureVars>>
      BY <2>2 DEF UserStep, Press, Release, MoveFinger
    <3> QED
      BY <3>1 DEF TimeoutInv, TimeoutRestored, captureVars
  <2>3. CASE Reboot
    BY <2>3 DEF Reboot, TimeoutInv, TimeoutRestored
  <2>4. CASE UNCHANGED vars
    BY <2>4 DEF vars, captureVars, TimeoutInv, TimeoutRestored
  <2> QED
    BY <2>1, <2>2, <2>3, <2>4 DEF Next
<1>2. TimeoutInv => TimeoutRestored
  BY DEF TimeoutInv
<1> QED
  BY TimeoutInit, <1>1, <1>2, PTL DEF Spec
--------------------------------------------------------------------------------
(* Type correctness.  What bounds the ids and the numbers of enrollments:  *)
(* an enrollment takes a press of its own, a saved template an enrollment. *)

Commands == {"version", "capture", "wait", "start", "add", "finish", "save",
             "erase", "extract", "identify"}

Count(condition) == IF condition THEN 1 ELSE 0

Counted ==
  /\ enrolls + Count(pc = "enrollStart") + Count(pressTime # "none") + Count(held)
       <= presses
  /\ currentId + Count(Enrolling \/ pc = "save") <= enrolls

AppInv == TypeOK /\ Counted

(* The values that module and link keep to. *)
LinkTypes ==
  module \in ModuleStates /\ insync \in BOOLEAN /\ faults \in 0..MaxFaults

LEMMA EmptyStoreType == EmptyStore \in [Ids -> 0..MaxPresses]
  BY AppAssumption DEF EmptyStore, Ids

LEMMA PoweredUpType ==
  ASSUME NEW store \in [Ids -> 0..MaxPresses]
  PROVE  PoweredUp(store) \in ModuleStates
  BY AppAssumption DEF PoweredUp, ModuleStates, Closed

(* No command leaves the module in a state it does not have. *)
LEMMA EffectsTypes ==
  ASSUME module \in ModuleStates, currentId \in Ids, enrolls \in 0..MaxPresses,
         NEW c \in Commands, NEW o \in Effects(c)
  PROVE  o.module \in ModuleStates
<1> USE DEF Answer, Refused
<1>1. CASE c \in {"version", "wait", "identify"}
  BY <1>1 DEF Effects
<1>2. CASE c = "capture"
  BY <1>2 DEF Effects, ModuleStates
<1>3. CASE c = "start"
  BY <1>3, AppAssumption DEF Effects, ModuleStates, Closed
<1>4. CASE c = "add"
  BY <1>4, AppAssumption DEF Effects, ModuleStates, Closed
<1>5. CASE c = "finish"
  <2>1. Closed \in 0..Closed
    BY AppAssumption DEF Closed
  <2>2. \A m \in ModuleStates : [m EXCEPT !.remaining = Closed] \in ModuleStates
    BY <2>1 DEF ModuleStates
  <2>3. [module EXCEPT !.remaining = Closed, !.ram = enrolls] \in ModuleStates
    BY <2>1 DEF ModuleStates
  <2> QED
    BY <1>5, <2>2, <2>3 DEF Effects
<1>6. CASE c = "save"
  BY <1>6 DEF Effects, ModuleStates
<1>7. CASE c = "erase"
  BY <1>7, EmptyStoreType DEF Effects, ModuleStates
<1>8. CASE c = "extract"
  BY <1>8 DEF Effects, ModuleStates
<1> QED
  BY <1>1, <1>2, <1>3, <1>4, <1>5, <1>6, <1>7, <1>8 DEF Commands

LEMMA TranceiveTypes ==
  ASSUME TypeOK, NEW c \in Commands, NEW r, NEW b, NEW a, Tranceive(c, r, b, a)
  PROVE  LinkTypes'
<1>1. \A o \in Effects(c) : o.module \in ModuleStates
  BY EffectsTypes DEF TypeOK
<1>2. module' \in {module} \cup {o.module : o \in Effects(c)}
  BY DEF Tranceive
<1>3. module' \in ModuleStates
  BY <1>1, <1>2 DEF TypeOK
<1>4. insync' \in BOOLEAN
  BY DEF Tranceive, TypeOK
<1>5. faults' \in 0..MaxFaults
  BY AppAssumption DEF Tranceive, GivesUp, ReadBreaks, TypeOK
<1> QED
  BY <1>3, <1>4, <1>5 DEF LinkTypes

LEMMA InitApp == Init => AppInv
<1> SUFFICES ASSUME Init PROVE AppInv
  OBVIOUS
<1>1. module \in ModuleStates
  BY EmptyStoreType, PoweredUpType DEF Init
<1>2. TypeOK
  <2>1. /\ {enrollDone, opened, match} \subseteq BOOLEAN
        /\ {held, finger, insync, doubtful} \subseteq BOOLEAN
    BY Zenon DEF Init
  <2>2. {rxTimeout, prevTimeout} \subseteq {0, ConfigTimeout, CaptureTimeout}
    BY Zenon DEF Init
  <2> QED
    BY <1>1, <2>1, <2>2, AppAssumption DEF Init, TypeOK, Ids
<1>3. Counted
  BY DEF Init, Counted, Count, Enrolling
<1> QED
  BY <1>2, <1>3 DEF AppInv

LEMMA BeginApp ==
  ASSUME AppInv, BeginCapture \/ BeginWait
  PROVE  AppInv'
<1>1. module' \in ModuleStates /\ UNCHANGED <<insync, faults>>
  BY DEF AppInv, TypeOK, BeginCapture, BeginWait, ModuleStates, linkVars
<1>2. /\ pc' \in {"capture", "wait"} /\ caller' \in {"enroll", "identify", "main"}
      /\ caller' = "enroll" <=> pc \in {"enrollCapture", "enrollWait"}
      /\ pc \in {"enrollCapture", "enrollWait", "identifyStart", "mainWait"}
      /\ prevTimeout' = rxTimeout /\ rxTimeout' \in {0, CaptureTimeout}
      /\ shot' = 1 /\ match' \in BOOLEAN
      /\ UNCHANGED <<enrollVars, currentId, enrolls, doubtful, userVars, reboots>>
  BY DEF AppInv, TypeOK, BeginCapture, BeginWait, Begin, mainVars
<1>3. TypeOK'
  BY <1>1, <1>2, AppAssumption DEF AppInv, TypeOK, enrollVars, userVars, buttonVars
<1>4. Counted'
  <2>1. Enrolling' => Enrolling
    BY <1>2 DEF Enrolling
  <2> QED
    BY <1>2, <2>1 DEF AppInv, TypeOK, Counted, Count, Ids, userVars, buttonVars
<1> QED
  BY <1>3, <1>4 DEF AppInv

(* The loop of bep_enroll_finger stays within its bound. *)
LEMMA NextAttemptTypes ==
  ASSUME attempt \in 1..MaxAttempts, NextAttempt
  PROVE  attempt' \in 1..MaxAttempts /\ pc' \in {"enrollCapture", "finish"}
  BY AppAssumption DEF NextAttempt

LEMMA CaptureApp ==
  ASSUME AppInv, Capture
  PROVE  AppInv'
<1>1. LinkTypes'
  BY TranceiveTypes DEF Capture, Commands, AppInv
<1>2. UNCHANGED <<enrollDone, opened, prevTimeout, match, currentId, enrolls,
                  doubtful, userVars, reboots>>
  BY DEF Capture
<1>3. /\ shot' \in 1..MaxShots /\ caller' \in {caller, "main"}
      /\ rxTimeout' \in {rxTimeout, prevTimeout}
  BY AppAssumption DEF Capture, CaptureEnds, AppInv, TypeOK
<1>4. \/ UNCHANGED <<pc, attempt, caller>>
      \/ /\ caller = "enroll" /\ attempt' \in 1..MaxAttempts
         /\ pc' \in {"enrollCapture", "finish", "add"}
      \/ /\ caller = "identify" /\ UNCHANGED attempt
         /\ pc' \in {"reset", "led", "loop", "extract"}
  BY NextAttemptTypes DEF Capture, CaptureEnds, CaptureReturns, IdentifyReturns, AppInv, TypeOK
<1>5. TypeOK'
  BY <1>1, <1>2, <1>3, <1>4 DEF AppInv, TypeOK, LinkTypes, userVars, buttonVars
<1>6. Counted'
  <2>1. pc = "capture"
    BY DEF Capture
  <2>2. Enrolling' => Enrolling
    BY <1>4, <2>1 DEF Enrolling
  <2>3. pc' \notin {"enrollStart", "save"}
    BY <1>4, <2>1
  <2> QED
    BY <1>2, <2>2, <2>3 DEF AppInv, TypeOK, Counted, Count, Ids, userVars, buttonVars
<1> QED
  BY <1>5, <1>6 DEF AppInv

LEMMA WaitApp ==
  ASSUME AppInv, Wait
  PROVE  AppInv'
<1>1. LinkTypes'
  BY TranceiveTypes DEF Wait, Commands, AppInv
<1>2. /\ pc = "wait" /\ caller' = "main" /\ rxTimeout' = prevTimeout
      /\ UNCHANGED <<enrollDone, opened, shot, prevTimeout, mainVars, userVars, reboots>>
  BY DEF Wait
<1>3. \/ /\ caller = "enroll" /\ attempt' \in 1..MaxAttempts
         /\ pc' \in {"enrollCapture", "finish"}
      \/ caller = "main" /\ UNCHANGED attempt /\ pc' = "loop"
  BY NextAttemptTypes DEF Wait, AppInv, TypeOK
<1>4. TypeOK'
  BY <1>1, <1>2, <1>3 DEF AppInv, TypeOK, LinkTypes, mainVars, userVars, buttonVars
<1>5. Counted'
  <2>1. Enrolling' => Enrolling
    BY <1>2, <1>3 DEF Enrolling
  <2>2. pc' \notin {"enrollStart", "save"}
    BY <1>3
  <2> QED
    BY <1>2, <2>1, <2>2
    DEF AppInv, TypeOK, Counted, Count, Ids, mainVars, userVars, buttonVars
<1> QED
  BY <1>4, <1>5 DEF AppInv

LEMMA EnrollStartApp ==
  ASSUME AppInv, EnrollStart
  PROVE  AppInv'
<1>1. LinkTypes'
  BY TranceiveTypes DEF EnrollStart, Commands, AppInv
<1>2. /\ pc = "enrollStart" /\ pc' \in {"save", "enrollCapture"}
      /\ enrollDone' \in BOOLEAN /\ opened' \in BOOLEAN
      /\ enrolls' = enrolls + 1 /\ attempt' \in {attempt, 1}
      /\ UNCHANGED <<captureVars, match, currentId, doubtful, userVars, reboots>>
  BY DEF EnrollStart, AppInv, TypeOK
<1>3. Counted' /\ enrolls' \in 0..MaxPresses
  <2>1. ~Enrolling
    BY <1>2 DEF Enrolling
  <2> QED
    BY <1>2, <2>1, AppAssumption
    DEF AppInv, TypeOK, Counted, Count, Ids, userVars, buttonVars
<1>4. TypeOK'
  BY <1>1, <1>2, <1>3, AppAssumption
  DEF AppInv, TypeOK, LinkTypes, captureVars, userVars, buttonVars
<1> QED
  BY <1>3, <1>4 DEF AppInv

LEMMA EnrollAddApp ==
  ASSUME AppInv, EnrollAdd
  PROVE  AppInv'
<1>1. LinkTypes'
  BY TranceiveTypes DEF EnrollAdd, Commands, AppInv
<1>2. /\ pc = "add" /\ attempt' \in 1..MaxAttempts /\ enrollDone' \in BOOLEAN
      /\ pc' \in {"enrollCapture", "finish", "enrollWait"}
      /\ UNCHANGED <<opened, captureVars, mainVars, userVars, reboots>>
  BY NextAttemptTypes DEF EnrollAdd, AppInv, TypeOK
<1>3. TypeOK'
  BY <1>1, <1>2 DEF AppInv, TypeOK, LinkTypes, captureVars, mainVars, userVars, buttonVars
<1>4. Counted'
  <2>1. Enrolling
    BY <1>2 DEF Enrolling
  <2> QED
    BY <1>2, <2>1 DEF AppInv, TypeOK, Counted, Count, Ids, mainVars, userVars, buttonVars
<1> QED
  BY <1>3, <1>4 DEF AppInv

LEMMA EnrollFinishApp ==
  ASSUME AppInv, EnrollFinish
  PROVE  AppInv'
<1>1. LinkTypes'
  BY TranceiveTypes DEF EnrollFinish, Commands, AppInv
<1>2. /\ pc = "finish" /\ pc' = "save" /\ attempt' = 1
      /\ enrollDone' \in BOOLEAN /\ opened' \in BOOLEAN
      /\ UNCHANGED <<captureVars, match, currentId, enrolls, doubtful, userVars, reboots>>
  BY DEF EnrollFinish
<1>3. TypeOK'
  BY <1>1, <1>2, AppAssumption
  DEF AppInv, TypeOK, LinkTypes, captureVars, userVars, buttonVars
<1>4. Counted'
  <2>1. Enrolling
    BY <1>2 DEF Enrolling
  <2> QED
    BY <1>2, <2>1 DEF AppInv, TypeOK, Counted, Count, Ids, userVars, buttonVars
<1> QED
  BY <1>3, <1>4 DEF AppInv

(* The steps of bep_identify_finger and of main that neither begin nor     *)
(* take part in an enrollment.                                             *)
LEMMA ElsewhereApp ==
  ASSUME AppInv, Extract \/ Identify \/ ReadVersion \/ Reset \/ ShowMatch
  PROVE  AppInv'
<1>1. LinkTypes'
  <2>1. CASE Extract \/ Identify \/ ReadVersion
    BY <2>1, TranceiveTypes DEF Extract, Identify, ReadVersion, Commands, AppInv
  <2>2. CASE Reset
    BY <2>2, PoweredUpType DEF Reset, AppInv, TypeOK, LinkTypes, ModuleStates
  <2>3. CASE ShowMatch
    BY <2>3 DEF ShowMatch, AppInv, TypeOK, LinkTypes, linkVars
  <2> QED
    BY <2>1, <2>2, <2>3
<1>2. /\ pc \in {"extract", "identify", "version", "reset", "led"}
      /\ pc' \in {"identify", "reset", "led", "loop", "mainWait"}
      /\ match' \in BOOLEAN
      /\ UNCHANGED <<enrollVars, captureVars, currentId, enrolls, doubtful,
                     userVars, reboots>>
  <2>1. CASE Extract \/ Identify
    BY <2>1 DEF Extract, Identify, IdentifyReturns, AppInv, TypeOK
  <2>2. CASE ReadVersion \/ Reset \/ ShowMatch
    BY <2>2 DEF ReadVersion, Reset, ShowMatch, AppInv, TypeOK, mainVars
  <2> QED
    BY <2>1, <2>2
<1>3. TypeOK'
  BY <1>1, <1>2 DEF AppInv, TypeOK, LinkTypes, enrollVars, captureVars, userVars, buttonVars
<1>4. Counted'
  <2>1. ~Enrolling' /\ pc' \notin {"enrollStart", "save"}
    BY <1>2 DEF Enrolling
  <2> QED
    BY <1>2, <2>1 DEF AppInv, TypeOK, Counted, Count, Ids, userVars, buttonVars
<1> QED
  BY <1>3, <1>4 DEF AppInv

LEMMA ReadButtonApp ==
  ASSUME AppInv, ReadButton
  PROVE  AppInv'
<1>1. /\ pc = "loop" /\ pressTime' = "none"
      /\ pc' \in {"enrollStart", "erase", "identifyStart"}
      /\ pc' = "enrollStart" => pressTime # "none"
      /\ UNCHANGED <<enrollVars, captureVars, mainVars, linkVars, held, presses,
                     finger, reboots>>
  BY DEF ReadButton
<1>2. TypeOK'
  BY <1>1 DEF AppInv, TypeOK, enrollVars, captureVars, mainVars, linkVars
<1>3. Counted'
  <2>1. ~Enrolling'
    BY <1>1 DEF Enrolling
  <2> QED
    BY <1>1, <2>1 DEF AppInv, TypeOK, Counted, Count, Ids, mainVars
<1> QED
  BY <1>2, <1>3 DEF AppInv

LEMMA SaveApp ==
  ASSUME AppInv, Save
  PROVE  AppInv'
<1>1. LinkTypes'
  BY TranceiveTypes DEF Save, Commands, AppInv
<1>2. /\ pc = "save" /\ pc' = "identifyStart" /\ currentId' = currentId + 1
      /\ UNCHANGED <<enrollVars, captureVars, match, enrolls, doubtful, userVars, reboots>>
  BY DEF Save, NextId
<1>3. Counted'
  <2>1. ~Enrolling'
    BY <1>2 DEF Enrolling
  <2> QED
    BY <1>2, <2>1 DEF AppInv, TypeOK, Counted, Count, Ids, userVars, buttonVars
<1>4. currentId' \in Ids
  BY <1>2, AppAssumption DEF AppInv, TypeOK, Counted, Count, Ids
<1>5. TypeOK'
  BY <1>1, <1>2, <1>4
  DEF AppInv, TypeOK, LinkTypes, enrollVars, captureVars, userVars, buttonVars
<1> QED
  BY <1>3, <1>5 DEF AppInv

LEMMA EraseApp ==
  ASSUME AppInv, Erase
  PROVE  AppInv'
<1>1. LinkTypes'
  BY TranceiveTypes DEF Erase, Commands, AppInv
<1>2. /\ pc = "erase" /\ pc' = "identifyStart"
      /\ currentId' = 0 /\ doubtful' \in BOOLEAN
      /\ UNCHANGED <<enrollVars, captureVars, match, enrolls, userVars, reboots>>
  BY DEF Erase
<1>3. TypeOK'
  BY <1>1, <1>2, AppAssumption
  DEF AppInv, TypeOK, Ids, LinkTypes, enrollVars, captureVars, userVars, buttonVars
<1>4. Counted'
  <2>1. ~Enrolling'
    BY <1>2 DEF Enrolling
  <2> QED
    BY <1>2, <2>1 DEF AppInv, TypeOK, Counted, Count, Ids, userVars, buttonVars
<1> QED
  BY <1>3, <1>4 DEF AppInv

LEMMA UserApp ==
  ASSUME AppInv, UserStep
  PROVE  AppInv'
<1>1. /\ UNCHANGED <<pc, enrollVars, captureVars, mainVars, linkVars, reboots>>
      /\ held' \in BOOLEAN /\ finger' \in BOOLEAN
      /\ pressTime' \in {"none", "tap", "short", "long"}
      /\ presses' \in 0..MaxPresses
  <2>1. CASE Press
    BY <2>1, AppAssumption DEF Press, AppInv, TypeOK
  <2>2. CASE Release
    BY <2>2 DEF Release, AppInv, TypeOK
  <2>3. CASE MoveFinger
    BY <2>3 DEF MoveFinger, buttonVars, AppInv, TypeOK
  <2> QED
    BY <2>1, <2>2, <2>3 DEF UserStep
<1>2. TypeOK'
  BY <1>1 DEF AppInv, TypeOK, enrollVars, captureVars, mainVars, linkVars
<1>3. Counted'
  <2>1. /\ enrolls \in Nat /\ currentId \in Nat /\ presses \in Nat
        /\ pc' = pc /\ caller' = caller /\ enrolls' = enrolls /\ currentId' = currentId
    BY <1>1, AppAssumption DEF AppInv, TypeOK, Ids, mainVars, captureVars
  <2>2. Enrolling' <=> Enrolling
    BY <2>1 DEF Enrolling
  <2>3. CASE Press
    BY <2>1, <2>2, <2>3 DEF Press, AppInv, Counted, Count
  <2>4. CASE Release
    BY <2>1, <2>2, <2>4 DEF Release, AppInv, Counted, Count
  <2>5. CASE MoveFinger
    BY <2>1, <2>2, <2>5 DEF MoveFinger, buttonVars, AppInv, Counted, Count
  <2> QED
    BY <2>3, <2>4, <2>5 DEF UserStep
<1> QED
  BY <1>2, <1>3 DEF AppInv

LEMMA RebootApp ==
  ASSUME AppInv, Reboot
  PROVE  AppInv'
<1>1. module' \in ModuleStates
  BY PoweredUpType DEF Reboot, AppInv, TypeOK, ModuleStates
<1>2. {insync', doubtful', match', enrollDone', opened'} \subseteq BOOLEAN
  BY Zenon DEF Reboot
<1>3. TypeOK'
  BY <1>1, <1>2, AppAssumption DEF Reboot, AppInv, TypeOK, Ids
<1>4. Counted'
  <2>1. ~Enrolling'
    BY DEF Reboot, Enrolling
  <2> QED
    BY <2>1 DEF Reboot, AppInv, TypeOK, Counted, Count, Ids
<1> QED
  BY <1>3, <1>4 DEF AppInv

LEMMA NextApp == AppInv /\ [Next]_vars => AppInv'
<1> SUFFICES ASSUME AppInv, [Next]_vars PROVE AppInv'
  OBVIOUS
<1>1. CASE HostStep
  BY <1>1, BeginApp, CaptureApp, WaitApp, EnrollStartApp, EnrollAddApp, EnrollFinishApp,
     ElsewhereApp, ReadButtonApp, SaveApp, EraseApp DEF HostStep
<1>2. CASE UserStep \/ Reboot
  BY <1>2, UserApp, RebootApp
<1>3. CASE UNCHANGED vars
  BY <1>3 DEF AppInv, TypeOK, Counted, Count, Enrolling, vars, enrollVars, captureVars,
     mainVars, linkVars, userVars, buttonVars
<1> QED
  BY <1>1, <1>2, <1>3 DEF Next

(* Whatever module, link, user and power do: no loop takes more turns than *)
(* its bound, and no id or number of a template exceeds the presses that   *)
(* began an enrollment (bmlite_if.c 56-182, main.c 68-140).                *)
THEOREM AppTypeCorrect == Spec => []TypeOK
<1>1. AppInv => TypeOK
  BY DEF AppInv
<1> QED
  BY InitApp, NextApp, <1>1, PTL DEF Spec
--------------------------------------------------------------------------------
(* What a call leaves behind while host and module are in step. *)

(* A module that is still in step after a call has run the command, and    *)
(* the host has its answer.                                                *)
LEMMA InStep ==
  ASSUME NEW c, NEW r, NEW b, NEW a, Tranceive(c, r, b, a), insync'
  PROVE  /\ insync /\ r = "OK"
         /\ \E o \in Effects(c) : b = o.bep /\ a = o.arg /\ module' = o.module
  BY DEF Tranceive

(* Only the commands of an enrollment open or close one. *)
LEMMA KeepsRemaining ==
  ASSUME module \in ModuleStates,
         NEW c \in {"version", "capture", "wait", "save", "erase", "extract", "identify"},
         NEW o \in Effects(c)
  PROVE  o.module.remaining = module.remaining
<1> USE DEF Answer, Refused, ModuleStates
<1>1. CASE c \in {"version", "wait", "identify"}
  BY <1>1 DEF Effects
<1>2. CASE c \in {"capture", "erase"}
  BY <1>2 DEF Effects
<1>3. CASE c \in {"save", "extract"}
  BY <1>3 DEF Effects
<1> QED
  BY <1>1, <1>2, <1>3

(* Outside of bep_enroll_finger no enrollment is open. *)
ClosedInv == (insync /\ ~Enrolling) => module.remaining = Closed

LEMMA ClosedCalls ==
  ASSUME AppInv, ClosedInv,
         Capture \/ Wait \/ EnrollStart \/ EnrollAdd \/ EnrollFinish
  PROVE  ClosedInv'
<1> SUFFICES ASSUME insync', ~Enrolling'
             PROVE  module'.remaining = Closed
  BY DEF ClosedInv
<1>1. module \in ModuleStates
  BY DEF AppInv, TypeOK
<1>2. CASE Capture
  <2>1. ~Enrolling
    BY <1>2, NextAttemptTypes
    DEF Capture, CaptureEnds, CaptureReturns, Enrolling, AppInv, TypeOK
  <2>2. PICK r \in CallResults, b \in Beps, a \in Args : Tranceive("capture", r, b, a)
    BY <1>2 DEF Capture
  <2>3. insync /\ \E o \in Effects("capture") : module' = o.module
    BY <2>2, InStep
  <2>4. module'.remaining = module.remaining
    BY <1>1, <2>3, KeepsRemaining
  <2> QED
    BY <2>1, <2>3, <2>4 DEF ClosedInv
<1>3. CASE Wait
  <2>1. ~Enrolling
    BY <1>3, NextAttemptTypes DEF Wait, Enrolling, AppInv, TypeOK
  <2>2. PICK r \in CallResults, b \in Beps, a \in Args : Tranceive("wait", r, b, a)
    BY <1>3 DEF Wait
  <2>3. insync /\ \E o \in Effects("wait") : module' = o.module
    BY <2>2, InStep
  <2>4. module'.remaining = module.remaining
    BY <1>1, <2>3, KeepsRemaining
  <2> QED
    BY <2>1, <2>3, <2>4 DEF ClosedInv
<1>4. CASE EnrollStart
  <2>1. ~Enrolling
    BY <1>4 DEF EnrollStart, Enrolling
  <2>2. PICK r \in CallResults, b \in Beps, a \in Args :
               Tranceive("start", r, b, a) /\ ErrorStops(r, b)
    BY <1>4 DEF EnrollStart, Enrolling
  <2>3. insync /\ b # "OK" /\ \E o \in Effects("start") : b = o.bep /\ module' = o.module
    BY <2>2, InStep DEF ErrorStops
  <2>4. module' = module
    BY <2>3 DEF Effects, Answer, Refused
  <2> QED
    BY <2>1, <2>3, <2>4 DEF ClosedInv
<1>5. CASE EnrollAdd
  <2>1. Enrolling'
    BY <1>5 DEF EnrollAdd, NextAttempt, Enrolling
  <2> QED
    BY <2>1
<1>6. CASE EnrollFinish
  <2>1. \E o \in Effects("finish") : module' = o.module
    BY <1>6, InStep DEF EnrollFinish
  <2>2. /\ [module EXCEPT !.remaining = Closed].remaining = Closed
        /\ [module EXCEPT !.remaining = Closed, !.ram = enrolls].remaining = Closed
    BY <1>1 DEF ModuleStates
  <2>3. \A o \in Effects("finish") :
          o.module \in {[module EXCEPT !.remaining = Closed],
                       [module EXCEPT !.remaining = Closed, !.ram = enrolls]}
    BY DEF Effects, Answer
  <2> QED
    BY <2>1, <2>2, <2>3
<1> QED
  BY <1>2, <1>3, <1>4, <1>5, <1>6

LEMMA ClosedElsewhere ==
  ASSUME AppInv, ClosedInv,
         BeginCapture \/ BeginWait \/ Extract \/ Identify \/ ReadVersion \/ ReadButton
         \/ Save \/ Erase \/ Reset \/ ShowMatch
  PROVE  ClosedInv'
<1> SUFFICES ASSUME insync', ~Enrolling'
             PROVE  module'.remaining = Closed
  BY DEF ClosedInv
<1>1. module \in ModuleStates
  BY DEF AppInv, TypeOK
<1>2. CASE BeginCapture \/ BeginWait
  <2>1. ~Enrolling /\ insync
    BY <1>2 DEF BeginCapture, BeginWait, Begin, Enrolling, linkVars
  <2>2. module'.remaining = module.remaining
    BY <1>1, <1>2 DEF BeginCapture, BeginWait, ModuleStates, linkVars
  <2> QED
    BY <2>1, <2>2 DEF ClosedInv
<1>3. CASE Extract \/ Identify \/ ReadVersion \/ Save \/ Erase
  <2>1. ~Enrolling
    BY <1>3 DEF Extract, Identify, ReadVersion, Save, Erase, Enrolling
  <2>2. PICK c \in {"extract", "identify", "version", "save", "erase"},
             r \in CallResults, b \in Beps, a \in Args : Tranceive(c, r, b, a)
    BY <1>3 DEF Extract, Identify, ReadVersion, Save, Erase
  <2>3. insync /\ \E o \in Effects(c) : module' = o.module
    BY <2>2, InStep
  <2>4. module'.remaining = module.remaining
    BY <1>1, <2>3, KeepsRemaining
  <2> QED
    BY <2>1, <2>3, <2>4 DEF ClosedInv
<1>4. CASE Reset
  BY <1>4 DEF Reset, PoweredUp
<1>5. CASE ReadButton \/ ShowMatch
  BY <1>5 DEF ReadButton, ShowMatch, linkVars, Enrolling, ClosedInv
<1> QED
  BY <1>2, <1>3, <1>4, <1>5

(* In step or not, an enrollment that was opened is still being worked at. *)
OpenInv == opened => Enrolling

LEMMA OpenStep ==
  ASSUME AppInv, OpenInv, [Next]_vars
  PROVE  OpenInv'
<1>1. CASE Capture
  BY <1>1, NextAttemptTypes
  DEF Capture, CaptureEnds, CaptureReturns, Enrolling, OpenInv, AppInv, TypeOK
<1>2. CASE Wait
  BY <1>2, NextAttemptTypes DEF Wait, Enrolling, OpenInv, AppInv, TypeOK
<1>3. CASE EnrollStart
  BY <1>3 DEF EnrollStart, Enrolling, OpenInv
<1>4. CASE EnrollAdd
  BY <1>4 DEF EnrollAdd, NextAttempt, Enrolling, OpenInv
<1>5. CASE EnrollFinish \/ Reboot
  BY <1>5 DEF EnrollFinish, Reboot, OpenInv
<1>6. CASE BeginCapture \/ BeginWait
  BY <1>6 DEF BeginCapture, BeginWait, Begin, enrollVars, Enrolling, OpenInv
<1>7. CASE Extract \/ Identify \/ ReadVersion \/ ReadButton \/ Save \/ Erase
           \/ Reset \/ ShowMatch
  <2>1. ~Enrolling /\ UNCHANGED opened
    BY <1>7 DEF Extract, Identify, ReadVersion, ReadButton, Save, Erase, Reset, ShowMatch,
       enrollVars, Enrolling
  <2> QED
    BY <2>1 DEF OpenInv
<1>8. CASE UserStep \/ UNCHANGED vars
  <2>1. UNCHANGED <<pc, caller, opened>>
    BY <1>8 DEF UserStep, Press, Release, MoveFinger, vars, captureVars, enrollVars
  <2> QED
    BY <2>1 DEF OpenInv, Enrolling
<1> QED
  BY <1>1, <1>2, <1>3, <1>4, <1>5, <1>6, <1>7, <1>8 DEF Next, HostStep

(* No way out of bep_enroll_finger leaves an enrollment open: neither the  *)
(* loop's bound, nor an error of one of its commands goes past ENROLL      *)
(* FINISH, in step or not; and a module in step has none open, whichever   *)
(* command it refused (bmlite_if.c 56-93).                                 *)
THEOREM NoEnrollmentStaysOpen == Spec => []NoOpenEnrollment
<1>1. Init => ClosedInv /\ OpenInv
  BY DEF Init, ClosedInv, OpenInv, PoweredUp
<1>2. AppInv /\ ClosedInv /\ [Next]_vars => ClosedInv'
  <2> SUFFICES ASSUME AppInv, ClosedInv, [Next]_vars PROVE ClosedInv'
    OBVIOUS
  <2>1. CASE HostStep
    BY <2>1, ClosedCalls, ClosedElsewhere DEF HostStep
  <2>2. CASE UserStep \/ UNCHANGED vars
    <3>1. UNCHANGED <<pc, caller, module, insync>>
      BY <2>2 DEF UserStep, Press, Release, MoveFinger, vars, captureVars, linkVars
    <3> QED
      BY <3>1 DEF ClosedInv, Enrolling
  <2>3. CASE Reboot
    BY <2>3 DEF Reboot, PoweredUp, ClosedInv
  <2> QED
    BY <2>1, <2>2, <2>3 DEF Next
<1>3. ClosedInv /\ OpenInv => NoOpenEnrollment
  BY DEF ClosedInv, OpenInv, NoOpenEnrollment
<1>4. AppInv /\ OpenInv /\ [Next]_vars => OpenInv'
  BY OpenStep
<1> QED
  BY InitApp, NextApp, <1>1, <1>2, <1>3, <1>4, PTL DEF Spec
--------------------------------------------------------------------------------
(* The loop of bep_enroll_finger. *)

(* enroll_done is set on the way to ENROLL FINISH and nowhere else. *)
DoneInv == (enrollDone => pc = "finish") /\ EnrolledWhenDone

LEMMA DoneAdd ==
  ASSUME AppInv, DoneInv, EnrollAdd
  PROVE  DoneInv'
<1>1. ~enrollDone
  BY DEF EnrollAdd, DoneInv
<1>2. enrollDone' => pc' = "finish"
  BY <1>1 DEF EnrollAdd
<1>3. ASSUME enrollDone', insync'
      PROVE  module'.remaining = 0
  <2>1. PICK r \in CallResults, b \in Beps, a \in Args :
               Tranceive("add", r, b, a) /\ 0 \in SamplesRead(b, a)
    BY <1>1, <1>3 DEF EnrollAdd
  <2>2. PICK o \in Effects("add") : b = o.bep /\ a = o.arg /\ module' = o.module
    BY <1>3, <2>1, InStep
  <2>3. o.bep = "OK" /\ o.arg = "zero"
    BY <2>1, <2>2 DEF Effects, Answer, Refused, SamplesRead
  <2>4. module.remaining = 1 /\ module' = [module EXCEPT !.remaining = @ - 1]
    BY <2>2, <2>3 DEF Effects, Answer, Refused
  <2> QED
    BY <2>4 DEF AppInv, TypeOK, ModuleStates
<1> QED
  BY <1>2, <1>3 DEF DoneInv, EnrolledWhenDone

(* The application believes an enrollment complete only when the module    *)
(* has all its images, although it ignores what ADD returned and whether   *)
(* the search for ARG_COUNT succeeded (bmlite_if.c 61-88).                 *)
THEOREM DoneMeansEnrolled == Spec => []EnrolledWhenDone
<1>1. Init => DoneInv
  BY DEF Init, DoneInv, EnrolledWhenDone
<1>2. AppInv /\ DoneInv /\ [Next]_vars => DoneInv'
  <2> SUFFICES ASSUME AppInv, DoneInv, [Next]_vars PROVE DoneInv'
    OBVIOUS
  <2>1. CASE EnrollAdd
    BY <2>1, DoneAdd
  <2>2. CASE EnrollStart \/ EnrollFinish \/ Reboot
    BY <2>2 DEF EnrollStart, EnrollFinish, Reboot, DoneInv, EnrolledWhenDone
  <2>3. CASE BeginCapture \/ BeginWait \/ Capture \/ Wait \/ Extract \/ Identify
             \/ ReadVersion \/ ReadButton \/ Save \/ Erase \/ Reset \/ ShowMatch
    <3>1. pc # "finish" /\ UNCHANGED enrollDone
      BY <2>3 DEF BeginCapture, BeginWait, Capture, Wait, Extract, Identify, ReadVersion,
         ReadButton, Save, Erase, Reset, ShowMatch, enrollVars
    <3> QED
      BY <3>1 DEF DoneInv, EnrolledWhenDone
  <2>4. CASE UserStep \/ UNCHANGED vars
    <3>1. UNCHANGED <<pc, enrollDone, module, insync>>
      BY <2>4 DEF UserStep, Press, Release, MoveFinger, vars, enrollVars, linkVars
    <3> QED
      BY <3>1 DEF DoneInv, EnrolledWhenDone
  <2> QED
    BY <2>1, <2>2, <2>3, <2>4 DEF Next, HostStep
<1>3. DoneInv => EnrolledWhenDone
  BY DEF DoneInv
<1> QED
  BY InitApp, NextApp, <1>1, <1>2, <1>3, PTL DEF Spec

--------------------------------------------------------------------------------
(* bep_identify_finger. *)

Identifying ==
  pc \in {"extract", "identify"} \/ (pc = "capture" /\ caller = "identify")

(* match is FALSE until the module has answered, and image and features    *)
(* are those of this call where they are used.                             *)
MatchInv ==
  /\ match => ~Identifying
  /\ (pc = "extract" /\ insync) => module.image = "new"
  /\ (pc = "identify" /\ insync) => module.features = "new"
  /\ MatchFresh

LEMMA MatchCapture ==
  ASSUME AppInv, MatchInv, Capture
  PROVE  MatchInv'
<1>1. pc = "capture" /\ UNCHANGED match
  BY DEF Capture
<1>2. CASE pc' = "capture"
  BY <1>1, <1>2 DEF Capture, CaptureEnds, CaptureReturns, NextAttempt, IdentifyReturns,
     MatchInv, MatchFresh, Identifying
<1>3. CASE caller = "enroll" /\ pc' \in {"enrollCapture", "finish", "add"}
  BY <1>3 DEF MatchInv, MatchFresh, Identifying
<1>4. CASE caller = "identify" /\ pc' \in {"reset", "led", "loop", "extract"}
  <2>1. ~match'
    BY <1>1, <1>4 DEF MatchInv, Identifying
  <2>2. ASSUME pc' = "extract", insync'
        PROVE  module'.image = "new"
    <3>1. PICK r \in CallResults, b \in Beps, a \in Args :
                 Tranceive("capture", r, b, a) /\ ~ErrorStops(r, b)
      BY <1>1, <1>4, <2>2 DEF Capture, CaptureEnds, CaptureReturns, IdentifyReturns
    <3>2. \E o \in Effects("capture") : o.bep = "OK" /\ module' = o.module
      BY <2>2, <3>1, InStep DEF ErrorStops
    <3>3. module' = [module EXCEPT !.image = "new"]
      BY <3>2 DEF Effects, Answer, Refused
    <3> QED
      BY <3>3 DEF AppInv, TypeOK, ModuleStates
  <2> QED
    BY <1>4, <2>1, <2>2 DEF MatchInv, MatchFresh
<1> QED
  BY <1>1, <1>2, <1>3, <1>4
  DEF Capture, CaptureEnds, CaptureReturns, NextAttempt, IdentifyReturns

LEMMA MatchExtract ==
  ASSUME AppInv, MatchInv, Extract
  PROVE  MatchInv'
<1>1. ~match' /\ pc' \in {"reset", "led", "loop", "identify"}
  BY DEF Extract, IdentifyReturns, MatchInv, Identifying
<1>2. ASSUME pc' = "identify", insync'
      PROVE  module'.features = "new"
  <2>1. PICK r \in CallResults, b \in Beps, a \in Args :
               Tranceive("extract", r, b, a) /\ ~ErrorStops(r, b)
    BY <1>2 DEF Extract, IdentifyReturns
  <2>2. insync /\ \E o \in Effects("extract") : o.bep = "OK" /\ module' = o.module
    BY <1>2, <2>1, InStep DEF ErrorStops
  <2>3. module' = [module EXCEPT !.features = module.image]
    BY <2>2 DEF Effects, Answer, Refused
  <2>4. module.image = "new"
    BY <2>2 DEF Extract, MatchInv
  <2> QED
    BY <2>3, <2>4 DEF AppInv, TypeOK, ModuleStates
<1> QED
  BY <1>1, <1>2 DEF MatchInv, MatchFresh

LEMMA MatchIdentify ==
  ASSUME MatchInv, Identify
  PROVE  MatchInv'
<1>1. pc = "identify" /\ ~match /\ pc' \in {"reset", "led", "loop"}
  BY DEF Identify, IdentifyReturns, MatchInv, Identifying
<1>2. insync' => module'.features = "new"
  <2>1. insync' => insync /\ \E o \in Effects("identify") : module' = o.module
    BY InStep DEF Identify
  <2> QED
    BY <1>1, <2>1 DEF Effects, Answer, Refused, MatchInv
<1> QED
  BY <1>1, <1>2 DEF MatchInv, MatchFresh, Identifying

(* A match that main shows is of the finger captured for it: an error, a   *)
(* refusal or a missing argument on the way shows none, and neither image  *)
(* nor features of an earlier call are used (bmlite_if.c 97-118).          *)
THEOREM MatchesAreFresh == Spec => []MatchFresh
<1>1. Init => MatchInv
  BY DEF Init, MatchInv, MatchFresh, Identifying
<1>2. AppInv /\ MatchInv /\ [Next]_vars => MatchInv'
  <2> SUFFICES ASSUME AppInv, MatchInv, [Next]_vars PROVE MatchInv'
    OBVIOUS
  <2>1. CASE Capture \/ Extract \/ Identify
    BY <2>1, MatchCapture, MatchExtract, MatchIdentify
  <2>2. CASE BeginCapture
    BY <2>2 DEF BeginCapture, Begin, MatchInv, MatchFresh, Identifying
  <2>3. CASE BeginWait \/ Wait \/ EnrollStart \/ EnrollAdd \/ EnrollFinish \/ ReadVersion
             \/ ReadButton \/ Save \/ Erase \/ Reset \/ ShowMatch \/ Reboot
    <3>1. pc' \notin {"capture", "extract", "identify", "led"}
      BY <2>3 DEF BeginWait, Begin, Wait, NextAttempt, EnrollStart, EnrollAdd, EnrollFinish,
         ReadVersion, ReadButton, Save, Erase, Reset, ShowMatch, Reboot
    <3> QED
      BY <3>1 DEF MatchInv, MatchFresh, Identifying
  <2>4. CASE UserStep \/ UNCHANGED vars
    <3>1. UNCHANGED <<pc, caller, match, module, insync>>
      BY <2>4 DEF UserStep, Press, Release, MoveFinger, vars, captureVars, mainVars, linkVars
    <3> QED
      BY <3>1 DEF MatchInv, MatchFresh, Identifying
  <2> QED
    BY <2>1, <2>2, <2>3, <2>4 DEF Next, HostStep
<1>3. MatchInv => MatchFresh
  BY DEF MatchInv
<1> QED
  BY InitApp, NextApp, <1>1, <1>2, <1>3, PTL DEF Spec
--------------------------------------------------------------------------------
(* Templates in flash. *)

(* As long as current_id can be trusted, its slot and those after it are   *)
(* empty.                                                                  *)
StoreInv ==
  ~doubtful => \A id \in Ids : id >= currentId => module.store[id] = 0

(* No template of a trusted store is overwritten. *)
Kept ==
  \A id \in Ids : module.store[id] \in {0, module'.store[id]} \/ pc = "erase" \/ doubtful

(* Only two commands touch the templates. *)
LEMMA KeepsStore ==
  ASSUME module \in ModuleStates, NEW c \in Commands \ {"save", "erase"},
         NEW o \in Effects(c)
  PROVE  o.module.store = module.store
<1> USE DEF Answer, Refused, ModuleStates
<1>1. CASE c \in {"version", "wait", "identify"}
  BY <1>1 DEF Effects
<1>2. CASE c \in {"capture", "extract"}
  BY <1>2 DEF Effects
<1>3. CASE c \in {"start", "add"}
  BY <1>3 DEF Effects
<1>4. CASE c = "finish"
  <2>1. o.module \in {[module EXCEPT !.remaining = Closed],
                     [module EXCEPT !.remaining = Closed, !.ram = enrolls]}
    BY <1>4 DEF Effects
  <2>2. /\ [module EXCEPT !.remaining = Closed].store = module.store
        /\ [module EXCEPT !.remaining = Closed, !.ram = enrolls].store = module.store
    OBVIOUS
  <2> QED
    BY <2>1, <2>2
<1> QED
  BY <1>1, <1>2, <1>3, <1>4 DEF Commands

LEMMA StoreTranceive ==
  ASSUME module \in ModuleStates, NEW c \in Commands \ {"save", "erase"},
         NEW r, NEW b, NEW a, Tranceive(c, r, b, a)
  PROVE  module'.store = module.store
<1>1. module' \in {module} \cup {o.module : o \in Effects(c)}
  BY DEF Tranceive
<1> QED
  BY <1>1, KeepsStore

(* The steps that leave the templates alone. *)
LEMMA StoreElsewhere ==
  ASSUME AppInv, HostStep \/ UserStep \/ UNCHANGED vars, ~Save, ~Erase
  PROVE  module'.store = module.store /\ UNCHANGED <<currentId, doubtful>>
<1>1. module \in ModuleStates
  BY DEF AppInv, TypeOK
<1>2. CASE Capture \/ Wait \/ EnrollStart \/ EnrollAdd \/ EnrollFinish
           \/ Extract \/ Identify \/ ReadVersion
  <2>1. \E c \in Commands \ {"save", "erase"}, r \in CallResults, b \in Beps, a \in Args :
          Tranceive(c, r, b, a)
    BY <1>2 DEF Commands, Capture, Wait, EnrollStart, EnrollAdd, EnrollFinish, Extract,
       Identify, ReadVersion
  <2>2. UNCHANGED <<currentId, doubtful>>
    BY <1>2 DEF Capture, Wait, EnrollStart, EnrollAdd, EnrollFinish, Extract,
       Identify, ReadVersion, mainVars
  <2> QED
    BY <1>1, <2>1, <2>2, StoreTranceive
<1>3. CASE BeginCapture
  BY <1>1, <1>3 DEF BeginCapture, ModuleStates
<1>4. CASE Reset
  BY <1>4 DEF Reset, PoweredUp, mainVars
<1>5. CASE BeginWait \/ ReadButton \/ ShowMatch \/ UserStep \/ UNCHANGED vars
  BY <1>5 DEF BeginWait, ReadButton, ShowMatch, UserStep, Press, Release, MoveFinger,
     vars, mainVars, linkVars
<1> QED
  BY <1>2, <1>3, <1>4, <1>5 DEF HostStep

LEMMA StoreSave ==
  ASSUME AppInv, StoreInv, Save
  PROVE  StoreInv' /\ Kept
<1>1. /\ module \in ModuleStates /\ currentId \in Nat /\ currentId \in Ids
      /\ currentId' = currentId + 1 /\ doubtful' = doubtful
  BY AppAssumption DEF AppInv, TypeOK, Ids, Save, NextId
<1>2. module' \in {module, [module EXCEPT !.store[currentId] = module.ram]}
  <2>1. \A o \in Effects("save") :
          o.module \in {module, [module EXCEPT !.store[currentId] = module.ram]}
    BY DEF Effects, Answer, Refused
  <2> QED
    BY <2>1 DEF Save, Tranceive
<1>3. \A id \in Ids : id # currentId => module'.store[id] = module.store[id]
  BY <1>1, <1>2 DEF ModuleStates
<1>4. Kept
  BY <1>1, <1>3 DEF StoreInv, Kept
<1>5. StoreInv'
  BY <1>1, <1>3, AppAssumption DEF StoreInv, Ids
<1> QED
  BY <1>4, <1>5

LEMMA StoreStep ==
  ASSUME AppInv, StoreInv, [Next]_vars
  PROVE  StoreInv' /\ Kept
<1>1. CASE Save
  BY <1>1, StoreSave
<1>2. CASE Erase
  <2>1. pc = "erase" /\ (~doubtful' => module'.store = EmptyStore)
    BY <1>2 DEF Erase
  <2> QED
    BY <2>1 DEF StoreInv, Kept, EmptyStore
<1>3. CASE Reboot
  <2>1. module'.store = module.store /\ (~doubtful' => module.store = EmptyStore)
    BY <1>3 DEF Reboot, PoweredUp
  <2> QED
    BY <2>1 DEF StoreInv, Kept, EmptyStore
<1>4. CASE (HostStep \/ UserStep \/ UNCHANGED vars) /\ ~Save /\ ~Erase
  BY <1>4, StoreElsewhere DEF StoreInv, Kept
<1> QED
  BY <1>1, <1>2, <1>3, <1>4 DEF Next

(* No id is used for a second template: not when the answer to a save is   *)
(* lost, not after a reset, and not by an erase in between; only a reboot  *)
(* or a failed erase make main's current_id unreliable (main.c 119-124).   *)
THEOREM NoTemplateIsLost == Spec => NoTemplateLost
<1>1. Init => StoreInv
  BY DEF Init, StoreInv, PoweredUp, EmptyStore
<1>2. AppInv /\ StoreInv /\ [Next]_vars => StoreInv'
  BY StoreStep
<1>3. AppInv /\ StoreInv /\ [Next]_vars => [Kept]_vars
  BY StoreStep
<1>4. Spec => [][Kept]_vars
  BY InitApp, NextApp, <1>1, <1>2, <1>3, PTL DEF Spec
<1> QED
  BY <1>4 DEF NoTemplateLost, Kept
================================================================================
