------------------------------ MODULE HcpExchange ------------------------------
(***************************************************************************)
(* What one call of bmlite_tranceive promises its caller (hcp_tiny.h,      *)
(* lines 74-86), with no word about frames, buffers or the link: the       *)
(* sensor module runs every command at most once, and a call that returns  *)
(* FPC_BEP_RESULT_OK hands back the answer of that very run of that very   *)
(* command.  A call that returns an error promises nothing about the       *)
(* answer, and the command may or may not have run.                        *)
(***************************************************************************)
EXTENDS Naturals

CONSTANTS
  MaxCmds,     \* bound: number of commands a behaviour issues
  Outcomes,    \* values ARG_RESULT can carry, "OK" among them
  AnswerSizes  \* sizes of an answer packet, in bytes

VARIABLES
  phase,    \* "idle" or "busy": is a call of bmlite_tranceive in progress
  cmd,      \* number of commands issued so far, the one in progress included
  served,   \* served[c]: the answer of command c, or NotServed
  reply     \* what the last call returned, Pending until it does

xvars == <<phase, cmd, served, reply>>

NotServed == [res |-> "OK", size |-> 0]
Answers == [res : Outcomes, size : AnswerSizes]

Pending == [status |-> "pending", cmd |-> 0, answer |-> NotServed]
Failed == [status |-> "failed", cmd |-> 0, answer |-> NotServed]
Delivered(c, a) == [status |-> "ok", cmd |-> c, answer |-> a]

Init ==
  /\ phase = "idle"
  /\ cmd = 0
  /\ served = [c \in 1..MaxCmds |-> NotServed]
  /\ reply = Pending

(* The application hands a new command to bmlite_tranceive. *)
Call ==
  /\ phase = "idle"
  /\ cmd < MaxCmds
  /\ phase' = "busy"
  /\ cmd' = cmd + 1
  /\ reply' = Pending
  /\ UNCHANGED served

(* The module runs a command it was sent, for the first and only time. *)
Execute ==
  \E c \in 1..cmd, a \in Answers :
    /\ served[c] = NotServed
    /\ served' = [served EXCEPT ![c] = a]
    /\ UNCHANGED <<phase, cmd, reply>>

(* The call ends with the answer of its own command. *)
ReturnAnswer ==
  /\ phase = "busy"
  /\ served[cmd] # NotServed
  /\ phase' = "idle"
  /\ reply' = Delivered(cmd, served[cmd])
  /\ UNCHANGED <<cmd, served>>

(* The call ends with an error. *)
ReturnError ==
  /\ phase = "busy"
  /\ phase' = "idle"
  /\ reply' = Failed
  /\ UNCHANGED <<cmd, served>>

Next == Call \/ Execute \/ ReturnAnswer \/ ReturnError

Spec == Init /\ [][Next]_xvars
================================================================================
