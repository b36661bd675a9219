------------------------------ MODULE HcpTransport -----------------------------
(***************************************************************************)
(* The host side of the HCP protocol: bmlite_tranceive and the functions   *)
(* it calls (bmlite_send, _tx_link, bmlite_receive, _rx_link in            *)
(* BMLite_sdk/src/hcp_tiny.c), against the BM-Lite module and the link     *)
(* between them, which are not in this repository and are modelled from    *)
(* how the host uses them (the actions named Module... and Link...).       *)
(*                                                                         *)
(* A packet is cut into frames of at most AppMtu payload bytes; each frame *)
(* is sent and then acknowledged before the next one.  Payload bytes are   *)
(* abstracted to who sent the frame, for which command and at which place  *)
(* in the packet; sizes are kept in bytes, with the code's 16-bit wraps.   *)
(***************************************************************************)
EXTENDS Integers, Sequences

CONSTANTS
  Mtu,           \* MTU (256 in the code)
  PktSizeMax,    \* hcp_comm->pkt_size_max, the size of pkt_buffer
  RequestSizes,  \* sizes of the command packets the application builds
  AnswerSizes,   \* sizes of the answer packets the module builds
  Outcomes,      \* values ARG_RESULT can carry, "OK" among them
  Bus,           \* "uart" or "spi": which platform_bmlite_*_receive is used
  ResetOnError,  \* does the caller reset the module after an IO_ERROR or TIMEOUT
  Faults,        \* which faults of the link and of the module can happen
  MaxFaults,     \* bound: how many of them in one behaviour
  MaxCmds        \* bound: how many commands in one behaviour

FaultKinds == {"lose", "corrupt", "late", "ioerror", "body", "malformed", "crash"}

(* An ACK read where a header is expected has 0x7f01 in its size field. *)
AckAsSize == 32513

ASSUME MtuAssumption == Mtu \in Nat /\ 14 < Mtu /\ Mtu < AckAsSize + 8
ASSUME SizesAssumption ==
  /\ PktSizeMax \in Nat
  /\ RequestSizes \subseteq 1..PktSizeMax
  /\ AnswerSizes \subseteq Nat \ {0}
ASSUME OutcomesAssumption == "OK" \in Outcomes
ASSUME LinkAssumption ==
  /\ Bus \in {"uart", "spi"}
  /\ ResetOnError \in BOOLEAN
  /\ Faults \subseteq FaultKinds
ASSUME BoundsAssumption == MaxFaults \in Nat /\ MaxCmds \in Nat

VARIABLES
  pc,         \* where the host is in bmlite_tranceive, "idle" outside of it
  cmd,        \* number of commands issued; it names the one in progress
  pktSize,    \* hcp_comm->pkt_size
  dataLeft,   \* data_left of bmlite_send
  seqNr,      \* seq_nr of bmlite_send and of bmlite_receive
  seqLen,     \* seq_len of both
  txrx,       \* txrx_buffer: the size field of its header and the frame after it
  pkt,        \* the frames copied to pkt_buffer; while empty it holds the command
  offset,     \* p - pkt_buffer in bmlite_receive
  bufLen,     \* buf_len of bmlite_receive
  comResult,  \* com_result of bmlite_receive
  result,     \* what bmlite_tranceive returns
  bepResult,  \* hcp_comm->bep_result
  resetAt     \* ghost: faults counted at a reset just before this call, else -1

VARIABLES
  toModule,   \* what the host has written and the module has not read
  toHost,     \* what the module has written and the host has not read
  modPc,      \* the module: "listen", "exec", "reply" or "dead"
  modReq,     \* frames of the command it has received
  modNr,      \* number of the answer frame it has sent last
  served,     \* ghost: served[c] is the answer of command c
  mixed,      \* ghost: the module ran a packet made of two commands
  faults      \* number of faults so far

sendVars == <<pktSize, dataLeft>>
frameVars == <<seqNr, seqLen, txrx>>
recvVars == <<pkt, offset, bufLen, comResult>>
resVars == <<result, bepResult>>
modVars == <<modPc, modReq, modNr, served, mixed>>
hostVars == <<pc, cmd, sendVars, frameVars, recvVars, resVars, resetAt>>
vars == <<hostVars, toModule, toHost, modVars, faults>>

--------------------------------------------------------------------------------
(* Frames and what travels on the wire. *)

AppMtu == Mtu - 6 - 8

(* A frame: the transport header fields, and the sender, command and       *)
(* outcome its payload bytes belong to.                                    *)
Frame == [src : {"host", "module", "junk"}, cmd : 0..MaxCmds, res : Outcomes,
          nr : Nat, of : Nat, tSize : Nat, lnkSize : Nat]
CommandFrame == {f \in Frame : f.src = "host" /\ f.cmd \in 1..MaxCmds}

(* Bytes that are no frame: nothing with a matching CRC. *)
JunkFrame == [src |-> "junk", cmd |-> 0, res |-> "OK", nr |-> 0, of |-> 0,
              tSize |-> 0, lnkSize |-> 0]

(* A unit of the byte stream.  "frame" is a whole frame, "body" what is    *)
(* left of one after its 4-byte header was read, "noise" what is left when *)
(* more of it was read and "glitch" a damaged acknowledgement.  A damaged  *)
(* frame is one whose sender is "junk".                                    *)
UnitKinds == {"ack", "frame", "body", "noise", "glitch"}
Unit == [kind : UnitKinds, frame : Frame]
Bare(kind) == [kind |-> kind, frame |-> JunkFrame]
Ack == Bare("ack")
Carry(f) == [kind |-> "frame", frame |-> f]
HostUnit == {u \in Unit : u = Ack \/ (u.kind = "frame" /\ u.frame \in CommandFrame)}

(* Number of frames of a packet of n bytes: one more than needed when n is *)
(* a multiple of AppMtu.                                                   *)
SeqLen(n) == (n \div AppMtu) + 1

(* Mutant of FrameSize: the last frame is sent full. *)
FrameSizeFull(left) == AppMtu

(* Payload bytes of the next frame when left bytes are still to be sent. *)
FrameSize(left) == IF left < AppMtu THEN left ELSE AppMtu

(* Payload bytes of frame nr of a packet of n bytes. *)
SliceSize(n, nr) == FrameSize(n - (nr - 1) * AppMtu)

HostFrame(nr, of, n) ==
  [src |-> "host", cmd |-> cmd, res |-> "OK", nr |-> nr, of |-> of,
   tSize |-> n, lnkSize |-> n + 6]

AnswerFrame(c, a, nr) ==
  [src |-> "module", cmd |-> c, res |-> a.res, nr |-> nr, of |-> SeqLen(a.size),
   tSize |-> SliceSize(a.size, nr), lnkSize |-> SliceSize(a.size, nr) + 6]

NotServed == [res |-> "OK", size |-> 0]
Answers == [res : Outcomes, size : AnswerSizes]

(* A fault of a given kind, within the bound MaxFaults. *)
Fault(kind) ==
  /\ kind \in Faults
  /\ faults < MaxFaults
  /\ faults' = faults + 1

(* What may stay in the stream after four bytes of it were read.  A body   *)
(* is longer than that, and noise may be.                                  *)
AfterWord(q) ==
  LET noise == <<Bare("noise")>> \o Tail(q)
  IN  CASE Head(q).kind = "frame" -> {<<[Head(q) EXCEPT !.kind = "body"]>> \o Tail(q)}
        [] Head(q).kind = "body"  -> {noise}
        [] Head(q).kind = "noise" -> {noise, Tail(q)}
        [] OTHER                  -> {Tail(q)}

(* What may stay in it after a read of a length that fits no unit. *)
AfterMisread(q) ==
  LET suffixes == {SubSeq(q, k, Len(q)) : k \in 2..(Len(q) + 1)}
  IN  suffixes \cup {<<Bare("noise")>> \o s : s \in suffixes}

(* Nothing is coming to the host, now or later. *)
Quiet ==
  /\ toHost = <<>>
  /\ modPc = "dead" \/ (toModule = <<>> /\ modPc \in {"listen", "reply"})

(* Mutant of ReadTimesOut: a timeout of 0, which waits for ever. *)
ReadWaitsForever == Fault("late")

(* A read gives up: nothing will come, or it is late (a slow module, or    *)
(* hal_check_button_pressed breaking the wait).                            *)
ReadTimesOut == (Quiet /\ UNCHANGED faults) \/ Fault("late")

(* An SPI transfer fails before or after the bytes were clocked out. *)
TransferFails ==
  /\ Bus = "spi"
  /\ toHost # <<>>
  /\ Fault("ioerror")
  /\ toHost' \in {toHost} \cup AfterWord(toHost)

--------------------------------------------------------------------------------
(* bmlite_tranceive, bmlite_send and _tx_link. *)

Init ==
  /\ pc = "idle" /\ cmd = 0
  /\ pktSize = 0 /\ dataLeft = 0
  /\ seqNr = 0 /\ seqLen = 0
  /\ txrx = [size |-> 0, frame |-> JunkFrame]
  /\ pkt = <<>> /\ offset = 0 /\ bufLen = 0 /\ comResult = "OK"
  /\ result = "OK" /\ bepResult = "OK"
  /\ resetAt = 0
  /\ toModule = <<>> /\ toHost = <<>>
  /\ modPc = "listen" /\ modReq = <<>> /\ modNr = 0
  /\ served = [c \in 1..MaxCmds |-> NotServed]
  /\ mixed = FALSE
  /\ faults = 0

(* The application calls bmlite_tranceive on a packet of n bytes, and      *)
(* bmlite_send takes its size into a uint16_t.                             *)
Call ==
  /\ pc = "idle"
  /\ cmd < MaxCmds
  /\ cmd' = cmd + 1
  /\ \E n \in RequestSizes :
       /\ pktSize' = n
       /\ dataLeft' = n % 65536
       /\ seqLen' = SeqLen(n % 65536)
  /\ seqNr' = 1
  /\ pkt' = <<>>
  /\ pc' = "tx"
  /\ UNCHANGED <<txrx, offset, bufLen, comResult, resVars, resetAt,
                 toModule, toHost, modVars, faults>>

(* Mutant of SendFrame: data_left is not decremented. *)
SendFrameKeepsDataLeft ==
  /\ pc = "tx"
  /\ LET f == HostFrame(seqNr, seqLen, FrameSize(dataLeft))
     IN  /\ txrx' = [size |-> f.lnkSize, frame |-> f]
         /\ toModule' = Append(toModule, Carry(f))
  /\ pc' = "ack"
  /\ UNCHANGED <<cmd, sendVars, seqNr, seqLen, recvVars, resVars, resetAt,
                 toHost, modVars, faults>>

(* One turn of the loop of bmlite_send, to the write in _tx_link. *)
SendFrame ==
  /\ pc = "tx"
  /\ LET f == HostFrame(seqNr, seqLen, FrameSize(dataLeft))
     IN  /\ txrx' = [size |-> f.lnkSize, frame |-> f]
         /\ toModule' = Append(toModule, Carry(f))
         /\ dataLeft' = dataLeft - f.tSize
  /\ pc' = "ack"
  /\ UNCHANGED <<cmd, pktSize, seqNr, seqLen, recvVars, resVars, resetAt,
                 toHost, modVars, faults>>

(* The local variables of bmlite_receive take their initial values. *)
StartReceive ==
  /\ pc' = "rxhdr"
  /\ seqNr' = 0 /\ seqLen' = 1
  /\ offset' = 0 /\ bufLen' = 0 /\ comResult' = "OK"

(* _tx_link returns OK: the next frame, or bmlite_receive after the last. *)
FrameSent ==
  /\ \/ /\ seqNr < seqLen
        /\ seqNr' = seqNr + 1
        /\ pc' = "tx"
        /\ UNCHANGED <<seqLen, offset, bufLen, comResult>>
     \/ seqNr >= seqLen /\ StartReceive
  /\ UNCHANGED <<result>>

(* Mutant of SendFails: a missing acknowledgement is not an error. *)
SendFailsNever == FrameSent

(* _tx_link, bmlite_send and bmlite_tranceive return an error; bep_result  *)
(* keeps the value of an earlier call.                                     *)
SendFails ==
  /\ pc' = "done"
  /\ result' = "IO_ERROR"
  /\ UNCHANGED <<seqNr, seqLen, offset, bufLen, comResult>>

(* Do these four bytes spell FPC_BEP_ACK? *)
AckMatches(u) == u.kind = "ack"

(* The wait for the acknowledgement of a frame in _tx_link.  Only a        *)
(* TIMEOUT of the read is checked: after another error the uninitialised   *)
(* variable ack is compared, which may hold an earlier acknowledgement.    *)
ReadAck ==
  /\ pc = "ack"
  /\ \/ /\ toHost # <<>>
        /\ toHost' \in AfterWord(toHost)
        /\ IF AckMatches(Head(toHost)) THEN FrameSent ELSE SendFails
        /\ UNCHANGED faults
     \/ ReadTimesOut /\ SendFails /\ UNCHANGED toHost
     \/ TransferFails /\ (FrameSent \/ SendFails)
  /\ UNCHANGED <<cmd, sendVars, txrx, pkt, bepResult, resetAt, toModule, modVars>>

--------------------------------------------------------------------------------
(* bmlite_receive and _rx_link. *)

(* bmlite_receive returns the error of _rx_link at once. *)
ReceiveFails(error) == pc' = "parse" /\ result' = error

(* Values the size field can have when these four bytes are a header; a    *)
(* damaged acknowledgement still has most bits of its 0x7f01.              *)
SizesRead(u) ==
  CASE u.kind \in {"ack", "glitch"} -> {AckAsSize}
    [] u.kind = "frame" /\ u.frame.src # "junk" -> {u.frame.lnkSize}
    [] u.kind = "body" /\ u.frame.src # "junk"  -> {u.frame.nr}
    [] OTHER -> 0..(Mtu - 7)

(* The length check of _rx_link. *)
FitsMtu(size) == size + 8 <= Mtu

ReadHeader ==
  /\ pc = "rxhdr"
  /\ \/ /\ toHost # <<>>
        /\ toHost' \in AfterWord(toHost)
        /\ \E size \in SizesRead(Head(toHost)) :
             /\ txrx' = [txrx EXCEPT !.size = size]
             /\ \/ FitsMtu(size) /\ pc' = "rxbody" /\ UNCHANGED result
                \/ ~FitsMtu(size) /\ ReceiveFails("IO_ERROR")
        /\ UNCHANGED faults
     \/ ReadTimesOut /\ ReceiveFails("TIMEOUT") /\ UNCHANGED <<toHost, txrx>>
     \/ TransferFails /\ ReceiveFails("IO_ERROR") /\ UNCHANGED txrx
  /\ UNCHANGED <<cmd, sendVars, seqNr, seqLen, recvVars, bepResult, resetAt,
                 toModule, modVars>>

(* Mutant of CrcMatches: the CRC is not compared. *)
CrcNotCompared(size, f) == f.lnkSize = size

(* The CRC found after size bytes is the one computed over them. *)
CrcMatches(size, f) == f.src # "junk" /\ f.lnkSize = size

(* Mutants of FitsPacket: the test leaves out the frame at hand, or takes  *)
(* every frame for a full one.                                             *)
FitsPacketSoFar(n) == bufLen < PktSizeMax
FitsPacketFullFrame(n) == bufLen + AppMtu < PktSizeMax

(* Does the payload of this frame still go into pkt_buffer? *)
FitsPacket(n) == bufLen + n < PktSizeMax

(* The three ways a frame with a good CRC is taken into the packet. *)
TakePayload(f) ==
  \/ /\ f.tSize # f.lnkSize - 6
     /\ comResult' = "IO_ERROR"
     /\ UNCHANGED <<pkt, offset, bufLen>>
  \/ /\ f.tSize = f.lnkSize - 6
     /\ FitsPacket(f.tSize)
     /\ pkt' = Append(pkt, f)
     /\ offset' = offset + f.tSize
     /\ bufLen' = (bufLen + f.tSize) % 65536
     /\ UNCHANGED comResult
  \/ /\ f.tSize = f.lnkSize - 6
     /\ ~FitsPacket(f.tSize)
     /\ comResult' = "NO_MEMORY"
     /\ UNCHANGED <<pkt, offset, bufLen>>

(* The acknowledgement, the payload, and the test of the loop. *)
Accept(f) ==
  /\ toModule' = Append(toModule, Ack)
  /\ seqNr' = f.nr
  /\ seqLen' = f.of
  /\ TakePayload(f)
  /\ \/ f.nr < f.of /\ pc' = "rxhdr" /\ UNCHANGED <<pktSize, result>>
     \/ f.nr >= f.of /\ pc' = "parse" /\ pktSize' = bufLen' /\ result' = comResult'

(* What _rx_link does with the size field and the bytes f after it. *)
CheckCrc(f) ==
  /\ txrx' = [txrx EXCEPT !.frame = f]
  /\ \/ CrcMatches(txrx.size, f) /\ Accept(f)
     \/ /\ ~CrcMatches(txrx.size, f)
        /\ ReceiveFails("IO_ERROR")
        /\ UNCHANGED <<pktSize, seqNr, seqLen, recvVars, toModule>>

(* The body the header announced is the next thing in the stream. *)
BodyComes ==
  /\ Head(toHost).kind = "body"
  /\ Head(toHost).frame.lnkSize = txrx.size

(* The read of the body and its CRC, whose result _rx_link ignores: when   *)
(* it fails, the CRC is computed over what txrx_buffer held before, or     *)
(* over a mixture of that and the bytes that did arrive.                   *)
ReadBody ==
  /\ pc = "rxbody"
  /\ \/ /\ toHost # <<>>
        /\ BodyComes
        /\ toHost' = Tail(toHost)
        /\ CheckCrc(Head(toHost).frame)
        /\ UNCHANGED faults
     \/ /\ toHost # <<>>
        /\ ~BodyComes
        /\ toHost' \in AfterMisread(toHost)
        /\ CheckCrc(JunkFrame)
        /\ UNCHANGED faults
     \/ /\ \/ toHost = <<>> /\ ReadTimesOut /\ UNCHANGED toHost
           \/ toHost # <<>> /\ Fault("body") /\ toHost' \in {toHost, Tail(toHost)}
        /\ \E f \in {txrx.frame, JunkFrame} : CheckCrc(f)
  /\ UNCHANGED <<cmd, dataLeft, bepResult, resetAt, modVars>>

(* Mutant of FoundResults: bep_result keeps its value. *)
FoundResultsStale == {bepResult}

(* What bmlite_get_arg(ARG_RESULT) can find in pkt_buffer, OK standing for *)
(* its absence.  A packet cut short is parsed up to the size of the        *)
(* command; one that lost its beginning is parsed from arbitrary bytes.    *)
FoundResults ==
  IF pkt = <<>> \/ Head(pkt).src = "host" THEN {"OK"}
  ELSE IF Head(pkt).nr # 1 THEN Outcomes
  ELSE IF result = "OK" THEN {Head(pkt).res}
  ELSE {Head(pkt).res, "OK"}

(* bmlite_tranceive looks for ARG_RESULT, whatever bmlite_receive returned. *)
ParseResult ==
  /\ pc = "parse"
  /\ bepResult' \in FoundResults
  /\ pc' = "done"
  /\ UNCHANGED <<cmd, sendVars, frameVars, recvVars, result, resetAt,
                 toModule, toHost, modVars, faults>>

(* Mutant of ResetModule: what the module had to send survives the reset. *)
ResetModuleKeepsData ==
  /\ modPc' = "listen" /\ modReq' = <<>> /\ modNr' = 0
  /\ toModule' = <<>>
  /\ toHost' = toHost
  /\ resetAt' = faults

(* platform_bmlite_reset: the module starts anew; what it had to send is   *)
(* gone with SPI, and stays in the host's receive buffer with UART.        *)
ResetModule ==
  /\ modPc' = "listen" /\ modReq' = <<>> /\ modNr' = 0
  /\ toModule' = <<>>
  /\ toHost' = IF Bus = "spi" THEN <<>> ELSE toHost
  /\ resetAt' = faults

(* Mutant of NeedsReset: only a TIMEOUT makes the caller reset the module. *)
NeedsResetOnTimeout == ResetOnError /\ result = "TIMEOUT"

NeedsReset == ResetOnError /\ result \in {"IO_ERROR", "TIMEOUT"}

(* The call returns and the application reacts to its result. *)
Return ==
  /\ pc = "done"
  /\ pc' = "idle"
  /\ \/ NeedsReset /\ ResetModule
     \/ ~NeedsReset /\ resetAt' = -1
                    /\ UNCHANGED <<toModule, toHost, modPc, modReq, modNr>>
  /\ UNCHANGED <<cmd, sendVars, frameVars, recvVars, resVars, served, mixed, faults>>

--------------------------------------------------------------------------------
(* The BM-Lite module (external). *)

(* It acknowledges the frames of a command in order, and drops the rest. *)
ModuleListens ==
  /\ modPc = "listen"
  /\ toModule # <<>>
  /\ LET u == Head(toModule)
         f == u.frame
     IN  \/ /\ u.kind = "frame"
            /\ f.nr = 1 \/ f.nr = Len(modReq) + 1
            /\ modReq' = IF f.nr = 1 THEN <<f>> ELSE Append(modReq, f)
            /\ toHost' = Append(toHost, Ack)
            /\ modPc' = IF f.nr >= f.of THEN "exec" ELSE "listen"
         \/ /\ u.kind # "frame" \/ f.nr \notin {1, Len(modReq) + 1}
            /\ UNCHANGED <<modPc, modReq, toHost>>
  /\ toModule' = Tail(toModule)
  /\ UNCHANGED <<hostVars, modNr, served, mixed, faults>>

(* The module puts frame nr of an answer on the wire; a malformed one has  *)
(* a transport size that contradicts its link size.                        *)
ModuleSends(c, a, nr) ==
  LET f == AnswerFrame(c, a, nr)
  IN  \/ toHost' = Append(toHost, Carry(f)) /\ UNCHANGED faults
      \/ /\ Fault("malformed")
         /\ toHost' = Append(toHost, Carry([f EXCEPT !.lnkSize = @ + 1]))

(* It runs the command it has received and sends the first answer frame. *)
ModuleExecutes ==
  /\ modPc = "exec"
  /\ LET c == modReq[1].cmd
     IN  \E a \in Answers :
           /\ served' = [served EXCEPT ![c] = a]
           /\ ModuleSends(c, a, 1)
  /\ mixed' = (mixed \/ \E i \in 1..Len(modReq) : modReq[i].cmd # modReq[1].cmd)
  /\ modNr' = 1
  /\ modPc' = "reply"
  /\ UNCHANGED <<hostVars, toModule, modReq>>

(* It gets the acknowledgement of an answer frame, and sends the next. *)
ModuleContinues ==
  /\ modPc = "reply"
  /\ toModule # <<>>
  /\ Head(toModule).kind = "ack"
  /\ toModule' = Tail(toModule)
  /\ LET c == modReq[1].cmd
     IN  \/ /\ modNr < SeqLen(served[c].size)
            /\ ModuleSends(c, served[c], modNr + 1)
            /\ modNr' = modNr + 1
            /\ UNCHANGED <<modPc, modReq>>
         \/ /\ modNr >= SeqLen(served[c].size)
            /\ modPc' = "listen" /\ modReq' = <<>> /\ modNr' = 0
            /\ UNCHANGED <<toHost, faults>>
  /\ UNCHANGED <<hostVars, served, mixed>>

(* It gives up an answer nobody acknowledges, or for a new command. *)
ModuleGivesUp ==
  /\ modPc = "reply"
  /\ \/ toModule = <<>> /\ toHost = <<>> /\ UNCHANGED faults
     \/ toModule # <<>> /\ Head(toModule).kind = "frame" /\ UNCHANGED faults
     \/ Fault("late")
  /\ modPc' = "listen" /\ modReq' = <<>> /\ modNr' = 0
  /\ UNCHANGED <<hostVars, toModule, toHost, served, mixed>>

(* It stops until it is reset; what it has sent can still be read. *)
ModuleCrashes ==
  /\ modPc # "dead"
  /\ Fault("crash")
  /\ modPc' = "dead" /\ modReq' = <<>> /\ modNr' = 0
  /\ toModule' = <<>>
  /\ UNCHANGED <<hostVars, toHost, served, mixed>>

--------------------------------------------------------------------------------
(* The link (external): a unit is lost when it is the next to be read, and *)
(* a corrupted frame has any size and no matching CRC.                     *)

LinkLoses ==
  /\ Fault("lose")
  /\ \/ toModule # <<>> /\ toModule' = Tail(toModule) /\ UNCHANGED toHost
     \/ /\ toHost # <<>> /\ Head(toHost).kind \in {"ack", "frame"}
        /\ toHost' = Tail(toHost)
        /\ UNCHANGED toModule
  /\ UNCHANGED <<hostVars, modVars>>

LinkCorrupts ==
  /\ Fault("corrupt")
  /\ toHost # <<>>
  /\ Head(toHost).kind \in {"ack", "frame", "body"}
  /\ LET u == Head(toHost)
     IN  toHost' = <<IF u.kind = "ack" THEN Bare("glitch")
                     ELSE [u EXCEPT !.frame.src = "junk"]>> \o Tail(toHost)
  /\ UNCHANGED <<hostVars, modVars, toModule>>

--------------------------------------------------------------------------------
HostStep == SendFrame \/ ReadAck \/ ReadHeader \/ ReadBody \/ ParseResult \/ Return
ModuleStep == ModuleListens \/ ModuleExecutes \/ ModuleContinues \/ ModuleGivesUp
LinkStep == LinkLoses \/ LinkCorrupts

Next == Call \/ HostStep \/ ModuleStep \/ ModuleCrashes \/ LinkStep

Spec == Init /\ [][Next]_vars

(* The host runs on, its reads end at their timeouts, and the module that  *)
(* is alive works; nobody promises a call, a loss or a delay.              *)
FairSpec == Spec /\ WF_vars(HostStep) /\ WF_vars(ModuleStep)

--------------------------------------------------------------------------------
(* Properties. *)

Results == {"OK", "IO_ERROR", "TIMEOUT", "NO_MEMORY"}

HostTypes ==
  /\ pc \in {"idle", "tx", "ack", "rxhdr", "rxbody", "parse", "done"}
  /\ cmd \in 0..MaxCmds
  /\ pktSize \in Nat /\ dataLeft \in Nat
  /\ seqNr \in Nat /\ seqLen \in Nat
  /\ txrx \in [size : Nat, frame : Frame]
  /\ pkt \in Seq(Frame)
  /\ offset \in Nat /\ bufLen \in Nat /\ bufLen < 65536
  /\ comResult \in Results /\ result \in Results
  /\ bepResult \in Outcomes
  /\ resetAt \in -1..MaxFaults

WireTypes ==
  /\ toModule \in Seq(HostUnit) /\ toHost \in Seq(Unit)
  /\ faults \in 0..MaxFaults

ModuleTypes ==
  /\ modPc \in {"listen", "exec", "reply", "dead"}
  /\ modReq \in Seq(CommandFrame)
  /\ modNr \in Nat
  /\ served \in [1..MaxCmds -> Answers \cup {NotServed}]
  /\ mixed \in BOOLEAN

(* Every variable keeps to the values the code's types and the protocol    *)
(* give it; the types of the host are those of HCP_comm_t and of the local *)
(* variables of hcp_tiny.c.                                                *)
TypeOK == HostTypes /\ WireTypes /\ ModuleTypes

(* What the copies of hcp_tiny.c may touch: bmlite_receive never writes    *)
(* past pkt_buffer and counts what it wrote (lines 176-179), and neither   *)
(* the body read of _rx_link (215-221) nor the CRC store of _tx_link (285) *)
(* goes past the MTU bytes of txrx_buffer.                                 *)
WithinBuffers ==
  /\ offset = bufLen
  /\ offset <= PktSizeMax
  /\ pc \in {"ack", "rxbody"} => txrx.size + 8 <= Mtu

(* bmlite_tranceive returns OK only with the whole answer to the command   *)
(* it was called with, its frames in order, and with the outcome the       *)
(* module gave it in bep_result (hcp_tiny.h lines 74-86).                  *)
FreshAnswer ==
  (pc = "done" /\ result = "OK") =>
     LET a == served[cmd]
     IN  /\ a # NotServed
         /\ pkt = [i \in 1..SeqLen(a.size) |-> AnswerFrame(cmd, a, i)]
         /\ pktSize = a.size
         /\ bepResult = a.res

(* bmlite_send cuts the packet so that the module gets all of it, once and *)
(* in order: what the module is about to run for the command in progress   *)
(* is the packet, slice by slice (hcp_tiny.c lines 252-270).               *)
WholeCommand ==
  (modPc = "exec" /\ modReq[1].cmd = cmd) =>
     modReq = [i \in 1..SeqLen(pktSize) |->
                 HostFrame(i, SeqLen(pktSize), SliceSize(pktSize, i))]

(* The module never runs a packet made of frames of two commands.          *)
NeverMixed == ~mixed

(* bmlite_send returns OK only when the module has taken the whole         *)
(* command: the acknowledgements it counted were those of its own frames   *)
(* (the handshake of _tx_link, hcp_tiny.c lines 290-303).                  *)
SentMeansTaken ==
  (pc = "rxhdr" /\ seqNr = 0) =>
     \/ modPc = "exec" /\ modReq[1].cmd = cmd
     \/ served[cmd] # NotServed
     \/ modPc = "dead"

(* Answers of pkt_size_max bytes and more are refused for want of memory,  *)
(* and no others, whatever frames they come in.  That is one byte less     *)
(* than pkt_buffer holds (hcp_tiny.h 43-44): an answer of exactly          *)
(* pkt_size_max bytes would fit, but the < at hcp_tiny.c:176 refuses it.   *)
RefusedExactly ==
  pc = "done" =>
    /\ result = "NO_MEMORY" => served[cmd].size >= PktSizeMax
    /\ result = "OK" => served[cmd].size < PktSizeMax

(* bmlite_tranceive promises what HcpExchange says. *)
Exchange == INSTANCE HcpExchange WITH
  phase <- IF pc \in {"idle", "done"} THEN "idle" ELSE "busy",
  reply <- IF pc \notin {"idle", "done"} \/ cmd = 0
             THEN [status |-> "pending", cmd |-> 0, answer |-> NotServed]
           ELSE IF result = "OK"
             THEN [status |-> "ok", cmd |-> Head(pkt).cmd,
                   answer |-> [res |-> bepResult, size |-> pktSize]]
           ELSE [status |-> "failed", cmd |-> 0, answer |-> NotServed]

AtMostOnceExchange == Exchange!Spec

(* Every call of bmlite_tranceive returns: no fault of the link or of the  *)
(* module keeps the host in its loops, as long as phy_rx_timeout is not 0. *)
EveryCallReturns == (pc = "tx") ~> (pc = "idle")

(* The reset returns the module into a known state (README.md line 44): a  *)
(* command sent right after one is served when no fault follows the reset. *)
ResetRecovers ==
  (pc = "tx" /\ seqNr = 1 /\ resetAt = MaxFaults)
     ~> (pc = "done" /\ result \in {"OK", "NO_MEMORY"})
================================================================================
