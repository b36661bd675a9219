-------------------------- MODULE HcpTransport_proofs --------------------------
(***************************************************************************)
(* Theorems about HcpTransport and their proofs: first those for every     *)
(* value of its constants, then those about a host and a module in step,   *)
(* up to the refinement of HcpExchange.                                    *)
(***************************************************************************)
EXTENDS HcpTransport, SequenceTheorems, TLAPS

(* What the type invariant needs to be inductive: a command exists while   *)
(* the host is in a call, and while the module runs or answers one.        *)
Issued ==
  /\ pc # "idle" => cmd >= 1
  /\ modPc \in {"exec", "reply"} => modReq # <<>>

TypeInv == TypeOK /\ Issued

--------------------------------------------------------------------------------
(* Facts about the operators the model is built from. *)

(* The payload of a frame never exceeds what is left, nor AppMtu.          *)
LEMMA FrameSizeBounds ==
  ASSUME NEW left \in Nat
  PROVE  /\ AppMtu \in Nat \ {0}
         /\ FrameSize(left) \in Nat
         /\ FrameSize(left) <= left
         /\ FrameSize(left) <= AppMtu
  BY MtuAssumption DEF FrameSize, AppMtu

(* A packet has at least one frame. *)
LEMMA SeqLenType ==
  ASSUME NEW n \in Nat
  PROVE  SeqLen(n) \in Nat \ {0}
<1>1. AppMtu \in Nat \ {0}
  BY MtuAssumption DEF AppMtu
<1>2. n \div AppMtu \in Nat
  BY <1>1
<1> QED
  BY <1>2 DEF SeqLen

(* Every frame of a packet has a payload of a natural number of bytes: the *)
(* frames before it do not exceed the packet.                              *)
LEMMA SliceSizeType ==
  ASSUME NEW n \in Nat, NEW nr \in 1..SeqLen(n)
  PROVE  SliceSize(n, nr) \in Nat /\ SliceSize(n, nr) <= AppMtu
<1>1. AppMtu \in Nat \ {0}
  BY MtuAssumption DEF AppMtu
<1> DEFINE q == n \div AppMtu
<1>2. q \in Nat /\ q * AppMtu \in Nat /\ q * AppMtu <= n
  BY <1>1
<1>3. nr - 1 \in Nat /\ nr - 1 <= q
  BY <1>2 DEF SeqLen
<1>4. (nr - 1) * AppMtu \in Nat /\ (nr - 1) * AppMtu <= q * AppMtu
  BY <1>1, <1>2, <1>3
<1>5. n - (nr - 1) * AppMtu \in Nat
  <2> HIDE DEF q
  <2>1. (nr - 1) * AppMtu <= n
    BY <1>2, <1>4
  <2> QED
    BY <1>4, <2>1
<1> QED
  BY <1>5, FrameSizeBounds DEF SliceSize

LEMMA JunkIsFrame == JunkFrame \in Frame
  BY OutcomesAssumption, BoundsAssumption DEF JunkFrame, Frame

LEMMA BareIsUnit ==
  ASSUME NEW kind \in UnitKinds
  PROVE  Bare(kind) \in Unit
  BY JunkIsFrame DEF Bare, Unit

LEMMA AckIsUnit == Ack \in Unit /\ Ack \in HostUnit
  BY BareIsUnit DEF Ack, HostUnit, UnitKinds

LEMMA CarryIsUnit ==
  ASSUME NEW f \in Frame
  PROVE  /\ Carry(f) \in Unit
         /\ f \in CommandFrame => Carry(f) \in HostUnit
  BY DEF Carry, Unit, UnitKinds, HostUnit

(* The frames the host builds are frames of its command. *)
LEMMA HostFrameType ==
  ASSUME cmd \in 1..MaxCmds, NEW nr \in Nat, NEW of \in Nat, NEW n \in Nat
  PROVE  HostFrame(nr, of, n) \in CommandFrame
  BY OutcomesAssumption, BoundsAssumption DEF HostFrame, CommandFrame, Frame

(* Answer frames are frames, malformed or not. *)
LEMMA AnswerFrameType ==
  ASSUME NEW c \in 1..MaxCmds, NEW a \in Answers \cup {NotServed},
         NEW nr \in 1..SeqLen(a.size)
  PROVE  LET f == AnswerFrame(c, a, nr)
         IN  f \in Frame /\ [f EXCEPT !.lnkSize = @ + 1] \in Frame
<1>1. a.size \in Nat /\ a.res \in Outcomes
  <2>1. CASE a \in Answers
    BY <2>1, SizesAssumption DEF Answers
  <2>2. CASE a = NotServed
    BY <2>2, OutcomesAssumption DEF NotServed
  <2> QED
    BY <2>1, <2>2
<1>2. SliceSize(a.size, nr) \in Nat /\ SeqLen(a.size) \in Nat
  BY <1>1, SliceSizeType, SeqLenType
<1> QED
  BY <1>1, <1>2, BoundsAssumption DEF AnswerFrame, Frame

(* Reading four bytes of the stream leaves a stream. *)
LEMMA AfterWordType ==
  ASSUME NEW q \in Seq(Unit), q # <<>>
  PROVE  AfterWord(q) \subseteq Seq(Unit)
<1>1. Head(q) \in Unit /\ Tail(q) \in Seq(Unit)
  BY HeadTailProperties
<1>2. [Head(q) EXCEPT !.kind = "body"] \in Unit
  BY <1>1 DEF Unit, UnitKinds
<1>3. Bare("noise") \in Unit
  BY BareIsUnit DEF UnitKinds
<1>4. \A u \in Unit : <<u>> \o Tail(q) \in Seq(Unit)
  BY <1>1, ConcatProperties
<1> DEFINE noise == <<Bare("noise")>> \o Tail(q)
           body == <<[Head(q) EXCEPT !.kind = "body"]>> \o Tail(q)
<1>5. noise \in Seq(Unit) /\ body \in Seq(Unit)
  BY <1>2, <1>3, <1>4
<1>6. AfterWord(q) \subseteq {noise, body, Tail(q)}
  BY DEF AfterWord
<1> HIDE DEF noise, body
<1> QED
  BY <1>1, <1>5, <1>6

(* So does a read of a length that fits no unit. *)
LEMMA AfterMisreadType ==
  ASSUME NEW q \in Seq(Unit), NEW r \in AfterMisread(q)
  PROVE  r \in Seq(Unit)
<1>1. \A k \in 2..(Len(q) + 1) : SubSeq(q, k, Len(q)) \in Seq(Unit)
  <2> SUFFICES ASSUME NEW k \in 2..(Len(q) + 1)
               PROVE  SubSeq(q, k, Len(q)) \in Seq(Unit)
    OBVIOUS
  <2>1. Len(q) \in Nat /\ k \in Int
    BY LenProperties
  <2>2. \A i \in k..Len(q) : q[i] \in Unit
    BY <2>1, ElementOfSeq
  <2> QED
    BY <2>1, <2>2, SubSeqProperties
<1>2. Bare("noise") \in Unit
  BY BareIsUnit DEF UnitKinds
<1>3. \A s \in Seq(Unit) : <<Bare("noise")>> \o s \in Seq(Unit)
  BY <1>2, ConcatProperties
<1> QED
  BY <1>1, <1>3 DEF AfterMisread

--------------------------------------------------------------------------------
(* The type invariant is inductive: one lemma per action. *)

(* A step that leaves the module alone keeps its types. *)
LEMMA ModuleStays ==
  ASSUME ModuleTypes, UNCHANGED modVars
  PROVE  ModuleTypes'
  BY DEF ModuleTypes, modVars

(* A step that leaves the host alone keeps its types. *)
LEMMA HostStays ==
  ASSUME HostTypes, UNCHANGED hostVars
  PROVE  HostTypes'
  BY DEF HostTypes, hostVars, sendVars, frameVars, recvVars, resVars

LEMMA InitTypes == Init => TypeInv
<1> SUFFICES ASSUME Init PROVE TypeInv
  OBVIOUS
<1>1. HostTypes
  BY JunkIsFrame, EmptySeq, OutcomesAssumption, BoundsAssumption
  DEF Init, HostTypes, Results
<1>2. WireTypes
  BY EmptySeq, BoundsAssumption DEF Init, WireTypes
<1>3. ModuleTypes
  BY EmptySeq DEF Init, ModuleTypes
<1>4. Issued
  BY DEF Init, Issued
<1> QED
  BY <1>1, <1>2, <1>3, <1>4 DEF TypeInv, TypeOK

LEMMA CallTypes ==
  ASSUME TypeInv, Call
  PROVE  TypeInv'
<1>1. PICK n \in RequestSizes : pktSize' = n /\ dataLeft' = n % 65536
                                /\ seqLen' = SeqLen(n % 65536)
  BY DEF Call
<1>2. n \in Nat /\ n % 65536 \in Nat
  BY SizesAssumption
<1>3. pktSize' \in Nat /\ dataLeft' \in Nat /\ seqLen' \in Nat
  BY <1>1, <1>2, SeqLenType
<1>4. pkt' \in Seq(Frame)
  BY EmptySeq DEF Call
<1>5. HostTypes'
  BY <1>3, <1>4, BoundsAssumption DEF Call, TypeInv, TypeOK, HostTypes, resVars
<1>6. WireTypes'
  BY DEF Call, TypeInv, TypeOK, WireTypes
<1>7. ModuleTypes'
  BY ModuleStays DEF Call, TypeInv, TypeOK
<1>8. Issued'
  BY BoundsAssumption DEF Call, TypeInv, TypeOK, HostTypes, Issued, modVars
<1> QED
  BY <1>5, <1>6, <1>7, <1>8 DEF TypeInv, TypeOK

LEMMA SendFrameTypes ==
  ASSUME TypeInv, SendFrame
  PROVE  TypeInv'
<1> USE DEF TypeInv, TypeOK
<1> DEFINE f == HostFrame(seqNr, seqLen, FrameSize(dataLeft))
<1>1. FrameSize(dataLeft) \in Nat /\ FrameSize(dataLeft) <= dataLeft
  <2>1. dataLeft \in Nat
    BY DEF HostTypes
  <2> QED
    BY <2>1, FrameSizeBounds
<1>2. cmd \in 1..MaxCmds
  <2>1. cmd >= 1
    BY DEF SendFrame, Issued
  <2> QED
    BY <2>1, BoundsAssumption DEF HostTypes
<1>3. f \in CommandFrame /\ f \in Frame
  <2>1. seqNr \in Nat /\ seqLen \in Nat
    BY DEF HostTypes
  <2>2. f \in CommandFrame
    BY <1>1, <1>2, <2>1, HostFrameType
  <2> HIDE DEF f
  <2> QED
    BY <2>2 DEF CommandFrame
<1>4. f.tSize = FrameSize(dataLeft) /\ f.lnkSize \in Nat
  BY <1>1 DEF HostFrame
<1>5. dataLeft' \in Nat
  BY <1>1, <1>4 DEF SendFrame, HostTypes
<1>6. txrx' \in [size : Nat, frame : Frame]
  BY <1>3, <1>4 DEF SendFrame
<1>7. toModule' \in Seq(HostUnit)
  <2>1. Carry(f) \in HostUnit
    BY <1>3, CarryIsUnit
  <2>2. toModule' = Append(toModule, Carry(f))
    BY DEF SendFrame
  <2> HIDE DEF f
  <2> QED
    BY <2>1, <2>2, AppendProperties DEF WireTypes
<1>8. HostTypes'
  BY <1>5, <1>6 DEF SendFrame, HostTypes, recvVars, resVars
<1>9. WireTypes'
  BY <1>7 DEF SendFrame, WireTypes
<1>10. ModuleTypes' /\ Issued'
  BY ModuleStays DEF SendFrame, Issued, modVars
<1> QED
  BY <1>8, <1>9, <1>10

(* Every kind of read keeps the fault counter and the stream in their types. *)
LEMMA ReadTypes ==
  ASSUME WireTypes
  PROVE  /\ \A kind : Fault(kind) => faults' \in 0..MaxFaults
         /\ ReadTimesOut => faults' \in 0..MaxFaults
         /\ TransferFails => faults' \in 0..MaxFaults /\ toHost' \in Seq(Unit)
         /\ toHost # <<>> => /\ Head(toHost) \in Unit
                             /\ Tail(toHost) \in Seq(Unit)
                             /\ AfterWord(toHost) \subseteq Seq(Unit)
<1>1. \A kind : Fault(kind) => faults' \in 0..MaxFaults
  BY BoundsAssumption DEF WireTypes, Fault
<1>2. ReadTimesOut => faults' \in 0..MaxFaults
  BY <1>1 DEF WireTypes, ReadTimesOut
<1>3. toHost # <<>> => AfterWord(toHost) \subseteq Seq(Unit)
  BY AfterWordType DEF WireTypes
<1>4. toHost # <<>> => Head(toHost) \in Unit /\ Tail(toHost) \in Seq(Unit)
  BY HeadTailProperties DEF WireTypes
<1>5. TransferFails => faults' \in 0..MaxFaults /\ toHost' \in Seq(Unit)
  BY <1>1, <1>3 DEF WireTypes, TransferFails
<1> QED
  BY <1>1, <1>2, <1>3, <1>4, <1>5

LEMMA ReadAckTypes ==
  ASSUME TypeInv, ReadAck
  PROVE  TypeInv'
<1> USE DEF TypeInv, TypeOK
<1>1. FrameSent \/ SendFails
  BY DEF ReadAck
<1>2. /\ pc' \in {"tx", "rxhdr", "done"}
      /\ seqNr' \in Nat /\ seqLen' \in Nat
      /\ offset' \in Nat /\ bufLen' \in Nat /\ bufLen' < 65536
      /\ comResult' \in Results /\ result' \in Results
  BY <1>1 DEF FrameSent, SendFails, StartReceive, HostTypes, Results
<1>3. HostTypes'
  BY <1>2 DEF ReadAck, HostTypes, sendVars
<1>4. WireTypes'
  BY ReadTypes DEF ReadAck, WireTypes
<1>5. ModuleTypes'
  BY ModuleStays DEF ReadAck
<1>6. Issued'
  BY DEF ReadAck, Issued, modVars
<1> QED
  BY <1>3, <1>4, <1>5, <1>6

LEMMA ReadHeaderTypes ==
  ASSUME TypeInv, ReadHeader
  PROVE  TypeInv'
<1> USE DEF TypeInv, TypeOK
<1>1. \A u \in Unit : SizesRead(u) \subseteq Nat
  BY MtuAssumption DEF SizesRead, AckAsSize, Unit, Frame
<1>2. txrx' \in [size : Nat, frame : Frame]
  BY <1>1, ReadTypes DEF ReadHeader, HostTypes
<1>3. pc' \in {"rxbody", "parse"} /\ result' \in Results
  BY DEF ReadHeader, ReceiveFails, HostTypes, Results
<1>4. HostTypes'
  BY <1>2, <1>3 DEF ReadHeader, HostTypes, sendVars, recvVars
<1>5. WireTypes'
  BY ReadTypes DEF ReadHeader, WireTypes
<1>6. ModuleTypes'
  BY ModuleStays DEF ReadHeader
<1>7. Issued'
  BY DEF ReadHeader, Issued, modVars
<1> QED
  BY <1>4, <1>5, <1>6, <1>7

(* What _rx_link and bmlite_receive leave behind a body read. *)
LEMMA CheckCrcTypes ==
  ASSUME HostTypes, WireTypes, NEW f \in Frame, CheckCrc(f)
  PROVE  /\ pc' \in {"rxhdr", "parse"}
         /\ txrx' \in [size : Nat, frame : Frame]
         /\ pktSize' \in Nat
         /\ seqNr' \in Nat /\ seqLen' \in Nat
         /\ pkt' \in Seq(Frame)
         /\ offset' \in Nat /\ bufLen' \in Nat /\ bufLen' < 65536
         /\ comResult' \in Results /\ result' \in Results
         /\ toModule' \in Seq(HostUnit)
<1>1. txrx' \in [size : Nat, frame : Frame]
  BY DEF CheckCrc, HostTypes
<1>2. CASE ~CrcMatches(txrx.size, f)
  BY <1>1, <1>2 DEF CheckCrc, ReceiveFails, HostTypes, WireTypes, recvVars, Results
<1>3. CASE CrcMatches(txrx.size, f)
  <2>1. Accept(f)
    BY <1>3 DEF CheckCrc
  <2>2. toModule' \in Seq(HostUnit)
    BY <2>1, AckIsUnit, AppendProperties DEF Accept, WireTypes
  <2>3. f.nr \in Nat /\ f.of \in Nat /\ f.tSize \in Nat
    BY DEF Frame
  <2>4. Append(pkt, f) \in Seq(Frame)
    BY AppendProperties DEF HostTypes
  <2>5. /\ pkt' \in Seq(Frame)
        /\ offset' \in Nat /\ bufLen' \in Nat /\ bufLen' < 65536
        /\ comResult' \in Results
    <3>1. bufLen \in Nat /\ bufLen < 65536 /\ offset \in Nat
      BY DEF HostTypes
    <3>2. (bufLen + f.tSize) % 65536 \in Nat /\ (bufLen + f.tSize) % 65536 < 65536
      BY <2>3, <3>1
    <3>3. TakePayload(f)
      BY <2>1 DEF Accept
    <3>4. pkt' \in Seq(Frame)
      <4>1. pkt' = pkt \/ pkt' = Append(pkt, f)
        BY <3>3 DEF TakePayload
      <4>2. pkt \in Seq(Frame)
        BY DEF HostTypes
      <4> QED
        BY <2>4, <4>1, <4>2
    <3>7. comResult' \in Results
      <4>1. comResult' \in {"IO_ERROR", "NO_MEMORY", comResult}
        BY <3>3 DEF TakePayload
      <4>2. comResult \in Results
        BY DEF HostTypes
      <4> QED
        BY <4>1, <4>2 DEF Results
    <3>5. \/ offset' = offset /\ bufLen' = bufLen
          \/ offset' = offset + f.tSize /\ bufLen' = (bufLen + f.tSize) % 65536
      BY <3>3 DEF TakePayload
    <3>6. offset' \in Nat /\ bufLen' \in Nat /\ bufLen' < 65536
      BY <2>3, <3>1, <3>2, <3>5
    <3> QED
      BY <3>4, <3>6, <3>7
  <2>6. /\ pc' \in {"rxhdr", "parse"}
        /\ pktSize' \in Nat /\ result' \in Results
        /\ seqNr' \in Nat /\ seqLen' \in Nat
    BY <2>1, <2>3, <2>5 DEF Accept, HostTypes
  <2> QED
    BY <1>1, <2>2, <2>5, <2>6
<1> QED
  BY <1>2, <1>3

LEMMA ReadBodyTypes ==
  ASSUME TypeInv, ReadBody
  PROVE  TypeInv'
<1> USE DEF TypeInv, TypeOK
<1>1. PICK f \in Frame : CheckCrc(f)
  <2>1. toHost # <<>> => Head(toHost).frame \in Frame
    BY ReadTypes DEF Unit
  <2>2. txrx.frame \in Frame
    BY DEF HostTypes
  <2> QED
    BY <2>1, <2>2, JunkIsFrame DEF ReadBody
<1>2. faults' \in 0..MaxFaults /\ toHost' \in Seq(Unit)
  BY ReadTypes, AfterMisreadType DEF ReadBody, WireTypes
<1>3. HostTypes'
  BY <1>1, CheckCrcTypes DEF ReadBody, HostTypes
<1>4. WireTypes'
  BY <1>1, <1>2, CheckCrcTypes DEF WireTypes
<1>5. ModuleTypes'
  BY ModuleStays DEF ReadBody
<1>6. Issued'
  BY DEF ReadBody, Issued, modVars
<1> QED
  BY <1>3, <1>4, <1>5, <1>6

LEMMA ParseResultTypes ==
  ASSUME TypeInv, ParseResult
  PROVE  TypeInv'
<1> USE DEF TypeInv, TypeOK
<1>1. FoundResults \subseteq Outcomes
  <2>1. pkt # <<>> => Head(pkt) \in Frame
    BY HeadTailProperties DEF HostTypes
  <2> QED
    BY <2>1, OutcomesAssumption DEF FoundResults, Frame
<1>2. HostTypes'
  BY <1>1 DEF ParseResult, HostTypes, sendVars, frameVars, recvVars
<1>3. WireTypes'
  BY DEF ParseResult, WireTypes
<1>4. ModuleTypes'
  BY ModuleStays DEF ParseResult
<1>5. Issued'
  BY DEF ParseResult, Issued, modVars
<1> QED
  BY <1>2, <1>3, <1>4, <1>5

LEMMA ReturnTypes ==
  ASSUME TypeInv, Return
  PROVE  TypeInv'
<1> USE DEF TypeInv, TypeOK
<1>1. <<>> \in Seq(Unit) /\ <<>> \in Seq(HostUnit) /\ <<>> \in Seq(CommandFrame)
  BY EmptySeq
<1>2. resetAt' \in -1..MaxFaults
  BY BoundsAssumption DEF Return, ResetModule, WireTypes
<1>3. HostTypes'
  BY <1>2 DEF Return, HostTypes, sendVars, frameVars, recvVars, resVars
<1>4. WireTypes'
  BY <1>1 DEF Return, ResetModule, WireTypes
<1>5. ModuleTypes'
  <2>1. CASE ResetModule
    BY <1>1, <2>1 DEF Return, ResetModule, ModuleTypes
  <2>2. CASE UNCHANGED <<modPc, modReq, modNr>>
    BY <2>2 DEF Return, ModuleTypes
  <2> QED
    BY <2>1, <2>2 DEF Return
<1>6. Issued'
  BY DEF Return, ResetModule, Issued
<1> QED
  BY <1>3, <1>4, <1>5, <1>6

(* Taking the next unit off the stream to the module. *)
LEMMA TakeTypes ==
  ASSUME WireTypes, toModule # <<>>
  PROVE  /\ Head(toModule) \in HostUnit
         /\ Tail(toModule) \in Seq(HostUnit)
         /\ Head(toModule).kind = "frame" => Head(toModule).frame \in CommandFrame
<1>1. Head(toModule) \in HostUnit /\ Tail(toModule) \in Seq(HostUnit)
  BY HeadTailProperties DEF WireTypes
<1> QED
  BY <1>1 DEF HostUnit, Ack, Bare

LEMMA ModuleListensTypes ==
  ASSUME TypeInv, ModuleListens
  PROVE  TypeInv'
<1> USE DEF TypeInv, TypeOK
<1> DEFINE u == Head(toModule)
           f == u.frame
<1>1. toModule # <<>> /\ modPc = "listen"
  BY DEF ModuleListens
<1>2. Tail(toModule) \in Seq(HostUnit) /\ (u.kind = "frame" => f \in CommandFrame)
  BY <1>1, TakeTypes
<1>3. HostTypes'
  BY HostStays DEF ModuleListens
<1>4. CASE /\ u.kind = "frame"
           /\ f.nr = 1 \/ f.nr = Len(modReq) + 1
           /\ modReq' = IF f.nr = 1 THEN <<f>> ELSE Append(modReq, f)
           /\ toHost' = Append(toHost, Ack)
           /\ modPc' = IF f.nr >= f.of THEN "exec" ELSE "listen"
  <2>1. f \in CommandFrame
    BY <1>2, <1>4
  <2> HIDE DEF f
  <2>2. <<f>> \in Seq(CommandFrame) /\ <<f>> # <<>>
    BY <2>1
  <2>3. Append(modReq, f) \in Seq(CommandFrame) /\ Append(modReq, f) # <<>>
    BY <2>1, AppendProperties DEF ModuleTypes
  <2>4. modReq' \in Seq(CommandFrame) /\ modReq' # <<>>
    BY <1>4, <2>2, <2>3
  <2>5. toHost' \in Seq(Unit)
    BY <1>4, AckIsUnit, AppendProperties DEF WireTypes
  <2>6. WireTypes'
    BY <1>2, <2>5 DEF ModuleListens, WireTypes
  <2>7. ModuleTypes'
    BY <1>4, <2>4 DEF ModuleListens, ModuleTypes
  <2>8. Issued'
    BY <2>4 DEF ModuleListens, Issued, hostVars
  <2> QED
    BY <1>3, <2>6, <2>7, <2>8
<1>5. CASE UNCHANGED <<modPc, modReq, toHost>>
  <2>1. WireTypes' /\ ModuleTypes'
    BY <1>2, <1>5 DEF ModuleListens, WireTypes, ModuleTypes
  <2>2. Issued'
    BY <1>1, <1>5 DEF ModuleListens, Issued, hostVars
  <2> QED
    BY <1>3, <2>1, <2>2
<1> QED
  BY <1>4, <1>5 DEF ModuleListens

(* The module sends a frame of the answer to the command it has received.  *)
LEMMA ModuleSendsTypes ==
  ASSUME WireTypes, NEW c \in 1..MaxCmds, NEW a \in Answers \cup {NotServed},
         NEW nr \in 1..SeqLen(a.size), ModuleSends(c, a, nr)
  PROVE  toHost' \in Seq(Unit) /\ faults' \in 0..MaxFaults
<1> DEFINE f == AnswerFrame(c, a, nr)
           g == [f EXCEPT !.lnkSize = @ + 1]
<1>1. f \in Frame /\ g \in Frame
  BY AnswerFrameType
<1>2. Carry(f) \in Unit /\ Carry(g) \in Unit
  BY <1>1, CarryIsUnit
<1>3. \/ toHost' = Append(toHost, Carry(f)) /\ UNCHANGED faults
      \/ Fault("malformed") /\ toHost' = Append(toHost, Carry(g))
  BY DEF ModuleSends
<1>4. faults' \in 0..MaxFaults
  BY <1>3, ReadTypes DEF WireTypes
<1> HIDE DEF f, g
<1>5. toHost' \in Seq(Unit)
  <2>1. toHost \in Seq(Unit)
    BY DEF WireTypes
  <2>2. /\ Append(toHost, Carry(f)) \in Seq(Unit)
        /\ Append(toHost, Carry(g)) \in Seq(Unit)
    BY <1>2, <2>1, AppendProperties
  <2> QED
    BY <1>3, <2>2
<1> QED
  BY <1>4, <1>5

(* The command a module that runs or answers one has received. *)
LEMMA RequestTypes ==
  ASSUME ModuleTypes, modReq # <<>>
  PROVE  modReq[1] \in CommandFrame /\ modReq[1].cmd \in 1..MaxCmds
<1>1. 1 \in 1..Len(modReq)
  BY EmptySeq DEF ModuleTypes
<1>2. modReq[1] \in CommandFrame
  BY <1>1, ElementOfSeq DEF ModuleTypes
<1> QED
  BY <1>2 DEF CommandFrame

LEMMA ModuleExecutesTypes ==
  ASSUME TypeInv, ModuleExecutes
  PROVE  TypeInv'
<1> USE DEF TypeInv, TypeOK
<1> DEFINE c == modReq[1].cmd
<1>1. modReq # <<>> /\ c \in 1..MaxCmds
  BY RequestTypes DEF ModuleExecutes, Issued
<1>2. PICK a \in Answers : served' = [served EXCEPT ![c] = a] /\ ModuleSends(c, a, 1)
  BY DEF ModuleExecutes
<1>3. 1 \in 1..SeqLen(a.size)
  <2>1. a.size \in Nat
    BY SizesAssumption DEF Answers
  <2>2. SeqLen(a.size) \in Nat \ {0}
    BY <2>1, SeqLenType
  <2> QED
    BY <2>2
<1>4. toHost' \in Seq(Unit) /\ faults' \in 0..MaxFaults
  BY <1>1, <1>2, <1>3, ModuleSendsTypes
<1>5. HostTypes'
  BY HostStays DEF ModuleExecutes
<1>6. WireTypes'
  BY <1>4 DEF ModuleExecutes, WireTypes
<1>7. served' \in [1..MaxCmds -> Answers \cup {NotServed}]
  BY <1>1, <1>2 DEF ModuleTypes
<1>8. mixed' \in BOOLEAN
  BY DEF ModuleExecutes, ModuleTypes
<1>9. ModuleTypes'
  BY <1>7, <1>8 DEF ModuleExecutes, ModuleTypes
<1>10. Issued'
  BY <1>1 DEF ModuleExecutes, Issued, hostVars
<1> QED
  BY <1>5, <1>6, <1>9, <1>10

LEMMA ModuleContinuesTypes ==
  ASSUME TypeInv, ModuleContinues
  PROVE  TypeInv'
<1> USE DEF TypeInv, TypeOK
<1> DEFINE c == modReq[1].cmd
<1>1. modReq # <<>> /\ c \in 1..MaxCmds
  BY RequestTypes DEF ModuleContinues, Issued
<1>2. Tail(toModule) \in Seq(HostUnit)
  BY TakeTypes DEF ModuleContinues
<1>3. HostTypes'
  BY HostStays DEF ModuleContinues
<1>4. CASE /\ modNr < SeqLen(served[c].size)
           /\ ModuleSends(c, served[c], modNr + 1)
           /\ modNr' = modNr + 1
           /\ UNCHANGED <<modPc, modReq>>
  <2>1. served[c] \in Answers \cup {NotServed}
    BY <1>1 DEF ModuleTypes
  <2>2. served[c].size \in Nat
    <3>1. CASE served[c] \in Answers
      BY <3>1, SizesAssumption DEF Answers
    <3>2. CASE served[c] = NotServed
      BY <3>2 DEF NotServed
    <3> QED
      BY <2>1, <3>1, <3>2
  <2>3. modNr + 1 \in 1..SeqLen(served[c].size)
    <3>1. modNr \in Nat
      BY DEF ModuleTypes
    <3>2. SeqLen(served[c].size) \in Nat
      BY <2>2, SeqLenType
    <3> QED
      BY <1>4, <3>1, <3>2
  <2>4. toHost' \in Seq(Unit) /\ faults' \in 0..MaxFaults
    BY <1>1, <1>4, <2>1, <2>3, ModuleSendsTypes
  <2>5. WireTypes'
    BY <1>2, <2>4 DEF ModuleContinues, WireTypes
  <2>6. ModuleTypes'
    BY <1>4 DEF ModuleContinues, ModuleTypes
  <2>7. Issued'
    BY <1>4 DEF ModuleContinues, Issued, hostVars
  <2> QED
    BY <1>3, <2>5, <2>6, <2>7
<1>5. CASE /\ modPc' = "listen" /\ modReq' = <<>> /\ modNr' = 0
           /\ UNCHANGED <<toHost, faults>>
  <2>1. WireTypes'
    BY <1>2, <1>5 DEF ModuleContinues, WireTypes
  <2>2. ModuleTypes'
    BY <1>5, EmptySeq DEF ModuleContinues, ModuleTypes
  <2>3. Issued'
    BY <1>5 DEF ModuleContinues, Issued, hostVars
  <2> QED
    BY <1>3, <2>1, <2>2, <2>3
<1> QED
  BY <1>4, <1>5 DEF ModuleContinues

LEMMA ModuleGivesUpTypes ==
  ASSUME TypeInv, ModuleGivesUp
  PROVE  TypeInv'
<1> USE DEF TypeInv, TypeOK
<1>1. HostTypes'
  BY HostStays DEF ModuleGivesUp
<1>2. WireTypes'
  BY ReadTypes DEF ModuleGivesUp, WireTypes
<1>3. ModuleTypes'
  BY EmptySeq DEF ModuleGivesUp, ModuleTypes
<1>4. Issued'
  BY DEF ModuleGivesUp, Issued, hostVars
<1> QED
  BY <1>1, <1>2, <1>3, <1>4

LEMMA ModuleCrashesTypes ==
  ASSUME TypeInv, ModuleCrashes
  PROVE  TypeInv'
<1> USE DEF TypeInv, TypeOK
<1>1. HostTypes'
  BY HostStays DEF ModuleCrashes
<1>2. WireTypes'
  BY ReadTypes, EmptySeq DEF ModuleCrashes, WireTypes
<1>3. ModuleTypes'
  BY EmptySeq DEF ModuleCrashes, ModuleTypes
<1>4. Issued'
  BY DEF ModuleCrashes, Issued, hostVars
<1> QED
  BY <1>1, <1>2, <1>3, <1>4

LEMMA LinkLosesTypes ==
  ASSUME TypeInv, LinkLoses
  PROVE  TypeInv'
<1> USE DEF TypeInv, TypeOK
<1>1. HostTypes'
  BY HostStays DEF LinkLoses
<1>2. WireTypes'
  BY ReadTypes, TakeTypes DEF LinkLoses, WireTypes
<1>3. ModuleTypes'
  BY ModuleStays DEF LinkLoses
<1>4. Issued'
  BY DEF LinkLoses, Issued, hostVars, modVars
<1> QED
  BY <1>1, <1>2, <1>3, <1>4

LEMMA LinkCorruptsTypes ==
  ASSUME TypeInv, LinkCorrupts
  PROVE  TypeInv'
<1> USE DEF TypeInv, TypeOK
<1>1. HostTypes'
  BY HostStays DEF LinkCorrupts
<1>2. toHost # <<>> /\ Fault("corrupt")
  BY DEF LinkCorrupts
<1>3. toHost' \in Seq(Unit)
  <2> DEFINE u == Head(toHost)
             d == IF u.kind = "ack" THEN Bare("glitch")
                  ELSE [u EXCEPT !.frame.src = "junk"]
  <2>1. u \in Unit /\ Tail(toHost) \in Seq(Unit)
    BY <1>2, ReadTypes
  <2>2. [u EXCEPT !.frame.src = "junk"] \in Unit
    BY <2>1 DEF Unit, Frame
  <2>3. Bare("glitch") \in Unit
    BY BareIsUnit DEF UnitKinds
  <2>4. d \in Unit
    BY <2>2, <2>3
  <2>5. toHost' = <<d>> \o Tail(toHost)
    BY DEF LinkCorrupts
  <2> HIDE DEF d
  <2> QED
    BY <2>1, <2>4, <2>5, ConcatProperties
<1>4. WireTypes'
  BY <1>2, <1>3, ReadTypes DEF LinkCorrupts, WireTypes
<1>5. ModuleTypes'
  BY ModuleStays DEF LinkCorrupts
<1>6. Issued'
  BY DEF LinkCorrupts, Issued, hostVars, modVars
<1> QED
  BY <1>1, <1>4, <1>5, <1>6

LEMMA StutterTypes ==
  ASSUME TypeInv, UNCHANGED vars
  PROVE  TypeInv'
  BY HostStays, ModuleStays DEF TypeInv, TypeOK, WireTypes, Issued, vars, hostVars, modVars

(* Every step keeps the type invariant. *)
LEMMA NextTypes == TypeInv /\ [Next]_vars => TypeInv'
<1> SUFFICES ASSUME TypeInv, [Next]_vars PROVE TypeInv'
  OBVIOUS
<1>1. CASE Call \/ HostStep
  BY <1>1, CallTypes, SendFrameTypes, ReadAckTypes, ReadHeaderTypes, ReadBodyTypes,
     ParseResultTypes, ReturnTypes DEF HostStep
<1>2. CASE ModuleStep \/ ModuleCrashes
  BY <1>2, ModuleListensTypes, ModuleExecutesTypes, ModuleContinuesTypes,
     ModuleGivesUpTypes, ModuleCrashesTypes DEF ModuleStep
<1>3. CASE LinkStep
  BY <1>3, LinkLosesTypes, LinkCorruptsTypes DEF LinkStep
<1>4. CASE UNCHANGED vars
  BY <1>4, StutterTypes
<1> QED
  BY <1>1, <1>2, <1>3, <1>4 DEF Next

(* Whatever the sizes, the bus, the faults and the bounds: the variables of *)
(* hcp_tiny.c and of the protocol keep to their types.                      *)
THEOREM TypeCorrect == Spec => []TypeOK
<1>1. Spec => []TypeInv
  BY InitTypes, NextTypes, PTL DEF Spec
<1>2. TypeInv => TypeOK
  BY DEF TypeInv
<1> QED
  BY <1>1, <1>2, PTL
--------------------------------------------------------------------------------
(* The buffers: WithinBuffers is inductive, given the types. *)

(* With a buffer of at most 64 KiB, buf_len counts without wrapping. *)
LEMMA CountsPayload ==
  ASSUME PktSizeMax <= 65536, NEW n \in Nat, bufLen \in Nat, FitsPacket(n)
  PROVE  (bufLen + n) % 65536 = bufLen + n /\ bufLen + n < PktSizeMax
BY SizesAssumption DEF FitsPacket

(* A frame of the host fits into txrx_buffer with its CRC. *)
LEMMA HostFrameFits ==
  ASSUME dataLeft \in Nat
  PROVE  HostFrame(seqNr, seqLen, FrameSize(dataLeft)).lnkSize + 8 <= Mtu
<1>1. FrameSize(dataLeft) \in Nat /\ FrameSize(dataLeft) <= AppMtu
  BY FrameSizeBounds
<1>2. HostFrame(seqNr, seqLen, FrameSize(dataLeft)).lnkSize = FrameSize(dataLeft) + 6
  BY DEF HostFrame
<1> QED
  BY <1>1, <1>2, MtuAssumption DEF AppMtu

LEMMA CheckCrcWithin ==
  ASSUME PktSizeMax <= 65536, HostTypes, WithinBuffers, NEW f \in Frame, CheckCrc(f)
  PROVE  WithinBuffers'
<1>1. offset = bufLen /\ offset <= PktSizeMax /\ offset \in Nat /\ bufLen \in Nat
  BY DEF WithinBuffers, HostTypes
<1>2. pc' \in {"rxhdr", "parse"}
  BY DEF CheckCrc, Accept, ReceiveFails
<1>3. \/ offset' = offset /\ bufLen' = bufLen
      \/ /\ FitsPacket(f.tSize)
         /\ offset' = offset + f.tSize
         /\ bufLen' = (bufLen + f.tSize) % 65536
  BY DEF CheckCrc, Accept, TakePayload, recvVars
<1>4. f.tSize \in Nat
  BY DEF Frame
<1>5. CASE offset' = offset /\ bufLen' = bufLen
  BY <1>1, <1>2, <1>5 DEF WithinBuffers
<1>6. CASE /\ FitsPacket(f.tSize)
           /\ offset' = offset + f.tSize
           /\ bufLen' = (bufLen + f.tSize) % 65536
  <2>1. bufLen' = bufLen + f.tSize /\ bufLen + f.tSize < PktSizeMax
    BY <1>1, <1>4, <1>6, CountsPayload
  <2>2. offset' = bufLen' /\ offset' <= PktSizeMax
    BY <1>1, <1>4, <1>6, <2>1, SizesAssumption
  <2> QED
    BY <1>2, <2>2 DEF WithinBuffers
<1> QED
  BY <1>3, <1>5, <1>6

LEMMA HostWithin ==
  ASSUME PktSizeMax <= 65536, TypeInv, WithinBuffers, Call \/ HostStep
  PROVE  WithinBuffers'
<1>1. CASE Call
  BY <1>1 DEF Call, WithinBuffers
<1>2. CASE SendFrame
  <2>1. dataLeft \in Nat
    BY DEF TypeInv, TypeOK, HostTypes
  <2>2. txrx'.size + 8 <= Mtu
    BY <1>2, <2>1, HostFrameFits DEF SendFrame
  <2> QED
    BY <1>2, <2>2 DEF SendFrame, WithinBuffers, recvVars
<1>3. CASE ReadAck
  <2>1. pc' \notin {"ack", "rxbody"}
    BY <1>3 DEF ReadAck, FrameSent, SendFails, StartReceive
  <2>2. offset' = bufLen' /\ offset' <= PktSizeMax
    BY <1>3, SizesAssumption
    DEF ReadAck, FrameSent, SendFails, StartReceive, WithinBuffers
  <2> QED
    BY <2>1, <2>2 DEF WithinBuffers
<1>4. CASE ReadHeader
  <2>1. pc' = "parse" \/ (pc' = "rxbody" /\ txrx'.size + 8 <= Mtu)
    <3>1. txrx \in [size : Nat, frame : Frame]
      BY DEF TypeInv, TypeOK, HostTypes
    <3> QED
      BY <1>4, <3>1 DEF ReadHeader, ReceiveFails, FitsMtu
  <2> QED
    BY <1>4, <2>1 DEF ReadHeader, WithinBuffers, recvVars
<1>5. CASE ReadBody
  <2>1. PICK f \in Frame : CheckCrc(f)
    <3>1. toHost # <<>> => Head(toHost).frame \in Frame
      BY ReadTypes DEF Unit, TypeInv, TypeOK
    <3>2. txrx.frame \in Frame
      BY DEF TypeInv, TypeOK, HostTypes
    <3> QED
      BY <1>5, <3>1, <3>2, JunkIsFrame DEF ReadBody
  <2> QED
    BY <2>1, CheckCrcWithin DEF TypeInv, TypeOK
<1>6. CASE ParseResult \/ Return
  BY <1>6 DEF ParseResult, Return, WithinBuffers, frameVars, recvVars
<1> QED
  BY <1>1, <1>2, <1>3, <1>4, <1>5, <1>6 DEF HostStep

LEMMA NextWithin ==
  ASSUME PktSizeMax <= 65536, TypeInv, WithinBuffers, [Next]_vars
  PROVE  WithinBuffers'
<1>1. CASE Call \/ HostStep
  BY <1>1, HostWithin
<1>2. CASE UNCHANGED hostVars
  BY <1>2 DEF WithinBuffers, hostVars, frameVars, recvVars
<1>3. CASE ModuleStep \/ ModuleCrashes \/ LinkStep
  BY <1>2, <1>3 DEF ModuleStep, ModuleListens, ModuleExecutes, ModuleContinues,
     ModuleGivesUp, ModuleCrashes, LinkStep, LinkLoses, LinkCorrupts
<1> QED
  BY <1>1, <1>2, <1>3 DEF Next, vars

(* However large the answers and whatever arrives, the receiving functions *)
(* stay inside pkt_buffer and txrx_buffer, provided that the buffer is no  *)
(* larger than the 16-bit counter buf_len can tell.                        *)
THEOREM BuffersRespected ==
  ASSUME PktSizeMax <= 65536
  PROVE  Spec => []WithinBuffers
<1>1. Init => TypeInv /\ WithinBuffers
  BY InitTypes, SizesAssumption DEF Init, WithinBuffers
<1>2. TypeInv /\ WithinBuffers /\ [Next]_vars => (TypeInv /\ WithinBuffers)'
  BY NextTypes, NextWithin
<1> QED
  BY <1>1, <1>2, PTL DEF Spec

--------------------------------------------------------------------------------
(***************************************************************************)
(* Host and module stay in step: theorems about HcpTransport that need to  *)
(* know what is on the wire, and their proofs.  They hold over SPI, for a  *)
(* caller that resets the module after each error, and when reads of a     *)
(* body do not fail unnoticed (Recovers).  LateAnswer and StaleBody show   *)
(* what happens without.                                                   *)
(*                                                                         *)
(* In a call that has not failed, the wire to the host carries             *)
(* acknowledgements, damaged or not, and then at most one frame of the     *)
(* module: the next one of the answer to the command in progress.  The     *)
(* wire to the module carries at most one acknowledgement and then frames  *)
(* of that command, in order.                                              *)
(***************************************************************************)

(* A reset clears the wires, each error leads to one, and none is missed. *)
Recovers == Bus = "spi" /\ ResetOnError /\ "body" \notin Faults

(* Sizes fit into pkt_size and buf_len, of 16 bits. *)
SizesFit == PktSizeMax <= 65535

(* The call has failed: the caller will reset the module. *)
Fails == pc \in {"parse", "done"} /\ result \in {"IO_ERROR", "TIMEOUT"}

(* The module has run the command in progress. *)
Served == cmd >= 1 /\ served[cmd] # NotServed

NoFrames == \A i \in 1..Len(toModule) : toModule[i].kind # "frame"

(* Frame k of command c of n bytes, as bmlite_send must build it. *)
RequestFrame(c, n, k) ==
  [src |-> "host", cmd |-> c, res |-> "OK", nr |-> k, of |-> SeqLen(n),
   tSize |-> SliceSize(n, k), lnkSize |-> SliceSize(n, k) + 6]

IsRequest(f, c, n) == f.nr \in 1..SeqLen(n) /\ f = RequestFrame(c, n, f.nr)

--------------------------------------------------------------------------------
(* The invariant of the command's way to the module. *)

(* What is left to send is what the frames sent so far have not taken. *)
Sending ==
  pc \in {"tx", "ack"} =>
    /\ pktSize \in RequestSizes
    /\ seqLen = SeqLen(pktSize)
    /\ seqNr \in 1..seqLen
    /\ pc = "tx" => dataLeft = pktSize - (seqNr - 1) * AppMtu
    /\ pc = "ack" /\ seqNr < seqLen => dataLeft = pktSize - seqNr * AppMtu

(* What the module has taken is a beginning of the command in progress. *)
Held ==
  modPc \in {"listen", "exec"} =>
    \A i \in 1..Len(modReq) : modReq[i] = RequestFrame(cmd, pktSize, i)

(* Frames on the wire are frames the module has not taken. *)
InFlight ==
  modPc # "dead" =>
    \A i \in 1..Len(toModule) : toModule[i].kind = "frame" =>
      /\ IsRequest(toModule[i].frame, cmd, pktSize)
      /\ modPc = "listen" => Len(modReq) < toModule[i].frame.nr
      /\ pc = "tx" => toModule[i].frame.nr < seqNr
      /\ pc = "ack" => toModule[i].frame.nr <= seqNr

Ordered ==
  modPc # "dead" =>
    \A i, j \in 1..Len(toModule) :
      i < j /\ toModule[i].kind = "frame" /\ toModule[j].kind = "frame"
        => toModule[i].frame.nr < toModule[j].frame.nr

Bounded ==
  modPc = "listen" =>
    /\ Len(modReq) < SeqLen(pktSize)
    /\ pc = "tx" => Len(modReq) < seqNr
    /\ pc = "ack" => Len(modReq) <= seqNr

(* A command is run when it is complete, and was not run before. *)
Executing == modPc = "exec" => Len(modReq) = SeqLen(pktSize) /\ ~Served

(* Nothing is left of a command that was taken. *)
Spent ==
  modPc = "exec" \/ Served =>
    /\ modPc = "dead" \/ NoFrames
    /\ modPc = "listen" => modReq = <<>>

(* An answer is one to the command in progress, or a complete one. *)
Replying ==
  modPc = "reply" =>
    /\ served[modReq[1].cmd] # NotServed
    /\ modReq[1].cmd # cmd => ~Served /\ modNr >= SeqLen(served[modReq[1].cmd].size)

(* Between two calls the module has nothing to do. *)
Rest ==
  pc = "idle" =>
    /\ modPc = "dead" \/ NoFrames
    /\ modPc # "exec"
    /\ modPc = "listen" => modReq = <<>>
    /\ modPc = "reply" => modReq[1].cmd = cmd /\ modNr >= SeqLen(served[cmd].size)

Once ==
  /\ \A c \in 1..MaxCmds : c > cmd => served[c] = NotServed
  /\ pc = "tx" => ~Served /\ modPc # "exec"
  /\ pc = "ack" /\ (Served \/ modPc = "exec") => seqNr = seqLen

Taking ==
  /\ Held /\ InFlight /\ Ordered /\ Bounded /\ Executing /\ Spent
  /\ Replying /\ Rest /\ Once /\ NeverMixed

RequestInv == Sending /\ Taking

--------------------------------------------------------------------------------
(* The invariant of the answer's way to the host. *)

(* Frame k of answer a to command c, as it is, malformed or damaged. *)
IsAnswer(f, c, a, k) ==
  \/ f.src = "junk"
  \/ f = AnswerFrame(c, a, k)
  \/ f = [AnswerFrame(c, a, k) EXCEPT !.lnkSize = @ + 1]

(* Payload bytes of the first k frames of an answer of n bytes. *)
UpTo(n, k) == IF k < SeqLen(n) THEN k * AppMtu ELSE n

(* How many frames of the answer the host has accepted. *)
Accepted == IF pc \in {"tx", "ack"} THEN 0 ELSE seqNr

(* The module waits for the acknowledgement of a frame of this answer. *)
Answering == modPc = "reply" /\ modReq[1].cmd = cmd

ToHost ==
  ~Fails =>
    \A i \in 1..Len(toHost) :
      /\ toHost[i].kind \in {"frame", "body"} =>
           /\ i = Len(toHost)
           /\ Served /\ Accepted < SeqLen(served[cmd].size)
           /\ IsAnswer(toHost[i].frame, cmd, served[cmd], Accepted + 1)
           /\ Answering => modNr = Accepted + 1
           /\ modPc = "dead" \/ toModule = <<>>
      /\ toHost[i].kind = "body" => pc \in {"rxhdr", "rxbody"}
      /\ toHost[i].kind = "noise" => pc = "rxbody"

(* Where the host expects a body there is one, or the rest of one; and     *)
(* nothing is left of an answer when the call ends.                        *)
AtHost ==
  /\ pc = "rxbody" => toHost # <<>> /\ toHost[1].kind \in {"body", "noise"}
  /\ pc = "idle" \/ (pc \in {"parse", "done"} /\ ~Fails) => toHost = <<>>

AcksToModule ==
  ~Fails /\ modPc # "dead" =>
    \A i \in 1..Len(toModule) : toModule[i].kind = "ack" =>
      /\ i = 1 /\ modPc # "exec"
      /\ modPc = "listen" => modReq = <<>>
      /\ Answering => modNr = Accepted

Counts ==
  ~Fails /\ Answering =>
    modNr \in {Accepted, Accepted + 1} /\ modNr \in 1..SeqLen(served[cmd].size)

(* The host is in bmlite_receive, or bmlite_receive has gone to its end. *)
Receiving == pc \in {"rxhdr", "rxbody"} \/ (pc \in {"parse", "done"} /\ ~Fails)

(* What has been accepted, and what com_result says of it. *)
Received ==
  /\ pc \in {"tx", "ack"} => pkt = <<>>
  /\ Receiving /\ seqNr = 0 => bufLen = 0 /\ pkt = <<>> /\ comResult = "OK"
  /\ Receiving /\ seqNr > 0 =>
       /\ Served /\ seqNr <= SeqLen(served[cmd].size)
       /\ bufLen <= UpTo(served[cmd].size, seqNr)
       /\ comResult = "OK" =>
            /\ bufLen = UpTo(served[cmd].size, seqNr)
            /\ Len(pkt) = seqNr
            /\ \A i \in 1..seqNr : pkt[i] = AnswerFrame(cmd, served[cmd], i)
       /\ comResult = "NO_MEMORY" => served[cmd].size >= PktSizeMax

(* The test of the loop of bmlite_receive, and what follows it. *)
Looping ==
  /\ pc \in {"rxhdr", "rxbody"} =>
       /\ seqLen = IF seqNr = 0 THEN 1 ELSE SeqLen(served[cmd].size)
       /\ seqNr < seqLen
  /\ pc \in {"parse", "done"} /\ ~Fails =>
       /\ result = comResult /\ pktSize = bufLen
       /\ seqNr > 0 /\ seqNr = SeqLen(served[cmd].size)
  /\ pc = "done" /\ result = "OK" => bepResult = served[cmd].res

AnswerInv ==
  /\ ToHost /\ AtHost /\ AcksToModule /\ Counts
  /\ Received /\ Looping

StepInv == TypeInv /\ RequestInv /\ AnswerInv

--------------------------------------------------------------------------------
(* How a packet is cut. *)

(* All frames but the last are full, and the last takes what is left. *)
LEMMA Slices ==
  ASSUME NEW n \in Nat, NEW k \in 1..SeqLen(n)
  PROVE  /\ AppMtu \in Nat \ {0}
         /\ (k - 1) * AppMtu \in Nat /\ (k - 1) * AppMtu <= n
         /\ n - (k - 1) * AppMtu \in Nat
         /\ k * AppMtu = (k - 1) * AppMtu + AppMtu
         /\ k < SeqLen(n) => k * AppMtu <= n /\ SliceSize(n, k) = AppMtu
         /\ k = SeqLen(n) => SliceSize(n, k) = n - (k - 1) * AppMtu
<1>1. AppMtu \in Nat \ {0}
  BY MtuAssumption DEF AppMtu
<1> DEFINE q == n \div AppMtu
<1>2. q \in Nat /\ q * AppMtu <= n /\ n < q * AppMtu + AppMtu
  BY <1>1
<1>3. k - 1 \in Nat /\ k - 1 <= q /\ k \in Nat
  BY <1>2 DEF SeqLen
<1>4. SeqLen(n) = q + 1
  BY DEF SeqLen
<1>5. SliceSize(n, k) = FrameSize(n - (k - 1) * AppMtu)
  BY DEF SliceSize
<1> HIDE DEF q
<1>6. (k - 1) * AppMtu \in Nat /\ k * AppMtu = (k - 1) * AppMtu + AppMtu
  BY <1>1, <1>3
<1>7. (k - 1) * AppMtu <= q * AppMtu /\ q * AppMtu \in Nat
  BY <1>1, <1>2, <1>3
<1>8. (k - 1) * AppMtu <= n /\ n - (k - 1) * AppMtu \in Nat
  BY <1>1, <1>2, <1>6, <1>7
<1>9. k < SeqLen(n) => k * AppMtu <= n /\ SliceSize(n, k) = AppMtu
  <2> SUFFICES ASSUME k < SeqLen(n) PROVE k * AppMtu <= n /\ SliceSize(n, k) = AppMtu
    OBVIOUS
  <2>1. k <= q
    BY <1>2, <1>3, <1>4
  <2>2. k * AppMtu <= q * AppMtu
    BY <1>1, <1>2, <1>3, <2>1
  <2>3. k * AppMtu <= n
    BY <1>1, <1>2, <1>6, <1>7, <2>2
  <2>4. ~(n - (k - 1) * AppMtu < AppMtu)
    BY <1>1, <1>6, <2>3
  <2> QED
    BY <1>5, <2>3, <2>4 DEF FrameSize
<1>10. k = SeqLen(n) => SliceSize(n, k) = n - (k - 1) * AppMtu
  <2> SUFFICES ASSUME k = SeqLen(n) PROVE SliceSize(n, k) = n - (k - 1) * AppMtu
    OBVIOUS
  <2>1. k - 1 = q
    BY <1>2, <1>4
  <2>2. n - (k - 1) * AppMtu < AppMtu
    BY <1>1, <1>2, <1>7, <2>1
  <2> QED
    BY <1>2, <1>5, <2>2 DEF FrameSize
<1> QED
  BY <1>1, <1>6, <1>8, <1>9, <1>10

(* The sizes of the packets an application builds survive the 16 bits. *)
LEMMA SizesKept ==
  ASSUME SizesFit, NEW n \in RequestSizes
  PROVE  n \in Nat /\ n % 65536 = n
  BY SizesAssumption DEF SizesFit

(* What bmlite_send puts on the wire is a frame of the packet. *)
LEMMA SendsRequest ==
  ASSUME Sending, pc = "tx"
  PROVE  /\ HostFrame(seqNr, seqLen, FrameSize(dataLeft)) = RequestFrame(cmd, pktSize, seqNr)
         /\ FrameSize(dataLeft) = SliceSize(pktSize, seqNr)
<1>1. dataLeft = pktSize - (seqNr - 1) * AppMtu /\ seqLen = SeqLen(pktSize)
  BY DEF Sending
<1>2. FrameSize(dataLeft) = SliceSize(pktSize, seqNr)
  BY <1>1 DEF SliceSize
<1> QED
  BY <1>1, <1>2 DEF HostFrame, RequestFrame

LEMMA HostSending ==
  ASSUME SizesFit, TypeInv, Sending, Call \/ HostStep
  PROVE  Sending'
<1>1. CASE Call
  <2>1. PICK n \in RequestSizes : /\ pktSize' = n /\ dataLeft' = n % 65536
                                  /\ seqLen' = SeqLen(n % 65536)
    BY <1>1 DEF Call
  <2>2. n \in Nat /\ n % 65536 = n
    BY SizesKept
  <2>3. pc' = "tx" /\ seqNr' = 1
    BY <1>1 DEF Call
  <2>4. SeqLen(n) \in Nat \ {0} /\ AppMtu \in Nat
    BY <2>2, SeqLenType, MtuAssumption DEF AppMtu
  <2>5. dataLeft' = pktSize' - (seqNr' - 1) * AppMtu
    BY <2>1, <2>2, <2>3, <2>4
  <2> QED
    BY <2>1, <2>2, <2>3, <2>4, <2>5 DEF Sending
<1>2. CASE SendFrame
  <2>1. pc = "tx" /\ pc' = "ack" /\ UNCHANGED <<pktSize, seqNr, seqLen>>
    BY <1>2 DEF SendFrame
  <2>2. dataLeft' = dataLeft - SliceSize(pktSize, seqNr)
    <3>1. dataLeft' = dataLeft - FrameSize(dataLeft)
      BY <1>2 DEF SendFrame, HostFrame
    <3> QED
      BY <2>1, <3>1, SendsRequest
  <2>3. pktSize \in Nat /\ seqNr \in 1..SeqLen(pktSize) /\ seqLen = SeqLen(pktSize)
    BY <2>1 DEF Sending, TypeInv, TypeOK, HostTypes
  <2>4. dataLeft = pktSize - (seqNr - 1) * AppMtu
    BY <2>1 DEF Sending
  <2>5. seqNr < seqLen => dataLeft' = pktSize - seqNr * AppMtu
    <3> SUFFICES ASSUME seqNr < seqLen PROVE dataLeft' = pktSize - seqNr * AppMtu
      OBVIOUS
    <3>1. /\ SliceSize(pktSize, seqNr) = AppMtu /\ AppMtu \in Nat
          /\ (seqNr - 1) * AppMtu \in Nat
          /\ seqNr * AppMtu = (seqNr - 1) * AppMtu + AppMtu
      BY <2>3, Slices
    <3> QED
      BY <2>2, <2>3, <2>4, <3>1
  <2> QED
    BY <2>1, <2>5 DEF Sending
<1>3. CASE ReadAck
  <2>1. pc = "ack" /\ UNCHANGED <<pktSize, dataLeft>>
    BY <1>3 DEF ReadAck, sendVars
  <2>2. \/ pc' \in {"rxhdr", "done"}
        \/ seqNr < seqLen /\ seqNr' = seqNr + 1 /\ pc' = "tx" /\ seqLen' = seqLen
    BY <1>3 DEF ReadAck, FrameSent, SendFails, StartReceive
  <2>3. pktSize \in Nat /\ seqLen = SeqLen(pktSize) /\ seqNr \in 1..seqLen
    BY <2>1 DEF Sending, TypeInv, TypeOK, HostTypes
  <2>4. seqLen \in Nat
    BY <2>3, SeqLenType
  <2>5. CASE seqNr < seqLen /\ seqNr' = seqNr + 1 /\ pc' = "tx" /\ seqLen' = seqLen
    <3>1. seqNr' \in 1..seqLen' /\ seqNr' - 1 = seqNr
      BY <2>3, <2>4, <2>5
    <3>2. dataLeft' = pktSize' - (seqNr' - 1) * AppMtu
      BY <2>1, <2>5, <3>1 DEF Sending
    <3> QED
      BY <2>1, <2>3, <2>5, <3>1, <3>2 DEF Sending
  <2>6. CASE pc' \in {"rxhdr", "done"}
    BY <2>6 DEF Sending
  <2> QED
    BY <2>2, <2>5, <2>6
<1>4. CASE ReadHeader \/ ReadBody \/ ParseResult \/ Return
  <2>1. pc' \notin {"tx", "ack"}
    BY <1>4 DEF ReadHeader, ReadBody, ParseResult, Return, ReceiveFails, CheckCrc, Accept
  <2> QED
    BY <2>1 DEF Sending
<1> QED
  BY <1>1, <1>2, <1>3, <1>4 DEF HostStep
--------------------------------------------------------------------------------
(* The command's way to the module: one lemma per action or group of them. *)

LEMMA InitRequest == Init => RequestInv
<1> SUFFICES ASSUME Init PROVE RequestInv
  OBVIOUS
<1>1. Sending /\ Held /\ InFlight /\ Ordered /\ Executing /\ Spent /\ Replying
  BY DEF Init, Sending, Held, InFlight, Ordered, Executing, Spent, Replying, Served
<1>2. Bounded
  <2>1. SeqLen(0) \in Nat \ {0}
    BY SeqLenType
  <2> QED
    BY <2>1 DEF Init, Bounded
<1>3. Rest /\ Once /\ NeverMixed
  BY BoundsAssumption DEF Init, Rest, NoFrames, Once, Served, NeverMixed
<1> QED
  BY <1>1, <1>2, <1>3 DEF RequestInv, Taking

(* What the types say of the two sequences. *)
LEMMA SequenceTypes ==
  ASSUME TypeInv
  PROVE  /\ Len(modReq) \in Nat /\ Len(toModule) \in Nat
         /\ cmd \in Nat
         /\ SeqLen(pktSize) \in Nat \ {0}
         /\ \A i \in 1..Len(toModule) :
              /\ toModule[i].kind \in {"ack", "frame"}
              /\ toModule[i].kind = "ack" => toModule[i] = Ack
              /\ toModule[i].kind = "frame" => toModule[i].frame \in CommandFrame
         /\ \A i \in 1..Len(modReq) : modReq[i] \in CommandFrame
<1> USE DEF TypeInv, TypeOK
<1>1. Len(modReq) \in Nat /\ \A i \in 1..Len(modReq) : modReq[i] \in CommandFrame
  BY DEF ModuleTypes
<1>2. Len(toModule) \in Nat /\ \A i \in 1..Len(toModule) : toModule[i] \in HostUnit
  BY DEF WireTypes
<1>3. Ack.kind = "ack"
  BY DEF Ack, Bare
<1>4. SeqLen(pktSize) \in Nat \ {0} /\ cmd \in Nat
  BY SeqLenType, BoundsAssumption DEF HostTypes
<1> QED
  BY <1>1, <1>2, <1>3, <1>4 DEF HostUnit

LEMMA AnswerTypes ==
  ASSUME NEW a \in Answers \cup {NotServed}
  PROVE  a.size \in Nat /\ a.res \in Outcomes /\ SeqLen(a.size) \in Nat \ {0}
<1>1. a.size \in Nat /\ a.res \in Outcomes
  <2>1. CASE a \in Answers
    BY <2>1, SizesAssumption DEF Answers
  <2>2. CASE a = NotServed
    BY <2>2, OutcomesAssumption DEF NotServed
  <2> QED
    BY <2>1, <2>2
<1> QED
  BY <1>1, SeqLenType

LEMMA CallTaking ==
  ASSUME TypeInv, RequestInv, Call
  PROVE  Taking'
<1> USE DEF RequestInv, Taking
<1>1. /\ pc = "idle" /\ pc' = "tx" /\ cmd' = cmd + 1 /\ cmd < MaxCmds /\ seqNr' = 1
      /\ UNCHANGED <<toModule, modPc, modReq, modNr, served, mixed>>
  BY DEF Call, modVars
<1>2. cmd \in Nat /\ Len(modReq) \in Nat
  BY SequenceTypes
<1>3. SeqLen(pktSize)' \in Nat \ {0}
  <2>1. PICK n \in RequestSizes : pktSize' = n
    BY DEF Call
  <2> QED
    BY <2>1, SizesAssumption, SeqLenType
<1>4. /\ modPc = "dead" \/ NoFrames
      /\ modPc # "exec"
      /\ modPc = "listen" => modReq = <<>>
      /\ modPc = "reply" => modReq[1].cmd = cmd /\ modNr >= SeqLen(served[cmd].size)
  BY <1>1 DEF Rest
<1>5. ~Served'
  BY <1>1, <1>2, BoundsAssumption DEF Served, Once
<1>6. Held' /\ InFlight' /\ Ordered' /\ Bounded' /\ Executing'
  BY <1>1, <1>3, <1>4 DEF Held, InFlight, Ordered, Bounded, Executing, NoFrames
<1>7. Spent' /\ Replying' /\ Rest'
  BY <1>1, <1>2, <1>4, <1>5 DEF Spent, Replying, Rest
<1>8. Once' /\ NeverMixed'
  BY <1>1, <1>2, <1>4, <1>5, BoundsAssumption DEF Once, NeverMixed
<1> QED
  BY <1>6, <1>7, <1>8

LEMMA SendFrameTaking ==
  ASSUME TypeInv, RequestInv, SendFrame
  PROVE  Taking'
<1> USE DEF RequestInv, Taking
<1> DEFINE f == RequestFrame(cmd, pktSize, seqNr)
<1>1. /\ pc = "tx" /\ pc' = "ack"
      /\ UNCHANGED <<cmd, pktSize, seqNr, seqLen, modPc, modReq, modNr, served, mixed>>
  BY DEF SendFrame, modVars
<1>2. toModule' = Append(toModule, Carry(f))
  BY SendsRequest DEF SendFrame
<1>3. seqNr \in 1..SeqLen(pktSize) /\ IsRequest(f, cmd, pktSize) /\ f.nr = seqNr
  <2>1. seqNr \in 1..SeqLen(pktSize)
    BY <1>1 DEF Sending
  <2> QED
    BY <2>1 DEF IsRequest, RequestFrame
<1> HIDE DEF f
<1>4. /\ Len(toModule) \in Nat /\ Len(toModule') = Len(toModule) + 1
      /\ \A i \in 1..Len(toModule) : toModule'[i] = toModule[i]
      /\ toModule'[Len(toModule) + 1] = Carry(f)
  <2>1. toModule \in Seq(HostUnit)
    BY DEF TypeInv, TypeOK, WireTypes
  <2> QED
    BY <1>2, <2>1, AppendProperties
<1>5. Carry(f).kind = "frame" /\ Carry(f).frame = f
  BY DEF Carry
<1>6. Held' /\ Executing' /\ Replying' /\ Rest' /\ NeverMixed'
  BY <1>1 DEF Held, Executing, Served, Replying, Rest, NeverMixed
<1>7. ~Served /\ modPc # "exec"
  BY <1>1 DEF Once
<1>8. Spent' /\ Once'
  BY <1>1, <1>7 DEF Spent, Once, Served
<1>9. Bounded'
  <2>1. modPc = "listen" => Len(modReq) < seqNr
    BY <1>1 DEF Bounded
  <2> QED
    BY <1>1, <1>3, <2>1, SequenceTypes DEF Bounded
<1>10. InFlight'
  <2> SUFFICES ASSUME modPc # "dead", NEW i \in 1..Len(toModule'),
                      toModule'[i].kind = "frame"
               PROVE  /\ IsRequest(toModule'[i].frame, cmd, pktSize)
                      /\ modPc = "listen" => Len(modReq) < toModule'[i].frame.nr
                      /\ toModule'[i].frame.nr <= seqNr
    BY <1>1 DEF InFlight
  <2>1. CASE i \in 1..Len(toModule)
    <3>1. /\ IsRequest(toModule[i].frame, cmd, pktSize)
          /\ modPc = "listen" => Len(modReq) < toModule[i].frame.nr
          /\ toModule[i].frame.nr < seqNr
      BY <1>1, <1>4, <2>1 DEF InFlight
    <3> QED
      BY <1>3, <1>4, <2>1, <3>1 DEF IsRequest
  <2>2. CASE i = Len(toModule) + 1
    <3>1. modPc = "listen" => Len(modReq) < seqNr
      BY <1>1 DEF Bounded
    <3> QED
      BY <1>3, <1>4, <1>5, <2>2, <3>1
  <2> QED
    BY <1>4, <2>1, <2>2
<1>11. Ordered'
  <2> SUFFICES ASSUME modPc # "dead",
                      NEW i \in 1..Len(toModule'), NEW j \in 1..Len(toModule'), i < j,
                      toModule'[i].kind = "frame", toModule'[j].kind = "frame"
               PROVE  toModule'[i].frame.nr < toModule'[j].frame.nr
    BY <1>1 DEF Ordered
  <2>1. i \in 1..Len(toModule)
    BY <1>4
  <2>2. CASE j \in 1..Len(toModule)
    BY <1>4, <2>1, <2>2 DEF Ordered
  <2>3. CASE j = Len(toModule) + 1
    <3>1. toModule[i].frame.nr < seqNr
      BY <1>1, <1>4, <2>1 DEF InFlight
    <3> QED
      BY <1>3, <1>4, <1>5, <2>1, <2>3, <3>1
  <2> QED
    BY <1>4, <2>2, <2>3
<1> QED
  BY <1>6, <1>8, <1>9, <1>10, <1>11

(* The host goes on, and appends at most an acknowledgement; it may forget *)
(* the size of the command once the module has run it.                     *)
LEMMA HostMovesOn ==
  ASSUME TypeInv, TypeInv', RequestInv,
         pc' \notin {"tx", "ack", "idle"}, cmd' = cmd, UNCHANGED modVars,
         pktSize' = pktSize \/ Served,
         toModule' \in {toModule, Append(toModule, Ack)}
  PROVE  Taking'
<1> USE DEF RequestInv, Taking
<1>1. UNCHANGED <<modPc, modReq, modNr, served, mixed>>
  BY DEF modVars
<1>2. /\ Len(toModule) \in Nat
      /\ \A i \in 1..Len(toModule') : toModule'[i].kind = "frame" =>
           i \in 1..Len(toModule) /\ toModule'[i] = toModule[i]
  <2>1. toModule \in Seq(HostUnit) /\ Ack.kind # "frame"
    BY DEF TypeInv, TypeOK, WireTypes, Ack, Bare
  <2>2. CASE toModule' = toModule
    BY <2>1, <2>2
  <2>3. CASE toModule' = Append(toModule, Ack)
    BY <2>1, <2>3, AppendProperties
  <2> QED
    BY <2>2, <2>3
<1>3. Served' <=> Served
  BY <1>1 DEF Served
<1>4. Executing' /\ Replying' /\ Rest' /\ Once' /\ NeverMixed'
  BY <1>1, <1>3 DEF Executing, Replying, Rest, Once, NeverMixed
<1>5. Spent'
  BY <1>1, <1>2, <1>3 DEF Spent, NoFrames
<1>6. Ordered'
  BY <1>1, <1>2 DEF Ordered
<1>7. Held' /\ InFlight' /\ Bounded'
  <2>1. CASE pktSize' = pktSize
    <3>1. Held' /\ Bounded'
      BY <1>1, <2>1 DEF Held, Bounded
    <3>2. InFlight'
      BY <1>1, <1>2, <2>1 DEF InFlight
    <3> QED
      BY <3>1, <3>2
  <2>2. CASE Served
    <3>1. /\ modPc = "dead" \/ NoFrames
          /\ modPc # "exec" /\ (modPc = "listen" => modReq = <<>>)
      BY <2>2 DEF Spent, Executing
    <3>2. SeqLen(pktSize)' \in Nat \ {0}
      BY SeqLenType DEF TypeInv, TypeOK, HostTypes
    <3> QED
      BY <1>1, <1>2, <3>1, <3>2 DEF Held, InFlight, Bounded, NoFrames
  <2> QED
    BY <2>1, <2>2
<1> QED
  BY <1>4, <1>5, <1>6, <1>7
LEMMA ReadAckTaking ==
  ASSUME TypeInv, TypeInv', RequestInv, ReadAck
  PROVE  Taking'
<1> USE DEF RequestInv, Taking
<1>1. /\ pc = "ack"
      /\ UNCHANGED <<cmd, pktSize, toModule, modPc, modReq, modNr, served, mixed>>
  BY DEF ReadAck, sendVars, modVars
<1>2. \/ pc' \in {"rxhdr", "done"}
      \/ seqNr < seqLen /\ seqNr' = seqNr + 1 /\ seqLen' = seqLen /\ pc' = "tx"
  BY DEF ReadAck, FrameSent, SendFails, StartReceive
<1>3. CASE pc' \in {"rxhdr", "done"}
  BY <1>1, <1>3, HostMovesOn DEF modVars
<1>4. CASE seqNr < seqLen /\ seqNr' = seqNr + 1 /\ seqLen' = seqLen /\ pc' = "tx"
  <2>1. ~Served /\ modPc # "exec"
    BY <1>1, <1>4 DEF Once, TypeInv, TypeOK, HostTypes
  <2>2. seqNr \in Nat /\ Len(modReq) \in Nat
    BY SequenceTypes DEF TypeInv, TypeOK, HostTypes
  <2>3. Held' /\ Ordered' /\ Executing' /\ Spent' /\ Replying' /\ Rest' /\ NeverMixed'
    BY <1>1, <1>4, <2>1
    DEF Held, Ordered, Executing, Spent, Served, Replying, Rest, NeverMixed
  <2>4. Once'
    BY <1>1, <1>4, <2>1 DEF Once, Served
  <2>5. Bounded'
    BY <1>1, <1>4, <2>2 DEF Bounded
  <2>6. InFlight'
    <3> SUFFICES ASSUME modPc # "dead", NEW i \in 1..Len(toModule),
                        toModule[i].kind = "frame"
                 PROVE  /\ IsRequest(toModule[i].frame, cmd, pktSize)
                        /\ modPc = "listen" => Len(modReq) < toModule[i].frame.nr
                        /\ toModule[i].frame.nr < seqNr'
      BY <1>1, <1>4 DEF InFlight
    <3>1. /\ IsRequest(toModule[i].frame, cmd, pktSize)
          /\ modPc = "listen" => Len(modReq) < toModule[i].frame.nr
          /\ toModule[i].frame.nr <= seqNr
      BY <1>1 DEF InFlight
    <3>2. toModule[i].frame.nr \in Nat
      BY <3>1, SequenceTypes DEF IsRequest
    <3> QED
      BY <1>4, <2>2, <3>1, <3>2
  <2> QED
    BY <2>3, <2>4, <2>5, <2>6
<1> QED
  BY <1>2, <1>3, <1>4

(* The first unit on the wire to the module is taken off it. *)
LEMMA TailOfWire ==
  ASSUME TypeInv, toModule # <<>>, toModule' = Tail(toModule)
  PROVE  /\ Len(toModule) \in Nat \ {0} /\ Len(toModule') = Len(toModule) - 1
         /\ Head(toModule) = toModule[1]
         /\ \A i \in 1..Len(toModule') :
              i + 1 \in 2..Len(toModule) /\ toModule'[i] = toModule[i + 1]
         /\ NoFrames => NoFrames'
<1>1. toModule \in Seq(HostUnit)
  BY DEF TypeInv, TypeOK, WireTypes
<1>2. /\ Len(toModule) \in Nat \ {0} /\ Len(toModule') = Len(toModule) - 1
      /\ Head(toModule) = toModule[1]
      /\ \A i \in 1..Len(toModule') :
           i + 1 \in 2..Len(toModule) /\ toModule'[i] = toModule[i + 1]
  BY <1>1
<1> QED
  BY <1>2 DEF NoFrames

(* It is dropped, by the link or by the module. *)
LEMMA DropTaking ==
  ASSUME TypeInv, RequestInv, toModule # <<>>, toModule' = Tail(toModule),
         UNCHANGED <<pc, cmd, pktSize, seqNr, seqLen, modPc, modReq, modNr, served, mixed>>
  PROVE  Taking'
<1> USE DEF RequestInv, Taking
<1>1. /\ Len(toModule) \in Nat \ {0} /\ Len(toModule') = Len(toModule) - 1
      /\ \A i \in 1..Len(toModule') :
           i + 1 \in 2..Len(toModule) /\ toModule'[i] = toModule[i + 1]
      /\ NoFrames => NoFrames'
  BY TailOfWire
<1>2. /\ Held' /\ Bounded' /\ Executing' /\ Spent' /\ Replying' /\ Rest' /\ Once'
      /\ NeverMixed'
  BY <1>1 DEF Held, Bounded, Executing, Spent, Served, Replying, Rest, Once, NeverMixed
<1>3. InFlight'
  BY <1>1 DEF InFlight
<1>4. Ordered'
  BY <1>1 DEF Ordered
<1> QED
  BY <1>2, <1>3, <1>4

(* The module takes a frame of the command. *)
LEMMA TakeFrame ==
  ASSUME TypeInv, RequestInv, modPc = "listen", toModule # <<>>,
         NEW f, f = Head(toModule).frame,
         Head(toModule).kind = "frame", f.nr = 1 \/ f.nr = Len(modReq) + 1
  PROVE  /\ IsRequest(f, cmd, pktSize)
         /\ f.nr = Len(modReq) + 1 /\ f.of = SeqLen(pktSize)
         /\ f.nr = 1 => modReq = <<>>
         /\ ~Served /\ pc # "idle"
         /\ pc = "tx" => f.nr < seqNr /\ f.nr < SeqLen(pktSize)
         /\ pc = "ack" => f.nr <= seqNr
<1> USE DEF RequestInv, Taking
<1>1. Len(toModule) \in Nat \ {0} /\ Head(toModule) = toModule[1]
  BY DEF TypeInv, TypeOK, WireTypes
<1>2. /\ IsRequest(f, cmd, pktSize)
      /\ Len(modReq) < f.nr
      /\ pc = "tx" => f.nr < seqNr
      /\ pc = "ack" => f.nr <= seqNr
  BY <1>1 DEF InFlight
<1>3. Len(modReq) \in Nat /\ f.nr \in Nat
  BY <1>2, SequenceTypes DEF IsRequest
<1>4. f.nr = Len(modReq) + 1 /\ (f.nr = 1 => Len(modReq) = 0)
  BY <1>2, <1>3
<1>5. f.nr = 1 => modReq = <<>>
  BY <1>4 DEF TypeInv, TypeOK, ModuleTypes
<1>6. ~NoFrames
  BY <1>1 DEF NoFrames
<1>7. ~Served /\ pc # "idle"
  BY <1>6 DEF Spent, Rest
<1>8. f.of = SeqLen(pktSize)
  <2>1. f = RequestFrame(cmd, pktSize, f.nr)
    BY <1>2 DEF IsRequest
  <2>2. \A k : RequestFrame(cmd, pktSize, k).of = SeqLen(pktSize)
    BY DEF RequestFrame
  <2> QED
    BY <2>1, <2>2
<1>9. pc = "tx" => f.nr < SeqLen(pktSize)
  <2> SUFFICES ASSUME pc = "tx" PROVE f.nr < SeqLen(pktSize)
    OBVIOUS
  <2>1. f.nr < seqNr /\ seqNr \in 1..SeqLen(pktSize) /\ SeqLen(pktSize) \in Nat
    BY <1>2, SequenceTypes DEF Sending
  <2> QED
    BY <1>3, <2>1
<1> QED
  BY <1>2, <1>4, <1>5, <1>7, <1>8, <1>9

LEMMA ModuleListensTaking ==
  ASSUME TypeInv, RequestInv, ModuleListens
  PROVE  Taking'
<1> USE DEF RequestInv, Taking
<1>1. /\ modPc = "listen" /\ toModule # <<>> /\ toModule' = Tail(toModule)
      /\ UNCHANGED <<pc, cmd, pktSize, seqNr, seqLen, modNr, served, mixed>>
  BY DEF ModuleListens, hostVars, sendVars, frameVars
<1> DEFINE f == Head(toModule).frame
<1>2. CASE /\ Head(toModule).kind = "frame"
           /\ f.nr = 1 \/ f.nr = Len(modReq) + 1
           /\ modReq' = IF f.nr = 1 THEN <<f>> ELSE Append(modReq, f)
           /\ modPc' = IF f.nr >= f.of THEN "exec" ELSE "listen"
  <2>1. /\ IsRequest(f, cmd, pktSize)
        /\ f.nr = Len(modReq) + 1 /\ f.of = SeqLen(pktSize)
        /\ f.nr = 1 => modReq = <<>>
        /\ ~Served /\ pc # "idle"
        /\ pc = "tx" => f.nr < seqNr /\ f.nr < SeqLen(pktSize)
        /\ pc = "ack" => f.nr <= seqNr
    BY <1>1, <1>2, TakeFrame
  <2>2. /\ Len(toModule) \in Nat \ {0} /\ Len(toModule') = Len(toModule) - 1
        /\ Head(toModule) = toModule[1]
        /\ \A i \in 1..Len(toModule') :
             i + 1 \in 2..Len(toModule) /\ toModule'[i] = toModule[i + 1]
    BY <1>1, TailOfWire
  <2>3. Len(modReq) \in Nat /\ SeqLen(pktSize) \in Nat \ {0} /\ seqNr \in Nat
    BY SequenceTypes DEF TypeInv, TypeOK, HostTypes
  <2>4. f = RequestFrame(cmd, pktSize, Len(modReq) + 1) /\ f.nr <= SeqLen(pktSize)
    BY <2>1, <2>3 DEF IsRequest
  <2>5. toModule[1].kind = "frame" /\ toModule[1].frame = f
    BY <1>2, <2>2
  <2> HIDE DEF f
  <2>6. /\ Len(modReq') = Len(modReq) + 1
        /\ \A i \in 1..Len(modReq) : modReq'[i] = modReq[i]
        /\ modReq'[Len(modReq) + 1] = f
    <3>1. modReq \in Seq(CommandFrame)
      BY DEF TypeInv, TypeOK, ModuleTypes
    <3>2. CASE f.nr = 1
      BY <1>2, <2>1, <3>2
    <3>3. CASE f.nr # 1
      BY <1>2, <3>1, <3>3
    <3> QED
      BY <3>2, <3>3
  <2>7. Held'
    <3> SUFFICES ASSUME NEW i \in 1..Len(modReq')
                 PROVE  modReq'[i] = RequestFrame(cmd, pktSize, i)
      BY <1>1 DEF Held
    <3>1. CASE i \in 1..Len(modReq)
      BY <1>1, <2>6, <3>1 DEF Held
    <3>2. CASE i = Len(modReq) + 1
      BY <2>4, <2>6, <3>2
    <3> QED
      BY <2>3, <2>6, <3>1, <3>2
  <2>8. \A i \in 1..Len(toModule') : toModule'[i].kind = "frame" =>
           /\ IsRequest(toModule'[i].frame, cmd, pktSize)
           /\ f.nr < toModule'[i].frame.nr
           /\ pc = "tx" => toModule'[i].frame.nr < seqNr
           /\ pc = "ack" => toModule'[i].frame.nr <= seqNr
    <3> SUFFICES ASSUME NEW i \in 1..Len(toModule'), toModule'[i].kind = "frame"
                 PROVE  /\ IsRequest(toModule'[i].frame, cmd, pktSize)
                        /\ f.nr < toModule'[i].frame.nr
                        /\ pc = "tx" => toModule'[i].frame.nr < seqNr
                        /\ pc = "ack" => toModule'[i].frame.nr <= seqNr
      OBVIOUS
    <3>1. i + 1 \in 2..Len(toModule) /\ toModule'[i] = toModule[i + 1]
      BY <2>2
    <3>2. 1 \in 1..Len(toModule) /\ i + 1 \in 1..Len(toModule) /\ 1 < i + 1
      BY <2>2, <3>1
    <3>3. f.nr < toModule[i + 1].frame.nr
      BY <1>1, <2>5, <3>1, <3>2 DEF Ordered
    <3> QED
      BY <1>1, <3>1, <3>2, <3>3 DEF InFlight
  <2>9. InFlight'
    BY <1>1, <2>1, <2>6, <2>8 DEF InFlight
  <2>10. Ordered'
    BY <1>1, <2>2 DEF Ordered
  <2>11. modPc' = "exec" => Len(modReq') = SeqLen(pktSize) /\ NoFrames' /\ pc # "tx"
    <3> SUFFICES ASSUME modPc' = "exec"
                 PROVE  Len(modReq') = SeqLen(pktSize) /\ NoFrames' /\ pc # "tx"
      OBVIOUS
    <3>1. f.nr = SeqLen(pktSize) /\ f.nr = Len(modReq')
      BY <1>2, <2>1, <2>3, <2>4, <2>6
    <3>2. NoFrames'
      <4> SUFFICES ASSUME NEW i \in 1..Len(toModule'), toModule'[i].kind = "frame"
                   PROVE  FALSE
        BY DEF NoFrames
      <4>1. /\ f.nr < toModule'[i].frame.nr
            /\ toModule'[i].frame.nr \in 1..SeqLen(pktSize)
        BY <2>8 DEF IsRequest
      <4> QED
        BY <2>3, <3>1, <4>1
    <3> QED
      BY <2>1, <2>3, <3>1, <3>2
  <2>12. modPc' # "exec" => modPc' = "listen" /\ Len(modReq') < SeqLen(pktSize)
    BY <1>2, <2>1, <2>3, <2>6
  <2>13. Bounded' /\ Executing' /\ Spent' /\ Replying' /\ Rest' /\ NeverMixed'
    <3>1. ~Served'
      BY <1>1, <2>1 DEF Served
    <3>2. modPc' \in {"listen", "exec"}
      BY <2>12
    <3>3. Bounded'
      BY <1>1, <2>1, <2>3, <2>6, <2>12 DEF Bounded
    <3> QED
      BY <1>1, <2>1, <2>11, <3>1, <3>2, <3>3
      DEF Executing, Spent, Replying, Rest, NeverMixed
  <2>14. Once'
    <3>1. pc = "ack" /\ modPc' = "exec" => seqNr = seqLen
      <4> SUFFICES ASSUME pc = "ack", modPc' = "exec" PROVE seqNr = seqLen
        OBVIOUS
      <4>1. f.nr = SeqLen(pktSize)
        BY <2>1, <2>6, <2>11
      <4>2. seqLen = SeqLen(pktSize) /\ seqNr <= seqLen
        BY <2>3 DEF Sending
      <4> QED
        BY <2>1, <2>3, <4>1, <4>2
    <3> QED
      BY <1>1, <2>1, <2>11, <3>1 DEF Once, Served
  <2> QED
    BY <2>7, <2>9, <2>10, <2>13, <2>14
<1>3. CASE UNCHANGED <<modPc, modReq>>
  BY <1>1, <1>3, DropTaking
<1> QED
  BY <1>2, <1>3 DEF ModuleListens
(* The command the module runs is the one in progress. *)
LEMMA RunsCommand ==
  ASSUME TypeInv, RequestInv, modPc = "exec"
  PROVE  /\ cmd \in 1..MaxCmds /\ modReq # <<>>
         /\ \A i \in 1..Len(modReq) : modReq[i].cmd = cmd
         /\ modReq[1].cmd = cmd
         /\ ~Served /\ NoFrames /\ pc \notin {"tx", "idle"}
         /\ pc = "ack" => seqNr = seqLen
<1> USE DEF RequestInv, Taking
<1>1. modReq # <<>> /\ modReq \in Seq(CommandFrame)
  BY DEF TypeInv, TypeOK, ModuleTypes, Issued
<1>2. Len(modReq) \in Nat \ {0} /\ \A i \in 1..Len(modReq) : modReq[i] \in CommandFrame
  BY <1>1
<1>3. \A i \in 1..Len(modReq) : modReq[i].cmd = cmd
  <2>1. \A k : RequestFrame(cmd, pktSize, k).cmd = cmd
    BY DEF RequestFrame
  <2> QED
    BY <2>1 DEF Held
<1>4. cmd \in 1..MaxCmds
  BY <1>2, <1>3 DEF CommandFrame
<1> QED
  BY <1>1, <1>2, <1>3, <1>4 DEF Executing, Spent, Rest, Once

LEMMA ModuleExecutesTaking ==
  ASSUME TypeInv, RequestInv, ModuleExecutes
  PROVE  /\ Taking'
         /\ \E a \in Answers : /\ served' = [served EXCEPT ![cmd] = a]
                               /\ ModuleSends(cmd, a, 1)
<1> USE DEF RequestInv, Taking
<1>1. /\ modPc = "exec" /\ modPc' = "reply"
      /\ UNCHANGED <<pc, cmd, pktSize, seqNr, seqLen, toModule, modReq>>
  BY DEF ModuleExecutes, hostVars, sendVars, frameVars
<1>2. /\ cmd \in 1..MaxCmds /\ modReq # <<>>
      /\ \A i \in 1..Len(modReq) : modReq[i].cmd = cmd
      /\ modReq[1].cmd = cmd
      /\ NoFrames /\ pc \notin {"tx", "idle"}
      /\ pc = "ack" => seqNr = seqLen
  BY <1>1, RunsCommand
<1>3. PICK a \in Answers : served' = [served EXCEPT ![cmd] = a] /\ ModuleSends(cmd, a, 1)
  BY <1>2 DEF ModuleExecutes
<1>4. /\ \A c \in 1..MaxCmds : c # cmd => served'[c] = served[c]
      /\ served'[cmd] = a /\ a # NotServed
  <2>1. a # NotServed
    BY SizesAssumption DEF Answers, NotServed
  <2> QED
    BY <1>2, <1>3, <2>1 DEF TypeInv, TypeOK, ModuleTypes
<1>5. NeverMixed'
  BY <1>2 DEF ModuleExecutes, NeverMixed
<1>6. Held' /\ InFlight' /\ Ordered' /\ Bounded' /\ Executing'
  BY <1>1, <1>2 DEF Held, InFlight, Ordered, Bounded, Executing, NoFrames
<1>7. Spent' /\ Rest' /\ Once'
  <2>1. Spent' /\ Rest'
    BY <1>1, <1>2 DEF Spent, Rest, NoFrames
  <2>2. \A c \in 1..MaxCmds : c > cmd => served'[c] = NotServed
    BY <1>2, <1>4 DEF Once
  <2> QED
    BY <1>1, <1>2, <2>1, <2>2 DEF Once
<1>8. Replying'
  BY <1>1, <1>2, <1>4 DEF Replying
<1> QED
  BY <1>3, <1>5, <1>6, <1>7, <1>8

(* The module is done with an answer, or gives it up. *)
LEMMA ListensAgain ==
  ASSUME TypeInv, RequestInv, modPc = "reply", modPc' = "listen", modReq' = <<>>,
         toModule' = toModule \/ (toModule # <<>> /\ toModule' = Tail(toModule)),
         UNCHANGED <<pc, cmd, pktSize, seqNr, seqLen, served, mixed>>
  PROVE  Taking'
<1> USE DEF RequestInv, Taking
<1>1. \E d \in {0, 1} : \A i \in 1..Len(toModule') :
         i + d \in 1..Len(toModule) /\ toModule'[i] = toModule[i + d]
  <2>1. CASE toModule' = toModule
    BY <2>1
  <2>2. CASE toModule # <<>> /\ toModule' = Tail(toModule)
    <3> WITNESS 1 \in {0, 1}
    <3>1. Len(toModule) \in Nat
      BY SequenceTypes
    <3>2. \A i \in 1..Len(toModule') :
             i + 1 \in 1..Len(toModule) /\ toModule'[i] = toModule[i + 1]
      <4> SUFFICES ASSUME NEW i \in 1..Len(toModule')
                   PROVE  i + 1 \in 1..Len(toModule) /\ toModule'[i] = toModule[i + 1]
        OBVIOUS
      <4>1. i + 1 \in 2..Len(toModule) /\ toModule'[i] = toModule[i + 1]
        BY <2>2, TailOfWire
      <4> QED
        BY <3>1, <4>1
    <3> QED
      BY <3>2
  <2> QED
    BY <2>1, <2>2
<1>2. PICK d \in {0, 1} : \A i \in 1..Len(toModule') :
         i + d \in 1..Len(toModule) /\ toModule'[i] = toModule[i + d]
  BY <1>1
<1>3. SeqLen(pktSize) \in Nat \ {0} /\ Len(modReq') = 0
  BY SequenceTypes
<1>4. NoFrames => NoFrames'
  BY <1>2 DEF NoFrames
<1>5. Held' /\ Executing' /\ Replying' /\ NeverMixed'
  BY <1>3 DEF Held, Executing, Replying, NeverMixed
<1>6. InFlight'
  <2> SUFFICES ASSUME NEW i \in 1..Len(toModule'), toModule'[i].kind = "frame"
               PROVE  /\ IsRequest(toModule'[i].frame, cmd, pktSize)
                      /\ 0 < toModule'[i].frame.nr
                      /\ pc = "tx" => toModule'[i].frame.nr < seqNr
                      /\ pc = "ack" => toModule'[i].frame.nr <= seqNr
    BY <1>3 DEF InFlight
  <2>1. i + d \in 1..Len(toModule) /\ toModule'[i] = toModule[i + d]
    BY <1>2
  <2>2. /\ IsRequest(toModule'[i].frame, cmd, pktSize)
        /\ pc = "tx" => toModule'[i].frame.nr < seqNr
        /\ pc = "ack" => toModule'[i].frame.nr <= seqNr
    BY <2>1 DEF InFlight
  <2> QED
    BY <1>3, <2>2 DEF IsRequest
<1>7. Ordered'
  <2> SUFFICES ASSUME NEW i \in 1..Len(toModule'), NEW j \in 1..Len(toModule'), i < j,
                      toModule'[i].kind = "frame", toModule'[j].kind = "frame"
               PROVE  toModule'[i].frame.nr < toModule'[j].frame.nr
    BY DEF Ordered
  <2>1. /\ i + d \in 1..Len(toModule) /\ toModule'[i] = toModule[i + d]
        /\ j + d \in 1..Len(toModule) /\ toModule'[j] = toModule[j + d]
        /\ i + d < j + d
    BY <1>2
  <2> QED
    BY <2>1 DEF Ordered
<1>8. Bounded'
  BY <1>3 DEF Bounded, Sending
<1>9. Spent' /\ Rest' /\ Once'
  BY <1>4 DEF Spent, Served, Rest, Once
<1> QED
  BY <1>5, <1>6, <1>7, <1>8, <1>9

LEMMA ModuleContinuesTaking ==
  ASSUME TypeInv, RequestInv, ModuleContinues
  PROVE  /\ Taking'
         /\ modPc' = "reply" => /\ modReq[1].cmd = cmd /\ Served
                                /\ modNr < SeqLen(served[cmd].size)
                                /\ ModuleSends(cmd, served[cmd], modNr + 1)
                                /\ modNr' = modNr + 1 /\ UNCHANGED modReq
         /\ modPc' # "reply" => /\ modPc' = "listen" /\ modReq' = <<>>
                                /\ UNCHANGED <<toHost, faults>>
<1> USE DEF RequestInv, Taking
<1>1. /\ modPc = "reply" /\ toModule # <<>> /\ toModule' = Tail(toModule)
      /\ UNCHANGED <<pc, cmd, pktSize, seqNr, seqLen, served, mixed>>
  BY DEF ModuleContinues, hostVars, sendVars, frameVars
<1> DEFINE c == modReq[1].cmd
<1>2. CASE /\ modNr < SeqLen(served[c].size)
           /\ ModuleSends(c, served[c], modNr + 1)
           /\ modNr' = modNr + 1
           /\ UNCHANGED <<modPc, modReq>>
  <2>1. c = cmd /\ served[cmd] # NotServed
    <3>1. c \in 1..MaxCmds
      BY <1>1, RequestTypes DEF TypeInv, TypeOK, Issued
    <3>2. served[c] \in Answers \cup {NotServed}
      BY <3>1 DEF TypeInv, TypeOK, ModuleTypes
    <3>4. modNr \in Nat /\ SeqLen(served[c].size) \in Nat
      BY <3>2, AnswerTypes DEF TypeInv, TypeOK, ModuleTypes
    <3>5. ~(modNr >= SeqLen(served[c].size))
      BY <1>2, <3>4
    <3> QED
      BY <1>1, <3>5 DEF Replying
  <2>2. Served
    <3>1. c \in 1..MaxCmds
      BY <1>1, RequestTypes DEF TypeInv, TypeOK, Issued
    <3> QED
      BY <2>1, <3>1 DEF Served
  <2>3. NoFrames'
    BY <1>1, <2>2, TailOfWire DEF Spent
  <2>4. /\ Held' /\ InFlight' /\ Ordered' /\ Bounded' /\ Executing' /\ Spent'
    BY <1>1, <1>2, <2>3 DEF Held, InFlight, Ordered, Bounded, Executing, Spent, NoFrames
  <2>5. Replying' /\ Once' /\ NeverMixed'
    BY <1>1, <1>2, <2>1 DEF Replying, Once, Served, NeverMixed
  <2>6. Rest'
    <3>1. pc = "idle" => modNr >= SeqLen(served[cmd].size)
      BY <1>1 DEF Rest
    <3>2. served[cmd] \in Answers \cup {NotServed}
      BY <2>2, SequenceTypes, BoundsAssumption DEF Served, TypeInv, TypeOK, ModuleTypes, HostTypes
    <3>4. modNr \in Nat /\ SeqLen(served[cmd].size) \in Nat
      BY <3>2, AnswerTypes DEF TypeInv, TypeOK, ModuleTypes
    <3> QED
      BY <1>1, <1>2, <2>1, <3>1, <3>4 DEF Rest
  <2> QED
    BY <1>1, <1>2, <2>1, <2>2, <2>4, <2>5, <2>6
<1>3. CASE /\ modNr >= SeqLen(served[c].size)
           /\ modPc' = "listen" /\ modReq' = <<>> /\ modNr' = 0
           /\ UNCHANGED <<toHost, faults>>
  BY <1>1, <1>3, ListensAgain
<1> QED
  BY <1>2, <1>3 DEF ModuleContinues

LEMMA OthersTaking ==
  ASSUME TypeInv, RequestInv,
         ModuleGivesUp \/ ModuleCrashes \/ LinkStep \/ UNCHANGED vars
  PROVE  Taking'
<1> USE DEF RequestInv, Taking
<1>1. UNCHANGED <<pc, cmd, pktSize, seqNr, seqLen, served, mixed>>
  BY DEF ModuleGivesUp, ModuleCrashes, LinkStep, LinkLoses, LinkCorrupts, vars,
     hostVars, modVars, sendVars, frameVars
<1>2. CASE ModuleGivesUp
  BY <1>1, <1>2, ListensAgain DEF ModuleGivesUp
<1>3. CASE ModuleCrashes
  BY <1>1, <1>3
  DEF ModuleCrashes, Held, InFlight, Ordered, Bounded, Executing, Spent, Served, Replying,
      Rest, Once, NeverMixed
<1>4. CASE LinkStep \/ UNCHANGED vars
  <2>1. /\ UNCHANGED <<modPc, modReq, modNr>>
        /\ toModule' = toModule \/ (toModule # <<>> /\ toModule' = Tail(toModule))
    BY <1>4 DEF LinkStep, LinkLoses, LinkCorrupts, modVars, vars
  <2>2. CASE toModule' = toModule
    BY <1>1, <2>1, <2>2
    DEF Held, InFlight, Ordered, Bounded, Executing, Spent, Served, Replying, Rest,
        Once, NeverMixed, NoFrames
  <2> QED
    BY <1>1, <2>1, <2>2, DropTaking
<1> QED
  BY <1>2, <1>3, <1>4

(* The call returns.  What it needs of the way back is that a call that has *)
(* not failed has an answer the module has sent to its end.                 *)
LEMMA ReturnTaking ==
  ASSUME Recovers, TypeInv, RequestInv, Return,
         ~Fails => /\ Served
                   /\ modPc = "reply" =>
                        modReq[1].cmd = cmd /\ modNr >= SeqLen(served[cmd].size)
  PROVE  Taking'
<1> USE DEF RequestInv, Taking
<1>1. /\ pc = "done" /\ pc' = "idle"
      /\ UNCHANGED <<cmd, pktSize, seqNr, seqLen, served, mixed, result>>
  BY DEF Return, sendVars, frameVars, resVars
<1>2. CASE ResetModule
  <2>1. /\ modPc' = "listen" /\ modReq' = <<>> /\ toModule' = <<>>
        /\ Len(modReq') = 0 /\ Len(toModule') = 0
    BY <1>2 DEF ResetModule
  <2>2. SeqLen(pktSize) \in Nat \ {0}
    BY SequenceTypes
  <2> QED
    BY <1>1, <2>1, <2>2
    DEF Held, InFlight, Ordered, Bounded, Executing, Spent, Served, Replying, Rest,
        Once, NeverMixed, NoFrames
<1>3. CASE ~NeedsReset /\ UNCHANGED <<toModule, modPc, modReq, modNr>>
  <2>1. ~Fails
    BY <1>1, <1>3 DEF NeedsReset, Fails, Recovers
  <2>2. /\ Served /\ modPc # "exec"
        /\ modPc = "dead" \/ NoFrames
        /\ modPc = "listen" => modReq = <<>>
        /\ modPc = "reply" => modReq[1].cmd = cmd /\ modNr >= SeqLen(served[cmd].size)
    BY <2>1 DEF Spent, Executing
  <2> QED
    BY <1>1, <1>3, <2>2
    DEF Held, InFlight, Ordered, Bounded, Executing, Spent, Served, Replying, Rest,
        Once, NeverMixed, NoFrames
<1> QED
  BY <1>2, <1>3 DEF Return
--------------------------------------------------------------------------------
(* The answer's way to the host: one lemma per action. *)

LEMMA InitAnswer == Init => AnswerInv
<1> SUFFICES ASSUME Init PROVE AnswerInv
  OBVIOUS
<1>1. ToHost /\ AtHost /\ AcksToModule /\ Counts
  BY DEF Init, ToHost, AtHost, AcksToModule, Counts, Answering
<1>2. Received /\ Looping
  BY DEF Init, Received, Receiving, Looping
<1> QED
  BY <1>1, <1>2 DEF AnswerInv

(* What the types say of the wire to the host and of an answer. *)
LEMMA HostWire ==
  ASSUME TypeInv
  PROVE  /\ toHost \in Seq(Unit) /\ Len(toHost) \in Nat
         /\ \A i \in 1..Len(toHost) : toHost[i] \in Unit
         /\ toHost # <<>> => /\ Len(toHost) >= 1 /\ 1 \in 1..Len(toHost)
                             /\ Head(toHost) = toHost[1]
  BY DEF TypeInv, TypeOK, WireTypes

LEMMA ServedTypes ==
  ASSUME TypeInv, Served
  PROVE  /\ cmd \in 1..MaxCmds /\ served[cmd] \in Answers
         /\ served[cmd].size \in Nat \ {0} /\ served[cmd].res \in Outcomes
         /\ SeqLen(served[cmd].size) \in Nat \ {0}
<1>1. cmd \in 1..MaxCmds
  BY BoundsAssumption DEF TypeInv, TypeOK, HostTypes, Served
<1>2. served[cmd] \in Answers
  BY <1>1 DEF TypeInv, TypeOK, ModuleTypes, Served
<1>3. served[cmd].size \in Nat \ {0} /\ served[cmd].res \in Outcomes
  BY <1>2, SizesAssumption DEF Answers
<1> QED
  BY <1>1, <1>2, <1>3, SeqLenType

LEMMA CallAnswer ==
  ASSUME StepInv, Call
  PROVE  AnswerInv'
<1> USE DEF StepInv, RequestInv, AnswerInv
<1>1. /\ pc = "idle" /\ pc' = "tx" /\ cmd' = cmd + 1 /\ pkt' = <<>>
      /\ UNCHANGED <<toHost, toModule, modPc, modReq, modNr, served, result>>
  BY DEF Call, modVars, resVars
<1>2. toHost = <<>> /\ Len(toHost') = 0
  BY <1>1 DEF AtHost
<1>3. ~Answering'
  <2>1. modPc = "reply" => modReq[1].cmd = cmd
    BY <1>1 DEF Taking, Rest
  <2>2. cmd \in Nat
    BY SequenceTypes
  <2> QED
    BY <1>1, <2>1, <2>2 DEF Answering
<1>4. ToHost' /\ AtHost' /\ Counts'
  BY <1>1, <1>2, <1>3 DEF ToHost, AtHost, Counts
<1>5. AcksToModule'
  BY <1>1, <1>3 DEF AcksToModule, Fails
<1>6. Received' /\ Looping'
  BY <1>1 DEF Received, Receiving, Looping
<1> QED
  BY <1>4, <1>5, <1>6

LEMMA SendFrameAnswer ==
  ASSUME StepInv, SendFrame
  PROVE  AnswerInv'
<1> USE DEF StepInv, RequestInv, AnswerInv
<1>1. /\ pc = "tx" /\ pc' = "ack"
      /\ UNCHANGED <<cmd, toHost, modPc, modReq, modNr, served, result, pkt>>
  BY DEF SendFrame, modVars, recvVars, resVars
<1>2. ~Served
  BY <1>1 DEF Taking, Once
<1>3. ToHost' /\ AtHost'
  BY <1>1, <1>2 DEF ToHost, AtHost, Fails
<1>4. Counts' /\ Received' /\ Looping'
  BY <1>1 DEF Counts, Fails, Answering, Accepted, Received, Receiving, Looping
<1>5. AcksToModule'
  <2>1. \E f : toModule' = Append(toModule, Carry(f))
    BY DEF SendFrame
  <2>2. \A f : Carry(f).kind # "ack"
    BY DEF Carry
  <2>3. toModule \in Seq(HostUnit)
    BY DEF TypeInv, TypeOK, WireTypes
  <2>4. \A i \in 1..Len(toModule') : toModule'[i].kind = "ack" =>
           i \in 1..Len(toModule) /\ toModule'[i] = toModule[i]
    BY <2>1, <2>2, <2>3, AppendProperties
  <2> QED
    BY <1>1, <2>4 DEF AcksToModule, Fails, Answering, Accepted
<1> QED
  BY <1>3, <1>4, <1>5

(* Reading four bytes off the wire leaves what came after them. *)
LEMMA WordRead ==
  ASSUME TypeInv, toHost # <<>>, toHost' \in AfterWord(toHost)
  PROVE  /\ Head(toHost).kind \in {"ack", "glitch"} => toHost' = Tail(toHost)
         /\ Head(toHost).kind = "frame" =>
              toHost' = <<[Head(toHost) EXCEPT !.kind = "body"]>> \o Tail(toHost)
         /\ Head(toHost).kind = "body" => toHost' = <<Bare("noise")>> \o Tail(toHost)
<1>1. Head(toHost).kind \in UnitKinds
  BY HostWire DEF Unit
<1> QED
  BY <1>1 DEF AfterWord, UnitKinds

LEMMA HostTail ==
  ASSUME TypeInv, toHost # <<>>, toHost' = Tail(toHost)
  PROVE  /\ Len(toHost') = Len(toHost) - 1
         /\ \A i \in 1..Len(toHost') :
              i + 1 \in 1..Len(toHost) /\ toHost'[i] = toHost[i + 1]
  BY HostWire

(* The first unit on the wire is replaced. *)
LEMMA HostReplaced ==
  ASSUME TypeInv, toHost # <<>>, NEW u, toHost' = <<u>> \o Tail(toHost)
  PROVE  /\ Len(toHost') = Len(toHost) /\ toHost' # <<>>
         /\ toHost'[1] = u
         /\ \A i \in 2..Len(toHost) : toHost'[i] = toHost[i]
  BY HostWire

(* Nothing is asked of a call that has failed. *)
LEMMA FailedAnswer == ASSUME Fails' PROVE AnswerInv'
<1>1. pc' \in {"parse", "done"} /\ result' \in {"IO_ERROR", "TIMEOUT"}
  BY DEF Fails
<1>2. ToHost' /\ AtHost' /\ AcksToModule' /\ Counts'
  BY <1>1 DEF ToHost, AtHost, AcksToModule, Counts, Fails
<1>3. Received' /\ Looping'
  BY <1>1 DEF Received, Receiving, Looping, Fails
<1> QED
  BY <1>2, <1>3 DEF AnswerInv

(* What a read of four bytes leaves was there, or is the body of a frame   *)
(* that was there.                                                         *)
LEMMA WordLeft ==
  ASSUME TypeInv, toHost # <<>>, Head(toHost).kind \notin {"body", "noise"},
         toHost' \in {toHost} \cup AfterWord(toHost)
  PROVE  \A i \in 1..Len(toHost') : \E j \in 1..Len(toHost) :
           /\ j = Len(toHost) => i = Len(toHost')
           /\ \/ toHost'[i] = toHost[j]
              \/ /\ toHost[j].kind = "frame" /\ toHost'[i].kind = "body"
                 /\ toHost'[i].frame = toHost[j].frame
<1> SUFFICES ASSUME NEW i \in 1..Len(toHost')
             PROVE  \E j \in 1..Len(toHost) :
                      /\ j = Len(toHost) => i = Len(toHost')
                      /\ \/ toHost'[i] = toHost[j]
                         \/ /\ toHost[j].kind = "frame" /\ toHost'[i].kind = "body"
                            /\ toHost'[i].frame = toHost[j].frame
  OBVIOUS
<1>1. Head(toHost).kind \in {"ack", "glitch", "frame"} /\ Head(toHost) = toHost[1]
  BY HostWire DEF Unit, UnitKinds
<1>2. Len(toHost) \in Nat
  BY HostWire
<1>3. CASE toHost' = toHost
  BY <1>3
<1>4. CASE toHost' = Tail(toHost)
  <2>1. /\ Len(toHost') = Len(toHost) - 1
        /\ i + 1 \in 1..Len(toHost) /\ toHost'[i] = toHost[i + 1]
    BY <1>4, HostTail
  <2>2. i + 1 = Len(toHost) => i = Len(toHost')
    BY <1>2, <2>1
  <2> QED
    BY <2>1, <2>2
<1>5. CASE /\ toHost' = <<[Head(toHost) EXCEPT !.kind = "body"]>> \o Tail(toHost)
           /\ Head(toHost).kind = "frame"
  <2> DEFINE u == [Head(toHost) EXCEPT !.kind = "body"]
  <2>1. /\ Len(toHost') = Len(toHost) /\ toHost'[1] = u
        /\ \A j \in 2..Len(toHost) : toHost'[j] = toHost[j]
    BY <1>5, HostReplaced
  <2>2. Head(toHost) \in Unit
    BY HostWire
  <2>3. u.kind = "body" /\ u.frame = Head(toHost).frame
    BY <2>2 DEF Unit
  <2> HIDE DEF u
  <2>4. i \in 1..Len(toHost) /\ (i = Len(toHost) => i = Len(toHost'))
    BY <2>1
  <2>5. CASE i = 1
    <3>1. /\ toHost[i].kind = "frame" /\ toHost'[i].kind = "body"
          /\ toHost'[i].frame = toHost[i].frame
      BY <1>1, <1>5, <2>1, <2>3, <2>5
    <3> QED
      BY <2>4, <3>1
  <2>6. CASE i # 1
    <3>1. i \in 2..Len(toHost)
      BY <1>2, <2>4, <2>6
    <3> QED
      BY <2>1, <2>4, <3>1
  <2> QED
    BY <2>5, <2>6
<1> QED
  BY <1>1, <1>3, <1>4, <1>5, WordRead

LEMMA FrameSentAnswer ==
  ASSUME StepInv, ReadAck, FrameSent, toHost # <<>>,
         toHost' \in {toHost} \cup AfterWord(toHost)
  PROVE  AnswerInv'
<1> USE DEF StepInv, RequestInv, AnswerInv
<1>1. /\ pc = "ack"
      /\ UNCHANGED <<cmd, pktSize, pkt, toModule, modPc, modReq, modNr, served>>
  BY DEF ReadAck, sendVars, modVars
<1>2. \/ seqNr < seqLen /\ pc' = "tx"
      \/ /\ pc' = "rxhdr" /\ seqNr' = 0 /\ seqLen' = 1
         /\ bufLen' = 0 /\ comResult' = "OK"
  BY DEF FrameSent, StartReceive
<1>3. ~Fails /\ ~Fails' /\ Accepted = 0 /\ Accepted' = 0
  BY <1>1, <1>2 DEF Fails, Accepted
<1>4. pkt = <<>>
  BY <1>1 DEF Received
<1>5. \A i \in 1..Len(toHost) :
        /\ toHost[i].kind \notin {"body", "noise"}
        /\ toHost[i].kind = "frame" =>
             /\ pc' = "rxhdr" /\ i = Len(toHost)
             /\ Served /\ 0 < SeqLen(served[cmd].size)
             /\ IsAnswer(toHost[i].frame, cmd, served[cmd], 1)
             /\ Answering => modNr = 1
             /\ modPc = "dead" \/ toModule = <<>>
  <2>1. Served => ~(seqNr < seqLen)
    BY <1>1, SequenceTypes DEF Taking, Once, TypeInv, TypeOK, HostTypes
  <2> QED
    BY <1>1, <1>2, <1>3, <2>1 DEF ToHost
<1>6. Head(toHost).kind \notin {"body", "noise"}
  BY <1>5, HostWire
<1>7. ToHost'
  <2> SUFFICES ASSUME NEW i \in 1..Len(toHost')
               PROVE  /\ toHost'[i].kind \in {"frame", "body"} =>
                           /\ i = Len(toHost')
                           /\ Served /\ 0 < SeqLen(served[cmd].size)
                           /\ IsAnswer(toHost'[i].frame, cmd, served[cmd], 1)
                           /\ Answering => modNr = 1
                           /\ modPc = "dead" \/ toModule = <<>>
                      /\ toHost'[i].kind = "body" => pc' = "rxhdr"
                      /\ toHost'[i].kind # "noise"
    BY <1>1, <1>3 DEF ToHost, Served, Answering
  <2>1. PICK j \in 1..Len(toHost) :
           /\ j = Len(toHost) => i = Len(toHost')
           /\ \/ toHost'[i] = toHost[j]
              \/ /\ toHost[j].kind = "frame" /\ toHost'[i].kind = "body"
                 /\ toHost'[i].frame = toHost[j].frame
    BY <1>6, WordLeft
  <2> QED
    BY <1>5, <2>1
<1>8. AtHost'
  BY <1>2 DEF AtHost, Fails
<1>9. AcksToModule' /\ Counts'
  BY <1>1, <1>3 DEF AcksToModule, Counts, Answering
<1>10. Received' /\ Looping'
  BY <1>1, <1>2, <1>4 DEF Received, Receiving, Looping, Fails
<1> QED
  BY <1>7, <1>8, <1>9, <1>10

LEMMA ReadAckAnswer ==
  ASSUME StepInv, ReadAck
  PROVE  AnswerInv'
<1>1. CASE SendFails
  BY <1>1, FailedAnswer DEF SendFails, Fails
<1>2. CASE FrameSent /\ toHost # <<>> /\ toHost' \in {toHost} \cup AfterWord(toHost)
  BY <1>2, FrameSentAnswer
<1> QED
  BY <1>1, <1>2 DEF ReadAck, TransferFails

(* A header is that of the frame the module has sent, or the rest of one. *)
LEMMA ReadHeaderAnswer ==
  ASSUME StepInv, ReadHeader
  PROVE  AnswerInv'
<1> USE DEF StepInv, RequestInv, AnswerInv
<1>1. /\ pc = "rxhdr"
      /\ UNCHANGED <<cmd, pktSize, seqNr, seqLen, pkt, bufLen, comResult, bepResult,
                     toModule, modPc, modReq, modNr, served>>
  BY DEF ReadHeader, sendVars, recvVars, modVars
<1>2. CASE pc' = "parse"
  <2>1. result' \in {"IO_ERROR", "TIMEOUT"}
    BY <1>2 DEF ReadHeader, ReceiveFails
  <2> QED
    BY <1>2, <2>1, FailedAnswer DEF Fails
<1>3. CASE pc' # "parse"
  <2>1. /\ pc' = "rxbody" /\ toHost # <<>> /\ toHost' \in AfterWord(toHost)
        /\ \E size \in SizesRead(Head(toHost)) : FitsMtu(size)
        /\ result' = result
    BY <1>3 DEF ReadHeader, ReceiveFails
  <2>2. Head(toHost) = toHost[1] /\ Head(toHost) \in Unit /\ 1 \in 1..Len(toHost)
    BY <2>1, HostWire
  <2>3. Head(toHost).kind \notin {"ack", "glitch"}
    <3>1. ~FitsMtu(AckAsSize)
      BY MtuAssumption DEF FitsMtu, AckAsSize
    <3> QED
      BY <2>1, <3>1 DEF SizesRead
  <2>4. ~Fails /\ ~Fails' /\ Accepted' = Accepted
    BY <1>1, <2>1 DEF Fails, Accepted
  <2>5. Head(toHost).kind # "noise"
    BY <1>1, <2>2, <2>4 DEF ToHost
  <2>6. Head(toHost).kind \in {"frame", "body"} /\ Len(toHost) = 1
    <3>1. Head(toHost).kind \in {"frame", "body"}
      BY <2>2, <2>3, <2>5 DEF Unit, UnitKinds
    <3> QED
      BY <2>2, <2>4, <3>1 DEF ToHost
  <2>7. /\ Served /\ Accepted < SeqLen(served[cmd].size)
        /\ IsAnswer(Head(toHost).frame, cmd, served[cmd], Accepted + 1)
        /\ Answering => modNr = Accepted + 1
        /\ modPc = "dead" \/ toModule = <<>>
    BY <2>2, <2>4, <2>6 DEF ToHost
  <2>8. /\ Len(toHost') = 1 /\ toHost' # <<>>
        /\ \/ toHost'[1].kind = "body" /\ toHost'[1].frame = Head(toHost).frame
           \/ toHost'[1].kind = "noise"
    <3>1. CASE Head(toHost).kind = "frame"
      <4>1. toHost' = <<[Head(toHost) EXCEPT !.kind = "body"]>> \o Tail(toHost)
        BY <2>1, <3>1, WordRead
      <4>2. /\ [Head(toHost) EXCEPT !.kind = "body"].kind = "body"
            /\ [Head(toHost) EXCEPT !.kind = "body"].frame = Head(toHost).frame
        BY <2>2 DEF Unit
      <4> QED
        BY <2>1, <2>6, <4>1, <4>2, HostReplaced
    <3>2. CASE Head(toHost).kind = "body"
      <4>1. toHost' = <<Bare("noise")>> \o Tail(toHost)
        BY <2>1, <3>2, WordRead
      <4>2. Bare("noise").kind = "noise"
        BY DEF Bare
      <4> QED
        BY <2>1, <2>6, <4>1, <4>2, HostReplaced
    <3> QED
      BY <2>6, <3>1, <3>2
  <2>9. ToHost' /\ AtHost'
    BY <1>1, <2>1, <2>4, <2>7, <2>8 DEF ToHost, AtHost, Served, Answering
  <2>10. AcksToModule' /\ Counts'
    BY <1>1, <2>4 DEF AcksToModule, Counts, Answering
  <2>11. Received' /\ Looping'
    BY <1>1, <2>1 DEF Received, Receiving, Looping, Served, Fails
  <2> QED
    BY <2>9, <2>10, <2>11
<1> QED
  BY <1>2, <1>3

(* The first k frames and one more. *)
LEMMA UpToNext ==
  ASSUME NEW n \in Nat, NEW k \in Nat, k < SeqLen(n)
  PROVE  /\ UpTo(n, k) \in Nat /\ UpTo(n, k + 1) \in Nat /\ SliceSize(n, k + 1) \in Nat
         /\ UpTo(n, k + 1) = UpTo(n, k) + SliceSize(n, k + 1)
         /\ UpTo(n, k + 1) <= n
         /\ UpTo(n, 0) = 0
<1>1. SeqLen(n) \in Nat \ {0}
  BY SeqLenType
<1>2. k + 1 \in 1..SeqLen(n) /\ (k + 1) - 1 = k
  BY <1>1
<1>3. /\ AppMtu \in Nat /\ k * AppMtu \in Nat /\ n - k * AppMtu \in Nat
      /\ (k + 1) * AppMtu = k * AppMtu + AppMtu
      /\ k + 1 < SeqLen(n) => (k + 1) * AppMtu <= n /\ SliceSize(n, k + 1) = AppMtu
      /\ k + 1 = SeqLen(n) => SliceSize(n, k + 1) = n - k * AppMtu
  BY <1>2, Slices
<1>4. UpTo(n, k) = k * AppMtu /\ UpTo(n, 0) = 0
  BY <1>1, <1>3 DEF UpTo
<1>5. CASE k + 1 < SeqLen(n)
  BY <1>3, <1>4, <1>5 DEF UpTo
<1>6. CASE k + 1 = SeqLen(n)
  <2>1. UpTo(n, k + 1) = n
    BY <1>1, <1>6 DEF UpTo
  <2> QED
    BY <1>3, <1>4, <1>6, <2>1
<1> QED
  BY <1>1, <1>2, <1>5, <1>6

(* What the fields of a frame of an answer are when it is not damaged. *)
LEMMA AnswerFields ==
  ASSUME NEW c, NEW a, NEW k, NEW f,
         IsAnswer(f, c, a, k), f.src # "junk", SliceSize(a.size, k) \in Nat
  PROVE  /\ f.nr = k /\ f.of = SeqLen(a.size) /\ f.tSize = SliceSize(a.size, k)
         /\ f.tSize = f.lnkSize - 6 => f = AnswerFrame(c, a, k)
<1>1. CASE f = AnswerFrame(c, a, k)
  BY <1>1 DEF AnswerFrame
<1>2. CASE f = [AnswerFrame(c, a, k) EXCEPT !.lnkSize = @ + 1]
  BY <1>2 DEF AnswerFrame
<1> QED
  BY <1>1, <1>2 DEF IsAnswer

(* The payload of the next frame is added to that of those before it. *)
LEMMA PayloadTaken ==
  ASSUME SizesFit, StepInv, pc = "rxbody", Served,
         NEW k, k = seqNr + 1, k <= SeqLen(served[cmd].size),
         NEW f, f.tSize = SliceSize(served[cmd].size, k),
         f.tSize = f.lnkSize - 6 => f = AnswerFrame(cmd, served[cmd], k),
         TakePayload(f)
  PROVE  /\ bufLen' <= UpTo(served[cmd].size, k)
         /\ comResult' = "OK" =>
              /\ bufLen' = UpTo(served[cmd].size, k)
              /\ Len(pkt') = k
              /\ \A i \in 1..k : pkt'[i] = AnswerFrame(cmd, served[cmd], i)
         /\ comResult' = "NO_MEMORY" => served[cmd].size >= PktSizeMax
<1> DEFINE n == served[cmd].size
<1>1. /\ seqNr \in Nat /\ bufLen \in Nat /\ pkt \in Seq(Frame)
      /\ n \in Nat /\ SeqLen(n) \in Nat \ {0} /\ PktSizeMax \in Nat
  BY ServedTypes, SizesAssumption DEF StepInv, TypeInv, TypeOK, HostTypes
<1>2. /\ UpTo(n, seqNr) \in Nat /\ UpTo(n, k) \in Nat /\ f.tSize \in Nat
      /\ UpTo(n, k) = UpTo(n, seqNr) + f.tSize
      /\ UpTo(n, k) <= n /\ UpTo(n, 0) = 0
  <2>1. seqNr < SeqLen(n)
    BY <1>1
  <2> QED
    BY <1>1, <2>1, UpToNext
<1>3. /\ bufLen <= UpTo(n, seqNr)
      /\ comResult = "OK" =>
           /\ bufLen = UpTo(n, seqNr) /\ Len(pkt) = seqNr
           /\ \A i \in 1..seqNr : pkt[i] = AnswerFrame(cmd, served[cmd], i)
      /\ comResult = "NO_MEMORY" => n >= PktSizeMax
  <2>1. Receiving
    BY DEF Receiving
  <2>2. CASE seqNr = 0
    BY <1>2, <2>1, <2>2 DEF StepInv, AnswerInv, Received
  <2>3. CASE seqNr > 0
    BY <2>1, <2>3 DEF StepInv, AnswerInv, Received
  <2> QED
    BY <1>1, <2>2, <2>3
<1> HIDE DEF n
<1> DEFINE u == UpTo(n, seqNr) v == UpTo(n, k) t == f.tSize
<1>4. /\ u \in Nat /\ v \in Nat /\ t \in Nat /\ v = u + t /\ v <= n
      /\ bufLen \in Nat /\ bufLen <= u /\ n \in Nat
  BY <1>1, <1>2, <1>3
<1> HIDE DEF u, v, t
<1>5. bufLen <= v /\ bufLen + t <= v /\ bufLen + t \in Nat /\ bufLen + t <= n
  BY <1>4
<1> USE DEF u, v, t
<1>6. CASE comResult' = "IO_ERROR" /\ bufLen' = bufLen
  BY <1>6, <1>5 DEF n
<1>7. CASE /\ f.tSize = f.lnkSize - 6
           /\ FitsPacket(f.tSize)
           /\ pkt' = Append(pkt, f)
           /\ bufLen' = (bufLen + f.tSize) % 65536
           /\ UNCHANGED comResult
  <2>1. bufLen' = bufLen + f.tSize
    <3>1. f.tSize \in Nat /\ bufLen \in Nat /\ FitsPacket(f.tSize) /\ PktSizeMax <= 65536
      BY <1>1, <1>2, <1>7 DEF SizesFit
    <3> HIDE DEF FitsPacket
    <3>2. (bufLen + f.tSize) % 65536 = bufLen + f.tSize
      BY <3>1, CountsPayload
    <3> QED
      BY <1>7, <3>2
  <2>2. comResult = "OK" =>
           Len(pkt') = k /\ \A i \in 1..k : pkt'[i] = AnswerFrame(cmd, served[cmd], i)
    <3> SUFFICES ASSUME comResult = "OK"
                 PROVE  /\ Len(pkt') = k
                        /\ \A i \in 1..k : pkt'[i] = AnswerFrame(cmd, served[cmd], i)
      OBVIOUS
    <3>1. f = AnswerFrame(cmd, served[cmd], k)
      BY <1>7
    <3>2. /\ Len(pkt') = Len(pkt) + 1 /\ pkt'[Len(pkt) + 1] = f
          /\ \A i \in 1..Len(pkt) : pkt'[i] = pkt[i]
      BY <1>1, <1>7, AppendProperties
    <3>3. \A i \in 1..k : i \in 1..seqNr \/ i = k
      BY <1>1
    <3> QED
      BY <1>3, <3>1, <3>2, <3>3
  <2> QED
    BY <1>1, <1>2, <1>3, <1>7, <2>1, <2>2 DEF n
<1>8. CASE /\ ~FitsPacket(f.tSize)
           /\ comResult' = "NO_MEMORY"
           /\ bufLen' = bufLen
  <2>1. ~(bufLen + f.tSize < PktSizeMax)
    BY <1>8 DEF FitsPacket
  <2>2. bufLen + f.tSize \in Nat /\ bufLen + f.tSize <= n
    BY <1>5
  <2>3. n >= PktSizeMax
    BY <1>1, <2>1, <2>2
  <2> QED
    BY <1>8, <1>5, <2>3 DEF n
<1> QED
  BY <1>6, <1>7, <1>8 DEF TakePayload

(* The body read is that of the frame the module has sent. *)
LEMMA BodyRead ==
  ASSUME Recovers, StepInv, ReadBody
  PROVE  \/ Fails' /\ pktSize' = pktSize
         \/ LET f == Head(toHost).frame
            IN  /\ Len(toHost) = 1 /\ toHost' = <<>>
                /\ Served /\ seqNr < SeqLen(served[cmd].size)
                /\ IsAnswer(f, cmd, served[cmd], seqNr + 1) /\ f.src # "junk"
                /\ Answering => modNr = seqNr + 1
                /\ modPc = "dead" \/ toModule = <<>>
                /\ Accept(f)
<1> USE DEF StepInv, AnswerInv
<1>1. pc = "rxbody"
  BY DEF ReadBody
<1>2. toHost # <<>>
  BY <1>1 DEF AtHost
<1>3. CASE \E f : CheckCrc(f) /\ f.src = "junk"
  BY <1>3 DEF CheckCrc, CrcMatches, ReceiveFails, Fails
<1>4. CASE BodyComes /\ toHost' = Tail(toHost) /\ CheckCrc(Head(toHost).frame)
  <2> DEFINE f == Head(toHost).frame
  <2>1. Head(toHost) = toHost[1] /\ 1 \in 1..Len(toHost) /\ ~Fails /\ Accepted = seqNr
    BY <1>1, <1>2, HostWire DEF Fails, Accepted
  <2>2. /\ 1 = Len(toHost)
        /\ Served /\ seqNr < SeqLen(served[cmd].size)
        /\ IsAnswer(f, cmd, served[cmd], seqNr + 1)
        /\ Answering => modNr = seqNr + 1
        /\ modPc = "dead" \/ toModule = <<>>
    BY <1>4, <2>1 DEF ToHost, BodyComes
  <2>3. toHost' = <<>>
    <3>1. Len(toHost') = 0 /\ toHost' \in Seq(Unit)
      BY <1>2, <1>4, <2>2, HostWire
    <3> QED
      BY <3>1
  <2>4. (Fails' /\ pktSize' = pktSize) \/ (Accept(f) /\ f.src # "junk")
    BY <1>4 DEF CheckCrc, CrcMatches, ReceiveFails, Fails
  <2> QED
    BY <2>2, <2>3, <2>4
<1>5. JunkFrame.src = "junk"
  BY DEF JunkFrame
<1> QED
  BY <1>2, <1>3, <1>4, <1>5 DEF ReadBody, Fault, Recovers

LEMMA ReadBodyAnswer ==
  ASSUME Recovers, SizesFit, StepInv, ReadBody
  PROVE  AnswerInv'
<1>1. CASE Fails'
  BY <1>1, FailedAnswer
<1>2. CASE ~Fails'
  <2> DEFINE f == Head(toHost).frame  a == served[cmd]  k == seqNr + 1
  <2>1. /\ Len(toHost) = 1 /\ toHost' = <<>>
        /\ Served /\ seqNr < SeqLen(a.size)
        /\ IsAnswer(f, cmd, a, k) /\ f.src # "junk"
        /\ Answering => modNr = k
        /\ modPc = "dead" \/ toModule = <<>>
        /\ Accept(f)
    BY <1>2, BodyRead
  <2>2. /\ pc = "rxbody"
        /\ UNCHANGED <<cmd, modPc, modReq, modNr, served>>
    BY DEF ReadBody, modVars
  <2>3. /\ seqNr \in Nat /\ SeqLen(a.size) \in Nat \ {0} /\ a.size \in Nat /\ k \in Nat
        /\ k <= SeqLen(a.size)
    BY <2>1, ServedTypes DEF StepInv, TypeInv, TypeOK, HostTypes
  <2>4. SliceSize(a.size, k) \in Nat
    BY <2>1, <2>3, UpToNext
  <2> HIDE DEF f
  <2>5. /\ f.nr = k /\ f.of = SeqLen(a.size) /\ f.tSize = SliceSize(a.size, k)
        /\ f.tSize = f.lnkSize - 6 => f = AnswerFrame(cmd, a, k)
    BY <2>1, <2>4, AnswerFields
  <2>6. /\ toModule' = Append(toModule, Ack)
        /\ seqNr' = k /\ seqLen' = SeqLen(a.size)
        /\ \/ k < SeqLen(a.size) /\ pc' = "rxhdr"
           \/ /\ k = SeqLen(a.size) /\ pc' = "parse"
              /\ pktSize' = bufLen' /\ result' = comResult'
    BY <2>1, <2>3, <2>5 DEF Accept
  <2>7. /\ bufLen' <= UpTo(a.size, k)
        /\ comResult' = "OK" =>
             /\ bufLen' = UpTo(a.size, k)
             /\ Len(pkt') = k
             /\ \A i \in 1..k : pkt'[i] = AnswerFrame(cmd, a, i)
        /\ comResult' = "NO_MEMORY" => a.size >= PktSizeMax
    <3>1. TakePayload(f)
      BY <2>1 DEF Accept
    <3> QED
      BY <2>1, <2>2, <2>3, <2>5, <3>1, PayloadTaken
  <2> HIDE DEF a, k
  <2>8. a' = a /\ Accepted' = k /\ (Answering' <=> Answering) /\ (Served' <=> Served)
    BY <2>2, <2>6 DEF a, Accepted, Answering, Served
  <2>9. ToHost' /\ AtHost'
    BY <2>1, <2>6 DEF ToHost, AtHost
  <2>10. AcksToModule' /\ Counts'
    <3>1. modPc # "dead" => Len(toModule') = 1
      BY <2>1, <2>6, AppendProperties DEF StepInv, TypeInv, TypeOK, WireTypes
    <3>2. modPc # "exec" /\ (modPc = "listen" => modReq = <<>>)
      BY <2>1 DEF StepInv, RequestInv, Taking, Executing, Spent
    <3>3. Answering => modNr = k /\ k \in 1..SeqLen(a.size)
      BY <2>1, <2>3 DEF k
    <3>4. AcksToModule'
      BY <2>2, <2>8, <3>1, <3>2, <3>3 DEF AcksToModule
    <3>5. Counts'
      BY <2>2, <2>8, <3>3 DEF Counts, a
    <3> QED
      BY <3>4, <3>5
  <2>11. Received' /\ Looping'
    <3>1. k > 0 /\ (k < SeqLen(a.size) \/ k = SeqLen(a.size)) /\ k # 0
      BY <2>3 DEF k
    <3>2. Received'
      <4>1. pc' \notin {"tx", "ack"} /\ seqNr' = k /\ seqNr' # 0
        BY <2>6, <3>1
      <4>2. Served' /\ k <= SeqLen(a.size) /\ served'[cmd'] = a
        BY <2>1, <2>2, <2>3, <2>8 DEF a
      <4> QED
        BY <2>2, <2>7, <4>1, <4>2 DEF Received
    <3>3. Looping'
      BY <2>3, <2>6, <2>8, <3>1 DEF Looping, a
    <3> QED
      BY <3>2, <3>3
  <2> QED
    BY <2>9, <2>10, <2>11 DEF AnswerInv
<1> QED
  BY <1>1, <1>2

LEMMA ParseResultAnswer ==
  ASSUME StepInv, ParseResult
  PROVE  AnswerInv'
<1> USE DEF StepInv, AnswerInv
<1>1. /\ pc = "parse" /\ pc' = "done" /\ bepResult' \in FoundResults
      /\ UNCHANGED <<cmd, pktSize, seqNr, seqLen, pkt, bufLen, comResult, result,
                     toModule, toHost, modPc, modReq, modNr, served>>
  BY DEF ParseResult, sendVars, frameVars, recvVars, modVars
<1>2. CASE Fails
  BY <1>1, <1>2, FailedAnswer DEF Fails
<1>3. CASE ~Fails
  <2>1. ~Fails' /\ Accepted' = Accepted /\ Receiving /\ Receiving'
    BY <1>1, <1>3 DEF Fails, Accepted, Receiving
  <2>2. /\ result = comResult /\ pktSize = bufLen
        /\ seqNr > 0 /\ seqNr = SeqLen(served[cmd].size)
    BY <1>1, <1>3 DEF Looping
  <2>3. result = "OK" => bepResult' = served[cmd].res
    <3> SUFFICES ASSUME result = "OK" PROVE bepResult' = served[cmd].res
      OBVIOUS
    <3>1. Len(pkt) = seqNr /\ \A i \in 1..seqNr : pkt[i] = AnswerFrame(cmd, served[cmd], i)
      BY <2>1, <2>2 DEF Received
    <3>2. pkt \in Seq(Frame) /\ seqNr \in Nat
      BY DEF TypeInv, TypeOK, HostTypes
    <3>3. pkt # <<>> /\ Head(pkt) = AnswerFrame(cmd, served[cmd], 1)
      BY <2>2, <3>1, <3>2
    <3>4. Head(pkt).src = "module" /\ Head(pkt).nr = 1 /\ Head(pkt).res = served[cmd].res
      BY <3>3 DEF AnswerFrame
    <3> QED
      BY <1>1, <3>3, <3>4 DEF FoundResults
  <2>4. ToHost' /\ AtHost'
    BY <1>1, <1>3, <2>1 DEF ToHost, AtHost, Served, Answering
  <2>5. AcksToModule' /\ Counts'
    BY <1>1, <1>3, <2>1 DEF AcksToModule, Counts, Answering
  <2>6. Received' /\ Looping'
    BY <1>1, <2>1, <2>2, <2>3 DEF Received, Looping, Served
  <2> QED
    BY <2>4, <2>5, <2>6
<1> QED
  BY <1>2, <1>3

(* A call that has not failed ends with an answer sent to its end. *)
LEMMA AnswerSent ==
  ASSUME StepInv, pc \in {"parse", "done"}, ~Fails
  PROVE  /\ Served
         /\ modPc = "reply" =>
              modReq[1].cmd = cmd /\ modNr >= SeqLen(served[cmd].size)
<1> USE DEF StepInv, RequestInv, AnswerInv
<1>1. seqNr > 0 /\ seqNr = SeqLen(served[cmd].size) /\ Accepted = seqNr
  BY DEF Looping, Accepted
<1>2. Served
  BY <1>1 DEF Received, Receiving
<1>3. modPc = "reply" => Answering
  BY <1>2 DEF Taking, Replying, Answering
<1>4. Answering => modNr >= SeqLen(served[cmd].size)
  <2>1. SeqLen(served[cmd].size) \in Nat
    BY <1>2, ServedTypes
  <2> QED
    BY <1>1, <2>1 DEF Counts
<1> QED
  BY <1>2, <1>3, <1>4 DEF Answering

LEMMA ReturnAnswer ==
  ASSUME Recovers, StepInv, Return
  PROVE  AnswerInv'
<1> USE DEF StepInv, AnswerInv
<1>1. /\ pc = "done" /\ pc' = "idle"
      /\ UNCHANGED <<cmd, seqNr, served, result>>
  BY DEF Return, frameVars, resVars
<1>2. ~Fails' /\ Received' /\ Looping'
  BY <1>1 DEF Fails, Received, Receiving, Looping
<1>3. CASE ResetModule
  <2>1. modPc' = "listen" /\ toModule' = <<>> /\ toHost' = <<>>
    BY <1>3 DEF ResetModule, Recovers
  <2> QED
    BY <1>1, <1>2, <2>1 DEF ToHost, AtHost, AcksToModule, Counts, Answering
<1>4. CASE ~NeedsReset /\ UNCHANGED <<toModule, toHost, modPc, modReq, modNr>>
  <2>1. ~Fails
    BY <1>1, <1>4 DEF NeedsReset, Fails, Recovers
  <2>2. toHost = <<>> /\ Accepted' = Accepted
    BY <1>1, <2>1 DEF AtHost, Accepted
  <2> QED
    BY <1>1, <1>2, <1>4, <2>1, <2>2 DEF ToHost, AtHost, AcksToModule, Counts, Answering
<1> QED
  BY <1>2, <1>3, <1>4 DEF Return

(* Of what the module has to read only the first can be an acknowledgement. *)
LEMMA NoMoreAcks ==
  ASSUME TypeInv, AcksToModule, ~Fails, modPc # "dead",
         toModule # <<>>, toModule' = Tail(toModule)
  PROVE  \A i \in 1..Len(toModule') : toModule'[i].kind # "ack"
<1> SUFFICES ASSUME NEW i \in 1..Len(toModule'), toModule'[i].kind = "ack" PROVE FALSE
  OBVIOUS
<1>1. /\ Len(toModule) \in Nat \ {0}
      /\ i + 1 \in 2..Len(toModule) /\ toModule'[i] = toModule[i + 1]
  BY TailOfWire
<1>2. i + 1 \in 1..Len(toModule) /\ i + 1 # 1
  BY <1>1
<1> QED
  BY <1>1, <1>2 DEF AcksToModule

(* What the host knows does not change in a step of the module or link. *)
LEMMA HostWaits ==
  ASSUME UNCHANGED hostVars
  PROVE  /\ UNCHANGED <<pc, cmd, pktSize, seqNr, seqLen, pkt, bufLen, comResult, result,
                        bepResult>>
         /\ (Fails' <=> Fails) /\ Accepted' = Accepted /\ (Receiving' <=> Receiving)
  BY DEF hostVars, sendVars, frameVars, recvVars, resVars, Fails, Accepted, Receiving

(* Nothing of an answer is on its way to the host. *)
LEMMA NoAnswerYet ==
  ASSUME ToHost, ~Fails,
         ~Served \/ (modPc # "dead" /\ toModule # <<>>)
  PROVE  \A i \in 1..Len(toHost) : toHost[i].kind \notin {"frame", "body"}
  BY DEF ToHost

(* A unit is put on the wire to the host. *)
LEMMA HostAppended ==
  ASSUME TypeInv, NEW u, toHost' = Append(toHost, u)
  PROVE  /\ Len(toHost) \in Nat /\ Len(toHost') = Len(toHost) + 1 /\ toHost' # <<>>
         /\ toHost'[Len(toHost')] = u
         /\ \A i \in 1..Len(toHost) : toHost'[i] = toHost[i]
         /\ \A i \in 1..Len(toHost') : i \in 1..Len(toHost) \/ i = Len(toHost')
         /\ toHost # <<>> => 1 \in 1..Len(toHost)
<1>1. toHost \in Seq(Unit) /\ Len(toHost) \in Nat /\ (toHost # <<>> => 1 \in 1..Len(toHost))
  BY HostWire
<1>2. /\ Len(toHost') = Len(toHost) + 1
      /\ toHost'[Len(toHost) + 1] = u
      /\ \A i \in 1..Len(toHost) : toHost'[i] = toHost[i]
  BY <1>1
<1>3. toHost' # <<>>
  BY <1>1, <1>2
<1>4. \A i \in 1..Len(toHost') : i \in 1..Len(toHost) \/ i = Len(toHost')
  BY <1>1, <1>2
<1> QED
  BY <1>1, <1>2, <1>3, <1>4

LEMMA ModuleListensAnswer ==
  ASSUME StepInv, ModuleListens
  PROVE  AnswerInv'
<1> USE DEF StepInv, RequestInv, AnswerInv
<1>1. /\ modPc = "listen" /\ modPc' \in {"listen", "exec"}
      /\ toModule # <<>> /\ toModule' = Tail(toModule)
      /\ UNCHANGED hostVars /\ UNCHANGED <<modNr, served>>
  BY DEF ModuleListens
<1>2. /\ UNCHANGED <<pc, cmd, pktSize, seqNr, seqLen, pkt, bufLen, comResult, result,
                     bepResult>>
      /\ (Fails' <=> Fails) /\ Accepted' = Accepted /\ (Receiving' <=> Receiving)
  BY <1>1, HostWaits
<1>3. CASE Fails
  BY <1>2, <1>3, FailedAnswer
<1>4. CASE ~Fails
  <2>1. \A i \in 1..Len(toHost) : toHost[i].kind \notin {"frame", "body"}
    BY <1>1, <1>4, NoAnswerYet
  <2>2. AcksToModule'
    BY <1>1, <1>4, NoMoreAcks DEF AcksToModule
  <2>3. Counts'
    BY <1>1 DEF Counts, Answering
  <2>4. Received' /\ Looping'
    BY <1>1, <1>2 DEF Received, Looping, Served
  <2>5. CASE toHost' = toHost
    BY <1>1, <1>2, <1>4, <2>1, <2>2, <2>3, <2>4, <2>5 DEF ToHost, AtHost
  <2>6. CASE /\ toHost' = Append(toHost, Ack) /\ Head(toModule).kind = "frame"
             /\ Head(toModule).frame.nr \in {1, Len(modReq) + 1}
    <3>1. ~Served /\ pc # "idle"
      BY <1>1, <2>6, TakeFrame
    <3>2. pc \notin {"parse", "done"}
      BY <1>4, <3>1, AnswerSent
    <3>3. Ack.kind = "ack"
      BY DEF Ack, Bare
    <3>4. /\ \A i \in 1..Len(toHost) : toHost'[i] = toHost[i]
          /\ \A i \in 1..Len(toHost') : i \in 1..Len(toHost) \/ toHost'[i] = Ack
          /\ toHost' # <<>> /\ (toHost # <<>> => 1 \in 1..Len(toHost))
      BY <2>6, HostAppended
    <3>5. \A i \in 1..Len(toHost) : toHost[i].kind = "noise" => pc = "rxbody"
      BY <1>4 DEF ToHost
    <3>6. ToHost'
      <4>1. \A i \in 1..Len(toHost') :
               /\ toHost'[i].kind \notin {"frame", "body"}
               /\ toHost'[i].kind = "noise" => pc = "rxbody"
        BY <2>1, <3>3, <3>4, <3>5
      <4> QED
        BY <1>2, <4>1 DEF ToHost
    <3>7. AtHost'
      BY <1>2, <3>1, <3>2, <3>4 DEF AtHost
    <3> QED
      BY <2>2, <2>3, <2>4, <3>6, <3>7
  <2> QED
    BY <2>5, <2>6 DEF ModuleListens
<1> QED
  BY <1>3, <1>4

(* A frame of the answer is put on the wire, whole or malformed. *)
LEMMA FrameSentOut ==
  ASSUME TypeInv, ~Fails, ~Fails', UNCHANGED <<pc, cmd>>, Accepted' = Accepted,
         \A i \in 1..Len(toHost) : toHost[i].kind \notin {"frame", "body"},
         ToHost, AtHost, pc \notin {"idle", "parse", "done"},
         NEW a, served'[cmd] = a, Served', Accepted < SeqLen(a.size),
         ModuleSends(cmd, a, Accepted + 1),
         modNr' = Accepted + 1, toModule' = <<>>
  PROVE  ToHost' /\ AtHost'
<1>1. PICK f : IsAnswer(f, cmd, a, Accepted + 1) /\ toHost' = Append(toHost, Carry(f))
  BY DEF ModuleSends, IsAnswer
<1>2. Carry(f).kind = "frame" /\ Carry(f).frame = f
  BY DEF Carry
<1>3. /\ \A i \in 1..Len(toHost) : toHost'[i] = toHost[i]
      /\ \A i \in 1..Len(toHost') : i \in 1..Len(toHost) \/ i = Len(toHost')
      /\ toHost'[Len(toHost')] = Carry(f)
      /\ toHost' # <<>> /\ (toHost # <<>> => 1 \in 1..Len(toHost))
  BY <1>1, HostAppended
<1>4. \A i \in 1..Len(toHost') :
         \/ toHost'[i].kind \notin {"frame", "body"}
            /\ (toHost'[i].kind = "noise" => pc = "rxbody")
         \/ toHost'[i].kind = "frame" /\ toHost'[i].frame = f /\ i = Len(toHost')
  BY <1>2, <1>3 DEF ToHost
<1>5. ToHost'
  BY <1>1, <1>4 DEF ToHost
<1>6. AtHost'
  BY <1>3 DEF AtHost
<1> QED
  BY <1>5, <1>6

LEMMA ModuleExecutesAnswer ==
  ASSUME StepInv, ModuleExecutes
  PROVE  AnswerInv'
<1> USE DEF StepInv, RequestInv, AnswerInv
<1>1. /\ modPc = "exec" /\ modPc' = "reply" /\ modNr' = 1
      /\ UNCHANGED hostVars /\ UNCHANGED <<toModule, modReq>>
  BY DEF ModuleExecutes
<1>2. /\ UNCHANGED <<pc, cmd, pktSize, seqNr, seqLen, pkt, bufLen, comResult, result,
                     bepResult>>
      /\ (Fails' <=> Fails) /\ Accepted' = Accepted /\ (Receiving' <=> Receiving)
  BY <1>1, HostWaits
<1>3. CASE Fails
  BY <1>2, <1>3, FailedAnswer
<1>4. CASE ~Fails
  <2>1. cmd \in 1..MaxCmds /\ ~Served /\ NoFrames /\ pc \notin {"tx", "idle"}
    BY <1>1, RunsCommand
  <2>2. pc \notin {"parse", "done"}
    BY <1>4, <2>1, AnswerSent
  <2>3. Accepted = 0 /\ (pc \in {"rxhdr", "rxbody"} => seqNr = 0)
    <3>1. seqNr \in Nat
      BY DEF TypeInv, TypeOK, HostTypes
    <3>2. Receiving => seqNr = 0
      BY <2>1, <3>1 DEF Received
    <3> QED
      BY <2>1, <2>2, <3>2 DEF Accepted, Receiving, TypeInv, TypeOK, HostTypes
  <2>4. toModule = <<>>
    <3>1. \A i \in 1..Len(toModule) : toModule[i].kind \notin {"frame", "ack"}
      BY <1>1, <1>4, <2>1 DEF AcksToModule, NoFrames
    <3>2. Len(toModule) = 0 /\ toModule \in Seq(HostUnit)
      BY <3>1, SequenceTypes DEF TypeInv, TypeOK, WireTypes
    <3> QED
      BY <3>2
  <2>5. PICK a \in Answers : served' = [served EXCEPT ![cmd] = a] /\ ModuleSends(cmd, a, 1)
    BY ModuleExecutesTaking
  <2>6. served'[cmd] = a /\ Served' /\ SeqLen(a.size) \in Nat \ {0}
    <3>1. a # NotServed /\ served'[cmd] = a
      BY <2>1, <2>5, SizesAssumption DEF Answers, NotServed, TypeInv, TypeOK, ModuleTypes
    <3> QED
      BY <1>2, <2>1, <3>1, AnswerTypes DEF Served
  <2>7. ToHost' /\ AtHost'
    <3>1. \A i \in 1..Len(toHost) : toHost[i].kind \notin {"frame", "body"}
      BY <1>4, <2>1, NoAnswerYet
    <3> QED
      BY <1>1, <1>2, <1>4, <2>1, <2>2, <2>3, <2>4, <2>5, <2>6, <3>1, FrameSentOut
  <2>8. AcksToModule' /\ Counts'
    BY <1>1, <1>2, <2>3, <2>4, <2>6 DEF AcksToModule, Counts
  <2>9. Received' /\ Looping'
    BY <1>1, <1>2, <2>1, <2>2, <2>3 DEF Received, Receiving, Looping
  <2> QED
    BY <2>7, <2>8, <2>9
<1> QED
  BY <1>3, <1>4

LEMMA ModuleContinuesAnswer ==
  ASSUME StepInv, ModuleContinues
  PROVE  AnswerInv'
<1> USE DEF StepInv, RequestInv, AnswerInv
<1>1. /\ modPc = "reply" /\ toModule # <<>> /\ toModule' = Tail(toModule)
      /\ Head(toModule).kind = "ack"
      /\ UNCHANGED hostVars /\ UNCHANGED served
  BY DEF ModuleContinues
<1>2. /\ UNCHANGED <<pc, cmd, pktSize, seqNr, seqLen, pkt, bufLen, comResult, result,
                     bepResult>>
      /\ (Fails' <=> Fails) /\ Accepted' = Accepted /\ (Receiving' <=> Receiving)
  BY <1>1, HostWaits
<1>3. CASE Fails
  BY <1>2, <1>3, FailedAnswer
<1>4. CASE ~Fails
  <2>1. \A i \in 1..Len(toHost) : toHost[i].kind \notin {"frame", "body"}
    BY <1>1, <1>4, NoAnswerYet
  <2>2. Received' /\ Looping'
    BY <1>1, <1>2 DEF Received, Looping, Served
  <2>3. \A i \in 1..Len(toModule') : toModule'[i].kind # "ack"
    BY <1>1, <1>4, NoMoreAcks
  <2>4. CASE modPc' # "reply"
    <3>1. UNCHANGED toHost
      BY <2>4, ModuleContinuesTaking
    <3> QED
      BY <1>1, <1>2, <1>4, <2>1, <2>2, <2>3, <2>4, <3>1
      DEF ToHost, AtHost, AcksToModule, Counts, Answering
  <2>5. CASE modPc' = "reply"
    <3>1. /\ modReq[1].cmd = cmd /\ Served
          /\ modNr < SeqLen(served[cmd].size)
          /\ ModuleSends(cmd, served[cmd], modNr + 1)
          /\ modNr' = modNr + 1 /\ UNCHANGED modReq
      BY <2>5, ModuleContinuesTaking
    <3>2. modNr = Accepted
      <4>1. 1 \in 1..Len(toModule) /\ toModule[1].kind = "ack" /\ Answering
        BY <1>1, <3>1, TailOfWire DEF Answering
      <4> QED
        BY <1>1, <1>4, <4>1 DEF AcksToModule
    <3>3. SeqLen(served[cmd].size) \in Nat \ {0} /\ modNr \in Nat
      BY <3>1, ServedTypes DEF TypeInv, TypeOK, ModuleTypes
    <3>4. pc # "idle"
      BY <1>1, <3>1, <3>3 DEF Taking, Rest
    <3>5. pc \notin {"parse", "done"}
      BY <1>4, <3>1, <3>2, <3>3 DEF Looping, Accepted
    <3>6. toModule' = <<>>
      <4>1. NoFrames'
        BY <1>1, <3>1, TailOfWire DEF Taking, Spent
      <4>2. \A i \in 1..Len(toModule') : toModule'[i].kind \in {"ack", "frame"}
        BY <1>1, SequenceTypes, TailOfWire
      <4>3. Len(toModule') \in Nat /\ toModule' \in Seq(HostUnit)
        BY <1>1 DEF TypeInv, TypeOK, WireTypes
      <4>4. Len(toModule') = 0
        BY <2>3, <4>1, <4>2, <4>3 DEF NoFrames
      <4> QED
        BY <4>3, <4>4
    <3>7. ToHost' /\ AtHost'
      BY <1>1, <1>2, <1>4, <2>1, <3>1, <3>2, <3>4, <3>5, <3>6, FrameSentOut DEF Served
    <3>8. AcksToModule' /\ Counts'
      BY <1>1, <1>2, <3>1, <3>2, <3>3, <3>6 DEF AcksToModule, Counts
    <3> QED
      BY <2>2, <3>7, <3>8
  <2> QED
    BY <2>4, <2>5
<1> QED
  BY <1>3, <1>4

LEMMA ModuleStopsAnswer ==
  ASSUME StepInv, ModuleGivesUp \/ ModuleCrashes
  PROVE  AnswerInv'
<1> USE DEF StepInv, AnswerInv
<1>1. /\ UNCHANGED hostVars /\ UNCHANGED <<toHost, served>>
      /\ \/ modPc' = "listen" /\ modReq' = <<>> /\ toModule' = toModule /\ modPc = "reply"
         \/ modPc' = "dead" /\ toModule' = <<>>
  BY DEF ModuleGivesUp, ModuleCrashes
<1>2. /\ UNCHANGED <<pc, cmd, pktSize, seqNr, seqLen, pkt, bufLen, comResult, result,
                     bepResult>>
      /\ (Fails' <=> Fails) /\ Accepted' = Accepted /\ (Receiving' <=> Receiving)
  BY <1>1, HostWaits
<1>3. Received' /\ Looping' /\ AtHost'
  BY <1>1, <1>2 DEF Received, Looping, Served, AtHost
<1>4. ToHost'
  BY <1>1, <1>2 DEF ToHost, Served, Answering
<1>5. AcksToModule' /\ Counts'
  BY <1>1, <1>2 DEF AcksToModule, Counts, Answering
<1> QED
  BY <1>3, <1>4, <1>5

LEMMA LinkLosesAnswer ==
  ASSUME StepInv, LinkLoses
  PROVE  AnswerInv'
<1> USE DEF StepInv, AnswerInv
<1>1. /\ UNCHANGED hostVars /\ UNCHANGED <<modPc, modReq, modNr, served>>
      /\ \/ toModule # <<>> /\ toModule' = Tail(toModule) /\ UNCHANGED toHost
         \/ /\ toHost # <<>> /\ Head(toHost).kind \in {"ack", "frame"}
            /\ toHost' = Tail(toHost)
            /\ UNCHANGED toModule
  BY DEF LinkLoses, modVars
<1>2. /\ UNCHANGED <<pc, cmd, pktSize, seqNr, seqLen, pkt, bufLen, comResult, result,
                     bepResult>>
      /\ (Fails' <=> Fails) /\ Accepted' = Accepted /\ (Receiving' <=> Receiving)
  BY <1>1, HostWaits
<1>3. CASE Fails
  BY <1>2, <1>3, FailedAnswer
<1>4. CASE ~Fails
  <2>1. Received' /\ Looping' /\ Counts'
    BY <1>1, <1>2 DEF Received, Looping, Counts, Served, Answering
  <2>2. CASE toModule # <<>> /\ toModule' = Tail(toModule) /\ UNCHANGED toHost
    <3>1. modPc # "dead" => \A i \in 1..Len(toModule') : toModule'[i].kind # "ack"
      BY <1>4, <2>2, NoMoreAcks
    <3>2. AcksToModule'
      BY <1>1, <3>1 DEF AcksToModule
    <3>3. ToHost' /\ AtHost'
      BY <1>1, <1>2, <1>4, <2>2 DEF ToHost, AtHost, Served, Answering
    <3> QED
      BY <2>1, <3>2, <3>3
  <2>3. CASE /\ toHost # <<>> /\ Head(toHost).kind \in {"ack", "frame"}
             /\ toHost' = Tail(toHost)
             /\ UNCHANGED toModule
    <3>1. /\ Len(toHost') = Len(toHost) - 1 /\ Len(toHost) \in Nat
          /\ \A i \in 1..Len(toHost') :
               i + 1 \in 1..Len(toHost) /\ toHost'[i] = toHost[i + 1]
      BY <2>3, HostTail, HostWire
    <3>2. \A i \in 1..Len(toHost') : i + 1 = Len(toHost) => i = Len(toHost')
      BY <3>1
    <3>3. ToHost'
      <4>1. \A i \in 1..Len(toHost') :
               \E j \in 1..Len(toHost) : /\ toHost'[i] = toHost[j]
                                         /\ j = Len(toHost) => i = Len(toHost')
        BY <3>1, <3>2
      <4>2. (Served' <=> Served) /\ (Answering' <=> Answering) /\ served'[cmd'] = served[cmd]
        BY <1>1, <1>2 DEF Served, Answering
      <4> QED
        BY <1>1, <1>2, <1>4, <2>3, <4>1, <4>2 DEF ToHost
    <3>4. AtHost'
      BY <1>2, <2>3, HostWire DEF AtHost
    <3>5. AcksToModule'
      BY <1>1, <1>2, <1>4, <2>3 DEF AcksToModule, Answering
    <3> QED
      BY <2>1, <3>3, <3>4, <3>5
  <2> QED
    BY <1>1, <2>2, <2>3
<1> QED
  BY <1>3, <1>4

LEMMA LinkCorruptsAnswer ==
  ASSUME StepInv, LinkCorrupts
  PROVE  AnswerInv'
<1> USE DEF StepInv, AnswerInv
<1>1. /\ UNCHANGED hostVars /\ UNCHANGED <<modPc, modReq, modNr, served, toModule>>
      /\ toHost # <<>> /\ Head(toHost).kind \in {"ack", "frame", "body"}
  BY DEF LinkCorrupts, modVars
<1>2. /\ UNCHANGED <<pc, cmd, pktSize, seqNr, seqLen, pkt, bufLen, comResult, result,
                     bepResult>>
      /\ (Fails' <=> Fails) /\ Accepted' = Accepted /\ (Receiving' <=> Receiving)
  BY <1>1, HostWaits
<1>3. CASE Fails
  BY <1>2, <1>3, FailedAnswer
<1>4. CASE ~Fails
  <2>1. Received' /\ Looping' /\ Counts'
    BY <1>1, <1>2 DEF Received, Looping, Counts, Served, Answering
  <2>2. AcksToModule'
    BY <1>1, <1>2, <1>4 DEF AcksToModule, Answering
  <2> DEFINE u == IF Head(toHost).kind = "ack" THEN Bare("glitch")
                  ELSE [Head(toHost) EXCEPT !.frame.src = "junk"]
  <2>3. toHost' = <<u>> \o Tail(toHost)
    BY DEF LinkCorrupts
  <2>4. Head(toHost) = toHost[1] /\ Head(toHost) \in Unit /\ 1 \in 1..Len(toHost)
    BY <1>1, HostWire
  <2>5. \/ Head(toHost).kind = "ack" /\ u.kind = "glitch"
        \/ u.kind = Head(toHost).kind /\ u.frame.src = "junk"
    BY <1>1, <2>4 DEF Unit, Frame, Bare
  <2> HIDE DEF u
  <2>6. /\ Len(toHost') = Len(toHost) /\ toHost' # <<>> /\ toHost'[1] = u
        /\ \A i \in 2..Len(toHost) : toHost'[i] = toHost[i]
    BY <1>1, <2>3, HostReplaced
  <2>7. \A i \in 1..Len(toHost) :
           \/ toHost'[i] = toHost[i]
           \/ toHost'[i].kind = "glitch"
           \/ toHost'[i].kind = toHost[i].kind /\ toHost'[i].frame.src = "junk"
    <3>1. \A i \in 1..Len(toHost) : i = 1 \/ i \in 2..Len(toHost)
      BY HostWire
    <3> QED
      BY <2>4, <2>5, <2>6, <3>1
  <2>8. ToHost'
    BY <1>1, <1>2, <1>4, <2>6, <2>7 DEF ToHost, IsAnswer, Served, Answering
  <2>9. AtHost'
    BY <1>1, <1>2, <2>4, <2>5, <2>6 DEF AtHost
  <2> QED
    BY <2>1, <2>2, <2>8, <2>9
<1> QED
  BY <1>3, <1>4

--------------------------------------------------------------------------------
(* Host and module stay in step. *)

LEMMA InitStep == Init => StepInv
  BY InitTypes, InitRequest, InitAnswer DEF StepInv

LEMMA NextTaking ==
  ASSUME Recovers, SizesFit, StepInv, TypeInv', [Next]_vars
  PROVE  Taking'
<1> USE DEF StepInv
<1>1. CASE ReadHeader \/ ReadBody \/ ParseResult
  <2>1. /\ pc' \notin {"tx", "ack", "idle"} /\ cmd' = cmd /\ UNCHANGED modVars
        /\ toModule' \in {toModule, Append(toModule, Ack)}
    BY <1>1 DEF ReadHeader, ReadBody, ParseResult, ReceiveFails, CheckCrc, Accept
  <2>2. pktSize' = pktSize \/ Served
    <3>1. CASE ReadHeader \/ ParseResult
      BY <3>1 DEF ReadHeader, ParseResult, sendVars
    <3>2. CASE ReadBody
      BY <3>2, BodyRead
    <3> QED
      BY <1>1, <3>1, <3>2
  <2> QED
    BY <2>1, <2>2, HostMovesOn
<1>2. CASE Return
  BY <1>2, AnswerSent, ReturnTaking DEF Return
<1>3. CASE SendFrame \/ ReadAck \/ Call
  BY <1>3, SendFrameTaking, ReadAckTaking, CallTaking
<1>4. CASE ModuleListens \/ ModuleExecutes \/ ModuleContinues
  BY <1>4, ModuleListensTaking, ModuleExecutesTaking, ModuleContinuesTaking
<1>5. CASE ModuleGivesUp \/ ModuleCrashes \/ LinkStep \/ UNCHANGED vars
  BY <1>5, OthersTaking
<1> QED
  BY <1>1, <1>2, <1>3, <1>4, <1>5 DEF Next, HostStep, ModuleStep

LEMMA NextAnswer ==
  ASSUME Recovers, SizesFit, StepInv, [Next]_vars
  PROVE  AnswerInv'
<1>1. CASE Call \/ SendFrame \/ ReadAck \/ ReadHeader
  BY <1>1, CallAnswer, SendFrameAnswer, ReadAckAnswer, ReadHeaderAnswer
<1>2. CASE ReadBody \/ ParseResult \/ Return
  BY <1>2, ReadBodyAnswer, ParseResultAnswer, ReturnAnswer
<1>3. CASE ModuleStep \/ ModuleCrashes
  BY <1>3, ModuleListensAnswer, ModuleExecutesAnswer, ModuleContinuesAnswer,
     ModuleStopsAnswer DEF ModuleStep
<1>4. CASE LinkStep
  BY <1>4, LinkLosesAnswer, LinkCorruptsAnswer DEF LinkStep
<1>5. CASE UNCHANGED vars
  <2>1. /\ UNCHANGED hostVars
        /\ UNCHANGED <<toModule, toHost, modPc, modReq, modNr, served>>
    BY <1>5 DEF vars, modVars
  <2>2. /\ UNCHANGED <<pc, cmd, pktSize, seqNr, seqLen, pkt, bufLen, comResult, result,
                       bepResult>>
        /\ (Fails' <=> Fails) /\ Accepted' = Accepted /\ (Receiving' <=> Receiving)
    BY <2>1, HostWaits
  <2> QED
    BY <2>1, <2>2
    DEF StepInv, AnswerInv, ToHost, AtHost, AcksToModule, Counts, Received, Looping,
        Served, Answering
<1> QED
  BY <1>1, <1>2, <1>3, <1>4, <1>5 DEF Next, HostStep

(* The invariant of the whole exchange. *)
LEMMA NextStep ==
  ASSUME Recovers, SizesFit, StepInv, [Next]_vars
  PROVE  StepInv'
<1>1. TypeInv'
  BY NextTypes DEF StepInv
<1>2. Sending'
  <2>1. CASE Call \/ HostStep
    BY <2>1, HostSending DEF StepInv, RequestInv
  <2>2. CASE ~(Call \/ HostStep)
    <3>1. UNCHANGED <<pc, pktSize, dataLeft, seqNr, seqLen>>
      BY <2>2 DEF Next, ModuleStep, ModuleListens, ModuleExecutes, ModuleContinues,
         ModuleGivesUp, ModuleCrashes, LinkStep, LinkLoses, LinkCorrupts, vars, hostVars,
         sendVars, frameVars
    <3> QED
      BY <3>1 DEF StepInv, RequestInv, Sending
  <2> QED
    BY <2>1, <2>2
<1>3. Taking'
  BY <1>1, NextTaking
<1>4. AnswerInv'
  BY NextAnswer
<1> QED
  BY <1>1, <1>2, <1>3, <1>4 DEF StepInv, RequestInv

LEMMA InStep == ASSUME Recovers, SizesFit PROVE Spec => []StepInv
<1>1. Init => StepInv
  BY InitStep
<1>2. StepInv /\ [Next]_vars => StepInv'
  BY NextStep
<1> QED
  BY <1>1, <1>2, PTL DEF Spec


(* The module never runs a packet made of frames of two commands: what a   *)
(* failed send left in it is gone with the reset before the next command.  *)
THEOREM CommandsApart ==
  ASSUME Recovers, SizesFit PROVE Spec => []NeverMixed
<1>1. StepInv => NeverMixed
  BY DEF StepInv, RequestInv, Taking
<1> QED
  BY <1>1, InStep, PTL

(* The module is about to run the command as it was given to bmlite_send,  *)
(* cut as bmlite_send must cut it.                                         *)
THEOREM CommandsComplete ==
  ASSUME Recovers, SizesFit PROVE Spec => []WholeCommand
<1>1. StepInv => WholeCommand
  <2> SUFFICES ASSUME StepInv, modPc = "exec"
               PROVE  modReq = [i \in 1..SeqLen(pktSize) |->
                         HostFrame(i, SeqLen(pktSize), SliceSize(pktSize, i))]
    BY DEF WholeCommand
  <2>1. modReq \in Seq(CommandFrame) /\ SeqLen(pktSize) \in Nat
    BY SequenceTypes DEF StepInv, TypeInv, TypeOK, ModuleTypes
  <2>2. /\ Len(modReq) = SeqLen(pktSize)
        /\ \A i \in 1..Len(modReq) : modReq[i] = RequestFrame(cmd, pktSize, i)
    BY DEF StepInv, RequestInv, Taking, Executing, Held
  <2>3. \A i : RequestFrame(cmd, pktSize, i)
                 = HostFrame(i, SeqLen(pktSize), SliceSize(pktSize, i))
    BY DEF RequestFrame, HostFrame
  <2> QED
    BY <2>1, <2>2, <2>3
<1> QED
  BY <1>1, InStep, PTL

(* A call that returns OK has the whole answer in pkt_buffer. *)
LEMMA StepFresh == StepInv => FreshAnswer
<1> DEFINE a == served[cmd]  n == SeqLen(a.size)
<1> SUFFICES ASSUME StepInv, pc = "done", result = "OK"
             PROVE  /\ a # NotServed
                    /\ pkt = [i \in 1..n |-> AnswerFrame(cmd, a, i)]
                    /\ pktSize = a.size /\ bepResult = a.res
  BY DEF FreshAnswer
<1>1. ~Fails /\ Receiving /\ comResult = "OK"
  BY DEF StepInv, AnswerInv, Looping, Fails, Receiving
<1>2. /\ seqNr > 0 /\ seqNr = n /\ pktSize = bufLen /\ bepResult = a.res
  BY <1>1 DEF StepInv, AnswerInv, Looping
<1>3. /\ Served /\ bufLen = UpTo(a.size, n)
      /\ Len(pkt) = n /\ \A i \in 1..n : pkt[i] = AnswerFrame(cmd, a, i)
  BY <1>1, <1>2 DEF StepInv, AnswerInv, Received
<1>4. a # NotServed
  BY <1>3 DEF Served
<1>5. pktSize = a.size
  BY <1>2, <1>3, ServedTypes DEF UpTo, StepInv
<1>6. pkt \in Seq(Frame)
  BY DEF StepInv, TypeInv, TypeOK, HostTypes
<1> HIDE DEF a, n
<1>7. pkt = [i \in 1..n |-> AnswerFrame(cmd, a, i)]
  BY <1>3, <1>6 DEF a
<1> QED
  BY <1>2, <1>4, <1>5, <1>7

(* bmlite_tranceive returns OK only with the whole answer to this command, *)
(* frame by frame in order, and with the outcome the module gave it.       *)
THEOREM AnswersAreFresh ==
  ASSUME Recovers, SizesFit PROVE Spec => []FreshAnswer
  BY StepFresh, InStep, PTL

(* pkt_buffer is never filled to its last byte. *)
Unfilled == bufLen = 0 \/ bufLen < PktSizeMax

LEMMA CheckCrcUnfilled ==
  ASSUME SizesFit, HostTypes, Unfilled, NEW f \in Frame, CheckCrc(f)
  PROVE  Unfilled'
<1>1. \/ bufLen' = bufLen
      \/ FitsPacket(f.tSize) /\ bufLen' = (bufLen + f.tSize) % 65536
  BY DEF CheckCrc, Accept, TakePayload, ReceiveFails, recvVars
<1>2. f.tSize \in Nat /\ bufLen \in Nat /\ PktSizeMax <= 65536
  BY SizesAssumption DEF Frame, HostTypes, SizesFit
<1> QED
  BY <1>1, <1>2, CountsPayload DEF Unfilled

LEMMA NextUnfilled ==
  ASSUME SizesFit, TypeInv, Unfilled, [Next]_vars PROVE Unfilled'
<1>1. CASE ReadBody
  <2>1. PICK f \in Frame : CheckCrc(f)
    <3>1. toHost # <<>> => Head(toHost).frame \in Frame
      BY ReadTypes DEF Unit, TypeInv, TypeOK
    <3>2. txrx.frame \in Frame
      BY DEF TypeInv, TypeOK, HostTypes
    <3> QED
      BY <1>1, <3>1, <3>2, JunkIsFrame DEF ReadBody
  <2> QED
    BY <2>1, CheckCrcUnfilled DEF TypeInv, TypeOK
<1>2. CASE Call \/ SendFrame \/ ReadAck \/ ReadHeader \/ ParseResult \/ Return
  <2>1. bufLen' \in {0, bufLen}
    BY <1>2 DEF Call, SendFrame, ReadAck, FrameSent, SendFails, StartReceive,
                ReadHeader, ReceiveFails, ParseResult, Return, frameVars, recvVars
  <2> QED
    BY <2>1 DEF Unfilled
<1>3. CASE UNCHANGED hostVars
  BY <1>3 DEF Unfilled, hostVars, recvVars
<1>4. CASE ModuleStep \/ ModuleCrashes \/ LinkStep
  BY <1>3, <1>4 DEF ModuleStep, ModuleListens, ModuleExecutes, ModuleContinues,
     ModuleGivesUp, ModuleCrashes, LinkStep, LinkLoses, LinkCorrupts
<1> QED
  BY <1>1, <1>2, <1>3, <1>4 DEF Next, HostStep, vars

(* bmlite_receive refuses the answers of pkt_size_max bytes and more, and  *)
(* no others (hcp_tiny.c 172-182).                                         *)
THEOREM RefusalsAreExact ==
  ASSUME Recovers, SizesFit PROVE Spec => []RefusedExactly
<1>1. ASSUME StepInv, Unfilled, pc = "done" PROVE RefusedExactly
  <2>1. CASE result = "NO_MEMORY"
    <3>1. ~Fails /\ Receiving /\ comResult = "NO_MEMORY" /\ seqNr > 0
      BY <1>1, <2>1 DEF StepInv, AnswerInv, Looping, Fails, Receiving
    <3> QED
      BY <1>1, <2>1, <3>1 DEF StepInv, AnswerInv, Received, RefusedExactly
  <2>2. CASE result = "OK"
    <3>1. /\ ~Fails /\ Receiving /\ comResult = "OK" /\ seqNr > 0
          /\ pktSize = bufLen
      BY <1>1, <2>2 DEF StepInv, AnswerInv, Looping, Fails, Receiving
    <3>2. pktSize = served[cmd].size
      BY <1>1, <2>2, StepFresh DEF FreshAnswer
    <3>3. served[cmd].size \in Nat \ {0}
      BY <1>1, <3>1, ServedTypes, SizesAssumption
      DEF StepInv, AnswerInv, Received
    <3> QED
      BY <1>1, <2>2, <3>1, <3>2, <3>3 DEF Unfilled, RefusedExactly
  <2> QED
    BY <2>1, <2>2 DEF RefusedExactly
<1>2. Init => Unfilled
  BY DEF Init, Unfilled
<1>3. StepInv /\ Unfilled /\ [Next]_vars => Unfilled'
  BY NextUnfilled DEF StepInv
<1>4. StepInv /\ Unfilled => RefusedExactly
  BY <1>1 DEF RefusedExactly
<1> QED
  BY <1>2, <1>3, <1>4, InStep, PTL DEF Spec

--------------------------------------------------------------------------------
(* bmlite_tranceive keeps the promise of HcpExchange. *)

(* The phase and the reply that a state of the host stands for. *)
Phase == IF pc \in {"idle", "done"} THEN "idle" ELSE "busy"
Reply ==
  IF pc \notin {"idle", "done"} \/ cmd = 0
    THEN [status |-> "pending", cmd |-> 0, answer |-> NotServed]
  ELSE IF result = "OK"
    THEN [status |-> "ok", cmd |-> Head(pkt).cmd,
          answer |-> [res |-> bepResult, size |-> pktSize]]
  ELSE [status |-> "failed", cmd |-> 0, answer |-> NotServed]

LEMMA InitPromise == Init => Exchange!Init
  BY DEF Init, Exchange!Init, Exchange!Pending, Exchange!NotServed, NotServed

(* A step that keeps the phase, the command and the answers is a stutter. *)
LEMMA StutterPromise ==
  ASSUME Phase' = Phase, Reply' = Reply, cmd' = cmd, served' = served
  PROVE  [Exchange!Next]_Exchange!xvars
  BY DEF Phase, Reply, Exchange!xvars

(* What a call that returns OK hands back is the answer of its command. *)
Returned ==
  pc = "done" /\ result = "OK" =>
    /\ served[cmd] # NotServed
    /\ Reply = [status |-> "ok", cmd |-> cmd, answer |-> served[cmd]]

LEMMA ReturnsAnswer == StepInv => Returned
<1> SUFFICES ASSUME StepInv, pc = "done", result = "OK"
             PROVE  /\ served[cmd] # NotServed
                    /\ Reply = [status |-> "ok", cmd |-> cmd, answer |-> served[cmd]]
  BY DEF Returned
<1>1. FreshAnswer
  BY StepFresh
<1>2. /\ served[cmd] # NotServed
      /\ pkt = [i \in 1..SeqLen(served[cmd].size) |-> AnswerFrame(cmd, served[cmd], i)]
      /\ pktSize = served[cmd].size /\ bepResult = served[cmd].res
  BY <1>1 DEF FreshAnswer
<1>3. cmd \in Nat \ {0}
  BY BoundsAssumption DEF StepInv, TypeInv, TypeOK, HostTypes, Issued
<1>4. Served
  BY <1>2, <1>3 DEF Served
<1>5. served[cmd] \in Answers /\ SeqLen(served[cmd].size) \in Nat \ {0}
  BY <1>4, ServedTypes DEF StepInv
<1>6. [res |-> bepResult, size |-> pktSize] = served[cmd]
  BY <1>2, <1>5 DEF Answers
<1>7. Head(pkt).cmd = cmd
  <2>1. pkt[1] = AnswerFrame(cmd, served[cmd], 1)
    BY <1>2, <1>5
  <2>2. Head(pkt) = pkt[1]
    BY DEF StepInv, TypeInv, TypeOK, HostTypes
  <2> QED
    BY <2>1, <2>2 DEF AnswerFrame
<1> QED
  BY <1>2, <1>3, <1>6, <1>7 DEF Reply

(* The call ends: with the answer of its command, or with an error. *)
LEMMA EndPromise ==
  ASSUME StepInv, Returned', pc \notin {"idle", "done"}, pc' = "done",
         UNCHANGED <<cmd, served>>
  PROVE  Exchange!Next
<1>1. cmd >= 1 /\ cmd # 0
  BY BoundsAssumption DEF StepInv, TypeInv, TypeOK, HostTypes, Issued
<1>2. CASE result' = "OK"
  <2>1. /\ served'[cmd'] # NotServed
        /\ Reply' = [status |-> "ok", cmd |-> cmd', answer |-> served'[cmd']]
    BY <1>2 DEF Returned
  <2>2. Exchange!ReturnAnswer
    BY <2>1 DEF Reply, Exchange!ReturnAnswer, Exchange!Delivered, Exchange!NotServed,
       NotServed
  <2> QED
    BY <2>2 DEF Exchange!Next
<1>3. CASE result' # "OK"
  <2>1. Exchange!ReturnError
    BY <1>1, <1>3 DEF Exchange!ReturnError, Exchange!Failed, Exchange!NotServed, NotServed
  <2> QED
    BY <2>1 DEF Exchange!Next
<1> QED
  BY <1>2, <1>3

LEMMA CallPromise ==
  ASSUME StepInv, Call
  PROVE  Exchange!Call
  BY DEF Call, modVars, Exchange!Call, Exchange!Pending, Exchange!NotServed, NotServed

(* The module runs the command in progress, which it has not run before; a *)
(* call that is over by then has failed.                                   *)
LEMMA ExecutePromise ==
  ASSUME StepInv, ModuleExecutes
  PROVE  Exchange!Execute
<1>1. /\ cmd \in 1..MaxCmds /\ ~Served /\ pc # "idle"
      /\ modPc = "exec" /\ UNCHANGED hostVars
  BY RunsCommand DEF ModuleExecutes, StepInv
<1>2. PICK a \in Answers : served' = [served EXCEPT ![cmd] = a]
  BY ModuleExecutesTaking DEF StepInv
<1>3. cmd \in 1..cmd /\ served[cmd] = NotServed
  BY <1>1 DEF Served
<1>4. UNCHANGED <<pc, cmd, result, pkt, bepResult, pktSize>>
  BY <1>1 DEF hostVars, recvVars, resVars, sendVars
<1>5. a \in Exchange!Answers /\ Exchange!NotServed = NotServed
  BY DEF Answers, Exchange!Answers, NotServed, Exchange!NotServed
<1> QED
  BY <1>2, <1>3, <1>4, <1>5 DEF Exchange!Execute

LEMMA NextPromise ==
  ASSUME StepInv, Returned', [Next]_vars
  PROVE  [Exchange!Next]_Exchange!xvars
<1>1. CASE Call
  BY <1>1, CallPromise DEF Exchange!Next
<1>2. CASE SendFrame \/ ReadAck \/ ReadHeader \/ ReadBody \/ ParseResult
  <2>1. pc \notin {"idle", "done"} /\ pc' # "idle" /\ UNCHANGED <<cmd, served>>
    BY <1>2 DEF SendFrame, ReadAck, FrameSent, SendFails, StartReceive, ReadHeader,
       ReadBody, ReceiveFails, CheckCrc, Accept, ParseResult, modVars
  <2>2. CASE pc' = "done"
    BY <2>1, <2>2, EndPromise
  <2>3. CASE pc' # "done"
    BY <2>1, <2>3, StutterPromise DEF Phase, Reply
  <2> QED
    BY <2>2, <2>3
<1>3. CASE Return
  <2>1. /\ pc = "done" /\ pc' = "idle"
        /\ UNCHANGED <<cmd, served, result, pkt, bepResult, pktSize>>
    BY <1>3 DEF Return, sendVars, recvVars, resVars
  <2> QED
    BY <2>1, StutterPromise DEF Phase, Reply
<1>4. CASE ModuleExecutes
  BY <1>4, ExecutePromise DEF Exchange!Next
<1>5. CASE \/ ModuleListens \/ ModuleContinues \/ ModuleGivesUp \/ ModuleCrashes
           \/ LinkStep \/ UNCHANGED vars
  <2>1. UNCHANGED hostVars /\ served' = served
    BY <1>5 DEF ModuleListens, ModuleContinues, ModuleGivesUp, ModuleCrashes, LinkStep,
       LinkLoses, LinkCorrupts, vars, modVars
  <2> QED
    BY <2>1, StutterPromise DEF hostVars, recvVars, resVars, sendVars, Phase, Reply
<1> QED
  BY <1>1, <1>2, <1>3, <1>4, <1>5 DEF Next, HostStep, ModuleStep

(* The module runs each command at most once, and a call of                *)
(* bmlite_tranceive that returns OK hands back the answer of that run:     *)
(* every step of host, link and module is one of HcpExchange, or none.     *)
THEOREM ExchangeKept ==
  ASSUME Recovers, SizesFit PROVE Spec => AtMostOnceExchange
<1>1. Init => Exchange!Init
  BY InitPromise
<1>2. StepInv /\ Returned' /\ [Next]_vars => [Exchange!Next]_Exchange!xvars
  BY NextPromise
<1>3. Spec => []StepInv
  BY InStep
<1>4. StepInv => Returned
  BY ReturnsAnswer
<1> QED
  BY <1>1, <1>2, <1>3, <1>4, PTL DEF Spec, AtMostOnceExchange, Exchange!Spec

--------------------------------------------------------------------------------
(* What an acknowledgement says about the module.                          *)

(* An error of a read of an acknowledgement leaves it uncompared.          *)
AcksAreRead == "ioerror" \notin Faults

(* The module has the command in progress, or will never do anything.      *)
Taken == modPc \in {"exec", "dead"} \/ Served

(* The module has taken every frame sent so far.                           *)
Took == Taken \/ (modPc = "listen" /\ Len(modReq) = seqNr)

(* There is an acknowledgement on the wire only for the frame sent last,   *)
(* only one, and only after the module took that frame.                    *)
Handshake ==
  /\ pc = "tx" => \A i \in 1..Len(toHost) : toHost[i].kind # "ack"
  /\ pc = "ack" =>
       \A i, j \in 1..Len(toHost) :
         toHost[i].kind = "ack" => Took /\ (toHost[j].kind = "ack" => i = j)
  /\ pc \in {"tx", "ack"} =>
       \/ seqNr = 1 \/ Taken
       \/ modPc = "listen" /\ Len(modReq) \in {seqNr - 1, seqNr}
  /\ pc = "rxhdr" /\ seqNr = 0 => Taken

LEMMA InitHandshake == Init => Handshake
  BY DEF Init, Handshake

(* What Handshake says of a host that is done with sending.                *)
LEMMA HandshakeOver ==
  ASSUME pc' \notin {"tx", "ack"}, pc' = "rxhdr" /\ seqNr' = 0 => Taken'
  PROVE  Handshake'
  BY DEF Handshake

LEMMA ReadAckHandshake ==
  ASSUME AcksAreRead, StepInv, Handshake, ReadAck
  PROVE  Handshake'
<1> USE DEF StepInv
<1>1. /\ pc = "ack"
      /\ UNCHANGED <<cmd, pktSize, modPc, modReq, served>>
  BY DEF ReadAck, sendVars, modVars
<1>2. CASE SendFails
  BY <1>2, HandshakeOver DEF SendFails
<1>3. CASE ~SendFails
  <2>1. /\ FrameSent /\ toHost # <<>> /\ Head(toHost).kind = "ack"
        /\ toHost' \in AfterWord(toHost)
    BY <1>3 DEF ReadAck, TransferFails, Fault, AcksAreRead, AckMatches
  <2>2. toHost' = Tail(toHost)
    BY <2>1, WordRead
  <2>3. Head(toHost) = toHost[1] /\ 1 \in 1..Len(toHost) /\ Len(toHost) \in Nat
    BY <2>1, HostWire
  <2>4. Took /\ \A j \in 2..Len(toHost) : toHost[j].kind # "ack"
    <3>1. \A j \in 2..Len(toHost) : j \in 1..Len(toHost) /\ j # 1
      BY <2>3
    <3> QED
      BY <1>1, <2>1, <2>3, <3>1 DEF Handshake
  <2>5. \A i \in 1..Len(toHost') : toHost'[i].kind # "ack"
    <3>1. \A i \in 1..Len(toHost') :
             i + 1 \in 2..Len(toHost) /\ toHost'[i] = toHost[i + 1]
      BY <2>1, <2>2, <2>3, HostTail
    <3> QED
      BY <2>4, <3>1
  <2>6. /\ seqNr \in Nat /\ seqLen \in Nat /\ seqNr <= seqLen /\ seqLen = SeqLen(pktSize)
        /\ Len(modReq) \in Nat
    BY <1>1, SequenceTypes DEF TypeInv, TypeOK, HostTypes, RequestInv, Sending
  <2>7. CASE seqNr < seqLen /\ seqNr' = seqNr + 1 /\ pc' = "tx"
    <3>1. ~Taken \/ modPc = "dead"
      BY <1>1, <2>6, <2>7 DEF RequestInv, Taking, Once, Taken
    <3>2. Taken' \/ (modPc = "listen" /\ Len(modReq) = seqNr' - 1)
      BY <1>1, <2>4, <2>6, <2>7, <3>1 DEF Took, Taken
    <3> QED
      BY <1>1, <2>5, <2>7, <3>2 DEF Handshake
  <2>8. CASE seqNr >= seqLen /\ pc' = "rxhdr"
    <3>1. ~(modPc = "listen" /\ Len(modReq) = seqNr)
      BY <2>6, <2>8 DEF RequestInv, Taking, Bounded
    <3>2. Taken'
      BY <1>1, <2>4, <3>1 DEF Took, Taken, Served
    <3> QED
      BY <2>8, <3>2, HandshakeOver
  <2> QED
    BY <2>1, <2>7, <2>8 DEF FrameSent, StartReceive
<1> QED
  BY <1>2, <1>3

(* Neither what the host knows nor a new acknowledgement: a step that      *)
(* leaves the module as far as it was keeps the handshake.                 *)
LEMMA KeepsHandshake ==
  ASSUME StepInv, Handshake, UNCHANGED <<pc, seqNr>>,
         Taken => Taken',
         modPc = "listen" => Taken' \/ UNCHANGED <<modPc, modReq>>,
         \E d \in {0, 1} : \A i \in 1..Len(toHost') :
           \/ i + d \in 1..Len(toHost) /\ toHost'[i] = toHost[i + d]
           \/ toHost'[i].kind # "ack"
  PROVE  Handshake'
<1>1. PICK d \in {0, 1} : \A i \in 1..Len(toHost') : toHost'[i].kind = "ack" =>
        i + d \in 1..Len(toHost) /\ toHost'[i] = toHost[i + d]
  OBVIOUS
<1>2. Took => Took'
  BY DEF Took
<1>3. CASE pc = "tx"
  BY <1>1, <1>3 DEF Handshake
<1>4. CASE pc = "ack"
  <2>1. ASSUME NEW i \in 1..Len(toHost'), NEW j \in 1..Len(toHost'),
               toHost'[i].kind = "ack"
        PROVE  Took' /\ (toHost'[j].kind = "ack" => i = j)
    <3>1. i + d \in 1..Len(toHost) /\ toHost'[i] = toHost[i + d]
      BY <1>1, <2>1
    <3>2. Took'
      BY <1>2, <1>4, <2>1, <3>1 DEF Handshake
    <3>3. ASSUME toHost'[j].kind = "ack" PROVE i = j
      <4>1. j + d \in 1..Len(toHost) /\ toHost'[j] = toHost[j + d]
        BY <1>1, <3>3
      <4>2. i + d = j + d
        BY <1>4, <2>1, <3>1, <3>3, <4>1 DEF Handshake
      <4> QED
        BY <4>2
    <3> QED
      BY <3>2, <3>3
  <2> QED
    BY <1>4, <2>1 DEF Handshake
<1>5. CASE pc \notin {"tx", "ack"}
  BY <1>5, HandshakeOver DEF Handshake
<1> QED
  BY <1>3, <1>4, <1>5

LEMMA ModuleListensHandshake ==
  ASSUME StepInv, Handshake, ModuleListens
  PROVE  Handshake'
<1> USE DEF StepInv
<1> DEFINE f == Head(toModule).frame
<1>1. modPc = "listen" /\ toModule # <<>> /\ UNCHANGED <<hostVars, served>>
  BY DEF ModuleListens
<1>2. UNCHANGED <<pc, cmd, pktSize, seqNr, seqLen>>
  BY <1>1, HostWaits
<1>3. CASE UNCHANGED <<modPc, modReq, toHost>>
  <2>1. \A i \in 1..Len(toHost') : i + 0 \in 1..Len(toHost) /\ toHost'[i] = toHost[i + 0]
    BY <1>3
  <2> QED
    BY <1>1, <1>2, <1>3, <2>1, KeepsHandshake DEF Taken, Served
<1>4. CASE /\ Head(toModule).kind = "frame"
           /\ f.nr = 1 \/ f.nr = Len(modReq) + 1
           /\ modReq' = IF f.nr = 1 THEN <<f>> ELSE Append(modReq, f)
           /\ toHost' = Append(toHost, Ack)
           /\ modPc' = IF f.nr >= f.of THEN "exec" ELSE "listen"
  <2>1. /\ f.nr = Len(modReq) + 1 /\ (f.nr = 1 => modReq = <<>>) /\ ~Served
        /\ pc = "tx" => f.nr < seqNr
        /\ pc = "ack" => f.nr <= seqNr
    BY <1>1, <1>4, TakeFrame
  <2>2. Len(modReq) \in Nat /\ seqNr \in Nat
    BY SequenceTypes DEF TypeInv, TypeOK, HostTypes
  <2>3. ~Taken
    BY <1>1, <2>1 DEF Taken
  <2> HIDE DEF f
  <2>4. CASE pc \notin {"tx", "ack"}
    BY <1>2, <2>3, <2>4, HandshakeOver DEF Handshake
  <2>5. CASE pc \in {"tx", "ack"}
    <3>1. seqNr = 1 \/ Len(modReq) \in {seqNr - 1, seqNr}
      BY <2>3, <2>5 DEF Handshake
    <3>2. pc = "ack" /\ f.nr = seqNr /\ Len(modReq) # seqNr
      BY <2>1, <2>2, <2>5, <3>1
    <3>3. \A i \in 1..Len(toHost) : toHost[i].kind # "ack"
      BY <2>3, <3>2 DEF Handshake, Took
    <3>4. Len(modReq') = seqNr
      <4>1. modReq \in Seq(CommandFrame)
        BY DEF TypeInv, TypeOK, ModuleTypes
      <4>2. CASE f.nr = 1
        BY <1>4, <2>1, <3>2, <4>2
      <4>3. CASE f.nr # 1
        BY <1>4, <2>1, <3>2, <4>1, <4>3
      <4> QED
        BY <4>2, <4>3
    <3>5. Took' /\ (Taken' \/ (modPc' = "listen" /\ Len(modReq') = seqNr))
      BY <1>2, <1>4, <3>4 DEF Took, Taken
    <3>6. /\ Len(toHost) \in Nat
          /\ \A i \in 1..Len(toHost) : toHost'[i] = toHost[i]
          /\ \A i \in 1..Len(toHost') : i \in 1..Len(toHost) \/ i = Len(toHost')
      BY <1>4, HostAppended
    <3>7. \A i \in 1..Len(toHost') : toHost'[i].kind = "ack" => i = Len(toHost')
      BY <3>3, <3>6
    <3> QED
      BY <1>2, <3>2, <3>5, <3>7 DEF Handshake
  <2> QED
    BY <2>4, <2>5
<1> QED
  BY <1>3, <1>4 DEF ModuleListens

LEMMA OthersHandshake ==
  ASSUME StepInv, Handshake,
         \/ ModuleExecutes \/ ModuleContinues \/ ModuleGivesUp \/ ModuleCrashes
         \/ LinkStep \/ UNCHANGED vars
  PROVE  Handshake'
<1> USE DEF StepInv
<1>1. UNCHANGED <<pc, cmd, seqNr>>
  BY DEF ModuleExecutes, ModuleContinues, ModuleGivesUp, ModuleCrashes, LinkStep,
     LinkLoses, LinkCorrupts, vars, hostVars, frameVars
<1>2. /\ Taken => Taken'
      /\ modPc = "listen" => Taken' \/ UNCHANGED <<modPc, modReq>>
  <2>1. CASE ModuleExecutes
    <3>1. cmd \in 1..MaxCmds /\ \E a \in Answers : served' = [served EXCEPT ![cmd] = a]
      BY <2>1, RunsCommand, ModuleExecutesTaking DEF ModuleExecutes
    <3>2. served'[cmd] # NotServed
      BY <3>1, SizesAssumption DEF Answers, NotServed, TypeInv, TypeOK, ModuleTypes
    <3> QED
      BY <1>1, <3>1, <3>2 DEF Taken, Served
  <2>2. CASE ~ModuleExecutes
    BY <1>1, <2>2
    DEF ModuleContinues, ModuleGivesUp, ModuleCrashes, LinkStep, LinkLoses, LinkCorrupts,
        vars, modVars, Taken, Served
  <2> QED
    BY <2>1, <2>2
<1>3. \E d \in {0, 1} : \A i \in 1..Len(toHost') :
        \/ i + d \in 1..Len(toHost) /\ toHost'[i] = toHost[i + d]
        \/ toHost'[i].kind # "ack"
  <2>1. CASE toHost' = toHost
    BY <2>1
  <2>2. CASE \E f : toHost' = Append(toHost, Carry(f))
    <3>1. PICK f : toHost' = Append(toHost, Carry(f))
      BY <2>2
    <3>2. Carry(f).kind # "ack"
      BY DEF Carry
    <3>3. \A i \in 1..Len(toHost') :
            \/ i + 0 \in 1..Len(toHost) /\ toHost'[i] = toHost[i + 0]
            \/ toHost'[i].kind # "ack"
      BY <3>1, <3>2, HostAppended
    <3> QED
      BY <3>3
  <2>3. CASE toHost # <<>> /\ toHost' = Tail(toHost)
    BY <2>3, HostTail
  <2>4. CASE LinkCorrupts
    <3> DEFINE u == IF Head(toHost).kind = "ack" THEN Bare("glitch")
                    ELSE [Head(toHost) EXCEPT !.frame.src = "junk"]
    <3>1. toHost # <<>> /\ toHost' = <<u>> \o Tail(toHost)
      BY <2>4 DEF LinkCorrupts
    <3>2. u.kind # "ack"
      BY <2>4, <3>1, HostWire DEF Bare, Unit
    <3> HIDE DEF u
    <3>3. /\ Len(toHost') = Len(toHost) /\ toHost'[1] = u /\ Len(toHost) \in Nat
          /\ \A i \in 2..Len(toHost) : toHost'[i] = toHost[i]
      BY <3>1, HostReplaced, HostWire
    <3>4. \A i \in 1..Len(toHost') :
            \/ i + 0 \in 1..Len(toHost) /\ toHost'[i] = toHost[i + 0]
            \/ toHost'[i].kind # "ack"
      BY <3>2, <3>3
    <3> QED
      BY <3>4
  <2> QED
    BY <2>1, <2>2, <2>3, <2>4
    DEF ModuleExecutes, ModuleContinues, ModuleSends, ModuleGivesUp, ModuleCrashes,
        LinkStep, LinkLoses, vars
<1> QED
  BY <1>1, <1>2, <1>3, KeepsHandshake

LEMMA HostHandshake ==
  ASSUME Recovers, StepInv, Handshake,
         Call \/ SendFrame \/ ReadHeader \/ ReadBody \/ ParseResult \/ Return
  PROVE  Handshake'
<1> USE DEF StepInv
<1>1. CASE Call
  <2>1. pc = "idle" /\ pc' = "tx" /\ seqNr' = 1 /\ UNCHANGED toHost
    BY <1>1 DEF Call
  <2>2. Len(toHost) = 0
    BY <2>1 DEF AnswerInv, AtHost
  <2> QED
    BY <2>1, <2>2 DEF Handshake
<1>2. CASE SendFrame
  <2>1. pc = "tx" /\ pc' = "ack" /\ UNCHANGED <<cmd, seqNr, toHost, modPc, modReq, served>>
    BY <1>2 DEF SendFrame, modVars
  <2> QED
    BY <2>1 DEF Handshake, Taken, Served
<1>3. CASE ReadBody
  <2>1. CASE pc' = "rxhdr"
    <3>1. ~Fails'
      BY <2>1 DEF Fails
    <3>2. seqNr' = seqNr + 1 /\ seqNr \in Nat
      <4> DEFINE f == Head(toHost).frame  a == served[cmd]  k == seqNr + 1
      <4>1. Served /\ seqNr < SeqLen(a.size) /\ Accept(f)
        BY <1>3, <3>1, BodyRead
      <4>2. IsAnswer(f, cmd, a, k) /\ f.src # "junk"
        BY <1>3, <3>1, BodyRead
      <4>3. seqNr \in Nat /\ a.size \in Nat
        BY <4>1, ServedTypes DEF TypeInv, TypeOK, HostTypes
      <4>4. SliceSize(a.size, k) \in Nat
        BY <4>1, <4>3, UpToNext
      <4> HIDE DEF f, a, k
      <4>5. f.nr = k
        BY <4>2, <4>4, AnswerFields
      <4> QED
        BY <4>1, <4>3, <4>5 DEF Accept, k
    <3> QED
      BY <2>1, <3>2, HandshakeOver
  <2>2. CASE pc' # "rxhdr"
    <3>1. pc' \notin {"tx", "ack"}
      BY <1>3 DEF ReadBody, CheckCrc, ReceiveFails, Accept
    <3> QED
      BY <2>2, <3>1, HandshakeOver
  <2> QED
    BY <2>1, <2>2
<1>4. CASE ReadHeader \/ ParseResult \/ Return
  <2>1. pc' \notin {"tx", "ack", "rxhdr"}
    BY <1>4 DEF ReadHeader, ReceiveFails, ParseResult, Return
  <2> QED
    BY <2>1, HandshakeOver
<1> QED
  BY <1>1, <1>2, <1>3, <1>4

(* bmlite_send returns OK only when the module has taken the whole         *)
(* command: each acknowledgement it has counted was that of its last frame. *)
THEOREM SentIsTaken ==
  ASSUME Recovers, SizesFit, AcksAreRead PROVE Spec => []SentMeansTaken
<1>1. Init => Handshake
  BY InitHandshake
<1>2. StepInv /\ Handshake /\ [Next]_vars => Handshake'
  BY HostHandshake, ReadAckHandshake, ModuleListensHandshake, OthersHandshake
  DEF Next, HostStep, ModuleStep
<1>3. StepInv /\ Handshake => SentMeansTaken
  <2> SUFFICES ASSUME StepInv, Taken, pc = "rxhdr"
               PROVE  \/ modPc = "exec" /\ modReq[1].cmd = cmd
                      \/ served[cmd] # NotServed
                      \/ modPc = "dead"
    BY DEF Handshake, SentMeansTaken
  <2> QED
    BY RunsCommand DEF StepInv, Taken, Served
<1> QED
  BY <1>1, <1>2, <1>3, InStep, PTL DEF Spec
================================================================================
