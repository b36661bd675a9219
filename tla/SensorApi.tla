------------------------------- MODULE SensorApi -------------------------------
(***************************************************************************)
(* The packets of BMLite_sdk and the functions made of them: a function of *)
(* bmlite_if.c builds a command in pkt_buffer (bmlite_init_cmd,            *)
(* bmlite_add_arg), exchanges it for an answer in the same buffer          *)
(* (bmlite_tranceive), and looks there for what it wants (bmlite_get_arg,  *)
(* bmlite_copy_arg).  The console application shows or saves it.           *)
(*                                                                         *)
(* The buffer is a memory of units: each of the two fields of a command    *)
(* word or of an argument's header is one unit, a result is one, the id of *)
(* a template two.  All of it is numbers, so that what is left of one      *)
(* packet can be read as part of another.  The frames are those of         *)
(* HcpTransport; here they only arrive or do not.                          *)
(***************************************************************************)
EXTENDS Integers, Sequences, SequencesExt, FiniteSetsExt

CONSTANTS
  PktSizeMax,   \* pkt_size_max, in units
  FrameUnits,   \* payload of a frame
  W,            \* sizes of arguments and limits of copies are modulo W (2^16)
  DataSizes,    \* sizes of what a caller gives: a file read by the console
  Limit,        \* size of the area the caller gives for a copy
  MaxCalls      \* bound on the calls of a behaviour

ASSUME ApiAssumption ==
  /\ {PktSizeMax, FrameUnits, W, MaxCalls} \subseteq Nat \ {0}
  /\ PktSizeMax > 2
  /\ DataSizes \subseteq Nat /\ Limit \in Nat

(* Keys of arguments: RESULT, DATA, the name of a subcommand, another one. *)
RESULT == 1
DATA == 2
SUB == 3
PARAM == 4

(* A unit of what the host, and of what the n-th answer sends. *)
HostUnit == 9
AnswerUnit(n) == 5 + n

VARIABLES
  hcp,      \* HCP_comm_t: buffer, size (pkt_size), result (bep_result, 0 for
            \* OK) and arg, whose data is at a place of the buffer
  call,     \* the call that returned last: function, sent (what bmlite_send
            \* was given), answer (if it came whole), transfer, res and copied
  calls     \* how many calls there were

vars == <<hcp, call, calls>>

--------------------------------------------------------------------------------
(* Building a command. *)

Arg(key, size, unit) == [key |-> key, data |-> [i \in 1..size |-> unit]]

(* The functions by shape: the arguments of the command, the argument they *)
(* want of the answer, and the area that it is copied to: none, the one    *)
(* the caller gave, or NULL.                                               *)
Functions ==
  LET F(args, wants, area) == [args |-> args, wants |-> wants, area |-> area]
      Copies(args, key) == {F(args, {key}, "given"), F(args, {key}, "null")}
      plain == Arg(SUB, 0, HostUnit)
      named == Arg(PARAM, 0, HostUnit)
      number == Arg(PARAM, 2, HostUnit)
  IN  \* bep_identify, bep_sw_reset, bep_sensor_calibrate
      {F(<<>>, {}, "none")}
      \* image_create, image_delete, bep_image_extract, bep_sensor_reset, ...
      \cup {F(<<plain>>, {}, "none")}
      \* bep_capture
      \cup {F(<<number>>, {}, "none")}
      \* bep_template_save, bep_template_remove, sensor_wait_*, ...
      \cup {F(<<plain, number>>, {}, "none")}
      \* bep_template_remove_all
      \cup {F(<<plain, named>>, {}, "none")}
      \* bep_template_put, bep_image_put
      \cup {F(<<plain, Arg(DATA, n, HostUnit)>>, {}, "none") : n \in DataSizes}
      \* bep_uart_speed_set
      \cup {F(<<plain, named, Arg(DATA, 2, HostUnit)>>, {}, "none")}
      \* bep_template_get_ids
      \cup {F(<<plain>>, {DATA}, "none")}
      \* bep_image_get_size, bep_template_get_count
      \cup {F(<<named>>, {PARAM}, "none")}
      \* bep_image_get, bep_template_get
      \cup Copies(<<plain>>, DATA)
      \* bep_uart_speed_get
      \cup Copies(<<plain, named>>, DATA)
      \* bep_version, bep_unique_id_get
      \cup Copies(<<plain, named>>, PARAM)

Write(buffer, at, units) ==
  [i \in DOMAIN buffer |-> IF i - at + 1 \in DOMAIN units THEN units[i - at + 1] ELSE buffer[i]]

(* Memory that is not the buffer's reads as 0. *)
Read(buffer, at, n) ==
  [k \in 1..n |-> IF at + k - 1 \in DOMAIN buffer THEN buffer[at + k - 1] ELSE 0]

(* bmlite_init_cmd without its argument. *)
InitCmd == [buffer |-> Write(hcp.buffer, 0, <<0, 0>>), size |-> 2, full |-> FALSE]

(* Mutant of NoRoom: the header of the argument is forgotten. *)
NoRoomForData(packet, size) == packet.size + size > PktSizeMax

NoRoom(packet, size) == packet.size + 2 + size > PktSizeMax

(* bmlite_add_arg; after NO_MEMORY its callers add and send nothing more. *)
AddArg(packet, arg) ==
  LET size == Len(arg.data) % W
      counted == Write(packet.buffer, 1, <<packet.buffer[1] + 1>>)
  IN  IF packet.full \/ NoRoom(packet, size)
        THEN [packet EXCEPT !.full = TRUE]
        ELSE [packet EXCEPT
               !.buffer = Write(counted, packet.size,
                                <<arg.key, size>> \o SubSeq(arg.data, 1, size)),
               !.size = @ + 2 + size]

--------------------------------------------------------------------------------
(* Searching an answer. *)

(* Mutant of NextArg: the size of the header is forgotten. *)
NextArgNoHeader(buffer, at) == at + Read(buffer, at + 1, 1)[1]

NextArg(buffer, at) == at + 2 + Read(buffer, at + 1, 1)[1]

(* bmlite_get_arg: the places of the arguments of this key that it reads   *)
(* before it has counted to args_nr or is behind the packet.               *)
Places(h, key) ==
  LET nr == h.buffer[1]
      at[i \in 0..nr] ==
        IF i = 0 THEN 2
        ELSE LET last == at[i - 1]
             IN  IF last > h.size THEN last ELSE NextArg(h.buffer, last)
  IN  {at[i] : i \in {j \in 0..(nr - 1) : at[j] <= h.size
                                           /\ Read(h.buffer, at[j], 1)[1] = key}}

(* Its effect on hcp_comm->arg; the first place is the one it returns. *)
GetArg(h, key) ==
  LET places == Places(h, key)
      at == Min(places)
  IN  IF places = {} THEN h
      ELSE [h EXCEPT !.arg = [at |-> at + 2, size |-> Read(h.buffer, at + 1, 1)[1]]]

ArgData(h) == Read(h.buffer, h.arg.at, h.arg.size)

(* What bmlite_copy_arg copies to an area of Limit units, if it is given.  *)
CopyArg(h) == SubSeq(ArgData(h), 1, Min({h.arg.size, Limit % W}))

--------------------------------------------------------------------------------
(* The exchange. *)

(* Packets as the module builds and reads them (external). *)
Encode(args) ==
  FoldLeft(LAMBDA packet, arg : packet \o <<arg.key, Len(arg.data)>> \o arg.data,
           <<0, Len(args)>>, args)

(* Answers: a result, good or bad, some data or none, in any order, twice  *)
(* or not at all; n is the number of the answer.                           *)
Answers(n) ==
  LET result == {Arg(RESULT, 1, r) : r \in 0..1}
      data == {Arg(DATA, s, AnswerUnit(n)) : s \in {0, 4}} \cup {Arg(PARAM, 4, AnswerUnit(n))}
  IN  {<<>>}
      \cup {<<a>> : a \in result \cup data}
      \cup {<<r, d>> : r \in result, d \in data}
      \cup {<<d, r>> : r \in result, d \in data}
      \cup {<<Arg(RESULT, 1, 0), Arg(DATA, 2, AnswerUnit(n)), Arg(DATA, 4, AnswerUnit(n))>>}

Frames(packet) ==
  [i \in 1..((Len(packet) + FrameUnits - 1) \div FrameUnits) |->
     SubSeq(packet, (i - 1) * FrameUnits + 1, Min({i * FrameUnits, Len(packet)}))]

(* The part of these frames that bmlite_receive puts into the buffer. *)
Stored(frames) ==
  FoldLeft(LAMBDA taken, f : IF Len(taken) + Len(f) < PktSizeMax THEN taken \o f ELSE taken,
           <<>>, frames)

(* bmlite_receive, of which failed is the result after n frames. *)
ReceiveBroken(h, frames, n) ==
  [h EXCEPT !.buffer = Write(@, 0, Stored(SubSeq(frames, 1, n)))]

Receive(h, frames) ==
  [h EXCEPT !.buffer = Write(@, 0, Stored(frames)), !.size = Len(Stored(frames))]

(* Mutant of ParseResult: hcp_comm->arg stays as it was. *)
ParseResultAside(h) ==
  [h EXCEPT !.result = IF Places(h, RESULT) = {} THEN 0
                       ELSE Read(h.buffer, Min(Places(h, RESULT)) + 2, 1)[1]]

(* The end of bmlite_tranceive, after a failed bmlite_receive as well. *)
ParseResult(h) ==
  LET found == GetArg(h, RESULT)
  IN  IF Places(h, RESULT) = {} THEN [h EXCEPT !.result = 0]
      ELSE [found EXCEPT !.result = Read(found.buffer, found.arg.at, 1)[1]]

--------------------------------------------------------------------------------
(* The functions, and what they return. *)

Returns(f, sent, answer, transfer, res, copied) ==
  /\ calls' = calls + 1
  /\ call' = [function |-> f, sent |-> sent, answer |-> answer,
              transfer |-> transfer, res |-> res, copied |-> copied]

Command(f) == FoldLeft(AddArg, InitCmd, f.args)

Built(f) ==
  LET command == Command(f)
  IN  [hcp EXCEPT !.buffer = command.buffer, !.size = command.size]

Sent(f) ==
  LET command == Command(f)
  IN  Read(command.buffer, 0, command.size)

(* The command does not fit into pkt_buffer. *)
CommandTooLong(f) ==
  /\ Command(f).full
  /\ hcp' = Built(f)
  /\ Returns(f, <<>>, <<>>, "none", "noMemory", <<>>)

(* bmlite_send fails: bep_result is that of an earlier call. *)
SendFails(f) ==
  /\ ~Command(f).full
  /\ hcp' = Built(f)
  /\ Returns(f, Sent(f), <<>>, "sendFails", "error", <<>>)

(* bmlite_receive fails after some frames of the answer. *)
ReceiveFails(f) ==
  /\ ~Command(f).full
  /\ \E answer \in Answers(calls) :
       LET frames == Frames(Encode(answer))
       IN  \E n \in 0..(Len(frames) - 1) :
             /\ hcp' = ParseResult(ReceiveBroken(Built(f), frames, n))
             /\ Returns(f, Sent(f), <<>>, "receiveFails", "error", <<>>)

(* The answer is longer than pkt_buffer. *)
AnswerTooLong(f) ==
  /\ ~Command(f).full
  /\ \E answer \in Answers(calls) :
       LET frames == Frames(Encode(answer))
       IN  /\ Len(Stored(frames)) < Len(Encode(answer))
           /\ hcp' = ParseResult(Receive(Built(f), frames))
           /\ Returns(f, Sent(f), <<>>, "noMemory", "noMemory", <<>>)

(* Some frames have sizes that disagree: nothing is taken of them, and the *)
(* reception goes on with the next one.  If others do not fit, the last    *)
(* one refused says which error it is.                                     *)
AnswerMalformed(f) ==
  /\ ~Command(f).full
  /\ \E answer \in Answers(calls) :
       LET frames == Frames(Encode(answer))
           Kept(good) == [i \in DOMAIN frames |-> IF i \in good THEN frames[i] ELSE <<>>]
       IN  \E good \in (SUBSET DOMAIN frames) \ {DOMAIN frames} :
             /\ hcp' = ParseResult(Receive(Built(f), Kept(good)))
             /\ \/ Returns(f, Sent(f), <<>>, "malformed", "error", <<>>)
                \/ /\ Len(Stored(frames)) < Len(Encode(answer))
                   /\ Returns(f, Sent(f), <<>>, "malformed", "noMemory", <<>>)

(* The answer is in pkt_buffer, and the function takes what it wants. *)
Answered(f) ==
  /\ ~Command(f).full
  /\ \E answer \in Answers(calls) :
       LET frames == Frames(Encode(answer))
           parsed == ParseResult(Receive(Built(f), frames))
       IN  /\ Len(Stored(frames)) = Len(Encode(answer))
           /\ \/ /\ f.wants = {}
                 /\ hcp' = parsed
                 /\ Returns(f, Sent(f), answer, "ok", "ok", <<>>)
              \/ \E key \in f.wants :
                   /\ Places(parsed, key) = {}
                   /\ hcp' = parsed
                   /\ Returns(f, Sent(f), answer, "ok", "invalid", <<>>)
              \/ \E key \in f.wants :
                   /\ Places(parsed, key) # {}
                   /\ hcp' = GetArg(parsed, key)
                   /\ \/ /\ f.area = "null"
                         /\ Returns(f, Sent(f), answer, "ok", "noMemory", <<>>)
                      \/ /\ f.area # "null"
                         /\ Returns(f, Sent(f), answer, "ok", "ok",
                                    IF f.area = "given" THEN CopyArg(hcp') ELSE <<>>)

Init ==
  /\ hcp = [buffer |-> [i \in 0..(PktSizeMax + 1) |-> 0], size |-> 0,
            result |-> 0, arg |-> [at |-> 0, size |-> 0]]
  /\ call = [function |-> [args |-> <<>>, wants |-> {}, area |-> "none"],
             sent |-> <<>>, answer |-> <<>>, transfer |-> "none", res |-> "none",
             copied |-> <<>>]
  /\ calls = 0

Next ==
  /\ calls < MaxCalls
  /\ \E f \in Functions :
       \/ CommandTooLong(f) \/ SendFails(f) \/ ReceiveFails(f)
       \/ AnswerTooLong(f) \/ AnswerMalformed(f) \/ Answered(f)

Spec == Init /\ [][Next]_vars

--------------------------------------------------------------------------------
(* The console. *)

(* Option l of main calls bep_template_get_ids.                            *)
IsListing(f) == f.wants = {DATA} /\ f.area = "none"

(* The ids, of two units each, where arg is.                               *)
IdsAt(buffer, arg) == SubSeq(Read(buffer, arg.at, arg.size), 1, 2 * (arg.size \div 2))

(* What it prints: it looks at bep_result only. *)
Listed == IF hcp.result = 0 THEN IdsAt(hcp.buffer, hcp.arg) ELSE <<>>

--------------------------------------------------------------------------------
(* Properties. *)

(* What bmlite_send is given is the command that was asked for, all of its *)
(* arguments with all of their data, if pkt_buffer has room for it, and    *)
(* nothing otherwise (hcp_tiny.c 57-93, bmlite_if.c 318-328); sizes of     *)
(* 2^16 and more are cut without an error.                                 *)
CommandIsRequest ==
  LET args == call.function.args
      whole == Encode(args)
  IN  call.res # "none" /\ (\A i \in DOMAIN args : Len(args[i].data) < W) =>
        call.sent = IF Len(whole) <= PktSizeMax THEN whole ELSE <<>>

(* The arguments of the answer that have this key, and the first's data. *)
Wanted(key) == {i \in DOMAIN call.answer : call.answer[i].key = key}

WantedData(key) == call.answer[Min(Wanted(key))].data

(* A function that wants an argument returns OK exactly when the answer to *)
(* this call is in pkt_buffer and has it, and there is an area if it is to *)
(* be copied; what arg.data points to is then the first such argument, and *)
(* what was copied its beginning, never the remains of the command or of   *)
(* an earlier answer, of which the search may read (hcp_tiny.c 95-136).    *)
DataFromThisAnswer ==
  \A key \in call.function.wants :
    /\ call.res = "ok" <=>
         call.transfer = "ok" /\ Wanted(key) # {} /\ call.function.area # "null"
    /\ call.res = "ok" =>
         LET data == WantedData(key)
         IN  /\ ArgData(hcp) = data
             /\ call.function.area = "given" =>
                  call.copied = SubSeq(data, 1, Min({Len(data), Limit % W}))

(* The module refused to list its templates.                               *)
ListRefused == Wanted(RESULT) # {} /\ WantedData(RESULT)[1] # 0

(* Where the ids come from that this step lists.                           *)
ListsIds ==
  LET left == IdsAt(hcp'.buffer, hcp.arg)
  IN  IsListing(call'.function) =>
        /\ call'.transfer = "ok" =>
             Listed' = IF ListRefused' THEN <<>>
                       ELSE IF Wanted(DATA)' # {} THEN WantedData(DATA)'
                       ELSE IF Wanted(RESULT)' # {} THEN <<>>
                       ELSE left
        /\ call'.transfer \in {"none", "sendFails"} =>
             Listed' = IF hcp.result = 0 THEN left ELSE <<>>

(* The console looks at bep_result only (console_app/src/main.c 235-244).  *)
(* Of an answer that came whole it lists the ids of this answer: none if   *)
(* the module refused, and none if the ids are missing, since arg is the   *)
(* result then, which is shorter than an id.  When the answer has neither, *)
(* and when the command was not sent, it does list stale ids: what is in   *)
(* the buffer where an earlier call left arg, in the latter case if the    *)
(* earlier call's bep_result was OK.  Of an answer that was broken off,    *)
(* damaged or too long nothing is said.                                    *)
ListedIds == [][ListsIds]_vars
================================================================================
