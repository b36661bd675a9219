---------------------------- MODULE SensorApi_proofs ---------------------------
(***************************************************************************)
(* Theorems about SensorApi, for all values of the constants: a command is *)
(* encoded as it was asked for, and what is read of an answer is that      *)
(* answer's.                                                               *)
(*                                                                         *)
(* They are about folds and recursive functions, so the proofs need        *)
(* induction.  It is had from the library's WFMin, by the least element    *)
(* that fails (lemma Induction).                                           *)
(***************************************************************************)
EXTENDS SensorApi, WellFoundedInduction, SequenceTheorems, TLAPS

Buffer == [0..(PktSizeMax + 1) -> Nat]

Packet == [buffer : Buffer, size : Nat, full : BOOLEAN]

Argument == [key : Nat, data : Seq(Nat)]

Hcp == [buffer : Buffer, size : Nat, result : Nat, arg : [at : Nat, size : Nat]]

--------------------------------------------------------------------------------
(* Induction, extrema, folds.                                              *)

(* A set that has 0 and with each number the next one has all of them. *)
LEMMA Induction ==
  ASSUME NEW S, 0 \in S, \A n \in Nat : n \in S => n + 1 \in S
  PROVE  Nat \subseteq S
<1> DEFINE less == {p \in Nat \X Nat : p[1] < p[2]}
           fails == Nat \ S
<1> SUFFICES ASSUME fails # {} PROVE FALSE
  OBVIOUS
<1>1. IsWellFoundedOn(less, Nat)
  BY NatLessThanWellFounded DEF OpToRel
<1>2. PICK n \in fails : \A m \in fails : ~ (<<m, n>> \in less)
  <2>1. fails \subseteq Nat
    OBVIOUS
  <2> HIDE DEF fails, less
  <2> QED
    BY <1>1, <2>1, WFMin
<1>3. n - 1 \in Nat /\ <<n - 1, n>> \in less
  BY <1>2
<1>4. n - 1 \in S
  BY <1>2, <1>3
<1> QED
  BY <1>2, <1>3, <1>4

(* The same up to a bound. *)
LEMMA InductionTo ==
  ASSUME NEW k \in Nat, NEW S, 0 \in S, \A n \in 1..k : n - 1 \in S => n \in S
  PROVE  \A n \in 0..k : n \in S
<1> DEFINE T == {n \in Nat : n <= k => n \in S}
<1>1. 0 \in T
  OBVIOUS
<1>2. \A n \in Nat : n \in T => n + 1 \in T
  <2> SUFFICES ASSUME NEW n \in Nat, n \in T, n + 1 <= k PROVE n + 1 \in S
    OBVIOUS
  <2>1. n \in S /\ n + 1 \in 1..k /\ (n + 1) - 1 = n
    OBVIOUS
  <2> QED
    BY <2>1
<1> HIDE DEF T
<1>3. Nat \subseteq T
  BY <1>1, <1>2, Induction
<1> QED
  BY <1>3 DEF T

LEMMA MaxIs ==
  ASSUME NEW S \in SUBSET Int, NEW n \in S, \A m \in S : m <= n
  PROVE  Max(S) = n
<1>1. Max(S) \in S /\ \A m \in S : m <= Max(S)
  BY DEF Max
<1>2. n \in Int /\ Max(S) \in Int
  BY <1>1
<1>3. n <= Max(S) /\ Max(S) <= n
  BY <1>1
<1> QED
  BY <1>2, <1>3

LEMMA MinIs ==
  ASSUME NEW S \in SUBSET Int, NEW n \in S, \A m \in S : n <= m
  PROVE  Min(S) = n
<1>1. Min(S) \in S /\ \A m \in S : Min(S) <= m
  BY DEF Min
<1>2. n \in Int /\ Min(S) \in Int
  BY <1>1
<1>3. n <= Min(S) /\ Min(S) <= n
  BY <1>1
<1> QED
  BY <1>2, <1>3

LEMMA MinOfNats ==
  ASSUME NEW S \in SUBSET Nat, S # {}
  PROVE  Min(S) \in S /\ \A m \in S : Min(S) <= m
<1> DEFINE below == {n \in Nat : \A m \in S : n <= m}
<1>1. \E n \in S : \A m \in S : n <= m
  <2> SUFFICES ASSUME \A n \in S : \E m \in S : m < n PROVE FALSE
    OBVIOUS
  <2>1. 0 \in below
    OBVIOUS
  <2>2. \A n \in Nat : n \in below => n + 1 \in below
    <3> SUFFICES ASSUME NEW n \in Nat, \A m \in S : n <= m, NEW m \in S, ~(n + 1 <= m)
                 PROVE  FALSE
      OBVIOUS
    <3>1. m = n
      OBVIOUS
    <3> QED
      BY <3>1
  <2> HIDE DEF below
  <2>3. Nat \subseteq below
    BY <2>1, <2>2, Induction
  <2>4. PICK n \in S : TRUE
    OBVIOUS
  <2>5. n + 1 \in below
    BY <2>3, <2>4
  <2> QED
    BY <2>4, <2>5 DEF below
<1> QED
  BY <1>1 DEF Min

LEMMA Least ==
  ASSUME NEW a \in Int, NEW b \in Int
  PROVE  Min({a, b}) = IF a <= b THEN a ELSE b
  BY DEF Min

LEMMA MaxOfRange ==
  ASSUME NEW k \in Nat
  PROVE  /\ \A S \in SUBSET (1..k) : S # {} => Max(S) \in S
         /\ \A i \in 1..k : /\ Max(1..i) = i /\ (1..i) \ {i} = 1..(i - 1)
                            /\ 1..i \in SUBSET (1..k) /\ 1..i # {}
<1>1. ASSUME NEW S \in SUBSET (1..k), S # {} PROVE Max(S) \in S
  <2> DEFINE T == {k - m : m \in S}
  <2>1. T \in SUBSET Nat
    OBVIOUS
  <2>2. T # {}
    BY <1>1
  <2> HIDE DEF T
  <2>3. PICK t \in T : \A u \in T : t <= u
    BY <2>1, <2>2, MinOfNats
  <2> USE DEF T
  <2>4. PICK m \in S : t = k - m
    OBVIOUS
  <2>5. ASSUME NEW n \in S PROVE n <= m
    <3>1. t <= k - n
      BY <2>3
    <3> QED
      BY <2>4, <3>1
  <2>6. S \in SUBSET Int
    OBVIOUS
  <2>7. Max(S) = m
    BY <2>5, <2>6, MaxIs
  <2> QED
    BY <2>7
<1>2. ASSUME NEW i \in 1..k PROVE Max(1..i) = i
  <2>1. 1..i \in SUBSET Int /\ i \in 1..i /\ \A m \in 1..i : m <= i
    OBVIOUS
  <2> QED
    BY <2>1, MaxIs
<1>3. ASSUME NEW i \in 1..k PROVE 1..i \in SUBSET (1..k) /\ 1..i # {}
  <2>1. i \in 1..i
    OBVIOUS
  <2> QED
    BY <2>1
<1> QED
  BY <1>1, <1>2, <1>3

(* A recursive function as FoldLeft is defined by, and that it exists. *)
Folds(it, k, base, step) ==
  \A s \in SUBSET (1..k) :
    it[s] = IF s = {} THEN base ELSE step[<<Max(s), it[s \ {Max(s)}]>>]

LEMMA FoldExists ==
  ASSUME NEW V, NEW base \in V, NEW k \in Nat, NEW step \in [(1..k) \X V -> V]
  PROVE  \E it \in [SUBSET (1..k) -> V] : Folds(it, k, base, step)
<1> DEFINE good == {n \in 0..k : \E it \in [SUBSET (1..n) -> V] : Folds(it, n, base, step)}
<1>1. 0 \in good
  <2> DEFINE it == [s \in SUBSET (1..0) |-> base]
  <2>1. \A s \in SUBSET (1..0) : s = {}
    OBVIOUS
  <2>2. it \in [SUBSET (1..0) -> V] /\ Folds(it, 0, base, step)
    BY <2>1 DEF Folds
  <2> HIDE DEF it
  <2>3. \E f \in [SUBSET (1..0) -> V] : Folds(f, 0, base, step)
    BY <2>2
  <2>4. 0 \in 0..k
    OBVIOUS
  <2> QED
    BY <2>3, <2>4, Zenon
<1>2. ASSUME NEW n \in 1..k, n - 1 \in good PROVE n \in good
  <2>1. PICK old \in [SUBSET (1..(n - 1)) -> V] : Folds(old, n - 1, base, step)
    BY <1>2
  <2> DEFINE it == [s \in SUBSET (1..n) |->
                      IF n \in s THEN step[<<n, old[s \ {n}]>>] ELSE old[s]]
  <2>2. \A s \in SUBSET (1..n) : s \ {n} \in SUBSET (1..(n - 1))
    OBVIOUS
  <2>3. it \in [SUBSET (1..n) -> V]
    <3> SUFFICES ASSUME NEW s \in SUBSET (1..n) PROVE it[s] \in V
      OBVIOUS
    <3>1. CASE n \in s
      <4>1. old[s \ {n}] \in V
        BY <2>1, <2>2
      <4> QED
        BY <3>1, <4>1
    <3>2. CASE n \notin s
      BY <2>1, <2>2, <3>2
    <3> QED
      BY <3>1, <3>2
  <2>4. ASSUME NEW s \in SUBSET (1..n)
        PROVE  it[s] = IF s = {} THEN base ELSE step[<<Max(s), it[s \ {Max(s)}]>>]
    <3>1. CASE n \in s
      <4>1. Max(s) = n
        BY <3>1, MaxIs
      <4>2. it[s \ {n}] = old[s \ {n}]
        BY <2>2
      <4> QED
        BY <3>1, <4>1, <4>2
    <3>2. CASE n \notin s
      <4>1. s \in SUBSET (1..(n - 1)) /\ it[s] = old[s]
        BY <2>2, <3>2
      <4>2. CASE s = {}
        BY <2>1, <4>1, <4>2 DEF Folds
      <4>3. CASE s # {}
        <5>1. s \ {Max(s)} \in SUBSET (1..(n - 1))
          BY <4>1
        <5>2. it[s \ {Max(s)}] = old[s \ {Max(s)}]
          BY <5>1
        <5> QED
          BY <2>1, <4>1, <4>3, <5>2 DEF Folds
      <4> QED
        BY <4>2, <4>3
    <3> QED
      BY <3>1, <3>2
  <2>5. Folds(it, n, base, step)
    BY <2>4 DEF Folds
  <2> HIDE DEF it
  <2>6. \E f \in [SUBSET (1..n) -> V] : Folds(f, n, base, step)
    BY <2>3, <2>5
  <2> QED
    BY <2>6
<1> HIDE DEF good
<1>3. k \in good
  BY <1>1, <1>2, InductionTo
<1> QED
  BY <1>3 DEF good

--------------------------------------------------------------------------------
(* The folds of the packets, by their steps.                               *)

(* A packet as the module builds it, after each of its arguments. *)
Encodes(e, args) ==
  /\ e \in [0..Len(args) -> Seq(Nat)]
  /\ e[0] = <<0, Len(args)>>
  /\ \A i \in 1..Len(args) :
       e[i] = e[i - 1] \o <<args[i].key, Len(args[i].data)>> \o args[i].data
  /\ Encode(args) = e[Len(args)]

LEMMA EncodeSteps ==
  ASSUME NEW args \in Seq(Argument)
  PROVE  \E e : Encodes(e, args)
<1> DEFINE k == Len(args)
           base == <<0, k>>
           Op(packet, arg) == packet \o <<arg.key, Len(arg.data)>> \o arg.data
           step == [p \in (1..k) \X Seq(Nat) |-> Op(p[2], args[p[1]])]
           Fixed(it) ==
             it = [s \in SUBSET (1..k) |->
                     IF s = {} THEN base ELSE Op(it[s \ {Max(s)}], args[Max(s)])]
           iter == CHOOSE it : Fixed(it)
           e == [i \in 0..k |-> iter[1..i]]
<1>1. k \in Nat /\ DOMAIN args = 1..k /\ base \in Seq(Nat)
  OBVIOUS
<1>2. ASSUME NEW p \in Seq(Nat), NEW i \in 1..k PROVE Op(p, args[i]) \in Seq(Nat)
  <2>1. args[i] \in Argument
    BY ElementOfSeq
  <2>2. args[i].key \in Nat /\ args[i].data \in Seq(Nat)
    BY <2>1 DEF Argument
  <2> QED
    BY <2>2
<1>3. Encode(args) = iter[1..k]
  BY <1>1, Zenon DEF Encode, FoldLeft, MapThenFoldSet
<1> HIDE DEF Op
<1>4. Fixed(iter)
  <2>1. step \in [(1..k) \X Seq(Nat) -> Seq(Nat)]
    BY <1>2
  <2>2. PICK it \in [SUBSET (1..k) -> Seq(Nat)] : Folds(it, k, base, step)
    <3> HIDE DEF step, base
    <3> QED
      BY <1>1, <2>1, FoldExists
  <2>3. ASSUME NEW s \in SUBSET (1..k), s # {}
        PROVE  step[<<Max(s), it[s \ {Max(s)}]>>] = Op(it[s \ {Max(s)}], args[Max(s)])
    BY <1>1, <2>3, MaxOfRange
  <2>4. Fixed(it)
    BY <2>2, <2>3, Zenon DEF Folds
  <2> QED
    BY <2>4, Zenon
<1> HIDE DEF iter
<1>5. e[0] = base
  BY <1>4
<1> HIDE DEF k, base, step
<1>6. ASSUME NEW i \in 1..k PROVE e[i] = Op(e[i - 1], args[i])
  <2>1. i \in 0..k /\ i - 1 \in 0..k
    BY <1>1
  <2>2. /\ Max(1..i) = i /\ (1..i) \ {i} = 1..(i - 1)
        /\ 1..i \in SUBSET (1..k) /\ 1..i # {}
    BY <1>1, MaxOfRange
  <2>3. iter[1..i] = Op(iter[(1..i) \ {i}], args[i])
    BY <1>4, <2>2, Zenon
  <2> QED
    BY <2>1, <2>2, <2>3
<1>7. e \in [0..k -> Seq(Nat)]
  <2> DEFINE typed == {n \in 0..k : e[n] \in Seq(Nat)}
  <2> HIDE DEF e
  <2>1. 0 \in typed
    BY <1>1, <1>5
  <2>2. ASSUME NEW n \in 1..k, n - 1 \in typed PROVE n \in typed
    BY <1>2, <1>6, <2>2
  <2> HIDE DEF typed
  <2>3. \A n \in 0..k : n \in typed
    BY <1>1, <2>1, <2>2, InductionTo
  <2> QED
    BY <2>3 DEF typed, e
<1>8. Encode(args) = e[k]
  BY <1>1, <1>3
<1> HIDE DEF e
<1> QED
  BY <1>5, <1>6, <1>7, <1>8, Zenon DEF Encodes, Op, k, base

LEMMA ConstantsTyped ==
  /\ PktSizeMax \in Nat /\ PktSizeMax > 2 /\ FrameUnits \in Nat \ {0}
  /\ W \in Nat \ {0} /\ DataSizes \subseteq Nat /\ Limit \in Nat
  BY ApiAssumption DEF ApiAssumption

LEMMA Modulo ==
  ASSUME NEW n \in Nat, NEW w \in Nat \ {0}
  PROVE  n % w \in Nat /\ n % w < w /\ n % w <= n /\ (n < w => n % w = n)
  BY Z3

LEMMA PrefixTyped ==
  ASSUME NEW S, NEW s \in Seq(S), NEW m \in Nat \ {0}, NEW n \in 0..Len(s)
  PROVE  /\ SubSeq(s, m, n) \in Seq(S)
         /\ Len(SubSeq(s, m, n)) = IF m <= n THEN n - m + 1 ELSE 0
         /\ \A i \in 1..(n - m + 1) : SubSeq(s, m, n)[i] = s[m + i - 1]
<1>1. \A i \in m..n : s[i] \in S
  BY ElementOfSeq
<1> QED
  BY <1>1, SubSeqProperties

(* c is b up to the place top, but for n units from the place at on. *)
Overlay(c, b, at, units, n, top) ==
  \A i \in 0..top : c[i] = IF at <= i /\ i < at + n THEN units[i - at + 1] ELSE b[i]

LEMMA WriteTyped ==
  ASSUME NEW b \in Buffer, NEW at \in Nat, NEW units \in Seq(Nat)
  PROVE  /\ Write(b, at, units) \in Buffer
         /\ Overlay(Write(b, at, units), b, at, units, Len(units), PktSizeMax + 1)
<1>1. DOMAIN b = 0..(PktSizeMax + 1) /\ DOMAIN units = 1..Len(units) /\ Len(units) \in Nat
  BY DEF Buffer
<1>2. ASSUME NEW i \in 0..(PktSizeMax + 1)
      PROVE  /\ i - at + 1 \in DOMAIN units <=> at <= i /\ i < at + Len(units)
             /\ i - at + 1 \in DOMAIN units => units[i - at + 1] \in Nat
             /\ b[i] \in Nat
  BY <1>1, ConstantsTyped DEF Buffer
<1> QED
  BY <1>1, <1>2 DEF Write, Buffer, Overlay

(* A command keeps to pkt_buffer, whatever it is built of. *)
LEMMA AddArgTyped ==
  ASSUME NEW p \in Packet, NEW arg \in Argument
  PROVE  AddArg(p, arg) \in Packet
<1> DEFINE size == Len(arg.data) % W
           counted == Write(p.buffer, 1, <<p.buffer[1] + 1>>)
           units == <<arg.key, size>> \o SubSeq(arg.data, 1, size)
<1>1. /\ p.buffer \in Buffer /\ p.size \in Nat /\ arg.key \in Nat
      /\ arg.data \in Seq(Nat) /\ Len(arg.data) \in Nat
  BY DEF Packet, Argument
<1>2. size \in Nat /\ size <= Len(arg.data)
  BY <1>1, ConstantsTyped, Modulo
<1>3. p.buffer[1] \in Nat
  BY <1>1, ConstantsTyped DEF Buffer
<1>4. counted \in Buffer
  <2>1. <<p.buffer[1] + 1>> \in Seq(Nat)
    BY <1>3
  <2> QED
    BY <1>1, <2>1, WriteTyped
<1> HIDE DEF size
<1>5. SubSeq(arg.data, 1, size) \in Seq(Nat)
  BY <1>1, <1>2, PrefixTyped
<1>6. units \in Seq(Nat)
  BY <1>1, <1>2, <1>5
<1> HIDE DEF counted, units
<1>7. Write(counted, p.size, units) \in Buffer
  BY <1>1, <1>4, <1>6, WriteTyped
<1>8. AddArg(p, arg) = IF p.full \/ NoRoom(p, size) THEN [p EXCEPT !.full = TRUE]
                       ELSE [p EXCEPT !.buffer = Write(counted, p.size, units),
                                      !.size = @ + 2 + size]
  BY DEF AddArg, size, counted, units
<1>9. CASE p.full \/ NoRoom(p, size)
  BY <1>8, <1>9 DEF Packet
<1>10. CASE ~(p.full \/ NoRoom(p, size))
  <2>1. p.size + 2 + size \in Nat
    <3>1. p.size \in Nat /\ size \in Nat
      BY <1>1, <1>2, Zenon
    <3> QED
      BY <3>1
  <2> QED
    BY <1>7, <1>8, <1>10, <2>1 DEF Packet
<1> QED
  BY <1>9, <1>10

LEMMA InitCmdTyped ==
  ASSUME hcp \in Hcp
  PROVE  InitCmd \in Packet
<1>1. hcp.buffer \in Buffer /\ <<0, 0>> \in Seq(Nat)
  BY DEF Hcp
<1>2. Write(hcp.buffer, 0, <<0, 0>>) \in Buffer
  BY <1>1, WriteTyped
<1> QED
  BY <1>2 DEF InitCmd, Packet

(* A command, after each of its arguments. *)
LEMMA CommandSteps ==
  ASSUME hcp \in Hcp, NEW f, f.args \in Seq(Argument)
  PROVE  \E c \in [0..Len(f.args) -> Packet] :
           /\ c[0] = InitCmd
           /\ \A i \in 1..Len(f.args) : c[i] = AddArg(c[i - 1], f.args[i])
           /\ Command(f) = c[Len(f.args)]
<1> DEFINE k == Len(f.args)
           base == InitCmd
           Op(packet, arg) == AddArg(packet, arg)
           step == [p \in (1..k) \X Packet |-> Op(p[2], f.args[p[1]])]
           Fixed(it) ==
             it = [s \in SUBSET (1..k) |->
                     IF s = {} THEN base ELSE Op(it[s \ {Max(s)}], f.args[Max(s)])]
           iter == CHOOSE it : Fixed(it)
           e == [i \in 0..k |-> iter[1..i]]
<1>1. k \in Nat /\ DOMAIN f.args = 1..k /\ base \in Packet
  <2>1. k \in Nat /\ DOMAIN f.args = 1..k
    OBVIOUS
  <2>2. base \in Packet
    BY InitCmdTyped
  <2> QED
    BY <2>1, <2>2
<1>2. ASSUME NEW p \in Packet, NEW i \in 1..k PROVE Op(p, f.args[i]) \in Packet
  BY AddArgTyped, ElementOfSeq
<1>3. Command(f) = iter[1..k]
  BY <1>1, Zenon DEF Command, FoldLeft, MapThenFoldSet
<1> HIDE DEF Op
<1>4. Fixed(iter)
  <2>1. step \in [(1..k) \X Packet -> Packet]
    BY <1>2
  <2>2. PICK it \in [SUBSET (1..k) -> Packet] : Folds(it, k, base, step)
    <3> HIDE DEF step, base
    <3> QED
      BY <1>1, <2>1, FoldExists
  <2>3. ASSUME NEW s \in SUBSET (1..k), s # {}
        PROVE  step[<<Max(s), it[s \ {Max(s)}]>>] = Op(it[s \ {Max(s)}], f.args[Max(s)])
    BY <1>1, <2>3, MaxOfRange
  <2>4. Fixed(it)
    BY <2>2, <2>3, Zenon DEF Folds
  <2> QED
    BY <2>4, Zenon
<1> HIDE DEF iter
<1>5. e[0] = base
  BY <1>4
<1> HIDE DEF k, base, step
<1>6. ASSUME NEW i \in 1..k PROVE e[i] = Op(e[i - 1], f.args[i])
  <2>1. i \in 0..k /\ i - 1 \in 0..k
    BY <1>1
  <2>2. /\ Max(1..i) = i /\ (1..i) \ {i} = 1..(i - 1)
        /\ 1..i \in SUBSET (1..k) /\ 1..i # {}
    BY <1>1, MaxOfRange
  <2>3. iter[1..i] = Op(iter[(1..i) \ {i}], f.args[i])
    BY <1>4, <2>2, Zenon
  <2> QED
    BY <2>1, <2>2, <2>3
<1>7. e \in [0..k -> Packet]
  <2> DEFINE typed == {n \in 0..k : e[n] \in Packet}
  <2> HIDE DEF e
  <2>1. 0 \in typed
    BY <1>1, <1>5
  <2>2. ASSUME NEW n \in 1..k, n - 1 \in typed PROVE n \in typed
    BY <1>2, <1>6, <2>2
  <2> HIDE DEF typed
  <2>3. \A n \in 0..k : n \in typed
    BY <1>1, <2>1, <2>2, InductionTo
  <2> QED
    BY <2>3 DEF typed, e
<1>8. Command(f) = e[k]
  BY <1>1, <1>3
<1> HIDE DEF e
<1> QED
  BY <1>5, <1>6, <1>7, <1>8, Zenon DEF Op, k, base

(* What bmlite_receive has stored, after each frame. *)
LEMMA StoredSteps ==
  ASSUME NEW frames \in Seq(Seq(Nat))
  PROVE  \E t \in [0..Len(frames) -> Seq(Nat)] :
           /\ t[0] = <<>>
           /\ \A i \in 1..Len(frames) :
                t[i] = IF Len(t[i - 1]) + Len(frames[i]) < PktSizeMax
                         THEN t[i - 1] \o frames[i] ELSE t[i - 1]
           /\ Stored(frames) = t[Len(frames)]
<1> DEFINE k == Len(frames)
           base == <<>>
           Op(taken, f) == IF Len(taken) + Len(f) < PktSizeMax THEN taken \o f ELSE taken
           step == [p \in (1..k) \X Seq(Nat) |-> Op(p[2], frames[p[1]])]
           Fixed(it) ==
             it = [s \in SUBSET (1..k) |->
                     IF s = {} THEN base ELSE Op(it[s \ {Max(s)}], frames[Max(s)])]
           iter == CHOOSE it : Fixed(it)
           e == [i \in 0..k |-> iter[1..i]]
<1>1. k \in Nat /\ DOMAIN frames = 1..k /\ base \in Seq(Nat)
  OBVIOUS
<1>2. ASSUME NEW p \in Seq(Nat), NEW i \in 1..k PROVE Op(p, frames[i]) \in Seq(Nat)
  <2>1. frames[i] \in Seq(Nat)
    BY ElementOfSeq
  <2> QED
    BY <2>1
<1>3. Stored(frames) = iter[1..k]
  BY <1>1, Zenon DEF Stored, FoldLeft, MapThenFoldSet
<1> HIDE DEF Op
<1>4. Fixed(iter)
  <2>1. step \in [(1..k) \X Seq(Nat) -> Seq(Nat)]
    BY <1>2
  <2>2. PICK it \in [SUBSET (1..k) -> Seq(Nat)] : Folds(it, k, base, step)
    <3> HIDE DEF step, base
    <3> QED
      BY <1>1, <2>1, FoldExists
  <2>3. ASSUME NEW s \in SUBSET (1..k), s # {}
        PROVE  step[<<Max(s), it[s \ {Max(s)}]>>] = Op(it[s \ {Max(s)}], frames[Max(s)])
    BY <1>1, <2>3, MaxOfRange
  <2>4. Fixed(it)
    BY <2>2, <2>3, Zenon DEF Folds
  <2> QED
    BY <2>4, Zenon
<1> HIDE DEF iter
<1>5. e[0] = base
  BY <1>4
<1> HIDE DEF k, base, step
<1>6. ASSUME NEW i \in 1..k PROVE e[i] = Op(e[i - 1], frames[i])
  <2>1. i \in 0..k /\ i - 1 \in 0..k
    BY <1>1
  <2>2. /\ Max(1..i) = i /\ (1..i) \ {i} = 1..(i - 1)
        /\ 1..i \in SUBSET (1..k) /\ 1..i # {}
    BY <1>1, MaxOfRange
  <2>3. iter[1..i] = Op(iter[(1..i) \ {i}], frames[i])
    BY <1>4, <2>2, Zenon
  <2> QED
    BY <2>1, <2>2, <2>3
<1>7. e \in [0..k -> Seq(Nat)]
  <2> DEFINE typed == {n \in 0..k : e[n] \in Seq(Nat)}
  <2> HIDE DEF e
  <2>1. 0 \in typed
    BY <1>1, <1>5
  <2>2. ASSUME NEW n \in 1..k, n - 1 \in typed PROVE n \in typed
    BY <1>2, <1>6, <2>2
  <2> HIDE DEF typed
  <2>3. \A n \in 0..k : n \in typed
    BY <1>1, <2>1, <2>2, InductionTo
  <2> QED
    BY <2>3 DEF typed, e
<1>8. Stored(frames) = e[k]
  BY <1>1, <1>3
<1> HIDE DEF e
<1> QED
  BY <1>5, <1>6, <1>7, <1>8, Zenon DEF Op, k, base

--------------------------------------------------------------------------------
(* What the units of a packet are.                                         *)

(* q is p, of lp units, two units h, and data, of ld units. *)
Joins(q, p, lp, h, ph, data, ld) ==
  /\ \A m \in 1..(lp + 2) : ph[m] = IF m <= lp THEN p[m] ELSE h[m - lp]
  /\ \A m \in 1..(lp + 2 + ld) : q[m] = IF m <= lp + 2 THEN ph[m] ELSE data[m - (lp + 2)]

LEMMA Joined ==
  ASSUME NEW lp \in Nat, NEW ld \in Nat, NEW p, NEW h, NEW ph, NEW data, NEW q,
         Joins(q, p, lp, h, ph, data, ld)
  PROVE  /\ \A m \in 1..lp : q[m] = p[m]
         /\ q[lp + 1] = h[1] /\ q[lp + 2] = h[2]
         /\ \A m \in 1..ld : q[lp + 2 + m] = data[m]
<1>1. ASSUME NEW m \in 1..lp PROVE q[m] = p[m]
  BY SMT DEF Joins
<1>2. q[lp + 1] = h[1] /\ q[lp + 2] = h[2]
  BY SMT DEF Joins
<1>3. ASSUME NEW m \in 1..ld PROVE q[lp + 2 + m] = data[m]
  <2>1. lp + 2 + m \in 1..(lp + 2 + ld) /\ ~(lp + 2 + m <= lp + 2)
    BY SMT
  <2>2. (lp + 2 + m) - (lp + 2) = m
    BY SMT
  <2> QED
    BY <2>1, <2>2, Zenon DEF Joins
<1> QED
  BY <1>1, <1>2, <1>3

LEMMA AppendArg ==
  ASSUME NEW p \in Seq(Nat), NEW key \in Nat, NEW n \in Nat, NEW data \in Seq(Nat)
  PROVE  LET q == p \o <<key, n>> \o data
         IN  /\ q \in Seq(Nat)
             /\ Len(q) = Len(p) + 2 + Len(data)
             /\ \A m \in 1..Len(p) : q[m] = p[m]
             /\ q[Len(p) + 1] = key
             /\ q[Len(p) + 2] = n
             /\ \A m \in 1..Len(data) : q[Len(p) + 2 + m] = data[m]
<1> DEFINE h == <<key, n>>  ph == p \o h  q == ph \o data
<1>1. h \in Seq(Nat) /\ Len(h) = 2 /\ h[1] = key /\ h[2] = n
  OBVIOUS
<1>2. Len(p) \in Nat /\ Len(data) \in Nat
  OBVIOUS
<1> HIDE DEF h
<1>3. /\ ph \in Seq(Nat) /\ Len(ph) = Len(p) + Len(h)
      /\ \A m \in 1..(Len(p) + Len(h)) : ph[m] = IF m <= Len(p) THEN p[m] ELSE h[m - Len(p)]
  BY <1>1, ConcatProperties, Zenon
<1>4a. ph \in Seq(Nat)
  BY <1>3
<1> HIDE DEF ph
<1>4. /\ q \in Seq(Nat) /\ Len(q) = Len(ph) + Len(data)
      /\ \A m \in 1..(Len(ph) + Len(data)) :
           q[m] = IF m <= Len(ph) THEN ph[m] ELSE data[m - Len(ph)]
  BY <1>4a, ConcatProperties, Zenon
<1> HIDE DEF q
<1>5. Len(ph) = Len(p) + 2
  BY <1>1, <1>3, Zenon
<1>6. /\ \A m \in 1..Len(p) : q[m] = p[m]
      /\ q[Len(p) + 1] = h[1] /\ q[Len(p) + 2] = h[2]
      /\ \A m \in 1..Len(data) : q[Len(p) + 2 + m] = data[m]
  <2>1. \A m \in 1..(Len(p) + 2) : ph[m] = IF m <= Len(p) THEN p[m] ELSE h[m - Len(p)]
    BY <1>1, <1>3, Zenon
  <2>2. \A m \in 1..(Len(p) + 2 + Len(data)) :
          q[m] = IF m <= Len(p) + 2 THEN ph[m] ELSE data[m - (Len(p) + 2)]
    BY <1>4, <1>5, Zenon
  <2>3. Joins(q, p, Len(p), h, ph, data, Len(data))
    BY <2>1, <2>2, Zenon DEF Joins
  <2> QED
    BY <1>2, <2>3, Joined
<1>7. q \in Seq(Nat) /\ Len(q) = Len(p) + 2 + Len(data)
  BY <1>4, <1>5, Zenon
<1> QED
  BY <1>1, <1>6, <1>7, Zenon DEF q, ph, h

(* The i-th argument of a packet, where it begins and what is there. *)
HasArg(e, args, i) ==
  /\ Len(e[i - 1]) \in Nat /\ args[i].key \in Nat /\ args[i].data \in Seq(Nat)
  /\ Len(e[i]) = Len(e[i - 1]) + 2 + Len(args[i].data)
  /\ \A m \in 1..Len(e[i - 1]) : e[i][m] = e[i - 1][m]
  /\ e[i][Len(e[i - 1]) + 1] = args[i].key
  /\ e[i][Len(e[i - 1]) + 2] = Len(args[i].data)
  /\ \A m \in 1..Len(args[i].data) : e[i][Len(e[i - 1]) + 2 + m] = args[i].data[m]

LEMMA EncodeContent ==
  ASSUME NEW args \in Seq(Argument), NEW e, Encodes(e, args)
  PROVE  /\ e[0] = <<0, Len(args)>> /\ Len(e[0]) = 2
         /\ \A i \in 0..Len(args) : e[i] \in Seq(Nat)
         /\ \A i \in 1..Len(args) : HasArg(e, args, i)
<1>1. Len(args) \in Nat /\ DOMAIN args = 1..Len(args)
  OBVIOUS
<1>2. /\ \A i \in 0..Len(args) : e[i] \in Seq(Nat)
      /\ e[0] = <<0, Len(args)>>
      /\ \A i \in 1..Len(args) :
           e[i] = e[i - 1] \o <<args[i].key, Len(args[i].data)>> \o args[i].data
  BY DEF Encodes
<1>3. e[0] = <<0, Len(args)>> /\ Len(e[0]) = 2
  BY <1>1, <1>2
<1>4. ASSUME NEW i \in 1..Len(args)
      PROVE  /\ e[i] \in Seq(Nat) /\ e[i - 1] \in Seq(Nat)
             /\ args[i].key \in Nat /\ args[i].data \in Seq(Nat)
  <2>1. i \in 0..Len(args) /\ i - 1 \in 0..Len(args)
    BY <1>1
  <2>2. args[i] \in Argument
    BY ElementOfSeq
  <2>3. args[i].key \in Nat /\ args[i].data \in Seq(Nat)
    BY <2>2 DEF Argument
  <2> QED
    BY <1>2, <2>1, <2>3
<1>5. ASSUME NEW i \in 1..Len(args)
      PROVE  /\ Len(e[i - 1]) \in Nat
             /\ Len(e[i]) = Len(e[i - 1]) + 2 + Len(args[i].data)
             /\ \A m \in 1..Len(e[i - 1]) : e[i][m] = e[i - 1][m]
             /\ e[i][Len(e[i - 1]) + 1] = args[i].key
             /\ e[i][Len(e[i - 1]) + 2] = Len(args[i].data)
             /\ \A m \in 1..Len(args[i].data) : e[i][Len(e[i - 1]) + 2 + m] = args[i].data[m]
  <2>1. e[i - 1] \in Seq(Nat) /\ args[i].key \in Nat /\ args[i].data \in Seq(Nat)
    BY <1>4
  <2>2. Len(args[i].data) \in Nat /\ Len(e[i - 1]) \in Nat
    BY <2>1, LenProperties
  <2>3. e[i] = e[i - 1] \o <<args[i].key, Len(args[i].data)>> \o args[i].data
    BY <1>2
  <2> DEFINE p == e[i - 1]  key == args[i].key  data == args[i].data  n == Len(data)
  <2>4. p \in Seq(Nat) /\ key \in Nat /\ n \in Nat /\ data \in Seq(Nat)
    BY <2>1, <2>2
  <2> HIDE DEF p, key, data, n
  <2>5. LET q == p \o <<key, n>> \o data
        IN  /\ q \in Seq(Nat)
            /\ Len(q) = Len(p) + 2 + Len(data)
            /\ \A m \in 1..Len(p) : q[m] = p[m]
            /\ q[Len(p) + 1] = key
            /\ q[Len(p) + 2] = n
            /\ \A m \in 1..Len(data) : q[Len(p) + 2 + m] = data[m]
    BY <2>4, AppendArg
  <2> QED
    BY <2>2, <2>3, <2>5, Zenon DEF p, key, data, n
<1> QED
  BY <1>2, <1>3, <1>4, <1>5, Zenon DEF HasArg

(* Each of these functions extends the one before; len is where they end. *)
Extends(e, len, k) ==
  \A n \in 1..k : /\ len[n - 1] \in Nat /\ len[n] \in Nat /\ len[n - 1] <= len[n]
                  /\ \A m \in 1..len[n - 1] : e[n][m] = e[n - 1][m]

LEMMA ExtendsAll ==
  ASSUME NEW k \in Nat, NEW e, NEW len, Extends(e, len, k), len[0] \in Nat,
         NEW i \in 0..k
  PROVE  /\ len[i] \in Nat /\ len[0] <= len[i] /\ len[i] <= len[k]
         /\ \A m \in 1..len[i] : e[k][m] = e[i][m]
<1> DEFINE P(n, j) == /\ len[j] \in Nat /\ len[n] \in Nat /\ len[n] <= len[j]
                      /\ \A m \in 1..len[n] : e[j][m] = e[n][m]
           good == {j \in 0..k : \A n \in 0..j : P(n, j)}
<1>1. 0 \in good
  OBVIOUS
<1>2. ASSUME NEW j \in 1..k, j - 1 \in good PROVE j \in good
  <2>1. ASSUME NEW n \in 0..j PROVE P(n, j)
    <3>1. CASE n = j
      BY <3>1 DEF Extends
    <3>2. CASE n # j
      <4>1. n \in 0..(j - 1)
        BY <3>2
      <4>2. P(n, j - 1)
        BY <1>2, <4>1
      <4> QED
        BY <4>2 DEF Extends
    <3> QED
      BY <3>1, <3>2
  <2> HIDE DEF P
  <2> QED
    BY <2>1
<1> HIDE DEF good
<1>3. k \in good
  BY <1>1, <1>2, InductionTo
<1>4. i \in good
  BY <1>1, <1>2, InductionTo
<1>5. P(i, k) /\ P(0, i)
  BY <1>3, <1>4 DEF good
<1> QED
  BY <1>5

(* Later arguments do not touch the earlier ones. *)
LEMMA EncodePrefix ==
  ASSUME NEW args \in Seq(Argument), NEW e, Encodes(e, args),
         NEW i \in 0..Len(args)
  PROVE  /\ Len(e[i]) \in Nat /\ 2 <= Len(e[i]) /\ Len(e[i]) <= Len(Encode(args))
         /\ \A m \in 1..Len(e[i]) : Encode(args)[m] = e[i][m]
<1> DEFINE k == Len(args)  len == [n \in 0..k |-> Len(e[n])]
<1>1. k \in Nat
  OBVIOUS
<1>2. Len(e[0]) = 2
  BY EncodeContent, Zenon
<1>3. ASSUME NEW n \in 1..k
      PROVE  /\ Len(e[n - 1]) \in Nat /\ Len(e[n]) \in Nat /\ Len(e[n - 1]) <= Len(e[n])
             /\ \A m \in 1..Len(e[n - 1]) : e[n][m] = e[n - 1][m]
  <2>1. /\ Len(e[n - 1]) \in Nat /\ args[n].data \in Seq(Nat)
        /\ Len(e[n]) = Len(e[n - 1]) + 2 + Len(args[n].data)
        /\ \A m \in 1..Len(e[n - 1]) : e[n][m] = e[n - 1][m]
    <3>1. HasArg(e, args, n)
      BY EncodeContent, Zenon
    <3> QED
      BY <3>1 DEF HasArg
  <2>2. Len(args[n].data) \in Nat
    BY <2>1, LenProperties
  <2> DEFINE a == Len(e[n - 1])  b == Len(e[n])  d == Len(args[n].data)
  <2> HIDE DEF a, b, d
  <2>3. a \in Nat /\ d \in Nat /\ b = a + 2 + d
    BY <2>1, <2>2, Zenon DEF a, b, d
  <2>4. b \in Nat /\ a <= b
    BY <2>3
  <2> QED
    BY <2>1, <2>4, Zenon DEF a, b
<1> HIDE DEF k
<1>4. \A n \in 0..k : len[n] = Len(e[n])
  OBVIOUS
<1>5. \A n \in 1..k : n \in 0..k /\ n - 1 \in 0..k
  BY <1>1
<1> HIDE DEF len
<1>6. Extends(e, len, k)
  BY <1>3, <1>4, <1>5, Zenon DEF Extends
<1>7. 0 \in 0..k /\ k \in 0..k /\ i \in 0..k
  BY <1>1 DEF k
<1>8. len[0] = 2 /\ len[i] = Len(e[i]) /\ len[k] = Len(e[k])
  BY <1>2, <1>4, <1>7
<1>9. /\ len[i] \in Nat /\ len[0] <= len[i] /\ len[i] <= len[k]
      /\ \A m \in 1..len[i] : e[k][m] = e[i][m]
  <2>1. len[0] \in Nat
    BY <1>8
  <2> QED
    BY <1>1, <1>6, <1>7, <2>1, ExtendsAll
<1>10. Encode(args) = e[k]
  BY DEF Encodes, k
<1> QED
  BY <1>8, <1>9, <1>10, Zenon

--------------------------------------------------------------------------------
(* The command is the request.                                             *)

(* The buffer of a command of size units, then with n + 2 more. *)
Added(c, counted, b, one, units, size, n, top) ==
  /\ size >= 2 /\ size + 2 + n <= top
  /\ Overlay(counted, b, 1, one, 1, top) /\ Overlay(c, counted, size, units, 2 + n, top)

Lengthened(c, b, one, units, size, n) ==
  /\ c[0] = b[0] /\ c[1] = one[1]
  /\ \A m \in 2..(size - 1) : c[m] = b[m]
  /\ c[size] = units[1] /\ c[size + 1] = units[2]
  /\ \A m \in 1..n : c[size + 1 + m] = units[2 + m]

LEMMA AddedUnits ==
  ASSUME NEW top \in Nat, NEW size \in Nat, NEW n \in Nat,
         NEW b, NEW one, NEW counted, NEW units, NEW c,
         Added(c, counted, b, one, units, size, n, top)
  PROVE  Lengthened(c, b, one, units, size, n)
<1>1. /\ c[0] = counted[0] /\ c[1] = counted[1]
      /\ \A m \in 2..(size - 1) : c[m] = counted[m]
  BY DEF Added, Overlay
<1>2. c[size] = units[1] /\ c[size + 1] = units[2]
  BY DEF Added, Overlay
<1>3. ASSUME NEW m \in 1..n PROVE c[size + 1 + m] = units[2 + m]
  <2>1. /\ size + 1 + m \in 0..top
        /\ size <= size + 1 + m /\ size + 1 + m < size + (2 + n)
        /\ (size + 1 + m) - size + 1 = 2 + m
    BY DEF Added
  <2> QED
    BY <2>1, Zenon DEF Added, Overlay
<1>4. /\ counted[0] = b[0] /\ counted[1] = one[1]
      /\ \A m \in 2..(size - 1) : counted[m] = b[m]
  BY DEF Added, Overlay
<1> QED
  BY <1>1, <1>2, <1>3, <1>4 DEF Lengthened

(* The n units of an argument whose size is not cut. *)
Whole(arg, n) == n = Len(arg.data) /\ n < W

(* The packet q has an argument of n units more than p, or no room for it. *)
Adds(q, p, arg, n) ==
  /\ q.full <=> p.size + 2 + n > PktSizeMax
  /\ ~q.full =>
       /\ q.size = p.size + 2 + n
       /\ q.buffer[0] = p.buffer[0] /\ q.buffer[1] = p.buffer[1] + 1
       /\ \A m \in 2..(p.size - 1) : q.buffer[m] = p.buffer[m]
       /\ q.buffer[p.size] = arg.key /\ q.buffer[p.size + 1] = n
       /\ \A m \in 1..n : q.buffer[p.size + 1 + m] = arg.data[m]

LEMMA AddArgContent ==
  ASSUME NEW p \in Packet, NEW arg \in Argument, NEW n \in Nat, Whole(arg, n),
         ~p.full, p.size >= 2
  PROVE  Adds(AddArg(p, arg), p, arg, n)
<1> DEFINE one == <<p.buffer[1] + 1>>
           counted == Write(p.buffer, 1, one)
           units == <<arg.key, n>> \o arg.data
           c == Write(counted, p.size, units)
           q == AddArg(p, arg)
           top == PktSizeMax + 1
<1>1. /\ p.buffer \in Buffer /\ p.size \in Nat
      /\ arg.key \in Nat /\ arg.data \in Seq(Nat)
  BY DEF Packet, Argument
<1>2. n % W = n
  BY ConstantsTyped, Modulo DEF Whole
<1>3. SubSeq(arg.data, 1, n) = arg.data
  BY <1>1, SubSeqFull DEF Whole
<1>4. q = IF NoRoom(p, n) THEN [p EXCEPT !.full = TRUE]
          ELSE [p EXCEPT !.buffer = c, !.size = @ + 2 + n]
  BY <1>2, <1>3 DEF AddArg, Whole
<1>5. /\ one \in Seq(Nat) /\ Len(one) = 1 /\ one[1] = p.buffer[1] + 1
  <2>1. p.buffer[1] \in Nat
    BY <1>1, ConstantsTyped DEF Buffer
  <2> QED
    BY <2>1
<1> HIDE DEF one
<1>6. counted \in Buffer /\ Overlay(counted, p.buffer, 1, one, 1, top)
  BY <1>1, <1>5, WriteTyped
<1> HIDE DEF counted
<1>7. /\ units \in Seq(Nat) /\ Len(units) = 2 + n
      /\ units[1] = arg.key /\ units[2] = n
      /\ \A m \in 1..n : units[2 + m] = arg.data[m]
  <2> DEFINE u == <<>> \o <<arg.key, n>> \o arg.data
  <2>1. /\ u \in Seq(Nat) /\ Len(u) = Len(<<>>) + 2 + n
        /\ u[Len(<<>>) + 1] = arg.key /\ u[Len(<<>>) + 2] = n
        /\ \A m \in 1..n : u[Len(<<>>) + 2 + m] = arg.data[m]
    <3>1. <<>> \in Seq(Nat)
      OBVIOUS
    <3> QED
      BY <1>1, <3>1, AppendArg DEF Whole
  <2>2. u = units
    <3>1. <<arg.key, n>> \in Seq(Nat)
      BY <1>1
    <3> HIDE DEF units
    <3>2. <<>> \o <<arg.key, n>> = <<arg.key, n>>
      BY <3>1, ConcatEmptySeq
    <3> QED
      BY <3>2 DEF units
  <2>3. Len(<<>>) = 0
    OBVIOUS
  <2> HIDE DEF u, units
  <2> QED
    BY <2>1, <2>2, <2>3
<1> HIDE DEF units
<1>8. Overlay(c, counted, p.size, units, 2 + n, top)
  BY <1>1, <1>6, <1>7, WriteTyped
<1> HIDE DEF c
<1>9. NoRoom(p, n) <=> p.size + 2 + n > PktSizeMax
  BY DEF NoRoom
<1>10. CASE NoRoom(p, n)
  <2>1. q.full
    BY <1>4, <1>10 DEF Packet
  <2> HIDE DEF q
  <2>2. Adds(q, p, arg, n)
    BY <1>9, <1>10, <2>1, Zenon DEF Adds
  <2> QED
    BY <2>2 DEF q
<1>11. CASE ~NoRoom(p, n)
  <2>1. q.full = p.full /\ q.size = p.size + 2 + n /\ q.buffer = c
    BY <1>4, <1>11 DEF Packet
  <2>2. p.size \in Nat /\ top \in Nat /\ p.size + 2 + n <= top
    <3>1. p.size \in Nat
      BY <1>1
    <3> QED
      BY <1>9, <1>11, <3>1, ConstantsTyped
  <2> HIDE DEF top
  <2>3. Lengthened(c, p.buffer, one, units, p.size, n)
    <3>1. Added(c, counted, p.buffer, one, units, p.size, n, top)
      BY <1>6, <1>8, <2>2, Zenon DEF Added
    <3> QED
      BY <2>2, <3>1, AddedUnits, Zenon
  <2> HIDE DEF q
  <2>4. Adds(q, p, arg, n)
    BY <1>5, <1>7, <1>9, <1>11, <2>1, <2>3, Zenon DEF Lengthened, Adds
  <2> QED
    BY <2>4 DEF q
<1> QED
  BY <1>10, <1>11, Zenon

(* The first l units of a buffer, but for its counter of arguments. *)
Same(b, units, l) == \A m \in 2..(l - 1) : b[m] = units[m + 1]

(* Both the buffer b and the units u get an argument more. *)
BothGrow(b, c, u, v, key, data, l, n) ==
  /\ l >= 2
  /\ Same(b, u, l)
  /\ \A m \in 2..(l - 1) : c[m] = b[m]
  /\ c[l] = key /\ c[l + 1] = n
  /\ \A m \in 1..n : c[l + 1 + m] = data[m]
  /\ \A m \in 1..l : v[m] = u[m]
  /\ v[l + 1] = key /\ v[l + 2] = n
  /\ \A m \in 1..n : v[l + 2 + m] = data[m]

LEMMA StillEqual ==
  ASSUME NEW l \in Nat, NEW n \in Nat, NEW b, NEW c, NEW u, NEW v, NEW key, NEW data,
         BothGrow(b, c, u, v, key, data, l, n)
  PROVE  Same(c, v, l + 2 + n)
<1> SUFFICES ASSUME NEW m \in 2..(l + 2 + n - 1) PROVE c[m] = v[m + 1]
  BY DEF Same
<1>1. CASE m < l
  BY <1>1 DEF BothGrow, Same
<1>2. CASE m = l \/ m = l + 1
  BY <1>2 DEF BothGrow
<1>3. CASE m > l + 1
  <2>1. m - l - 1 \in 1..n /\ l + 1 + (m - l - 1) = m /\ l + 2 + (m - l - 1) = m + 1
    BY <1>3 DEF BothGrow
  <2>2. c[l + 1 + (m - l - 1)] = data[m - l - 1]
    BY <2>1, Zenon DEF BothGrow
  <2>3. v[l + 2 + (m - l - 1)] = data[m - l - 1]
    BY <2>1, Zenon DEF BothGrow
  <2> QED
    BY <2>1, <2>2, <2>3
<1> QED
  BY <1>1, <1>2, <1>3

(* A command of i arguments that is encoded by l units. *)
Carries(p, units, i, l) ==
  /\ p \in Packet /\ ~p.full /\ p.size = l
  /\ p.buffer[0] = 0 /\ p.buffer[1] = i
  /\ Same(p.buffer, units, l)

(* What there is of a command after an argument. *)
Step(p, units, i, l) ==
  /\ p.full <=> l > PktSizeMax
  /\ ~p.full => Carries(p, units, i, l)

LEMMA CarriesMore ==
  ASSUME NEW args \in Seq(Argument), NEW e, Encodes(e, args), NEW i \in 1..Len(args),
         NEW p, NEW l \in Nat, NEW n \in Nat, l >= 2, l = Len(e[i - 1]),
         Whole(args[i], n), Carries(p, e[i - 1], i - 1, l),
         NEW q, q = AddArg(p, args[i])
  PROVE  Step(q, e[i], i, l + 2 + n)
<1>1. args[i] \in Argument
  BY ElementOfSeq
<1>2. p \in Packet /\ ~p.full /\ p.size = l
  BY DEF Carries
<1>3. q \in Packet
  BY <1>1, <1>2, AddArgTyped
<1>4. Adds(q, p, args[i], n)
  <2>1. p.size >= 2
    BY <1>2, Zenon
  <2>2. Adds(AddArg(p, args[i]), p, args[i], n)
    BY <1>1, <1>2, <2>1, AddArgContent, Zenon
  <2> QED
    BY <2>2, Zenon
<1>5. CASE q.full
  BY <1>2, <1>4, <1>5, Zenon DEF Adds, Step
<1>6. CASE ~q.full
  <2>1. HasArg(e, args, i)
    BY EncodeContent, Zenon
  <2>2. BothGrow(p.buffer, q.buffer, e[i - 1], e[i], args[i].key, args[i].data, l, n)
    BY <1>2, <1>4, <1>6, <2>1, Zenon DEF HasArg, Carries, Adds, BothGrow, Whole
  <2>3. Same(q.buffer, e[i], l + 2 + n)
    BY <2>2, StillEqual, Zenon
  <2>4. q.buffer[0] = 0 /\ q.buffer[1] = i
    <3>1. q.buffer[0] = 0 /\ q.buffer[1] = (i - 1) + 1
      BY <1>4, <1>6, Zenon DEF Carries, Adds
    <3>2. (i - 1) + 1 = i
      OBVIOUS
    <3> QED
      BY <3>1, <3>2, Zenon
  <2>5. Carries(q, e[i], i, l + 2 + n)
    <3>1. q.size = l + 2 + n
      BY <1>2, <1>4, <1>6 DEF Adds
    <3> QED
      BY <1>3, <1>6, <2>3, <2>4, <3>1, Zenon DEF Carries
  <2> QED
    BY <1>2, <1>4, <2>5, Zenon DEF Adds, Step
<1> QED
  BY <1>5, <1>6, Zenon

(* A command has all of its arguments, or is refused for want of room. *)
LEMMA CommandContent ==
  ASSUME hcp \in Hcp, NEW f, f.args \in Seq(Argument),
         \A i \in 1..Len(f.args) : Len(f.args[i].data) < W
  PROVE  /\ Command(f).full <=> Len(Encode(f.args)) > PktSizeMax
         /\ ~Command(f).full => Sent(f) = Encode(f.args)
<1> DEFINE args == f.args  k == Len(args)
<1>1. k \in Nat
  OBVIOUS
<1>2. PICK c \in [0..k -> Packet] :
        /\ c[0] = InitCmd
        /\ \A i \in 1..k : c[i] = AddArg(c[i - 1], args[i])
        /\ Command(f) = c[k]
  BY CommandSteps
<1>3. PICK e : Encodes(e, args)
  BY EncodeSteps
<1> DEFINE Inv(i) ==
             /\ Len(e[i]) > PktSizeMax => c[i].full
             /\ ~(Len(e[i]) > PktSizeMax) => Carries(c[i], e[i], i, Len(e[i]))
           good == {i \in 0..k : Inv(i)}
<1>4. 0 \in good
  <2>1. Len(e[0]) = 2
    BY <1>3, EncodeContent, Zenon
  <2>2. Carries(InitCmd, e[0], 0, 2)
    <3> DEFINE zeros == <<0, 0>>  b == Write(hcp.buffer, 0, zeros)
    <3>1. zeros \in Seq(Nat) /\ Len(zeros) = 2 /\ zeros[1] = 0 /\ zeros[2] = 0
      OBVIOUS
    <3>2. hcp.buffer \in Buffer
      BY DEF Hcp
    <3> HIDE DEF zeros
    <3>3. Overlay(b, hcp.buffer, 0, zeros, 2, PktSizeMax + 1)
      BY <3>1, <3>2, WriteTyped
    <3> HIDE DEF b
    <3>4. b[0] = 0 /\ b[1] = 0
      BY <3>1, <3>3, ConstantsTyped DEF Overlay
    <3>5. InitCmd.buffer = b /\ InitCmd.size = 2 /\ ~InitCmd.full
      BY DEF InitCmd, b, zeros
    <3>6. InitCmd \in Packet
      BY InitCmdTyped
    <3> QED
      BY <3>4, <3>5, <3>6 DEF Carries, Same
  <2>3. ~(2 > PktSizeMax)
    BY ConstantsTyped
  <2>4. 0 \in 0..k
    BY <1>1
  <2> QED
    BY <1>2, <2>1, <2>2, <2>3, <2>4, Zenon
<1>5. ASSUME NEW i \in 1..k, i - 1 \in good PROVE i \in good
  <2>1. PICK l \in Nat : l = Len(e[i - 1]) /\ l >= 2
    BY <1>1, <1>3, EncodePrefix
  <2>2. PICK n \in Nat : Whole(args[i], n) /\ Len(e[i]) = l + 2 + n
    <3>1. HasArg(e, args, i)
      BY <1>3, EncodeContent, Zenon
    <3>2. Len(args[i].data) \in Nat
      BY <3>1, LenProperties DEF HasArg
    <3> QED
      BY <2>1, <3>1, <3>2, Zenon DEF HasArg, Whole
  <2>3. /\ l > PktSizeMax => c[i - 1].full
        /\ ~(l > PktSizeMax) => Carries(c[i - 1], e[i - 1], i - 1, l)
    BY <1>5, <2>1, Zenon
  <2>4. c[i] = AddArg(c[i - 1], args[i])
    BY <1>2
  <2> HIDE DEF k, args
  <2>5. ASSUME l > PktSizeMax PROVE Inv(i)
    <3>1. c[i].full
      <4>1. c[i - 1] \in Packet /\ c[i - 1].full
        <5>1. i - 1 \in 0..k
          BY <1>1
        <5> QED
          BY <1>2, <2>3, <2>5, <5>1, Zenon
      <4> QED
        BY <2>4, <4>1 DEF AddArg, Packet
    <3>2. l + 2 + n > PktSizeMax
      BY <2>5, ConstantsTyped
    <3> QED
      BY <2>2, <3>1, <3>2, Zenon
  <2>6. ASSUME ~(l > PktSizeMax) PROVE Inv(i)
    <3>1. Step(c[i], e[i], i, l + 2 + n)
      <4>1. args \in Seq(Argument) /\ i \in 1..Len(args)
        BY DEF args, k
      <4>2. Carries(c[i - 1], e[i - 1], i - 1, l)
        BY <2>3, <2>6
      <4> QED
        BY <1>3, <2>1, <2>2, <2>4, <4>1, <4>2, CarriesMore, Zenon
    <3> QED
      BY <2>2, <3>1, Zenon DEF Step
  <2>7. Inv(i)
    BY <2>5, <2>6, Zenon
  <2>8. i \in 0..k
    BY <1>1
  <2> QED
    BY <2>7, <2>8
<1> HIDE DEF good, k, args
<1>6. k \in good
  <2>1. \A n \in 0..k : n \in good
    BY <1>1, <1>4, <1>5, InductionTo
  <2> QED
    BY <1>1, <2>1
<1>7. Inv(k) /\ Encode(args) = e[k]
  BY <1>3, <1>6 DEF good, Encodes, k
<1>8. Command(f).full <=> Len(Encode(args)) > PktSizeMax
  BY <1>2, <1>7, Zenon DEF Carries
<1>9. ASSUME ~Command(f).full PROVE Sent(f) = Encode(args)
  <2> DEFINE u == Encode(args)  p == Command(f)
  <2>1. Carries(p, u, k, Len(u))
    BY <1>2, <1>7, <1>8, <1>9, Zenon
  <2>2. u \in Seq(Nat) /\ Len(u) \in Nat /\ u[1] = 0 /\ u[2] = k /\ Len(u) >= 2
    <3>1. e[k] \in Seq(Nat) /\ e[0] = <<0, k>> /\ Len(e[0]) = 2
      BY <1>1, <1>3, EncodeContent DEF k
    <3>2. Len(e[0]) <= Len(e[k]) /\ \A m \in 1..Len(e[0]) : u[m] = e[0][m]
      BY <1>1, <1>3, <1>7, EncodePrefix DEF k
    <3>3. u[1] = 0 /\ u[2] = k
      BY <3>1, <3>2
    <3>4. u \in Seq(Nat)
      BY <1>7, <3>1
    <3> HIDE DEF u
    <3>5. Len(u) \in Nat
      BY <3>4, LenProperties
    <3>6. Len(u) >= 2
      BY <1>7, <3>1, <3>2, <3>5 DEF u
    <3> QED
      BY <3>3, <3>4, <3>5, <3>6
  <2>3. p.size = Len(u) /\ DOMAIN p.buffer = 0..(PktSizeMax + 1)
    BY <2>1 DEF Carries, Packet, Buffer
  <2>4. Len(u) <= PktSizeMax
    BY <1>8, <1>9, <2>2, ConstantsTyped
  <2> HIDE DEF u, p
  <2>5. ASSUME NEW m \in 1..Len(u)
        PROVE  m - 1 \in DOMAIN p.buffer /\ p.buffer[m - 1] = u[m]
    BY <2>1, <2>2, <2>3, <2>4, ConstantsTyped DEF Carries, Same
  <2>6. Sent(f) = [m \in 1..Len(u) |-> u[m]]
    BY <2>2, <2>3, <2>5 DEF Sent, Read, p
  <2>7. u = [m \in 1..Len(u) |-> u[m]]
    BY <2>2, LenProperties
  <2> QED
    BY <2>6, <2>7, Zenon DEF u
<1> QED
  BY <1>8, <1>9, Zenon DEF args

--------------------------------------------------------------------------------
(* What is stored of an answer.                                            *)

(* The number of frames of l units, and where they end. *)
FramesOf(l) == (l + FrameUnits - 1) \div FrameUnits

End(i, l) == IF i * FrameUnits <= l THEN i * FrameUnits ELSE l

LEMMA FrameEnds ==
  ASSUME NEW l \in Nat
  PROVE  /\ FramesOf(l) \in Nat
         /\ End(0, l) = 0 /\ End(FramesOf(l), l) = l
         /\ \A i \in 0..FramesOf(l) : End(i, l) \in 0..l
         /\ \A i \in 1..FramesOf(l) : /\ End(i - 1, l) = (i - 1) * FrameUnits
                                      /\ End(i - 1, l) < End(i, l)
<1> DEFINE n == FramesOf(l)  F == FrameUnits
<1>1. F \in Nat \ {0}
  BY ConstantsTyped
<1>2. n \in Nat /\ n * F <= l + F - 1 /\ l + F - 1 < n * F + F
  BY <1>1, Z3 DEF FramesOf
<1> HIDE DEF F, n
<1>3. n * F \in Nat /\ n * F >= l
  BY <1>1, <1>2
<1>4. ASSUME NEW i \in Nat PROVE i * F \in Nat
  BY <1>1
<1>5. ASSUME NEW i \in 1..n
      PROVE  (i - 1) * F \in Nat /\ (i - 1) * F < l /\ (i - 1) * F < i * F /\ i * F \in Nat
  <2>1. i * F \in Nat /\ (i - 1) * F = i * F - F
    BY <1>1, <1>2, Z3
  <2>2. i * F <= n * F
    BY <1>1, <1>2, Z3
  <2>3. i \in Nat /\ i - 1 \in Nat
    BY <1>2
  <2>4. (i - 1) * F \in Nat
    BY <1>4, <2>3
  <2> HIDE DEF F
  <2> QED
    BY <1>1, <1>2, <2>1, <2>2, <2>4
<1>6. 0 * F = 0
  BY <1>1
<1> QED
  BY <1>2, <1>3, <1>4, <1>5, <1>6 DEF End, F, n

LEMMA Shift ==
  ASSUME NEW a \in Nat, NEW b \in Nat, a < b
  PROVE  /\ a + 1 <= b /\ b - (a + 1) + 1 = b - a
         /\ \A m \in 1..(b - a) : a + 1 + m - 1 = a + m
  OBVIOUS

(* f is what p has behind a until b. *)
IsPart(f, p, a, b) == Len(f) = b - a /\ \A m \in 1..(b - a) : f[m] = p[a + m]

(* The frames of a packet, one after the other. *)
LEMMA FramesTyped ==
  ASSUME NEW p \in Seq(Nat), NEW l \in Nat, l = Len(p)
  PROVE  /\ Frames(p) \in Seq(Seq(Nat)) /\ Len(Frames(p)) = FramesOf(l)
         /\ \A i \in 1..FramesOf(l) : IsPart(Frames(p)[i], p, End(i - 1, l), End(i, l))
<1> DEFINE n == FramesOf(l)
           part(i) == SubSeq(p, (i - 1) * FrameUnits + 1, Min({i * FrameUnits, l}))
<1>1. n \in Nat
  BY FrameEnds
<1>2. Frames(p) = [i \in 1..n |-> part(i)]
  BY DEF Frames, FramesOf
<1>3. ASSUME NEW i \in 1..n
      PROVE  part(i) \in Seq(Nat) /\ IsPart(part(i), p, End(i - 1, l), End(i, l))
  <2> DEFINE a == End(i - 1, l)  b == End(i, l)
  <2>1. a = (i - 1) * FrameUnits /\ a < b
    BY FrameEnds
  <2>2. a \in Nat /\ b \in 0..l
    <3>1. i \in 0..n /\ i - 1 \in 0..n
      BY <1>1
    <3> QED
      BY <3>1, FrameEnds
  <2>3. Min({i * FrameUnits, l}) = b
    <3>1. i * FrameUnits \in Int
      BY <1>1, ConstantsTyped
    <3> QED
      BY <3>1, Least DEF End
  <2>4. part(i) = SubSeq(p, a + 1, b)
    BY <2>1, <2>3, Zenon
  <2> HIDE DEF part, a, b
  <2>5. /\ SubSeq(p, a + 1, b) \in Seq(Nat)
        /\ Len(SubSeq(p, a + 1, b)) = IF a + 1 <= b THEN b - (a + 1) + 1 ELSE 0
        /\ \A m \in 1..(b - (a + 1) + 1) : SubSeq(p, a + 1, b)[m] = p[a + 1 + m - 1]
    <3>1. a + 1 \in Nat \ {0} /\ b \in 0..Len(p)
      BY <2>2
    <3> QED
      BY <3>1, PrefixTyped, Zenon
  <2>6. /\ a + 1 <= b /\ b - (a + 1) + 1 = b - a
        /\ \A m \in 1..(b - a) : a + 1 + m - 1 = a + m
    <3>1. b \in Nat
      BY <2>2
    <3> QED
      BY <2>1, <2>2, <3>1, Shift, Zenon
  <2> QED
    BY <2>4, <2>5, <2>6, Zenon DEF a, b, IsPart
<1> HIDE DEF n, part
<1>4. Frames(p) \in Seq(Seq(Nat)) /\ Len(Frames(p)) = n
  BY <1>1, <1>2, <1>3
<1>5. \A i \in 1..n : Frames(p)[i] = part(i)
  BY <1>2
<1> QED
  BY <1>3, <1>4, <1>5, Zenon DEF n

(* t is at most the first c elements of p, and if it is as long it is them. *)
Begins(t, lt, p, c) == lt <= c /\ (lt = c => \A m \in 1..c : t[m] = p[m])

(* The next d elements of p are appended to t, of lt elements. *)
Appended(u, t, lt, f, p, c, d) ==
  /\ \A m \in 1..d : f[m] = p[c + m]
  /\ \A m \in 1..(lt + d) : u[m] = IF m <= lt THEN t[m] ELSE f[m - lt]

LEMMA BeginsMore ==
  ASSUME NEW t, NEW u, NEW f, NEW p, NEW lt \in Nat, NEW c \in Nat, NEW d \in Nat,
         Begins(t, lt, p, c), Appended(u, t, lt, f, p, c, d)
  PROVE  Begins(u, lt + d, p, c + d)
<1> SUFFICES ASSUME lt = c, NEW m \in 1..(c + d) PROVE u[m] = p[m]
  BY DEF Begins
<1>1. CASE m <= c
  BY <1>1 DEF Begins, Appended
<1>2. CASE m > c
  <2>1. m - c \in 1..d /\ c + (m - c) = m /\ ~(m <= lt)
    BY <1>2
  <2>2. u[m] = f[m - c] /\ f[m - c] = p[c + (m - c)]
    BY <2>1, Zenon DEF Appended
  <2> QED
    BY <2>1, <2>2
<1> QED
  BY <1>1, <1>2

(* One frame more of the packet p is taken, or for want of room it is not. *)
Taken(t, f, u) ==
  u = IF Len(t) + Len(f) < PktSizeMax THEN t \o f ELSE t

LEMMA TakenTyped ==
  ASSUME NEW t \in Seq(Nat), NEW f \in Seq(Nat), NEW u, Taken(t, f, u),
         Len(t) < PktSizeMax
  PROVE  u \in Seq(Nat) /\ Len(u) < PktSizeMax
<1>1. t \o f \in Seq(Nat) /\ Len(t \o f) = Len(t) + Len(f)
  BY ConcatProperties, Zenon
<1>2. CASE Len(t) + Len(f) < PktSizeMax
  BY <1>1, <1>2, Zenon DEF Taken
<1>3. CASE ~(Len(t) + Len(f) < PktSizeMax)
  BY <1>3, Zenon DEF Taken
<1> QED
  BY <1>2, <1>3, Zenon

LEMMA StoredTyped ==
  ASSUME NEW frames \in Seq(Seq(Nat))
  PROVE  Stored(frames) \in Seq(Nat) /\ Len(Stored(frames)) < PktSizeMax
<1> DEFINE k == Len(frames)
<1>1. k \in Nat
  OBVIOUS
<1>2. PICK t \in [0..k -> Seq(Nat)] :
        /\ t[0] = <<>>
        /\ \A i \in 1..k :
             t[i] = IF Len(t[i - 1]) + Len(frames[i]) < PktSizeMax
                      THEN t[i - 1] \o frames[i] ELSE t[i - 1]
        /\ Stored(frames) = t[k]
  BY StoredSteps
<1> DEFINE good == {i \in 0..k : t[i] \in Seq(Nat) /\ Len(t[i]) < PktSizeMax}
<1>3. 0 \in good
  BY <1>1, <1>2, ConstantsTyped
<1>4. ASSUME NEW i \in 1..k, i - 1 \in good PROVE i \in good
  <2>1. t[i - 1] \in Seq(Nat) /\ Len(t[i - 1]) < PktSizeMax
    BY <1>4
  <2>2. frames[i] \in Seq(Nat)
    BY ElementOfSeq
  <2>3. Taken(t[i - 1], frames[i], t[i])
    BY <1>2, Zenon DEF Taken
  <2>4. t[i] \in Seq(Nat) /\ Len(t[i]) < PktSizeMax
    BY <2>1, <2>2, <2>3, TakenTyped, Zenon
  <2>5. i \in 0..k
    BY <1>1
  <2> QED
    BY <2>4, <2>5
<1> HIDE DEF good, k
<1>5. k \in good
  <2>1. \A n \in 0..k : n \in good
    BY <1>1, <1>3, <1>4, InductionTo
  <2> QED
    BY <1>1, <2>1
<1> QED
  BY <1>2, <1>5, Zenon DEF good

(* An answer of which as much is stored as it is long is stored as it is. *)
LEMMA StoredWhole ==
  ASSUME NEW p \in Seq(Nat), Len(Stored(Frames(p))) = Len(p)
  PROVE  Stored(Frames(p)) = p
<1> DEFINE l == Len(p)  frames == Frames(p)  k == Len(frames)
<1>1. l \in Nat
  BY LenProperties
<1>2. /\ frames \in Seq(Seq(Nat)) /\ k = FramesOf(l)
      /\ \A i \in 1..FramesOf(l) : IsPart(frames[i], p, End(i - 1, l), End(i, l))
  BY <1>1, FramesTyped, Zenon
<1> HIDE DEF frames
<1>3. PICK t \in [0..k -> Seq(Nat)] :
        /\ t[0] = <<>>
        /\ \A i \in 1..k :
             t[i] = IF Len(t[i - 1]) + Len(frames[i]) < PktSizeMax
                      THEN t[i - 1] \o frames[i] ELSE t[i - 1]
        /\ Stored(frames) = t[k]
  BY <1>2, StoredSteps
<1> DEFINE Inv(i) == t[i] \in Seq(Nat) /\ Begins(t[i], Len(t[i]), p, End(i, l))
           good == {i \in 0..k : Inv(i)}
<1> HIDE DEF l, k
<1>4. /\ k \in Nat /\ End(0, l) = 0 /\ End(k, l) = l
      /\ \A i \in 1..k : End(i - 1, l) \in Nat /\ End(i, l) \in Nat /\ End(i - 1, l) < End(i, l)
  <2>1. /\ k \in Nat /\ End(0, l) = 0 /\ End(k, l) = l
        /\ \A i \in 0..k : End(i, l) \in 0..l
        /\ \A i \in 1..k : End(i - 1, l) < End(i, l)
    BY <1>1, <1>2, FrameEnds
  <2>2. \A i \in 0..k : End(i, l) \in Nat
    BY <1>1, <2>1
  <2>3. \A i \in 1..k : i - 1 \in 0..k /\ i \in 0..k
    BY <2>1
  <2> QED
    BY <2>1, <2>2, <2>3, Zenon
<1>5. 0 \in good
  <2>1. t[0] \in Seq(Nat) /\ Len(t[0]) = 0
    BY <1>3
  <2>2. Begins(t[0], 0, p, 0)
    BY DEF Begins
  <2>3. 0 \in 0..k
    BY <1>4
  <2> QED
    BY <1>4, <2>1, <2>2, <2>3, Zenon
<1>6. ASSUME NEW i \in 1..k, i - 1 \in good PROVE i \in good
  <2> DEFINE s == t[i - 1]  u == t[i]  f == frames[i]
             c == End(i - 1, l)  e == End(i, l)  lt == Len(s)  lf == Len(f)
  <2>1. s \in Seq(Nat) /\ Begins(s, lt, p, c)
    BY <1>6
  <2>2. IsPart(f, p, c, e)
    BY <1>2 DEF k
  <2>3. c \in Nat /\ e \in Nat /\ c < e
    BY <1>4
  <2>4. u = IF lt + lf < PktSizeMax THEN s \o f ELSE s
    BY <1>3
  <2>5. f \in Seq(Nat)
    BY <1>2, ElementOfSeq DEF k
  <2>6. s \o f \in Seq(Nat) /\ Len(s \o f) = lt + lf
        /\ \A m \in 1..(lt + lf) : (s \o f)[m] = IF m <= lt THEN s[m] ELSE f[m - lt]
    BY <2>1, <2>5, ConcatProperties, Zenon
  <2>7. lt \in Nat /\ lf \in Nat
    BY <2>1, <2>5, LenProperties
  <2>8. lf = e - c /\ \A m \in 1..(e - c) : f[m] = p[c + m]
    BY <2>2, Zenon DEF IsPart
  <2>9. c + lf = e /\ c < c + lf
    <3> HIDE DEF c, e, lf
    <3> QED
      BY <2>3, <2>8
  <2>10. i \in 0..k
    BY <1>4
  <2> HIDE DEF s, u, f, c, e, lt, lf
  <2>11. u \in Seq(Nat) /\ Begins(u, Len(u), p, e)
    <3>1. ASSUME lt + lf < PktSizeMax PROVE u \in Seq(Nat) /\ Begins(u, Len(u), p, e)
      <4>1. u = s \o f
        BY <2>4, <3>1
      <4>2. Appended(u, s, lt, f, p, c, lf)
        BY <2>6, <2>8, <4>1, Zenon DEF Appended
      <4>3. Begins(u, lt + lf, p, c + lf)
        BY <2>1, <2>3, <2>7, <4>2, BeginsMore, Zenon
      <4> QED
        BY <2>6, <2>9, <4>1, <4>3, Zenon
    <3>2. ASSUME ~(lt + lf < PktSizeMax) PROVE u \in Seq(Nat) /\ Begins(u, Len(u), p, e)
      <4>1. u = s
        BY <2>4, <3>2
      <4>2. Begins(s, lt, p, e)
        BY <2>1, <2>3, <2>7 DEF Begins
      <4> QED
        BY <2>1, <4>1, <4>2, Zenon DEF lt
    <3> QED
      BY <3>1, <3>2, Zenon
  <2> QED
    BY <2>10, <2>11 DEF u, e
<1> HIDE DEF good
<1>7. k \in good
  <2>1. \A n \in 0..k : n \in good
    BY <1>4, <1>5, <1>6, InductionTo
  <2> QED
    BY <1>4, <2>1
<1>8. t[k] \in Seq(Nat) /\ Begins(t[k], Len(t[k]), p, l)
  BY <1>4, <1>7, Zenon DEF good
<1>9. Len(t[k]) = l
  BY <1>3, Zenon DEF frames, l
<1>10. \A m \in 1..l : t[k][m] = p[m]
  BY <1>8, <1>9, Zenon DEF Begins
<1>11. t[k] = p
  <2> DEFINE u == t[k]
  <2>1. u \in Seq(Nat) /\ Len(u) = Len(p) /\ \A m \in 1..Len(u) : u[m] = p[m]
    BY <1>8, <1>9, <1>10, Zenon DEF l
  <2> HIDE DEF u
  <2>2. u = p
    BY <2>1, SeqEqual, Zenon
  <2> QED
    BY <2>2, Zenon DEF u
<1> QED
  BY <1>3, <1>11, Zenon DEF frames

--------------------------------------------------------------------------------
(* Searching an answer.                                                    *)

(* The unit at a place. *)
LEMMA ReadOne ==
  ASSUME NEW b \in Buffer, NEW at \in Nat
  PROVE  /\ Read(b, at, 1)[1] \in Nat
         /\ at <= PktSizeMax + 1 => Read(b, at, 1)[1] = b[at]
<1>1. DOMAIN b = 0..(PktSizeMax + 1) /\ \A i \in 0..(PktSizeMax + 1) : b[i] \in Nat
  BY DEF Buffer
<1>2. Read(b, at, 1)[1] = IF at \in DOMAIN b THEN b[at] ELSE 0
  BY DEF Read
<1> QED
  BY <1>1, <1>2, ConstantsTyped

LEMMA ReadTyped ==
  ASSUME NEW b \in Buffer, NEW at \in Nat, NEW n \in Nat
  PROVE  Read(b, at, n) \in Seq(Nat) /\ Len(Read(b, at, n)) = n
<1>1. DOMAIN b = 0..(PktSizeMax + 1) /\ \A i \in 0..(PktSizeMax + 1) : b[i] \in Nat
  BY DEF Buffer
<1>2. \A k \in 1..n : (IF at + k - 1 \in DOMAIN b THEN b[at + k - 1] ELSE 0) \in Nat
  BY <1>1
<1> QED
  BY <1>2 DEF Read

(* Where the search goes from a place. *)
Onwards(h, last) == IF last > h.size THEN last ELSE NextArg(h.buffer, last)

(* The places at which it looks. *)
Walks(at, h) ==
  /\ at \in [0..h.buffer[1] -> Nat]
  /\ at[0] = 2
  /\ \A i \in 1..h.buffer[1] : at[i] = Onwards(h, at[i - 1])

IsPlace(at, h, key, j) == at[j] <= h.size /\ Read(h.buffer, at[j], 1)[1] = key

LEMMA OnwardsTyped ==
  ASSUME NEW h \in Hcp, NEW last \in Nat
  PROVE  Onwards(h, last) \in Nat
<1>1. h.buffer \in Buffer /\ last + 1 \in Nat
  BY DEF Hcp
<1>2. Read(h.buffer, last + 1, 1)[1] \in Nat
  BY <1>1, ReadOne
<1> QED
  BY <1>2 DEF Onwards, NextArg

LEMMA PlacesSteps ==
  ASSUME NEW h \in Hcp
  PROVE  \E at : /\ Walks(at, h)
                 /\ \A key : Places(h, key) =
                      {at[i] : i \in {j \in 0..(h.buffer[1] - 1) : IsPlace(at, h, key, j)}}
<1> DEFINE k == h.buffer[1]
           step == [p \in (1..k) \X Nat |-> Onwards(h, p[2])]
           Fixed(at) == at = [i \in 0..k |-> IF i = 0 THEN 2 ELSE Onwards(h, at[i - 1])]
           walk == CHOOSE at : Fixed(at)
<1>1. k \in Nat
  <2>1. h.buffer \in Buffer
    BY DEF Hcp
  <2> QED
    BY <2>1, ConstantsTyped DEF Buffer
<1>2. \A key : Places(h, key) = {walk[i] : i \in {j \in 0..(k - 1) : IsPlace(walk, h, key, j)}}
  BY Zenon DEF Places, IsPlace, Onwards
<1> HIDE DEF k
<1>3. Fixed(walk)
  <2>1. step \in [(1..k) \X Nat -> Nat]
    BY OnwardsTyped
  <2>2. PICK it \in [SUBSET (1..k) -> Nat] : Folds(it, k, 2, step)
    <3> HIDE DEF step
    <3> QED
      BY <1>1, <2>1, FoldExists
  <2> HIDE DEF step
  <2> DEFINE at == [i \in 0..k |-> it[1..i]]
  <2>3. at[0] = 2
    <3>1. it[{}] = 2
      BY <2>2, Zenon DEF Folds
    <3>2. 1..0 = {} /\ 0 \in 0..k
      BY <1>1
    <3> QED
      BY <3>1, <3>2
  <2>4. ASSUME NEW i \in 1..k PROVE at[i] = Onwards(h, at[i - 1])
    <3>1. i \in 0..k /\ i - 1 \in 0..k
      BY <1>1
    <3>2. /\ Max(1..i) = i /\ (1..i) \ {i} = 1..(i - 1)
          /\ 1..i \in SUBSET (1..k) /\ 1..i # {} /\ 1..(i - 1) \in SUBSET (1..k)
      BY <1>1, MaxOfRange
    <3>3. it[1..i] = step[<<i, it[1..(i - 1)]>>]
      BY <2>2, <3>2, Zenon DEF Folds
    <3>4. step[<<i, it[1..(i - 1)]>>] = Onwards(h, it[1..(i - 1)])
      BY <2>2, <3>2 DEF step
    <3> QED
      BY <3>1, <3>3, <3>4
  <2>5. Fixed(at)
    <3>1. DOMAIN at = 0..k /\ \A i \in 0..k : i # 0 => i \in 1..k
      BY <1>1
    <3>2. at = [i \in 0..k |-> at[i]]
      OBVIOUS
    <3> HIDE DEF at
    <3> QED
      BY <2>3, <2>4, <3>1, <3>2
  <2> QED
    BY <2>5, Zenon
<1> HIDE DEF walk
<1>4. /\ walk[0] = 2
      /\ \A i \in 1..k : walk[i] = Onwards(h, walk[i - 1])
  BY <1>1, <1>3
<1>5. DOMAIN walk = 0..k /\ walk = [i \in 0..k |-> walk[i]]
  BY <1>3
<1>6. walk \in [0..k -> Nat]
  <2> DEFINE typed == {n \in 0..k : walk[n] \in Nat}
  <2>1. 0 \in typed
    BY <1>1, <1>4
  <2>2. ASSUME NEW n \in 1..k, n - 1 \in typed PROVE n \in typed
    BY <1>1, <1>4, <2>2, OnwardsTyped
  <2> HIDE DEF typed
  <2>3. \A n \in 0..k : n \in typed
    BY <1>1, <2>1, <2>2, InductionTo
  <2> QED
    BY <1>5, <2>3 DEF typed
<1>7. Walks(walk, h)
  BY <1>4, <1>6, Zenon DEF Walks, k
<1> QED
  BY <1>2, <1>7, Zenon DEF k

(* An argument is found at one of the places, and the buffer stays as it is. *)
LEMMA PlacesTyped ==
  ASSUME NEW h \in Hcp, NEW key
  PROVE  Places(h, key) \subseteq Nat
<1>1. h.buffer[1] \in Nat
  <2>1. h.buffer \in Buffer
    BY DEF Hcp
  <2> QED
    BY <2>1, ConstantsTyped DEF Buffer
<1>2. PICK at : /\ Walks(at, h)
                /\ Places(h, key) =
                     {at[i] : i \in {j \in 0..(h.buffer[1] - 1) : IsPlace(at, h, key, j)}}
  BY PlacesSteps, Zenon
<1>3. \A i \in 0..(h.buffer[1] - 1) : at[i] \in Nat
  BY <1>1, <1>2 DEF Walks
<1> QED
  BY <1>2, <1>3

LEMMA GetArgTyped ==
  ASSUME NEW h \in Hcp, NEW key
  PROVE  /\ GetArg(h, key) \in Hcp
         /\ GetArg(h, key).buffer = h.buffer /\ GetArg(h, key).size = h.size
         /\ GetArg(h, key).result = h.result
<1> DEFINE at == Min(Places(h, key))
           arg == [at |-> at + 2, size |-> Read(h.buffer, at + 1, 1)[1]]
<1>1. CASE Places(h, key) = {}
  BY <1>1 DEF GetArg
<1>2. CASE Places(h, key) # {}
  <2>1. at \in Nat
    BY <1>2, PlacesTyped, MinOfNats
  <2>2. h.buffer \in Buffer
    BY DEF Hcp
  <2>3. arg \in [at : Nat, size : Nat]
    <3> HIDE DEF at
    <3>1. at + 1 \in Nat /\ at + 2 \in Nat
      BY <2>1
    <3>2. Read(h.buffer, at + 1, 1)[1] \in Nat
      BY <2>2, <3>1, ReadOne
    <3> QED
      BY <3>1, <3>2
  <2>4. GetArg(h, key) = [h EXCEPT !.arg = arg]
    BY <1>2 DEF GetArg
  <2> HIDE DEF arg
  <2> QED
    BY <2>3, <2>4 DEF Hcp
<1> QED
  BY <1>1, <1>2

LEMMA ParseResultTyped ==
  ASSUME NEW h \in Hcp
  PROVE  /\ ParseResult(h) \in Hcp
         /\ ParseResult(h).buffer = h.buffer /\ ParseResult(h).size = h.size
<1> DEFINE found == GetArg(h, RESULT)
           result == Read(found.buffer, found.arg.at, 1)[1]
<1>1. found \in Hcp /\ found.buffer = h.buffer /\ found.size = h.size
  BY GetArgTyped
<1>2. ParseResult(h) = IF Places(h, RESULT) = {} THEN [h EXCEPT !.result = 0]
                       ELSE [found EXCEPT !.result = result]
  BY DEF ParseResult
<1> HIDE DEF found
<1>3. found.buffer \in Buffer /\ found.arg.at \in Nat
  BY <1>1 DEF Hcp
<1>4. result \in Nat
  BY <1>3, ReadOne
<1> HIDE DEF result
<1> QED
  BY <1>1, <1>2, <1>4 DEF Hcp

(* The buffer begins with the lp units of p. *)
Buffered(b, p, lp) == \A m \in 0..(lp - 1) : b[m] = p[m + 1]

(* In p, and in f with which it begins, there is an argument behind l. *)
ArgBehind(p, f, l, key, n, data) ==
  /\ \A m \in 1..(l + 2 + n) : p[m] = f[m]
  /\ f[l + 1] = key /\ f[l + 2] = n
  /\ \A m \in 1..n : f[l + 2 + m] = data[m]

(* There it is in the buffer. *)
ArgAt(b, l, key, n, data) ==
  b[l] = key /\ b[l + 1] = n /\ \A m \in 1..n : b[l + 1 + m] = data[m]

LEMMA ArgIsBuffered ==
  ASSUME NEW b, NEW p, NEW f, NEW key, NEW data, NEW lp \in Nat, NEW l \in Nat, NEW n \in Nat,
         Buffered(b, p, lp), l + 2 + n <= lp, ArgBehind(p, f, l, key, n, data)
  PROVE  ArgAt(b, l, key, n, data)
<1>1. b[l] = p[l + 1] /\ b[l + 1] = p[l + 2]
  BY DEF Buffered
<1>2. p[l + 1] = key /\ p[l + 2] = n
  BY DEF ArgBehind
<1>3. ASSUME NEW m \in 1..n PROVE b[l + 1 + m] = data[m]
  <2>1. l + 1 + m \in 0..(lp - 1) /\ (l + 1 + m) + 1 = l + 2 + m /\ l + 2 + m \in 1..(l + 2 + n)
    OBVIOUS
  <2>2. b[l + 1 + m] = p[l + 2 + m]
    BY <2>1 DEF Buffered
  <2> QED
    BY <2>1, <2>2, Zenon DEF ArgBehind
<1> QED
  BY <1>1, <1>2, <1>3 DEF ArgAt

(* The packet of these arguments is in the buffer. *)
Holds(h, args) ==
  /\ h \in Hcp
  /\ h.size = Len(Encode(args)) /\ h.size < PktSizeMax
  /\ Buffered(h.buffer, Encode(args), h.size)

(* Behind l units it has this argument, and next is the place behind that. *)
Found(h, l, arg, next) ==
  /\ l \in Nat /\ Len(arg.data) \in Nat
  /\ next = l + 2 + Len(arg.data) /\ next <= h.size
  /\ Read(h.buffer, l, 1)[1] = arg.key
  /\ Read(h.buffer, l + 1, 1)[1] = Len(arg.data)
  /\ Read(h.buffer, l + 2, Len(arg.data)) = arg.data

LEMMA FoundAtEnd ==
  ASSUME NEW args \in Seq(Argument), NEW e, Encodes(e, args), NEW h, Holds(h, args),
         NEW i \in 1..Len(args)
  PROVE  Found(h, Len(e[i - 1]), args[i], Len(e[i]))
<1> DEFINE l == Len(e[i - 1])  data == args[i].data  n == Len(data)  key == args[i].key
           p == Encode(args)  f == e[i]  b == h.buffer  top == Len(e[i])
<1>1. HasArg(e, args, i)
  BY EncodeContent, Zenon
<1>2. n \in Nat
  <2>1. args[i].data \in Seq(Nat)
    BY <1>1, Zenon DEF HasArg
  <2> QED
    BY <2>1, LenProperties
<1>3. top = l + 2 + n /\ l \in Nat /\ key \in Nat
  BY <1>1, Zenon DEF HasArg
<1>4. /\ top <= Len(p) /\ \A m \in 1..top : p[m] = f[m]
  <2>1. i \in 0..Len(args)
    <3>1. Len(args) \in Nat
      BY LenProperties
    <3> QED
      BY <3>1
  <2> QED
    BY <2>1, EncodePrefix, Zenon
<1>5. /\ h.size = Len(p) /\ h.size < PktSizeMax /\ Buffered(b, p, h.size)
      /\ h.size \in Nat /\ b \in Buffer
  BY DEF Holds, Hcp
<1>6. ArgBehind(p, f, l, key, n, data)
  BY <1>1, <1>3, <1>4, Zenon DEF HasArg, ArgBehind
<1>7. data \in Seq(Nat)
  BY <1>1, Zenon DEF HasArg
<1> HIDE DEF l, data, n, key, p, f, b, top
<1>8. ArgAt(b, l, key, n, data)
  <2>1. l + 2 + n <= h.size
    BY <1>3, <1>4, <1>5, Zenon
  <2> QED
    BY <1>2, <1>3, <1>5, <1>6, <2>1, ArgIsBuffered, Zenon
<1>9. l + 2 + n < PktSizeMax /\ l + 2 + n <= h.size
  <2> DEFINE x == Len(p)
  <2>1. x \in Nat /\ top <= x /\ x < PktSizeMax
    BY <1>4, <1>5, Zenon
  <2> HIDE DEF x
  <2>2. top = l + 2 + n
    BY <1>3
  <2>3. l + 2 + n < PktSizeMax
    BY <1>2, <1>3, <2>1, <2>2, ConstantsTyped
  <2>4. l + 2 + n <= h.size
    BY <1>3, <1>4, <1>5, Zenon
  <2> QED
    BY <2>3, <2>4
<1>10. Read(b, l, 1)[1] = key /\ Read(b, l + 1, 1)[1] = n
  <2>1. /\ l \in Nat /\ l <= PktSizeMax + 1
        /\ l + 1 \in Nat /\ l + 1 <= PktSizeMax + 1
    BY <1>2, <1>3, <1>9, ConstantsTyped
  <2> QED
    BY <1>5, <1>8, <2>1, ReadOne, Zenon DEF ArgAt
<1>11. Read(b, l + 2, n) = data
  <2> DEFINE r == Read(b, l + 2, n)
  <2>1. r \in Seq(Nat) /\ Len(r) = n
    <3>1. l + 2 \in Nat
      BY <1>3
    <3> QED
      BY <1>2, <1>5, <3>1, ReadTyped, Zenon
  <2>2. ASSUME NEW m \in 1..n PROVE r[m] = data[m]
    <3>1. l + 2 + m - 1 = l + 1 + m /\ l + 2 + m - 1 \in 0..(PktSizeMax + 1)
      BY <1>2, <1>3, <1>9, ConstantsTyped
    <3>2. DOMAIN b = 0..(PktSizeMax + 1)
      BY <1>5 DEF Buffer
    <3>3. r[m] = b[l + 2 + m - 1]
      BY <3>1, <3>2 DEF Read
    <3>4. b[l + 1 + m] = data[m]
      BY <1>8, Zenon DEF ArgAt
    <3> QED
      BY <3>1, <3>3, <3>4, Zenon
  <2> HIDE DEF r
  <2>3. Len(r) = Len(data)
    BY <2>1, Zenon DEF n
  <2>4. \A m \in 1..Len(r) : r[m] = data[m]
    BY <2>1, <2>2, Zenon
  <2>5. r = data
    BY <1>7, <2>1, <2>3, <2>4, SeqEqual, Zenon
  <2> QED
    BY <2>5, Zenon DEF r
<1> QED
  BY <1>2, <1>3, <1>9, <1>10, <1>11, Zenon DEF Found, l, data, n, key, b, top

(* The search looks at the arguments of the packet, and at all of them. *)
WalksAll(at, h, e, args) ==
  h.buffer[1] = Len(args) /\ \A i \in 0..Len(args) : at[i] = Len(e[i])

LEMMA WalkOfAnswer ==
  ASSUME NEW args \in Seq(Argument), NEW e, Encodes(e, args), NEW h, Holds(h, args),
         NEW at, Walks(at, h)
  PROVE  WalksAll(at, h, e, args)
<1> DEFINE k == Len(args)
<1>1. k \in Nat
  BY LenProperties
<1>2. h.buffer[1] = k
  <2> DEFINE p == Encode(args)  size == h.size
  <2>1. e[0] = <<0, k>> /\ Len(e[0]) = 2
    BY EncodeContent, Zenon
  <2>2. 2 <= Len(p) /\ \A m \in 1..2 : p[m] = e[0][m]
    <3>1. 0 \in 0..k
      BY <1>1
    <3>2. Len(e[0]) <= Len(p) /\ \A m \in 1..Len(e[0]) : p[m] = e[0][m]
      BY <3>1, EncodePrefix, Zenon
    <3> QED
      BY <2>1, <3>2, Zenon
  <2>3. size = Len(p) /\ size \in Nat /\ Buffered(h.buffer, p, size)
    BY DEF Holds, Hcp
  <2> HIDE DEF p, size
  <2>4. 1 \in 0..(size - 1)
    <3>1. 2 <= size /\ size \in Nat
      BY <2>2, <2>3, Zenon
    <3> QED
      BY <3>1
  <2>5. h.buffer[1] = p[1 + 1]
    BY <2>3, <2>4, Zenon DEF Buffered
  <2>6. 1 + 1 = 2 /\ 2 \in 1..2 /\ e[0][2] = k
    BY <1>1, <2>1
  <2> QED
    BY <2>2, <2>5, <2>6, Zenon
<1> DEFINE good == {i \in 0..k : at[i] = Len(e[i])}
<1>3. 0 \in good
  <2>1. Len(e[0]) = 2
    BY EncodeContent, Zenon
  <2>2. 0 \in 0..k
    BY <1>1
  <2> QED
    BY <2>1, <2>2, Zenon DEF Walks
<1>4. ASSUME NEW i \in 1..k, i - 1 \in good PROVE i \in good
  <2> DEFINE l == Len(e[i - 1])  n == Len(args[i].data)  top == Len(e[i])
  <2>1. at[i - 1] = l
    BY <1>4
  <2>2. at[i] = Onwards(h, l)
    BY <1>2, <2>1, Zenon DEF Walks
  <2>3. /\ l \in Nat /\ n \in Nat /\ top = l + 2 + n /\ top <= h.size
        /\ Read(h.buffer, l + 1, 1)[1] = n
    BY FoundAtEnd, Zenon DEF Found
  <2>4. h.size \in Nat
    BY DEF Holds, Hcp
  <2> HIDE DEF l, n, top, k
  <2>5. ~(l > h.size)
    BY <2>3, <2>4
  <2>6. Onwards(h, l) = top
    BY <2>3, <2>5, Zenon DEF Onwards, NextArg
  <2>7. i \in 0..k
    BY <1>1
  <2> QED
    BY <2>2, <2>6, <2>7 DEF top
<1> HIDE DEF good
<1>5. \A i \in 0..k : i \in good
  BY <1>1, <1>3, <1>4, InductionTo
<1> QED
  BY <1>2, <1>5 DEF good, WalksAll

PlacesAre(h, e, args, key) ==
  Places(h, key) = {Len(e[i - 1]) : i \in {j \in 1..Len(args) : args[j].key = key}}

LEMMA PlacesOfAnswer ==
  ASSUME NEW args \in Seq(Argument), NEW e, Encodes(e, args), NEW h, Holds(h, args),
         NEW key
  PROVE  PlacesAre(h, e, args, key)
<1> DEFINE k == Len(args)
<1>1. k \in Nat /\ h \in Hcp
  BY LenProperties DEF Holds
<1>2. PICK at : /\ Walks(at, h)
                /\ Places(h, key) =
                     {at[i] : i \in {j \in 0..(h.buffer[1] - 1) : IsPlace(at, h, key, j)}}
  BY <1>1, PlacesSteps, Zenon
<1>3. h.buffer[1] = k /\ \A i \in 0..k : at[i] = Len(e[i])
  <2>1. Walks(at, h)
    BY <1>2, Zenon
  <2>2. WalksAll(at, h, e, args)
    BY <2>1, WalkOfAnswer, Zenon
  <2> QED
    BY <2>2, Zenon DEF WalksAll
<1>4. ASSUME NEW j \in 1..k
      PROVE  /\ at[j - 1] = Len(e[j - 1])
             /\ IsPlace(at, h, key, j - 1) <=> args[j].key = key
  <2> DEFINE l == Len(e[j - 1])  n == Len(args[j].data)  top == Len(e[j])
  <2>1. /\ l \in Nat /\ n \in Nat /\ top = l + 2 + n /\ top <= h.size
        /\ Read(h.buffer, l, 1)[1] = args[j].key
    BY FoundAtEnd, Zenon DEF Found
  <2>2. j - 1 \in 0..k
    BY <1>1
  <2>3. at[j - 1] = l
    BY <1>3, <2>2
  <2>4. h.size \in Nat
    BY <1>1 DEF Hcp
  <2> HIDE DEF l, n, top
  <2>5. l <= h.size
    BY <2>1, <2>4
  <2>6. at[j - 1] <= h.size
    BY <2>3, <2>5
  <2> QED
    BY <2>1, <2>3, <2>6, Zenon DEF IsPlace, l
<1>5. \A i \in 0..(k - 1) : i + 1 \in 1..k /\ (i + 1) - 1 = i
  BY <1>1
<1>6. \A j \in 1..k : j - 1 \in 0..(k - 1)
  BY <1>1
<1> HIDE DEF k
<1>7. Places(h, key) = {at[i] : i \in {j \in 0..(k - 1) : IsPlace(at, h, key, j)}}
  BY <1>2, <1>3
<1> DEFINE wanted == {j \in 1..k : args[j].key = key}
           offsets == {Len(e[i - 1]) : i \in wanted}
<1>8. ASSUME NEW x \in Places(h, key) PROVE x \in offsets
  <2>1. PICK i \in 0..(k - 1) : x = at[i] /\ IsPlace(at, h, key, i)
    BY <1>7
  <2>2. PICK j \in 1..k : j - 1 = i
    BY <1>5
  <2>3. j \in wanted /\ x = Len(e[j - 1])
    BY <1>4, <2>1, <2>2
  <2> QED
    BY <2>3
<1>9. ASSUME NEW x \in offsets PROVE x \in Places(h, key)
  <2>1. PICK j \in wanted : x = Len(e[j - 1])
    BY DEF offsets
  <2>2. j - 1 \in 0..(k - 1) /\ IsPlace(at, h, key, j - 1) /\ x = at[j - 1]
    BY <1>4, <1>6, <2>1
  <2> QED
    BY <1>7, <2>2
<1>10. Places(h, key) = offsets
  BY <1>8, <1>9
<1> QED
  BY <1>10 DEF k, PlacesAre

LEMMA EncodeGrows ==
  ASSUME NEW args \in Seq(Argument), NEW e, Encodes(e, args),
         NEW i \in 0..Len(args), NEW j \in i..Len(args)
  PROVE  Len(e[i]) \in Nat /\ Len(e[j]) \in Nat /\ Len(e[i]) <= Len(e[j])
<1> DEFINE k == Len(args)
           good == {n \in 0..k : n >= i => Len(e[i]) <= Len(e[n])}
<1>1. k \in Nat
  BY LenProperties
<1>2. \A n \in 0..k : Len(e[n]) \in Nat
  BY EncodePrefix, Zenon
<1>3. 0 \in good
  BY <1>1, <1>2
<1>4. ASSUME NEW n \in 1..k, n - 1 \in good PROVE n \in good
  <2> DEFINE l == Len(e[n - 1])  d == Len(args[n].data)  top == Len(e[n])
  <2>0. HasArg(e, args, n)
    BY EncodeContent, Zenon
  <2>1. top = l + 2 + d /\ l \in Nat
    BY <2>0, Zenon DEF HasArg
  <2>2. d \in Nat
    <3>1. args[n].data \in Seq(Nat)
      BY <2>0, Zenon DEF HasArg
    <3> QED
      BY <3>1, LenProperties
  <2> HIDE DEF d
  <2>3. l <= top /\ top \in Nat
    <3> HIDE DEF l, top
    <3> QED
      BY <2>1, <2>2
  <2>4. n \in 0..k /\ (n >= i => n = i \/ n - 1 >= i)
    BY <1>1
  <2>5. n - 1 >= i => Len(e[i]) <= l
    BY <1>4
  <2>6. Len(e[i]) \in Nat
    BY <1>2
  <2>7. n >= i => Len(e[i]) <= top
    <3> DEFINE x == Len(e[i])
    <3>1. n = i => x = top
      OBVIOUS
    <3> HIDE DEF x, l, top, k
    <3>2. l \in Nat /\ top \in Nat /\ x \in Nat /\ l <= top
      BY <2>1, <2>3, <2>6 DEF x
    <3>3. n - 1 >= i => x <= l
      BY <2>5 DEF x
    <3>4. n = i => x <= top
      BY <3>1, <3>2
    <3>5. n - 1 >= i => x <= top
      BY <3>2, <3>3
    <3> QED
      BY <2>4, <3>4, <3>5 DEF x
  <2> QED
    BY <2>4, <2>7
<1> HIDE DEF good, k
<1>5. \A n \in 0..k : n \in good
  BY <1>1, <1>3, <1>4, InductionTo
<1>6. i \in 0..k /\ j \in 0..k /\ j >= i
  BY <1>1 DEF k
<1> QED
  BY <1>2, <1>5, <1>6 DEF good

(* The arguments with this key; g has found the first of them. *)
WithKey(args, key) == {j \in DOMAIN args : args[j].key = key}

HasFound(g, data) == ArgData(g) = data /\ g.arg.size = Len(data)

LEMMA SearchOfAnswer ==
  ASSUME NEW args \in Seq(Argument), NEW h, Holds(h, args), NEW key
  PROVE  /\ Places(h, key) = {} <=> WithKey(args, key) = {}
         /\ WithKey(args, key) # {} =>
              /\ Min(WithKey(args, key)) \in WithKey(args, key)
              /\ HasFound(GetArg(h, key), args[Min(WithKey(args, key))].data)
<1> DEFINE k == Len(args)  wanted == {j \in 1..k : args[j].key = key}
<1>1. k \in Nat /\ DOMAIN args = 1..k /\ h \in Hcp
  BY LenProperties DEF Holds
<1>2. WithKey(args, key) = wanted
  BY <1>1 DEF WithKey
<1>3. PICK e : Encodes(e, args)
  BY EncodeSteps
<1>4. Places(h, key) = {Len(e[i - 1]) : i \in wanted}
  <2>1. PlacesAre(h, e, args, key)
    BY <1>3, PlacesOfAnswer, Zenon
  <2> QED
    BY <2>1, Zenon DEF PlacesAre
<1> HIDE DEF k
<1>5. Places(h, key) = {} <=> wanted = {}
  <2> HIDE DEF wanted
  <2> QED
    BY <1>4
<1>6. ASSUME wanted # {}
      PROVE  Min(wanted) \in wanted /\ HasFound(GetArg(h, key), args[Min(wanted)].data)
  <2> DEFINE m == Min(wanted)  l == Len(e[m - 1])  g == GetArg(h, key)
             n == Len(args[m].data)
  <2>1. wanted \in SUBSET Nat
    BY <1>1
  <2>2. m \in wanted /\ \A j \in wanted : m <= j
    BY <1>6, <2>1, MinOfNats
  <2>3. m \in 1..k
    BY <2>2
  <2> HIDE DEF m
  <2>4. ASSUME NEW j \in wanted PROVE l \in Nat /\ Len(e[j - 1]) \in Nat /\ l <= Len(e[j - 1])
    <3>1. m - 1 \in 0..k /\ j - 1 \in (m - 1)..k
      BY <1>1, <2>2, <2>3
    <3> QED
      BY <1>3, <3>1, EncodeGrows, Zenon DEF k
  <2>5. Min(Places(h, key)) = l
    <3> HIDE DEF wanted
    <3>1. Places(h, key) \in SUBSET Int
      BY <1>1, PlacesTyped
    <3>2. l \in Places(h, key)
      BY <1>4, <2>2
    <3>3. \A x \in Places(h, key) : l <= x
      BY <1>4, <2>4
    <3> HIDE DEF l
    <3> QED
      BY <3>1, <3>2, <3>3, MinIs, Zenon
  <2>6. Found(h, l, args[m], Len(e[m]))
    BY <1>3, <2>3, FoundAtEnd, Zenon DEF k
  <2>7. /\ Read(h.buffer, l + 1, 1)[1] = n
        /\ Read(h.buffer, l + 2, n) = args[m].data
    BY <2>6, Zenon DEF Found
  <2> HIDE DEF l, n
  <2>8. g = [h EXCEPT !.arg = [at |-> l + 2, size |-> n]]
    BY <1>5, <1>6, <2>5, <2>7 DEF GetArg
  <2>9. g.buffer = h.buffer /\ g.arg.at = l + 2 /\ g.arg.size = n
    BY <1>1, <2>8 DEF Hcp
  <2>10. ArgData(g) = args[m].data
    BY <2>7, <2>9, Zenon DEF ArgData
  <2> QED
    BY <2>2, <2>9, <2>10, Zenon DEF HasFound, m, n
<1> QED
  BY <1>2, <1>5, <1>6, Zenon

--------------------------------------------------------------------------------
(* Commands, answers and the buffer between them.                          *)

LEMMA ArgTyped ==
  ASSUME NEW key \in Nat, NEW size \in Nat, NEW unit \in Nat
  PROVE  /\ Arg(key, size, unit) \in Argument
         /\ Arg(key, size, unit).key = key /\ Len(Arg(key, size, unit).data) = size
<1>1. [i \in 1..size |-> unit] \in Seq(Nat) /\ Len([i \in 1..size |-> unit]) = size
  OBVIOUS
<1> QED
  BY <1>1 DEF Arg, Argument

LEMMA FunctionsTyped ==
  ASSUME NEW f \in Functions
  PROVE  /\ f.args \in Seq(Argument)
         /\ \A k1, k2 \in f.wants : k1 = k2
<1> DEFINE plain == Arg(SUB, 0, HostUnit)
           named == Arg(PARAM, 0, HostUnit)
           number == Arg(PARAM, 2, HostUnit)
           sized(n) == Arg(DATA, n, HostUnit)
           F(args, wants, area) == [args |-> args, wants |-> wants, area |-> area]
<1>1. plain \in Argument /\ named \in Argument /\ number \in Argument
  BY ArgTyped DEF SUB, PARAM, HostUnit
<1>2. \A n \in Nat : sized(n) \in Argument
  BY ArgTyped DEF DATA, HostUnit
<1>3. /\ <<>> \in Seq(Argument) /\ <<plain>> \in Seq(Argument)
      /\ <<number>> \in Seq(Argument) /\ <<plain, number>> \in Seq(Argument)
      /\ <<plain, named>> \in Seq(Argument) /\ <<named>> \in Seq(Argument)
      /\ \A n \in Nat : <<plain, sized(n)>> \in Seq(Argument)
      /\ <<plain, named, sized(2)>> \in Seq(Argument)
  <2>1. sized(2) \in Argument
    BY <1>2
  <2> HIDE DEF plain, named, number, sized
  <2> QED
    BY <1>1, <1>2, <2>1
<1>4. \/ \E args \in {<<>>, <<plain>>, <<number>>, <<plain, number>>, <<plain, named>>} :
           f = F(args, {}, "none")
      \/ \E n \in DataSizes : f = F(<<plain, sized(n)>>, {}, "none")
      \/ f = F(<<plain, named, sized(2)>>, {}, "none")
      \/ f = F(<<plain>>, {DATA}, "none") \/ f = F(<<named>>, {PARAM}, "none")
      \/ \E args \in {<<plain>>, <<plain, named>>}, k \in {DATA, PARAM},
            area \in {"given", "null"} : f = F(args, {k}, area)
  <2> HIDE DEF plain, named, number, sized
  <2> QED
    BY Zenon DEF Functions, plain, named, number, sized
<1>5. DataSizes \subseteq Nat
  BY ConstantsTyped
<1> HIDE DEF plain, named, number, sized
<1>6. PICK args, wants, area :
        /\ f = F(args, wants, area) /\ args \in Seq(Argument)
        /\ wants = {} \/ \E k : wants = {k}
  <2> HIDE DEF F
  <2>1. ASSUME NEW n \in DataSizes PROVE <<plain, sized(n)>> \in Seq(Argument)
    BY <1>3, <1>5
  <2>2. \A args \in {<<>>, <<plain>>, <<number>>, <<plain, number>>, <<plain, named>>} :
          args \in Seq(Argument)
    BY <1>3, Zenon
  <2>3. \A args \in {<<plain>>, <<plain, named>>} : args \in Seq(Argument)
    BY <1>3, Zenon
  <2> QED
    BY <1>3, <1>4, <2>1, <2>2, <2>3, Zenon
<1> QED
  BY <1>6

(* The shapes of the arguments of an answer that the console relies on. *)
Fits(arg) ==
  /\ arg \in Argument
  /\ arg.key = RESULT => Len(arg.data) = 1
  /\ arg.key = DATA => Len(arg.data) \in {0, 2, 4}

IsAnswer(args) == args \in Seq(Argument) /\ \A i \in DOMAIN args : Fits(args[i])

LEMMA ArgFits ==
  ASSUME NEW unit \in Nat
  PROVE  /\ Fits(Arg(RESULT, 1, unit)) /\ Fits(Arg(PARAM, 4, unit))
         /\ \A s \in {0, 2, 4} : Fits(Arg(DATA, s, unit))
<1>1. RESULT \in Nat /\ DATA \in Nat /\ PARAM \in Nat /\ RESULT # DATA
      /\ PARAM # DATA /\ PARAM # RESULT
  BY DEF RESULT, DATA, PARAM
<1>2. ASSUME NEW key \in Nat, NEW s \in Nat
      PROVE  /\ Arg(key, s, unit) \in Argument /\ Arg(key, s, unit).key = key
             /\ Len(Arg(key, s, unit).data) = s
  BY ArgTyped, Zenon
<1>3. ASSUME NEW key \in Nat, NEW s \in Nat,
             key = RESULT => s = 1, key = DATA => s \in {0, 2, 4}
      PROVE  Fits(Arg(key, s, unit))
  <2> DEFINE a == Arg(key, s, unit)
  <2>1. a \in Argument /\ a.key = key /\ Len(a.data) = s
    BY <1>2, Zenon
  <2> HIDE DEF a
  <2>2. Fits(a)
    BY <1>3, <2>1, Zenon DEF Fits
  <2> QED
    BY <2>2, Zenon DEF a
<1>4. 1 \in Nat /\ 4 \in Nat /\ \A s \in {0, 2, 4} : s \in Nat
  OBVIOUS
<1> QED
  BY <1>1, <1>3, <1>4, Zenon

LEMMA AnswersTyped ==
  ASSUME NEW n \in Nat, NEW answer \in Answers(n)
  PROVE  IsAnswer(answer)
<1> DEFINE unit == AnswerUnit(n)
           result == {Arg(RESULT, 1, r) : r \in 0..1}
           data == {Arg(DATA, s, unit) : s \in {0, 4}} \cup {Arg(PARAM, 4, unit)}
<1>1. unit \in Nat /\ \A r \in 0..1 : r \in Nat
  BY DEF AnswerUnit
<1>2. \/ answer = <<>>
      \/ \E a \in result \cup data : answer = <<a>>
      \/ \E r \in result, d \in data : answer = <<r, d>>
      \/ \E r \in result, d \in data : answer = <<d, r>>
      \/ answer = <<Arg(RESULT, 1, 0), Arg(DATA, 2, unit), Arg(DATA, 4, unit)>>
  BY DEF Answers
<1>3. \A a \in result : Fits(a)
  BY <1>1, ArgFits
<1>4. \A a \in data : Fits(a)
  <2> HIDE DEF unit
  <2> QED
    BY <1>1, ArgFits
<1>5. Fits(Arg(RESULT, 1, 0)) /\ Fits(Arg(DATA, 2, unit)) /\ Fits(Arg(DATA, 4, unit))
  <2> HIDE DEF unit
  <2> QED
    BY <1>1, ArgFits
<1> HIDE DEF result, data
<1>6. \/ answer = <<>>
      \/ \E a : Fits(a) /\ answer = <<a>>
      \/ \E a, b : Fits(a) /\ Fits(b) /\ answer = <<a, b>>
      \/ \E a, b, c : Fits(a) /\ Fits(b) /\ Fits(c) /\ answer = <<a, b, c>>
  <2>1. \A a \in result \cup data : Fits(a)
    BY <1>3, <1>4
  <2> QED
    BY <1>2, <1>3, <1>4, <1>5, <2>1, Zenon
<1>7. \A a : Fits(a) => a \in Argument
  BY DEF Fits
<1>8. IsAnswer(<<>>)
  BY DEF IsAnswer
<1>9. ASSUME NEW a, Fits(a) PROVE IsAnswer(<<a>>)
  BY <1>7, <1>9 DEF IsAnswer
<1>10. ASSUME NEW a, NEW b, Fits(a), Fits(b) PROVE IsAnswer(<<a, b>>)
  BY <1>7, <1>10 DEF IsAnswer
<1>11. ASSUME NEW a, NEW b, NEW c, Fits(a), Fits(b), Fits(c) PROVE IsAnswer(<<a, b, c>>)
  BY <1>7, <1>11 DEF IsAnswer
<1> QED
  BY <1>6, <1>8, <1>9, <1>10, <1>11, Zenon

LEMMA BuiltTyped ==
  ASSUME hcp \in Hcp, NEW f \in Functions
  PROVE  /\ Built(f) \in Hcp
         /\ Built(f).result = hcp.result /\ Built(f).arg = hcp.arg
<1>1. f.args \in Seq(Argument)
  BY FunctionsTyped
<1>2. PICK c \in [0..Len(f.args) -> Packet] : Command(f) = c[Len(f.args)]
  BY <1>1, CommandSteps
<1>3. Len(f.args) \in Nat
  BY <1>1, LenProperties
<1>4. Command(f) \in Packet
  <2>1. Len(f.args) \in 0..Len(f.args)
    BY <1>3
  <2> QED
    BY <1>2, <2>1
<1> QED
  BY <1>4 DEF Built, Packet, Hcp

LEMMA EncodeTyped ==
  ASSUME NEW args \in Seq(Argument)
  PROVE  Encode(args) \in Seq(Nat) /\ Len(Encode(args)) \in Nat
<1>1. PICK e : Encodes(e, args)
  BY EncodeSteps
<1>2. Len(args) \in 0..Len(args)
  <2>1. Len(args) \in Nat
    BY LenProperties
  <2> QED
    BY <2>1
<1>3. Encode(args) = e[Len(args)] /\ e[Len(args)] \in Seq(Nat)
  BY <1>1, <1>2, EncodeContent, Zenon DEF Encodes
<1>4. Encode(args) \in Seq(Nat)
  BY <1>3, Zenon
<1> QED
  BY <1>4, LenProperties, Zenon

(* After bmlite_receive the buffer has what was stored. *)
LEMMA ReceiveTyped ==
  ASSUME NEW h \in Hcp, NEW frames \in Seq(Seq(Nat))
  PROVE  /\ Receive(h, frames) \in Hcp
         /\ Receive(h, frames).size = Len(Stored(frames))
         /\ Receive(h, frames).arg = h.arg
         /\ \A m \in 1..Len(Stored(frames)) :
              Receive(h, frames).buffer[m - 1] = Stored(frames)[m]
<1> DEFINE s == Stored(frames)  l == Len(s)  b == Write(h.buffer, 0, s)
<1>1. s \in Seq(Nat) /\ l < PktSizeMax
  BY StoredTyped
<1>2. l \in Nat
  BY <1>1, LenProperties
<1>3. h.buffer \in Buffer
  BY DEF Hcp
<1> HIDE DEF s
<1>4. b \in Buffer /\ Overlay(b, h.buffer, 0, s, l, PktSizeMax + 1)
  BY <1>1, <1>3, WriteTyped
<1>5. Receive(h, frames) = [h EXCEPT !.buffer = b, !.size = l]
  BY DEF Receive, s
<1> HIDE DEF l, b
<1>6. /\ Receive(h, frames) \in Hcp /\ Receive(h, frames).arg = h.arg
      /\ Receive(h, frames).size = l /\ Receive(h, frames).buffer = b
  BY <1>2, <1>4, <1>5 DEF Hcp
<1>7. ASSUME NEW m \in 1..l PROVE b[m - 1] = s[m]
  <2>1. /\ m - 1 \in 0..(PktSizeMax + 1) /\ 0 <= m - 1 /\ m - 1 < 0 + l
        /\ m - 1 - 0 + 1 = m
    BY <1>1, <1>2, ConstantsTyped
  <2> QED
    BY <1>4, <2>1 DEF Overlay
<1> QED
  BY <1>6, <1>7 DEF l, s

LEMMA ReceiveBrokenTyped ==
  ASSUME NEW h \in Hcp, NEW frames \in Seq(Seq(Nat)), NEW n \in 0..Len(frames)
  PROVE  ReceiveBroken(h, frames, n) \in Hcp
<1> DEFINE some == SubSeq(frames, 1, n)  s == Stored(some)
<1>1. some \in Seq(Seq(Nat))
  <2>1. 1 \in Nat \ {0}
    OBVIOUS
  <2> QED
    BY <2>1, PrefixTyped, Zenon
<1> HIDE DEF some
<1>2. s \in Seq(Nat)
  BY <1>1, StoredTyped
<1>3. h.buffer \in Buffer
  BY DEF Hcp
<1> HIDE DEF s
<1>4. Write(h.buffer, 0, s) \in Buffer
  BY <1>2, <1>3, WriteTyped
<1> QED
  BY <1>4 DEF ReceiveBroken, Hcp, s, some

(* An answer that is as long as what was stored of it is in the buffer. *)
LEMMA WholeAnswer ==
  ASSUME NEW h \in Hcp, NEW args \in Seq(Argument),
         Len(Stored(Frames(Encode(args)))) = Len(Encode(args))
  PROVE  Holds(Receive(h, Frames(Encode(args))), args)
<1> DEFINE p == Encode(args)  frames == Frames(p)  r == Receive(h, frames)
<1>1. p \in Seq(Nat) /\ Len(p) \in Nat
  BY EncodeTyped
<1>2. Stored(frames) = p
  <2> HIDE DEF p
  <2> QED
    BY <1>1, StoredWhole DEF p
<1> HIDE DEF p
<1>3. frames \in Seq(Seq(Nat))
  BY <1>1, FramesTyped
<1> HIDE DEF frames
<1>4. /\ r \in Hcp /\ r.size = Len(p)
      /\ \A m \in 1..Len(p) : r.buffer[m - 1] = p[m]
  BY <1>2, <1>3, ReceiveTyped
<1>5. Len(p) < PktSizeMax
  BY <1>2, <1>3, StoredTyped
<1> HIDE DEF r
<1>6. Buffered(r.buffer, p, r.size)
  <2> DEFINE l == Len(p)
  <2>1. l \in Nat
    BY <1>1
  <2> HIDE DEF l
  <2>2. \A m \in 0..(l - 1) : m + 1 \in 1..l /\ (m + 1) - 1 = m
    BY <2>1
  <2>3. \A m \in 0..(l - 1) : r.buffer[m] = p[m + 1]
    BY <1>4, <2>2 DEF l
  <2> QED
    BY <1>4, <2>3, Zenon DEF Buffered, l
<1> QED
  BY <1>4, <1>5, <1>6, Zenon DEF Holds, p, frames, r

LEMMA ParsedHolds ==
  ASSUME NEW h, NEW args, Holds(h, args)
  PROVE  Holds(ParseResult(h), args)
<1>1. ParseResult(h) \in Hcp /\ ParseResult(h).buffer = h.buffer /\ ParseResult(h).size = h.size
  BY ParseResultTyped, Zenon DEF Holds
<1> QED
  BY <1>1, Zenon DEF Holds

--------------------------------------------------------------------------------
(* The functions.                                                          *)

ApiTypeOK == hcp \in Hcp /\ calls \in Nat

(* What is sent is the command, or nothing if there is no room for it. *)
LEMMA RequestSent ==
  ASSUME hcp \in Hcp, NEW f \in Functions, call'.function = f,
         call'.sent = IF Command(f).full THEN <<>> ELSE Sent(f)
  PROVE  CommandIsRequest'
<1> DEFINE args == f.args  whole == Encode(args)
<1>1. args \in Seq(Argument)
  BY FunctionsTyped
<1>2. SUFFICES ASSUME \A i \in DOMAIN args : Len(args[i].data) < W
               PROVE  call'.sent = IF Len(whole) <= PktSizeMax THEN whole ELSE <<>>
  BY Zenon DEF CommandIsRequest
<1>3. DOMAIN args = 1..Len(args)
  BY <1>1, LenProperties
<1>4. /\ Command(f).full <=> Len(whole) > PktSizeMax
      /\ ~Command(f).full => Sent(f) = whole
  BY <1>1, <1>2, <1>3, CommandContent, Zenon
<1>5. Len(whole) > PktSizeMax <=> ~(Len(whole) <= PktSizeMax)
  <2> DEFINE l == Len(whole)
  <2>1. l \in Nat
    BY <1>1, EncodeTyped
  <2> HIDE DEF l
  <2> QED
    BY <2>1, ConstantsTyped
<1> HIDE DEF whole
<1> QED
  BY <1>4, <1>5

LEMMA FailedCall ==
  ASSUME call'.transfer # "ok", call'.res # "ok"
  PROVE  DataFromThisAnswer'
  BY DEF DataFromThisAnswer

(* What the console lists, when nothing was exchanged. *)
LEMMA NothingSent ==
  ASSUME hcp \in Hcp, NEW f \in Functions, hcp' = Built(f),
         call'.transfer \in {"none", "sendFails"}
  PROVE  ListsIds
<1>1. hcp'.result = hcp.result /\ hcp'.arg = hcp.arg
  BY BuiltTyped
<1>2. Listed' = IF hcp'.result = 0 THEN IdsAt(hcp'.buffer, hcp'.arg) ELSE <<>>
  BY Zenon DEF Listed, IdsAt
<1>3. call'.transfer # "ok"
  OBVIOUS
<1> QED
  BY <1>1, <1>2, <1>3, Zenon DEF ListsIds

(* What a function finds, if it returns the result of a search. *)
LEMMA FoundCall ==
  ASSUME NEW f \in Functions, NEW answer \in Seq(Argument), NEW key \in f.wants,
         NEW h, Holds(h, answer),
         call'.function = f, call'.answer = answer, call'.transfer = "ok",
         \/ Places(h, key) = {} /\ call'.res = "invalid"
         \/ Places(h, key) # {} /\ f.area = "null" /\ call'.res = "noMemory"
         \/ /\ Places(h, key) # {} /\ f.area # "null" /\ call'.res = "ok"
            /\ hcp' = GetArg(h, key)
            /\ call'.copied = IF f.area = "given" THEN CopyArg(hcp') ELSE <<>>
  PROVE  DataFromThisAnswer'
<1> DEFINE found == WithKey(answer, key)  data == answer[Min(found)].data
           limit == Limit % W
<1>1. \A other \in f.wants : other = key
  BY FunctionsTyped
<1>2. Wanted(key)' = found
  BY Zenon DEF Wanted, WithKey
<1>3. WantedData(key)' = data
  BY <1>2, Zenon DEF WantedData
<1>4. Places(h, key) = {} <=> found = {}
  BY SearchOfAnswer, Zenon
<1> HIDE DEF found, limit
<1>5. CASE Places(h, key) = {}
  <2>1. call'.res = "invalid" /\ "invalid" # "ok"
    BY <1>5
  <2> QED
    BY <1>1, <1>2, <1>4, <1>5, <2>1, Zenon DEF DataFromThisAnswer
<1>6. CASE Places(h, key) # {} /\ f.area = "null"
  <2>1. call'.res = "noMemory" /\ "noMemory" # "ok"
    BY <1>6
  <2> QED
    BY <1>1, <1>6, <2>1, Zenon DEF DataFromThisAnswer
<1>7. CASE Places(h, key) # {} /\ f.area # "null"
  <2>1. HasFound(GetArg(h, key), data)
    BY <1>4, <1>7, SearchOfAnswer, Zenon DEF found
  <2>2. call'.res = "ok" /\ hcp' = GetArg(h, key)
        /\ call'.copied = IF f.area = "given" THEN CopyArg(hcp') ELSE <<>>
    BY <1>7
  <2> HIDE DEF data
  <2>3. ArgData(hcp)' = data /\ hcp'.arg.size = Len(data)
    BY <2>1, <2>2, Zenon DEF HasFound, ArgData
  <2>4. CopyArg(hcp') = SubSeq(data, 1, Min({Len(data), limit}))
    BY <2>3, Zenon DEF CopyArg, ArgData, limit
  <2>5. f.area = "given" => call'.copied = SubSeq(data, 1, Min({Len(data), limit}))
    BY <2>2, <2>4, Zenon
  <2> QED
    BY <1>1, <1>2, <1>3, <1>4, <1>7, <2>2, <2>3, <2>5, Zenon DEF DataFromThisAnswer, limit
<1> QED
  BY <1>5, <1>6, <1>7

(* If the answer has a result, arg and bep_result are it, until another    *)
(* search; if not, arg is where it was and bep_result is OK.               *)
LEMMA ParsedAnswer ==
  ASSUME NEW h, NEW args, Holds(h, args), IsAnswer(args)
  PROVE  /\ WithKey(args, RESULT) # {} =>
              /\ ParseResult(h).arg.size = 1
              /\ ParseResult(h).result = args[Min(WithKey(args, RESULT))].data[1]
         /\ WithKey(args, RESULT) = {} =>
              ParseResult(h).arg = h.arg /\ ParseResult(h).result = 0
<1> DEFINE found == WithKey(args, RESULT)  g == GetArg(h, RESULT)  data == args[Min(found)].data
<1>1. args \in Seq(Argument) /\ \A i \in DOMAIN args : Fits(args[i])
  BY Zenon DEF IsAnswer
<1>2. h \in Hcp
  BY Zenon DEF Holds
<1>3. CASE found # {}
  <2>1. Places(h, RESULT) # {} /\ Min(found) \in found /\ HasFound(g, data)
    BY <1>1, <1>3, SearchOfAnswer, Zenon
  <2>2. Len(data) = 1
    <3>1. Min(found) \in DOMAIN args /\ args[Min(found)].key = RESULT
      BY <2>1 DEF WithKey
    <3> QED
      BY <1>1, <3>1, Zenon DEF Fits
  <2>3. g \in Hcp
    BY <1>2, GetArgTyped, Zenon
  <2>4. ParseResult(h) = [g EXCEPT !.result = Read(g.buffer, g.arg.at, 1)[1]]
    BY <2>1, Zenon DEF ParseResult
  <2>5. g.arg.size = 1 /\ Read(g.buffer, g.arg.at, 1) = data
    BY <2>1, <2>2, Zenon DEF HasFound, ArgData
  <2> HIDE DEF found, g, data
  <2>6. ParseResult(h).arg = g.arg /\ ParseResult(h).result = data[1]
    BY <2>3, <2>4, <2>5 DEF Hcp
  <2> QED
    BY <1>3, <2>5, <2>6, Zenon DEF found, data
<1>4. CASE found = {}
  <2>1. Places(h, RESULT) = {}
    BY <1>1, <1>4, SearchOfAnswer, Zenon
  <2>2. ParseResult(h) = [h EXCEPT !.result = 0]
    BY <2>1, Zenon DEF ParseResult
  <2>3. ParseResult(h).arg = h.arg /\ ParseResult(h).result = 0
    BY <1>2, <2>2 DEF Hcp
  <2> QED
    BY <1>4, <2>3, Zenon
<1> QED
  BY <1>3, <1>4, Zenon

(* What the console lists, after a call whose answer is in the buffer. *)
LEMMA ListedCall ==
  ASSUME NEW f \in Functions, NEW answer, IsAnswer(answer), NEW key \in f.wants,
         NEW h, Holds(h, answer), h.arg = hcp.arg,
         call'.function = f, call'.answer = answer, call'.transfer = "ok",
         \/ Places(ParseResult(h), key) = {} /\ hcp' = ParseResult(h)
         \/ Places(ParseResult(h), key) # {} /\ hcp' = GetArg(ParseResult(h), key)
  PROVE  ListsIds
<1> DEFINE parsed == ParseResult(h)  found == WithKey(answer, DATA)
           data == answer[Min(found)].data
           results == WithKey(answer, RESULT)
           refused == results # {} /\ answer[Min(results)].data[1] # 0
<1>1. SUFFICES ASSUME f.wants = {DATA}
               PROVE  Listed' = IF refused THEN <<>>
                                ELSE IF found # {} THEN data
                                ELSE IF results # {} THEN <<>>
                                ELSE IdsAt(hcp'.buffer, hcp.arg)
  <2>1. ~(call'.transfer \in {"none", "sendFails"})
    OBVIOUS
  <2>2. ListRefused' <=> refused
    BY Zenon DEF ListRefused, Wanted, WantedData, WithKey
  <2> QED
    BY <2>1, <2>2, Zenon DEF ListsIds, IsListing, Wanted, WantedData, WithKey
<1>2. key = DATA
  BY <1>1
<1>3. answer \in Seq(Argument) /\ \A i \in DOMAIN answer : Fits(answer[i])
  BY Zenon DEF IsAnswer
<1>4. Holds(parsed, answer) /\ parsed \in Hcp
  BY ParsedHolds, Zenon DEF Holds
<1>5. Places(parsed, DATA) = {} <=> found = {}
  BY <1>3, <1>4, SearchOfAnswer, Zenon
<1>6. /\ results # {} => parsed.arg.size = 1 /\ parsed.result = answer[Min(results)].data[1]
      /\ results = {} => parsed.arg = hcp.arg /\ parsed.result = 0
  BY ParsedAnswer, Zenon
<1>7. refused <=> parsed.result # 0
  BY <1>6, Zenon
<1>8. hcp'.result = parsed.result
  BY <1>4, GetArgTyped, Zenon
<1> DEFINE size == hcp'.arg.size  read == ArgData(hcp)'
<1>9. Listed' = IF refused THEN <<>> ELSE SubSeq(read, 1, 2 * (size \div 2))
  BY <1>7, <1>8, Zenon DEF Listed, IdsAt, ArgData
<1> HIDE DEF parsed, refused
<1>10. CASE found # {}
  <2>1. hcp' = GetArg(parsed, DATA)
    BY <1>2, <1>5, <1>10, Zenon DEF parsed
  <2>2. Min(found) \in found /\ HasFound(GetArg(parsed, DATA), data)
    BY <1>3, <1>4, <1>10, SearchOfAnswer, Zenon
  <2>3. read = data /\ size = Len(data)
    BY <2>1, <2>2, Zenon DEF HasFound, ArgData
  <2>4. Len(data) \in {0, 2, 4} /\ data \in Seq(Nat)
    <3>1. Min(found) \in DOMAIN answer /\ answer[Min(found)].key = DATA
      BY <2>2 DEF WithKey
    <3> QED
      BY <1>3, <3>1 DEF Fits, Argument
  <2> HIDE DEF read, size, data, found
  <2>5. 2 * (size \div 2) = Len(data)
    <3> DEFINE n == Len(data)
    <3>1. size = n /\ n \in {0, 2, 4}
      BY <2>3, <2>4, Zenon
    <3> HIDE DEF n
    <3>2. 2 * (n \div 2) = n
      BY <3>1
    <3> QED
      BY <3>1, <3>2, Zenon DEF n
  <2>6. SubSeq(data, 1, Len(data)) = data
    BY <2>4, SubSeqFull
  <2> QED
    BY <1>9, <1>10, <2>3, <2>5, <2>6, Zenon
<1>11. CASE found = {} /\ results # {}
  <2>1. hcp' = parsed
    BY <1>2, <1>5, <1>11, Zenon DEF parsed
  <2>2. size = 1
    BY <1>6, <1>11, <2>1, Zenon
  <2> HIDE DEF size, read
  <2>3. 2 * (size \div 2) = 0
    BY <2>2
  <2>4. SubSeq(read, 1, 0) = <<>>
    <3>1. 1 \in Int /\ 0 \in Int /\ 0 < 1
      OBVIOUS
    <3> QED
      BY <3>1, SubSeqEmpty, Zenon
  <2> QED
    BY <1>9, <1>11, <2>3, <2>4, Zenon
<1>12. CASE found = {} /\ results = {}
  <2>1. hcp' = parsed
    BY <1>2, <1>5, <1>12, Zenon DEF parsed
  <2>2. hcp'.arg = hcp.arg
    BY <1>6, <1>12, <2>1, Zenon
  <2>3. SubSeq(read, 1, 2 * (size \div 2)) = IdsAt(hcp'.buffer, hcp.arg)
    BY <2>2, Zenon DEF ArgData, IdsAt
  <2> QED
    BY <1>9, <1>12, <2>3, Zenon
<1> QED
  BY <1>10, <1>11, <1>12, Zenon

--------------------------------------------------------------------------------
(* The theorems.                                                           *)

Promised == CommandIsRequest /\ DataFromThisAnswer

(* An answer of the module, as bmlite_tranceive gets it. *)
LEMMA AnswerReceived ==
  ASSUME hcp \in Hcp, calls \in Nat, NEW f \in Functions, NEW answer \in Answers(calls)
  PROVE  /\ IsAnswer(answer) /\ answer \in Seq(Argument) /\ Built(f) \in Hcp
         /\ Frames(Encode(answer)) \in Seq(Seq(Nat))
         /\ Receive(Built(f), Frames(Encode(answer))) \in Hcp
         /\ Receive(Built(f), Frames(Encode(answer))).arg = hcp.arg
<1> DEFINE p == Encode(answer)  frames == Frames(p)
<1>1. IsAnswer(answer) /\ answer \in Seq(Argument)
  BY AnswersTyped DEF IsAnswer
<1>2. p \in Seq(Nat) /\ Len(p) \in Nat
  BY <1>1, EncodeTyped
<1> HIDE DEF p
<1>3. frames \in Seq(Seq(Nat))
  BY <1>2, FramesTyped
<1>4. Built(f) \in Hcp /\ Built(f).arg = hcp.arg
  BY BuiltTyped
<1> HIDE DEF frames
<1>5. Receive(Built(f), frames) \in Hcp /\ Receive(Built(f), frames).arg = hcp.arg
  BY <1>3, <1>4, ReceiveTyped
<1> QED
  BY <1>1, <1>3, <1>4, <1>5, Zenon DEF frames, p

LEMMA CommandTooLongKeeps ==
  ASSUME ApiTypeOK, NEW f \in Functions, CommandTooLong(f)
  PROVE  ApiTypeOK' /\ Promised' /\ ListsIds
<1>1. /\ Command(f).full /\ hcp' = Built(f)
      /\ Returns(f, <<>>, <<>>, "none", "noMemory", <<>>)
  BY DEF CommandTooLong
<1>2. /\ calls' = calls + 1 /\ call'.function = f /\ call'.sent = <<>>
      /\ call'.transfer = "none" /\ call'.res = "noMemory"
  BY <1>1 DEF Returns
<1>3. CommandIsRequest'
  BY <1>1, <1>2, RequestSent, Zenon DEF ApiTypeOK
<1>4. DataFromThisAnswer'
  BY <1>2, FailedCall
<1>6. ListsIds
  BY <1>1, <1>2, NothingSent DEF ApiTypeOK
<1>5. Built(f) \in Hcp
  BY BuiltTyped DEF ApiTypeOK
<1> QED
  BY <1>1, <1>2, <1>3, <1>4, <1>5, <1>6 DEF ApiTypeOK, Promised

LEMMA SendFailsKeeps ==
  ASSUME ApiTypeOK, NEW f \in Functions, SendFails(f)
  PROVE  ApiTypeOK' /\ Promised' /\ ListsIds
<1>1. /\ ~Command(f).full /\ hcp' = Built(f)
      /\ Returns(f, Sent(f), <<>>, "sendFails", "error", <<>>)
  BY DEF SendFails
<1>2. /\ calls' = calls + 1 /\ call'.function = f /\ call'.sent = Sent(f)
      /\ call'.transfer = "sendFails" /\ call'.res = "error"
  BY <1>1 DEF Returns
<1>3. CommandIsRequest'
  BY <1>1, <1>2, RequestSent, Zenon DEF ApiTypeOK
<1>4. DataFromThisAnswer'
  BY <1>2, FailedCall
<1>6. ListsIds
  BY <1>1, <1>2, NothingSent DEF ApiTypeOK
<1>5. Built(f) \in Hcp
  BY BuiltTyped DEF ApiTypeOK
<1> QED
  BY <1>1, <1>2, <1>3, <1>4, <1>5, <1>6 DEF ApiTypeOK, Promised

LEMMA ReceiveFailsKeeps ==
  ASSUME ApiTypeOK, NEW f \in Functions, ReceiveFails(f)
  PROVE  ApiTypeOK' /\ Promised' /\ ListsIds
<1>1. PICK answer \in Answers(calls) :
        \E n \in 0..(Len(Frames(Encode(answer))) - 1) :
          /\ hcp' = ParseResult(ReceiveBroken(Built(f), Frames(Encode(answer)), n))
          /\ Returns(f, Sent(f), <<>>, "receiveFails", "error", <<>>)
  BY Zenon DEF ReceiveFails
<1> DEFINE frames == Frames(Encode(answer))
<1> HIDE DEF frames
<1>2. PICK n \in 0..(Len(frames) - 1) :
        /\ hcp' = ParseResult(ReceiveBroken(Built(f), frames, n))
        /\ Returns(f, Sent(f), <<>>, "receiveFails", "error", <<>>)
  BY <1>1 DEF frames
<1>3. frames \in Seq(Seq(Nat)) /\ Built(f) \in Hcp
  BY AnswerReceived, Zenon DEF ApiTypeOK, frames
<1>4. n \in 0..Len(frames)
  <2>1. Len(frames) \in Nat
    BY <1>3, LenProperties
  <2> QED
    BY <2>1
<1>5. hcp' \in Hcp
  <2>1. ReceiveBroken(Built(f), frames, n) \in Hcp
    BY <1>3, <1>4, ReceiveBrokenTyped, Zenon
  <2> QED
    BY <1>2, <2>1, ParseResultTyped
<1>6. /\ calls' = calls + 1 /\ call'.function = f /\ call'.sent = Sent(f)
      /\ call'.transfer = "receiveFails" /\ call'.res = "error"
  BY <1>2 DEF Returns
<1>7. ~Command(f).full
  BY DEF ReceiveFails
<1>8. CommandIsRequest'
  BY <1>6, <1>7, RequestSent, Zenon DEF ApiTypeOK
<1>9. DataFromThisAnswer'
  BY <1>6, FailedCall
<1>10. ListsIds
  BY <1>6 DEF ListsIds
<1> QED
  BY <1>5, <1>6, <1>8, <1>9, <1>10 DEF ApiTypeOK, Promised

LEMMA AnswerTooLongKeeps ==
  ASSUME ApiTypeOK, NEW f \in Functions, AnswerTooLong(f)
  PROVE  ApiTypeOK' /\ Promised' /\ ListsIds
<1>1. PICK answer \in Answers(calls) :
        /\ hcp' = ParseResult(Receive(Built(f), Frames(Encode(answer))))
        /\ Returns(f, Sent(f), <<>>, "noMemory", "noMemory", <<>>)
  BY Zenon DEF AnswerTooLong
<1>2. Receive(Built(f), Frames(Encode(answer))) \in Hcp
  BY AnswerReceived, Zenon DEF ApiTypeOK
<1>3. hcp' \in Hcp
  BY <1>1, <1>2, ParseResultTyped
<1>4. /\ calls' = calls + 1 /\ call'.function = f /\ call'.sent = Sent(f)
      /\ call'.transfer = "noMemory" /\ call'.res = "noMemory"
  BY <1>1 DEF Returns
<1>5. ~Command(f).full
  BY DEF AnswerTooLong
<1>6. CommandIsRequest'
  BY <1>4, <1>5, RequestSent, Zenon DEF ApiTypeOK
<1>7. DataFromThisAnswer'
  BY <1>4, FailedCall
<1>8. ListsIds
  BY <1>4 DEF ListsIds
<1> QED
  BY <1>3, <1>4, <1>6, <1>7, <1>8 DEF ApiTypeOK, Promised

LEMMA AnswerMalformedKeeps ==
  ASSUME ApiTypeOK, NEW f \in Functions, AnswerMalformed(f)
  PROVE  ApiTypeOK' /\ Promised' /\ ListsIds
<1> DEFINE Kept(frames, good) ==
             [i \in DOMAIN frames |-> IF i \in good THEN frames[i] ELSE <<>>]
<1>0. PICK answer \in Answers(calls) :
        \E good \in (SUBSET DOMAIN Frames(Encode(answer))) \ {DOMAIN Frames(Encode(answer))} :
          /\ hcp' = ParseResult(Receive(Built(f), Kept(Frames(Encode(answer)), good)))
          /\ \/ Returns(f, Sent(f), <<>>, "malformed", "error", <<>>)
             \/ Returns(f, Sent(f), <<>>, "malformed", "noMemory", <<>>)
  BY Zenon DEF AnswerMalformed
<1>1. PICK good, res :
        /\ hcp' = ParseResult(Receive(Built(f), Kept(Frames(Encode(answer)), good)))
        /\ res \in {"error", "noMemory"}
        /\ Returns(f, Sent(f), <<>>, "malformed", res, <<>>)
  <2>1. PICK good :
          /\ hcp' = ParseResult(Receive(Built(f), Kept(Frames(Encode(answer)), good)))
          /\ \/ Returns(f, Sent(f), <<>>, "malformed", "error", <<>>)
             \/ Returns(f, Sent(f), <<>>, "malformed", "noMemory", <<>>)
    BY <1>0, Zenon
  <2>2. "error" \in {"error", "noMemory"} /\ "noMemory" \in {"error", "noMemory"}
    OBVIOUS
  <2> HIDE DEF Kept
  <2> QED
    BY <2>1, <2>2, Zenon
<1> DEFINE frames == Frames(Encode(answer))
<1>2. frames \in Seq(Seq(Nat)) /\ Built(f) \in Hcp
  BY AnswerReceived, Zenon DEF ApiTypeOK
<1> HIDE DEF frames
<1>3. Kept(frames, good) \in Seq(Seq(Nat))
  <2>1. Len(frames) \in Nat /\ DOMAIN frames = 1..Len(frames)
        /\ \A i \in 1..Len(frames) : frames[i] \in Seq(Nat)
    BY <1>2, LenProperties, ElementOfSeq
  <2>2. \A i \in 1..Len(frames) :
          (IF i \in good THEN frames[i] ELSE <<>>) \in Seq(Nat)
    BY <2>1
  <2> QED
    BY <2>1, <2>2
<1>4. hcp' \in Hcp
  <2>1. Receive(Built(f), Kept(frames, good)) \in Hcp
    BY <1>2, <1>3, ReceiveTyped, Zenon
  <2>2. hcp' = ParseResult(Receive(Built(f), Kept(frames, good)))
    BY <1>1, Zenon DEF frames
  <2> QED
    BY <2>1, <2>2, ParseResultTyped, Zenon
<1>5. /\ calls' = calls + 1 /\ call'.function = f /\ call'.sent = Sent(f)
      /\ call'.transfer = "malformed" /\ call'.res # "ok"
  BY <1>1 DEF Returns
<1>6. ~Command(f).full
  BY Zenon DEF AnswerMalformed
<1>7. CommandIsRequest'
  BY <1>5, <1>6, RequestSent, Zenon DEF ApiTypeOK
<1>8. DataFromThisAnswer'
  BY <1>5, FailedCall
<1>9. ListsIds
  BY <1>5 DEF ListsIds
<1> QED
  BY <1>4, <1>5, <1>7, <1>8, <1>9 DEF ApiTypeOK, Promised

LEMMA AnsweredKeeps ==
  ASSUME ApiTypeOK, NEW f \in Functions, Answered(f)
  PROVE  ApiTypeOK' /\ Promised' /\ ListsIds
<1> DEFINE Received(answer) == Receive(Built(f), Frames(Encode(answer)))
           Parsed(answer) == ParseResult(Received(answer))
           Plain(answer) ==
             /\ f.wants = {} /\ hcp' = Parsed(answer)
             /\ Returns(f, Sent(f), answer, "ok", "ok", <<>>)
           Misses(answer, key) ==
             /\ Places(Parsed(answer), key) = {} /\ hcp' = Parsed(answer)
             /\ Returns(f, Sent(f), answer, "ok", "invalid", <<>>)
           Finds(answer, key) ==
             /\ Places(Parsed(answer), key) # {} /\ hcp' = GetArg(Parsed(answer), key)
             /\ \/ f.area = "null" /\ Returns(f, Sent(f), answer, "ok", "noMemory", <<>>)
                \/ /\ f.area # "null"
                   /\ Returns(f, Sent(f), answer, "ok", "ok",
                              IF f.area = "given" THEN CopyArg(hcp') ELSE <<>>)
<1>1. PICK answer \in Answers(calls) :
        /\ Len(Stored(Frames(Encode(answer)))) = Len(Encode(answer))
        /\ Plain(answer) \/ \E key \in f.wants : Misses(answer, key) \/ Finds(answer, key)
  BY Zenon DEF Answered
<1> DEFINE h == Received(answer)  parsed == Parsed(answer)
<1>2. IsAnswer(answer) /\ answer \in Seq(Argument) /\ Built(f) \in Hcp /\ h \in Hcp
      /\ h.arg = hcp.arg
  BY AnswerReceived, Zenon DEF ApiTypeOK
<1>3. Holds(h, answer)
  BY <1>1, <1>2, WholeAnswer, Zenon
<1>4. Holds(parsed, answer)
  BY <1>3, ParsedHolds, Zenon
<1>5. parsed \in Hcp
  BY <1>4, Zenon DEF Holds
<1>6. ~Command(f).full
  BY Zenon DEF Answered
<1> HIDE DEF Plain, Misses, Finds
<1>7. \E res, copied : Returns(f, Sent(f), answer, "ok", res, copied)
  BY <1>1, Zenon DEF Plain, Misses, Finds
<1>8. /\ calls' = calls + 1 /\ call'.function = f /\ call'.sent = Sent(f)
      /\ call'.answer = answer /\ call'.transfer = "ok"
  BY <1>7 DEF Returns
<1>9. CommandIsRequest'
  BY <1>6, <1>8, RequestSent, Zenon DEF ApiTypeOK
<1>10. CASE Plain(answer)
  <2>1. f.wants = {} /\ hcp' = parsed
    BY <1>10, Zenon DEF Plain
  <2>2. DataFromThisAnswer' /\ ListsIds
    BY <1>8, <2>1, Zenon DEF DataFromThisAnswer, ListsIds, IsListing
  <2> QED
    BY <1>5, <1>8, <1>9, <2>1, <2>2 DEF ApiTypeOK, Promised
<1>11. ASSUME NEW key \in f.wants, Misses(answer, key)
       PROVE  ApiTypeOK' /\ Promised' /\ ListsIds
  <2>1. Places(parsed, key) = {} /\ hcp' = parsed
    BY <1>11, Zenon DEF Misses
  <2>2. call'.res = "invalid"
    BY <1>11 DEF Misses, Returns
  <2> HIDE DEF parsed
  <2>3. DataFromThisAnswer'
    BY <1>2, <1>4, <1>8, <2>1, <2>2, FoundCall, Zenon
  <2>4. ListsIds
    BY <1>2, <1>3, <1>8, <2>1, ListedCall, Zenon DEF parsed
  <2> QED
    BY <1>5, <1>8, <1>9, <2>1, <2>3, <2>4 DEF ApiTypeOK, Promised
<1>12. ASSUME NEW key \in f.wants, Finds(answer, key)
       PROVE  ApiTypeOK' /\ Promised' /\ ListsIds
  <2>1. Places(parsed, key) # {} /\ hcp' = GetArg(parsed, key)
    BY <1>12, Zenon DEF Finds
  <2>2. \/ f.area = "null" /\ call'.res = "noMemory"
        \/ /\ f.area # "null" /\ call'.res = "ok"
           /\ call'.copied = IF f.area = "given" THEN CopyArg(hcp') ELSE <<>>
    BY <1>12 DEF Finds, Returns
  <2> HIDE DEF parsed
  <2>3. DataFromThisAnswer'
    BY <1>2, <1>4, <1>8, <2>1, <2>2, FoundCall, Zenon
  <2>4. ListsIds
    BY <1>2, <1>3, <1>8, <2>1, ListedCall, Zenon DEF parsed
  <2>5. GetArg(parsed, key) \in Hcp
    BY <1>5, GetArgTyped
  <2> QED
    BY <1>8, <1>9, <2>1, <2>3, <2>4, <2>5 DEF ApiTypeOK, Promised
<1> QED
  BY <1>1, <1>10, <1>11, <1>12, Zenon

LEMMA ApiInit ==
  ASSUME Init
  PROVE  ApiTypeOK /\ Promised
<1>1. ApiTypeOK
  <2>1. [i \in 0..(PktSizeMax + 1) |-> 0] \in Buffer
    BY DEF Buffer
  <2> QED
    BY <2>1 DEF Init, ApiTypeOK, Hcp
<1>2. call.res = "none" /\ call.transfer = "none" /\ call.function.wants = {}
  BY DEF Init
<1> QED
  BY <1>1, <1>2 DEF Promised, CommandIsRequest, DataFromThisAnswer

LEMMA ApiNext ==
  ASSUME ApiTypeOK, Promised, [Next]_vars
  PROVE  ApiTypeOK' /\ Promised' /\ [ListsIds]_vars
<1>1. CASE Next
  <2>1. PICK f \in Functions :
          \/ CommandTooLong(f) \/ SendFails(f) \/ ReceiveFails(f)
          \/ AnswerTooLong(f) \/ AnswerMalformed(f) \/ Answered(f)
    BY <1>1, Zenon DEF Next
  <2> QED
    BY <2>1, CommandTooLongKeeps, SendFailsKeeps, ReceiveFailsKeeps, AnswerTooLongKeeps,
       AnswerMalformedKeeps, AnsweredKeeps, Zenon
<1>2. CASE UNCHANGED vars
  <2>1. hcp' = hcp /\ call' = call /\ calls' = calls
    BY <1>2, Zenon DEF vars
  <2>2. CommandIsRequest' = CommandIsRequest
    BY <2>1, Zenon DEF CommandIsRequest
  <2>3. /\ ArgData(hcp)' = ArgData(hcp)
        /\ \A key : Wanted(key)' = Wanted(key) /\ WantedData(key)' = WantedData(key)
    BY <2>1, Zenon DEF Wanted, WantedData, ArgData
  <2>4. DataFromThisAnswer'
    <3>1. DataFromThisAnswer
      BY Zenon DEF Promised
    <3> QED
      BY <2>1, <2>3, <3>1 DEF DataFromThisAnswer
  <2> QED
    BY <1>2, <2>1, <2>2, <2>4, Zenon DEF ApiTypeOK, Promised
<1> QED
  BY <1>1, <1>2, Zenon

(* The buffer of the packets keeps its length, and of the search for an    *)
(* argument there is always a place and a size, whatever the packets are   *)
(* (hcp_tiny.c 57-136).                                                    *)
THEOREM ApiTypeCorrect == Spec => []ApiTypeOK
<1>1. Init => ApiTypeOK /\ Promised
  BY ApiInit
<1>2. (ApiTypeOK /\ Promised) /\ [Next]_vars => (ApiTypeOK /\ Promised)'
  BY ApiNext
<1> QED
  BY <1>1, <1>2, PTL DEF Spec

(* For every size of pkt_buffer, and all arguments a function is given:    *)
(* what bmlite_send gets is the command that was asked for, or nothing.    *)
THEOREM CommandsAreRequests == Spec => []CommandIsRequest
<1>1. Init => ApiTypeOK /\ Promised
  BY ApiInit
<1>2. (ApiTypeOK /\ Promised) /\ [Next]_vars => (ApiTypeOK /\ Promised)'
  BY ApiNext
<1>3. Promised => CommandIsRequest
  BY DEF Promised
<1> QED
  BY <1>1, <1>2, <1>3, PTL DEF Spec

(* What a function returns of an answer is of the answer to this call, and *)
(* never what an earlier packet left in pkt_buffer.                        *)
THEOREM DataIsFromThisAnswer == Spec => []DataFromThisAnswer
<1>1. Init => ApiTypeOK /\ Promised
  BY ApiInit
<1>2. (ApiTypeOK /\ Promised) /\ [Next]_vars => (ApiTypeOK /\ Promised)'
  BY ApiNext
<1>3. Promised => DataFromThisAnswer
  BY DEF Promised
<1> QED
  BY <1>1, <1>2, <1>3, PTL DEF Spec

(* The ids that the console lists are those of this answer, or none, if it *)
(* came whole and has any argument that the library looks for; if it has   *)
(* neither, or the command was not sent, they are what an earlier call     *)
(* left, and the theorem says exactly which (main.c 235-244).              *)
THEOREM ListedIdsAreKnown == Spec => ListedIds
<1>1. Init => ApiTypeOK /\ Promised
  BY ApiInit
<1>2. (ApiTypeOK /\ Promised) /\ [Next]_vars => (ApiTypeOK /\ Promised)'
  BY ApiNext
<1>3. (ApiTypeOK /\ Promised) /\ [Next]_vars => [ListsIds]_vars
  BY ApiNext
<1>4. Spec => [][ListsIds]_vars
  BY <1>1, <1>2, <1>3, PTL DEF Spec
<1> QED
  BY <1>4 DEF ListedIds

================================================================================
