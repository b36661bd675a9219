---------------------------- MODULE UartRing_proofs ----------------------------
(***************************************************************************)
(* Theorems about UartRing, for a ring of any length.                      *)
(***************************************************************************)
EXTENDS UartRing, SequenceTheorems, TLAPS

(* prev_cndtr has 16 bits, as the counter of the DMA has.                  *)
CounterFits == N < CounterRange

(* The thread polls once per byte at least; UartAhead shows what happens   *)
(* when it does not.                                                       *)
PollsInTime == Slack <= 1

RingBytes == 0..(Numbers - 1)

Follow(x) == IF x + 1 < Numbers THEN x + 1 ELSE 0

(* x reduced modulo m, if it is less than 2 * m. *)
Wrap(x, m) == IF x < m THEN x ELSE x - m

Start == N - prevCndtr     \* the place of the first byte the host has not seen
End == N - cndtr           \* the place of the next byte

RingTypes ==
  /\ ring \in [0..(N - 1) -> 0..Junk]
  /\ cndtr \in 1..N /\ prevCndtr \in 1..N
  /\ running \in BOOLEAN
  /\ size \in Sizes \cup {0}
  /\ got \in Seq(RingBytes)
  /\ next \in RingBytes /\ due \in RingBytes
  /\ unread \in 0..(N - 1) /\ stops \in 0..MaxStops

(* The host has room for what it has not seen. *)
RoomLeft == Len(got) <= size /\ (Len(got) + unread <= size \/ unread <= 1)

(* From Start on the ring holds the bytes the host has not seen. *)
Stored ==
  /\ End = Wrap(Start + unread, N)
  /\ next = Wrap(due + unread, Numbers)
  /\ \A i \in 0..(unread - 1) : ring[Wrap(Start + i, N)] = Wrap(due + i, Numbers)

(* What the host has got is in order, and due comes next. *)
Delivered ==
  /\ \A i \in 1..(Len(got) - 1) : got[i + 1] = Follow(got[i])
  /\ Len(got) > 0 => due = Follow(got[Len(got)])

RingInv ==
  /\ RingTypes
  /\ RoomLeft
  /\ running => Stored
  /\ stops = 0 => running /\ Delivered

--------------------------------------------------------------------------------
(* A remainder is a number that was reduced at most once. *)
LEMMA WrapIsMod ==
  ASSUME NEW m \in Nat \ {0}, NEW x \in 0..(2 * m - 1)
  PROVE  x % m = Wrap(x, m)
  BY Z3 DEF Wrap

LEMMA NegativeMod ==
  ASSUME NEW m \in Nat \ {0}, NEW x \in (-m)..(-1)
  PROVE  x % m = x + m
  BY Z3

LEMMA FollowIs ==
  ASSUME RingAssumption, NEW x \in RingBytes
  PROVE  Follow(x) = (x + 1) % Numbers /\ Follow(x) \in RingBytes
<1>1. Numbers \in Nat \ {0} /\ x + 1 \in 0..(2 * Numbers - 1)
  BY DEF RingAssumption, RingBytes
<1>2. (x + 1) % Numbers = Wrap(x + 1, Numbers)
  BY <1>1, WrapIsMod
<1> QED
  BY <1>1, <1>2 DEF Wrap, Follow, RingBytes

LEMMA FunctionIsSeq ==
  ASSUME NEW S, NEW n \in Nat, NEW f \in [1..n -> S]
  PROVE  f \in Seq(S) /\ Len(f) = n
<1>1. f \in Seq(S)
  BY SeqDef
<1>2. DOMAIN f = 1..n
  OBVIOUS
<1> QED
  BY <1>1, <1>2, LenProperties

LEMMA CopiedIs ==
  ASSUME RingAssumption, ring \in [0..(N - 1) -> 0..Junk],
         NEW pos \in 0..(N - 1), NEW length \in 0..N, pos + length <= N
  PROVE  /\ Copied(pos, length) \in Seq(0..Junk)
         /\ Len(Copied(pos, length)) = length
         /\ \A i \in 1..length : Copied(pos, length)[i] = ring[pos + i - 1]
<1>1. N \in Nat \ {0} /\ length \in Nat
  BY DEF RingAssumption
<1>2. \A i \in 1..length : pos + i - 1 \in 0..(N - 1)
  BY <1>1
<1>3. Copied(pos, length) = [i \in 1..length |-> ring[pos + i - 1]]
  BY <1>2 DEF Copied
<1>4. \A i \in 1..length : ring[pos + i - 1] \in 0..Junk
  BY <1>2
<1>5. Copied(pos, length) \in [1..length -> 0..Junk]
  BY <1>3, <1>4
<1> QED
  BY <1>1, <1>3, <1>5, FunctionIsSeq

LEMMA CounterKept ==
  ASSUME CounterFits, N \in Nat, NEW n \in 0..N
  PROVE  n % CounterRange = n
<1>1. CounterRange \in Nat \ {0}
  BY SMT DEF CounterRange
<1> QED
  BY <1>1, WrapIsMod DEF CounterFits, Wrap

(* What is to be read lies in one piece. *)
LEMMA OnePiece ==
  ASSUME N \in Nat \ {0}, NEW s \in 0..(N - 1), NEW e \in 0..(N - 1),
         NEW w \in Nat, s < e, e - s <= w
  PROVE  FirstLength(s, e, w) = e - s /\ FirstLeft(N - s, e - s) = N - e
  BY DEF FirstLength, CopySize, FirstLeft

(* It goes on at the beginning of the ring. *)
LEMMA TwoPieces ==
  ASSUME N \in Nat \ {0}, NEW s \in 0..(N - 1), NEW e \in 0..(N - 1),
         NEW w \in Nat, e < s, N - s + e <= w
  PROVE  /\ FirstLength(s, e, w) = N - s /\ CopySize(e, w) = e
         /\ FirstLeft(N - s, N - s) = N
  BY DEF FirstLength, CopySize, FirstLeft

(* A read when the host is at place s and the DMA at place e. *)
ReadFrom(s, e, w) == ReadRing(N - s, N - e, w)

(* Its parts, and where it leaves the host. *)
FirstPart(s, e, w) == Copied(s, FirstLength(s, e, w))

SecondPart(s, e, w) == Copied(0, IF s \in 0..e THEN 0 ELSE CopySize(e, w))

PrevAfter(s, e, w) ==
  (FirstLeft(N - s, FirstLength(s, e, w))
     - (IF s \in 0..e THEN 0 ELSE CopySize(e, w))) % CounterRange

LEMMA ReadFromIs ==
  ASSUME N \in Nat \ {0}, NEW s \in 0..(N - 1), NEW e \in 0..(N - 1), s # e,
         NEW w \in Nat
  PROVE  /\ ReadFrom(s, e, w).bytes = FirstPart(s, e, w) \o SecondPart(s, e, w)
         /\ ReadFrom(s, e, w).prev = PrevAfter(s, e, w)
<1> DEFINE b == FirstPart(s, e, w) \o SecondPart(s, e, w)
           p == PrevAfter(s, e, w)
<1>1. N - (N - s) = s /\ N - (N - e) = e /\ N - e # N - s
  OBVIOUS
<1>2. ReadFrom(s, e, w) = [bytes |-> b, prev |-> p]
  BY <1>1, Zenon DEF ReadFrom, ReadRing, FirstPart, SecondPart, PrevAfter
<1> HIDE DEF b, p
<1>3. ReadFrom(s, e, w).bytes = b /\ ReadFrom(s, e, w).prev = p
  BY <1>2
<1> QED
  BY <1>3 DEF b, p

(* A read of at least u bytes finds the u bytes from place s on. *)
LEMMA ReadsAll ==
  ASSUME RingAssumption, CounterFits, ring \in [0..(N - 1) -> 0..Junk],
         NEW s \in 0..(N - 1), NEW u \in 1..(N - 1),
         NEW e \in 0..(N - 1), e = Wrap(s + u, N), NEW w \in Nat, u <= w
  PROVE  LET r == ReadFrom(s, e, w)
         IN  /\ r.prev = N - e
             /\ r.bytes \in Seq(0..Junk) /\ Len(r.bytes) = u
             /\ \A i \in 1..u : r.bytes[i] = ring[Wrap(s + (i - 1), N)]
<1> DEFINE r == ReadFrom(s, e, w)
           c == FirstPart(s, e, w)
           d == SecondPart(s, e, w)
<1>1. N \in Nat \ {0}
  BY DEF RingAssumption
<1>2. s # e /\ N - e \in 0..N
  BY <1>1 DEF Wrap
<1>3. (N - e) % CounterRange = N - e
  BY <1>1, <1>2, CounterKept
<1>4. /\ r.bytes = c \o d
      /\ r.prev = (FirstLeft(N - s, FirstLength(s, e, w))
                     - (IF s \in 0..e THEN 0 ELSE CopySize(e, w))) % CounterRange
  <2>1. r.bytes = c \o d /\ r.prev = PrevAfter(s, e, w)
    BY <1>1, <1>2, ReadFromIs
  <2> HIDE DEF r
  <2> QED
    BY <2>1, Zenon DEF PrevAfter
<1> HIDE DEF r
<1> SUFFICES /\ r.prev = N - e
             /\ r.bytes \in Seq(0..Junk) /\ Len(r.bytes) = u
             /\ \A i \in 1..u : r.bytes[i] = ring[Wrap(s + (i - 1), N)]
  BY DEF r
<1>5. CASE s + u < N
  <2>1. e = s + u /\ s < e /\ e - s = u /\ u <= w /\ s \in 0..e
    BY <1>1, <1>5 DEF Wrap
  <2>2. FirstLength(s, e, w) = u /\ FirstLeft(N - s, u) = N - e
    BY <1>1, <2>1, OnePiece
  <2>3. r.prev = N - e
    BY <1>1, <1>3, <1>4, <2>1, <2>2
  <2>4. /\ c \in Seq(0..Junk) /\ Len(c) = u
        /\ \A i \in 1..u : c[i] = ring[s + i - 1]
    <3>1. s \in 0..(N - 1) /\ u \in 0..N /\ s + u <= N
      BY <1>1, <1>5
    <3> QED
      BY <2>2, <3>1, CopiedIs DEF FirstPart
  <2>5. d \in Seq(0..Junk) /\ Len(d) = 0
    <3>1. 0 \in 0..(N - 1) /\ 0 \in 0..N /\ 0 + 0 <= N
      BY <1>1
    <3> QED
      BY <2>1, <3>1, CopiedIs DEF SecondPart
  <2> HIDE DEF c, d
  <2>6. /\ r.bytes \in Seq(0..Junk) /\ Len(r.bytes) = u + 0
        /\ \A i \in 1..(u + 0) : r.bytes[i] = IF i <= u THEN c[i] ELSE d[i - u]
    BY <1>4, <2>4, <2>5, ConcatProperties
  <2>7. \A i \in 1..u : s + i - 1 = Wrap(s + (i - 1), N) /\ i \in 1..(u + 0)
    BY <1>1, <1>5 DEF Wrap
  <2>8. u + 0 = u
    OBVIOUS
  <2>9. ASSUME NEW i \in 1..u PROVE r.bytes[i] = ring[Wrap(s + (i - 1), N)]
    <3>1. i <= u
      OBVIOUS
    <3> QED
      BY <2>4, <2>6, <2>7, <3>1
  <2> QED
    BY <2>3, <2>6, <2>8, <2>9
<1>6. CASE s + u >= N
  <2> DEFINE f == N - s
  <2>1. /\ e = s + u - N /\ e < s /\ N - s + e <= w /\ s \notin 0..e
        /\ f \in 1..N /\ f + e = u
    BY <1>1, <1>6 DEF Wrap
  <2>2. /\ FirstLength(s, e, w) = f /\ CopySize(e, w) = e
        /\ FirstLeft(N - s, f) = N
    BY <1>1, <2>1, TwoPieces
  <2>3. r.prev = N - e
    BY <1>1, <1>3, <1>4, <2>1, <2>2
  <2>4. /\ c \in Seq(0..Junk) /\ Len(c) = f
        /\ \A i \in 1..f : c[i] = ring[s + i - 1]
    <3>1. s \in 0..(N - 1) /\ f \in 0..N /\ s + f <= N
      BY <1>1
    <3> QED
      BY <2>2, <3>1, CopiedIs DEF FirstPart
  <2>5. /\ d \in Seq(0..Junk) /\ Len(d) = e
        /\ \A i \in 1..e : d[i] = ring[0 + i - 1]
    <3>1. 0 \in 0..(N - 1) /\ e \in 0..N /\ 0 + e <= N
      BY <1>1
    <3> QED
      BY <2>1, <2>2, <3>1, CopiedIs DEF SecondPart
  <2> HIDE DEF c, d, f
  <2>6. /\ r.bytes \in Seq(0..Junk) /\ Len(r.bytes) = f + e
        /\ \A i \in 1..(f + e) : r.bytes[i] = IF i <= f THEN c[i] ELSE d[i - f]
    <3>1. c \in Seq(0..Junk) /\ d \in Seq(0..Junk) /\ Len(c) = f /\ Len(d) = e
      BY <2>4, <2>5
    <3>2. /\ c \o d \in Seq(0..Junk) /\ Len(c \o d) = Len(c) + Len(d)
          /\ \A i \in 1..(Len(c) + Len(d)) :
               (c \o d)[i] = IF i <= Len(c) THEN c[i] ELSE d[i - Len(c)]
      BY <3>1, ConcatProperties, Zenon
    <3> QED
      BY <1>4, <3>1, <3>2
  <2>7. ASSUME NEW i \in 1..u PROVE r.bytes[i] = ring[Wrap(s + (i - 1), N)]
    <3>1. i \in 1..(f + e)
      BY <2>1
    <3>2. CASE i <= f
      <4>1. i \in 1..f /\ Wrap(s + (i - 1), N) = s + i - 1
        BY <1>1, <2>1, <3>2 DEF Wrap, f
      <4> QED
        BY <2>4, <2>6, <3>1, <3>2, <4>1
    <3>3. CASE ~(i <= f)
      <4>1. i - f \in 1..e /\ Wrap(s + (i - 1), N) = 0 + (i - f) - 1
        BY <1>1, <2>1, <3>3 DEF Wrap, f
      <4> QED
        BY <2>5, <2>6, <3>1, <3>3, <4>1
    <3> QED
      BY <3>2, <3>3
  <2> QED
    BY <2>1, <2>3, <2>6, <2>7
<1> QED
  BY <1>1, <1>5, <1>6

LEMMA ReadNothing ==
  ASSUME NEW c, NEW w
  PROVE  ReadRing(c, c, w).bytes = <<>> /\ ReadRing(c, c, w).prev = c
<1>1. ReadRing(c, c, w) = [bytes |-> <<>>, prev |-> c]
  BY Zenon DEF ReadRing
<1> QED
  BY <1>1

LEMMA SeqOf ==
  ASSUME NEW S, NEW T, NEW s \in Seq(S), \A i \in 1..Len(s) : s[i] \in T
  PROVE  s \in Seq(T)
<1>1. Len(s) \in Nat /\ s \in [1..Len(s) -> S]
  BY LenProperties
<1>2. s \in [1..Len(s) -> T]
  BY <1>1
<1> QED
  BY <1>1, <1>2, SeqDef

LEMMA FollowWrap ==
  ASSUME NEW x \in 0..(2 * Numbers - 2), Numbers \in Nat \ {0}
  PROVE  Follow(Wrap(x, Numbers)) = Wrap(x + 1, Numbers) /\ Wrap(x, Numbers) \in RingBytes
  BY DEF Follow, Wrap, RingBytes

LEMMA InitRing == RingAssumption /\ Init => RingInv
<1> SUFFICES ASSUME RingAssumption, Init PROVE RingInv
  OBVIOUS
<1>1. /\ N \in Nat \ {0} /\ Numbers \in Nat /\ Numbers > 2 * N /\ MaxStops \in Nat
      /\ N \in 1..N /\ 0 \in RingBytes /\ 0 \in 0..(N - 1) /\ 0 \in 0..MaxStops
      /\ Junk \in 0..Junk
  BY DEF RingAssumption, RingBytes, Junk
<1>2. <<>> \in Seq(RingBytes) /\ Len(<<>>) = 0
  BY EmptySeq
<1>3. RingTypes
  BY <1>1, <1>2 DEF Init, RingTypes
<1>4. RoomLeft /\ Stored /\ Delivered
  BY <1>1, <1>2 DEF Init, RoomLeft, Stored, Delivered, Start, End, Wrap
<1> QED
  BY <1>3, <1>4 DEF Init, RingInv

(* A call that begins and one that ends leave the ring as it is. *)
LEMMA CallsKeep ==
  ASSUME RingAssumption, PollsInTime, RingInv, Receive \/ ReturnOk \/ TimesOut
  PROVE  RingInv'
<1>1. /\ RingTypes /\ RoomLeft /\ got' = <<>> /\ size' \in Sizes \cup {0}
      /\ UNCHANGED <<dmaVars, prevCndtr, due, stops>>
  BY DEF RingInv, Receive, ReturnOk, TimesOut
<1>2. UNCHANGED <<ring, cndtr, running, next, unread, prevCndtr, due, stops>>
  BY <1>1 DEF dmaVars
<1>3. <<>> \in Seq(RingBytes) /\ Len(<<>>) = 0
  BY EmptySeq
<1>4. RingTypes'
  BY <1>1, <1>2, <1>3 DEF RingTypes, RingBytes, Junk
<1>5. unread <= 1
  <2>1. /\ unread \in Nat /\ size \in Nat /\ Len(got) \in Nat /\ Slack \in Nat
        /\ Slack <= 1
    BY <1>1 DEF RingTypes, RingAssumption, PollsInTime
  <2>2. CASE Receive \/ ReturnOk
    BY <1>1, <2>1, <2>2 DEF RoomLeft, Receive, ReturnOk
  <2>3. CASE TimesOut
    BY <2>1, <2>3 DEF TimesOut
  <2> QED
    BY <2>2, <2>3
<1>6. size' \in Nat
  BY <1>1 DEF RingAssumption
<1>7. RoomLeft'
  BY <1>1, <1>2, <1>3, <1>5, <1>6 DEF RoomLeft
<1>8. Delivered'
  BY <1>1, <1>3 DEF Delivered
<1>9. Stored => Stored'
  BY <1>2 DEF Stored, Start, End
<1> QED
  BY <1>2, <1>4, <1>7, <1>8, <1>9 DEF RingInv

LEMMA StopKeeps ==
  ASSUME RingAssumption, RingInv, ReceptionStops PROVE RingInv'
<1>1. /\ RingTypes /\ RoomLeft /\ stops < MaxStops /\ stops' = stops + 1
      /\ running' = FALSE
      /\ UNCHANGED <<ring, cndtr, prevCndtr, size, got, next, due, unread>>
  BY DEF RingInv, ReceptionStops
<1>2. stops' \in 0..MaxStops /\ stops' # 0
  <2>1. stops \in 0..MaxStops /\ MaxStops \in Nat
    BY <1>1 DEF RingTypes, RingAssumption
  <2> QED
    BY <1>1, <2>1
<1>3. RingTypes'
  BY <1>1, <1>2 DEF RingTypes, RingBytes, Junk
<1> QED
  BY <1>1, <1>2, <1>3 DEF RingInv, RoomLeft

(* A byte comes into the ring, behind those the host has not seen. *)
LEMMA ByteKeeps ==
  ASSUME RingAssumption, PollsInTime, RingInv, ByteArrives PROVE RingInv'
<1>1. /\ RingTypes /\ RoomLeft /\ unread < N - 1 /\ unread' = unread + 1
      /\ Len(got) + unread < size \/ unread < Slack
      /\ next' = (next + 1) % Numbers
      /\ UNCHANGED <<prevCndtr, running, size, got, due, stops>>
  BY DEF RingInv, ByteArrives
<1>2. /\ N \in Nat \ {0} /\ Numbers \in Nat \ {0} /\ Numbers > 2 * N
      /\ unread \in 0..(N - 2) /\ next \in RingBytes /\ due \in RingBytes
      /\ cndtr \in 1..N /\ prevCndtr \in 1..N
      /\ ring \in [0..(N - 1) -> 0..Junk]
  BY <1>1 DEF RingAssumption, RingTypes
<1>3. next' = Follow(next) /\ Follow(next) \in RingBytes
  BY <1>1, <1>2, FollowIs
<1>4. RoomLeft'
  <2>1. Len(got) \in Nat /\ size \in Nat /\ Slack \in Nat /\ Slack <= 1
    BY <1>1 DEF RingTypes, RingAssumption, PollsInTime
  <2> QED
    BY <1>1, <1>2, <2>1 DEF RoomLeft
<1>5. RingTypes'
  <2>1. ring' \in [0..(N - 1) -> 0..Junk]
    <3>1. CASE ring' = [ring EXCEPT ![N - cndtr] = next]
      <4>1. next \in 0..Junk
        BY <1>2 DEF RingBytes, Junk
      <4> QED
        BY <1>2, <3>1, <4>1
    <3> QED
      BY <1>2, <3>1 DEF ByteArrives, Junk
  <2>2. cndtr' \in 1..N
    BY <1>2 DEF ByteArrives
  <2>3. unread' \in 0..(N - 1)
    BY <1>1, <1>2
  <2> QED
    BY <1>1, <1>2, <1>3, <2>1, <2>2, <2>3 DEF RingTypes, RingBytes
<1>6. ASSUME running PROVE Stored'
  <2>1. /\ Stored
        /\ ring' = [ring EXCEPT ![N - cndtr] = next]
        /\ cndtr' = IF cndtr = 1 THEN N ELSE cndtr - 1
    BY <1>6 DEF RingInv, ByteArrives
  <2>2. Start' = Start
    BY <1>1 DEF Start
  <2> DEFINE s == Start  e == End  u == unread
  <2>3. /\ s \in 0..(N - 1) /\ e \in 0..(N - 1) /\ u \in 0..(N - 2)
        /\ End' = IF e = N - 1 THEN 0 ELSE e + 1
        /\ ring' = [ring EXCEPT ![e] = next]
    BY <1>2, <2>1 DEF Start, End
  <2>4. /\ e = Wrap(s + u, N) /\ next = Wrap(due + u, Numbers)
        /\ \A i \in 0..(u - 1) : ring[Wrap(s + i, N)] = Wrap(due + i, Numbers)
    BY <2>1 DEF Stored
  <2> HIDE DEF s, e, u
  <2>5. End' = Wrap(s + (u + 1), N)
    BY <1>2, <2>3, <2>4 DEF Wrap
  <2>6. next' = Wrap(due + (u + 1), Numbers)
    <3>1. due + u \in 0..(2 * Numbers - 2) /\ due + (u + 1) = (due + u) + 1
      BY <1>2, <2>3 DEF RingBytes
    <3> QED
      BY <1>2, <1>3, <2>4, <3>1, FollowWrap
  <2>7. ASSUME NEW i \in 0..u
        PROVE  ring'[Wrap(s + i, N)] = Wrap(due + i, Numbers)
    <3>1. CASE i = u
      BY <1>2, <2>3, <2>4, <3>1
    <3>2. CASE i # u
      <4>1. i \in 0..(u - 1)
        BY <2>3, <3>2
      <4>2. Wrap(s + i, N) # e /\ Wrap(s + i, N) \in 0..(N - 1)
        BY <1>2, <2>3, <2>4, <4>1 DEF Wrap
      <4> QED
        BY <1>2, <2>3, <2>4, <4>1, <4>2
    <3> QED
      BY <3>1, <3>2
  <2>8. unread' = u + 1 /\ (u + 1) - 1 = u /\ due' = due /\ Start' = s
    BY <1>1, <2>2, <2>3 DEF u, s
  <2> QED
    BY <2>5, <2>6, <2>7, <2>8 DEF Stored
<1>7. Delivered => Delivered'
  BY <1>1 DEF Delivered
<1> QED
  BY <1>1, <1>4, <1>5, <1>6, <1>7 DEF RingInv

(* What one turn of the loop does. *)
PollEffect(r) ==
  /\ got' = got \o r.bytes
  /\ prevCndtr' = r.prev
  /\ due' = IF ~running THEN next
            ELSE IF Len(r.bytes) = 0 THEN due
            ELSE (r.bytes[Len(r.bytes)] + 1) % Numbers
  /\ cndtr' = IF running THEN cndtr ELSE N
  /\ running' = TRUE /\ unread' = 0
  /\ UNCHANGED <<ring, size, next, stops>>

LEMMA PollIs ==
  ASSUME Poll
  PROVE  /\ size > 0 /\ Len(got) < size
         /\ PollEffect(ReadRing(StartCounter, cndtr', size))
  BY Zenon DEF Poll, PollEffect, Wanted, Restarted

(* A turn that finds nothing new, or starts the reception again. *)
LEMMA NothingRead ==
  ASSUME RingAssumption, RingInv, Poll, ~running \/ unread = 0
  PROVE  /\ prevCndtr' = cndtr' /\ cndtr' \in 1..N /\ got' = got
         /\ due' = (IF ~running THEN next ELSE due)
         /\ running' = TRUE /\ unread' = 0
         /\ UNCHANGED <<ring, size, next, stops>>
<1> DEFINE r == ReadRing(StartCounter, cndtr', size)
<1>1. /\ RingTypes /\ RoomLeft /\ size > 0 /\ Len(got) < size /\ PollEffect(r)
  BY PollIs DEF RingInv
<1>2. /\ N \in Nat \ {0} /\ Numbers \in Nat /\ cndtr \in 1..N /\ prevCndtr \in 1..N
      /\ next \in RingBytes /\ due \in RingBytes /\ got \in Seq(RingBytes)
      /\ Len(got) \in Nat /\ size \in Nat /\ N \in 1..N /\ 0 \in 0..(N - 1)
      /\ Numbers > 2 * N
  BY <1>1 DEF RingAssumption, RingTypes
<1>3. StartCounter = cndtr' /\ cndtr' \in 1..N /\ prevCndtr' = cndtr'
  <2>1. CASE ~running
    <3>1. StartCounter = N /\ cndtr' = N
      BY <1>1, <2>1 DEF StartCounter, PollEffect
    <3>2. r.prev = N
      BY <3>1, ReadNothing
    <3> QED
      BY <1>1, <1>2, <3>1, <3>2 DEF PollEffect
  <2>2. CASE running /\ unread = 0
    <3>1. End = Wrap(Start + 0, N)
      BY <2>2 DEF RingInv, Stored
    <3>2. cndtr = prevCndtr
      BY <1>2, <3>1 DEF Wrap, Start, End
    <3>3. StartCounter = prevCndtr /\ cndtr' = cndtr
      BY <1>1, <2>2 DEF StartCounter, PollEffect
    <3>4. r.prev = cndtr
      BY <3>2, <3>3, ReadNothing
    <3> QED
      BY <1>1, <1>2, <3>2, <3>3, <3>4 DEF PollEffect
  <2> QED
    BY <2>1, <2>2
<1>4. r.bytes = <<>>
  BY <1>3, ReadNothing
<1> HIDE DEF r
<1>5. /\ got' = got /\ due' = (IF ~running THEN next ELSE due)
      /\ running' = TRUE /\ unread' = 0
      /\ UNCHANGED <<ring, size, next, stops>>
  BY <1>1, <1>2, <1>4 DEF PollEffect
<1> QED
  BY <1>3, <1>5

LEMMA NothingReadKeeps ==
  ASSUME RingAssumption, RingInv, Poll, ~running \/ unread = 0 PROVE RingInv'
<1>1. RingTypes /\ RoomLeft /\ size > 0 /\ Len(got) < size
  BY PollIs DEF RingInv
<1>2. /\ N \in Nat \ {0} /\ Numbers \in Nat /\ cndtr \in 1..N /\ prevCndtr \in 1..N
      /\ next \in RingBytes /\ due \in RingBytes /\ got \in Seq(RingBytes)
      /\ Len(got) \in Nat /\ size \in Nat /\ N \in 1..N /\ 0 \in 0..(N - 1)
      /\ Numbers > 2 * N
  BY <1>1 DEF RingAssumption, RingTypes
<1>3. cndtr' \in 1..N /\ prevCndtr' = cndtr'
  BY NothingRead
<1>4. /\ got' = got /\ due' = (IF ~running THEN next ELSE due)
      /\ running' = TRUE /\ unread' = 0
      /\ UNCHANGED <<ring, size, next, stops>>
  BY NothingRead
<1>5. RingTypes'
  BY <1>1, <1>2, <1>3, <1>4 DEF RingTypes, RingBytes, Junk
<1>6. RoomLeft'
  BY <1>1, <1>2, <1>4 DEF RoomLeft
<1>7. next = due'
  <2>1. CASE running
    <3>1. next = Wrap(due + 0, Numbers)
      BY <2>1 DEF RingInv, Stored
    <3> QED
      BY <1>2, <1>4, <2>1, <3>1 DEF Wrap, RingBytes
  <2> QED
    BY <1>4, <2>1
<1>8. Stored'
  <2>1. End' = Wrap(Start' + unread', N)
    <3>1. Start' = N - cndtr' /\ End' = N - cndtr'
      BY <1>3 DEF Start, End
    <3>2. N \in Nat /\ cndtr' \in 1..N /\ unread' = 0
      BY <1>2, <1>3, <1>4
    <3> DEFINE c == cndtr'  n == N - c
    <3>3. n + 0 = n /\ n < N
      <4> HIDE DEF c
      <4>1. c \in 1..N
        BY <3>2 DEF c
      <4> QED
        BY <3>2, <4>1
    <3>4. Start' = n /\ End' = n
      BY <3>1
    <3> HIDE DEF n
    <3>5. End' = Wrap(n + 0, N)
      BY <3>3, <3>4, Zenon DEF Wrap
    <3> QED
      BY <3>2, <3>4, <3>5, Zenon
  <2>2. next' = Wrap(due' + unread', Numbers)
    <3>1. next' = due' /\ due' \in 0..(Numbers - 1)
      BY <1>2, <1>4, <1>7 DEF RingBytes
    <3> QED
      BY <1>2, <1>4, <3>1 DEF Wrap
  <2>3. 0..(unread' - 1) = {}
    BY <1>4
  <2> QED
    BY <2>1, <2>2, <2>3, Zenon DEF Stored
<1>9. stops = 0 => Delivered'
  BY <1>4 DEF RingInv, Delivered
<1> QED
  BY <1>4, <1>5, <1>6, <1>8, <1>9 DEF RingInv

(* A turn that reads takes all there is: b, which begins with due. *)
ReadEffect(b) ==
  /\ b \in Seq(RingBytes) /\ Len(b) = unread
  /\ \A i \in 1..unread : b[i] = Wrap(due + (i - 1), Numbers)
  /\ got' = got \o b /\ prevCndtr' = cndtr /\ cndtr' = cndtr /\ due' = next
  /\ running' = TRUE /\ unread' = 0
  /\ UNCHANGED <<ring, size, next, stops>>

LEMMA ReadIs ==
  ASSUME RingAssumption, CounterFits, RingInv, Poll, running, unread > 0
  PROVE  Len(got) + unread <= size /\ \E b : ReadEffect(b)
<1> DEFINE r == ReadFrom(Start, End, size)
           b == r.bytes
           u == unread
<1>1. /\ RingTypes /\ RoomLeft /\ Stored /\ size > 0 /\ Len(got) < size
      /\ PollEffect(ReadRing(StartCounter, cndtr', size))
  BY PollIs DEF RingInv
<1>2. /\ N \in Nat \ {0} /\ Numbers \in Nat \ {0} /\ Numbers > 2 * N
      /\ cndtr \in 1..N /\ prevCndtr \in 1..N
      /\ next \in RingBytes /\ due \in RingBytes /\ got \in Seq(RingBytes)
      /\ Len(got) \in Nat /\ size \in Nat /\ u \in 1..(N - 1)
      /\ ring \in [0..(N - 1) -> 0..Junk] /\ running
  BY <1>1 DEF RingAssumption, RingTypes
<1>3. Start \in 0..(N - 1) /\ End \in 0..(N - 1) /\ End = Wrap(Start + u, N)
  BY <1>1, <1>2 DEF Start, End, Stored
<1>4. PollEffect(r) /\ cndtr' = cndtr /\ N - End = cndtr
  <2>1. StartCounter = prevCndtr /\ cndtr' = cndtr
    BY <1>1, <1>2 DEF StartCounter, PollEffect
  <2>2. N - Start = prevCndtr /\ N - End = cndtr
    BY <1>2 DEF Start, End
  <2>3. ReadRing(StartCounter, cndtr', size) = r
    BY <2>1, <2>2 DEF ReadFrom
  <2> HIDE DEF r
  <2> QED
    BY <1>1, <2>1, <2>2, <2>3
<1>5. u <= size /\ Len(got) + u <= size
  BY <1>1, <1>2 DEF RoomLeft
<1>6. /\ r.prev = cndtr /\ b \in Seq(0..Junk) /\ Len(b) = u
      /\ \A i \in 1..u : b[i] = ring[Wrap(Start + (i - 1), N)]
  <2>1. ring \in [0..(N - 1) -> 0..Junk] /\ u \in 1..(N - 1) /\ size \in Nat
    BY <1>2
  <2>2. End = Wrap(Start + u, N) /\ Start \in 0..(N - 1) /\ End \in 0..(N - 1)
    BY <1>3
  <2>3. u <= size
    BY <1>5
  <2> DEFINE s == Start  e == End
  <2> HIDE DEF u, s, e
  <2>4. /\ ReadFrom(s, e, size).prev = N - e
        /\ ReadFrom(s, e, size).bytes \in Seq(0..Junk)
        /\ Len(ReadFrom(s, e, size).bytes) = u
        /\ \A i \in 1..u : ReadFrom(s, e, size).bytes[i] = ring[Wrap(s + (i - 1), N)]
    <3>1. s \in 0..(N - 1) /\ e \in 0..(N - 1) /\ e = Wrap(s + u, N)
      BY <2>2 DEF s, e
    <3> QED
      BY <2>1, <2>3, <3>1, ReadsAll
  <2>5. N - e = cndtr
    BY <1>4 DEF e
  <2> QED
    BY <2>4, <2>5, Zenon DEF s, e
<1> HIDE DEF r, b
<1>7. \A i \in 1..u : b[i] = Wrap(due + (i - 1), Numbers)
  <2>1. \A i \in 0..(u - 1) : ring[Wrap(Start + i, N)] = Wrap(due + i, Numbers)
    BY <1>1 DEF Stored
  <2>2. \A i \in 1..u : i - 1 \in 0..(u - 1)
    BY <1>2
  <2> HIDE DEF u
  <2> QED
    BY <1>6, <2>1, <2>2
<1>8. \A i \in 1..u : /\ due + (i - 1) \in 0..(2 * Numbers - 2)
                      /\ due + i = (due + (i - 1)) + 1
  BY <1>2 DEF RingBytes
<1>9. \A i \in 1..u : b[i] \in RingBytes /\ Follow(b[i]) = Wrap(due + i, Numbers)
  BY <1>2, <1>7, <1>8, FollowWrap
<1>10. b \in Seq(RingBytes)
  BY <1>6, <1>9, SeqOf
<1>11. /\ got' = got \o b /\ prevCndtr' = cndtr /\ cndtr' = cndtr
       /\ running' = TRUE /\ unread' = 0
       /\ UNCHANGED <<ring, size, next, stops>>
  BY <1>4, <1>6 DEF PollEffect, b
<1>12. due' = next
  <2>1. u \in 1..u /\ u # 0
    BY <1>2
  <2>2. due' = (b[u] + 1) % Numbers
    BY <1>2, <1>4, <1>6, <2>1 DEF PollEffect, b
  <2>3. due' = Follow(b[u])
    BY <1>9, <2>1, <2>2, FollowIs
  <2> QED
    BY <1>1, <1>9, <2>1, <2>3 DEF Stored
<1>13. ReadEffect(b)
  BY <1>6, <1>7, <1>10, <1>11, <1>12, Zenon DEF ReadEffect
<1> QED
  BY <1>5, <1>13, Zenon

(* What such a turn appends is in order. *)
LEMMA ReadKeeps ==
  ASSUME RingAssumption, CounterFits, RingInv, Poll, running, unread > 0
  PROVE  RingInv'
<1> DEFINE u == unread
<1>1. RingTypes /\ RoomLeft /\ Stored
  BY DEF RingInv
<1>2. /\ N \in Nat \ {0} /\ Numbers \in Nat \ {0} /\ Numbers > 2 * N
      /\ cndtr \in 1..N /\ prevCndtr \in 1..N
      /\ next \in RingBytes /\ due \in RingBytes /\ got \in Seq(RingBytes)
      /\ Len(got) \in Nat /\ size \in Nat /\ u \in 1..(N - 1)
  BY <1>1 DEF RingAssumption, RingTypes
<1>3. Start \in 0..(N - 1) /\ End \in 0..(N - 1)
  BY <1>2 DEF Start, End
<1>4. Len(got) + u <= size /\ \E b : ReadEffect(b)
  BY ReadIs, Zenon
<1>5. PICK b : ReadEffect(b)
  BY <1>4
<1>6. \A i \in 1..u : b[i] = Wrap(due + (i - 1), Numbers)
  BY <1>5 DEF ReadEffect
<1>7. \A i \in 1..u : /\ due + (i - 1) \in 0..(2 * Numbers - 2)
                      /\ due + i = (due + (i - 1)) + 1
  BY <1>2 DEF RingBytes
<1>8. \A i \in 1..u : b[i] \in RingBytes /\ Follow(b[i]) = Wrap(due + i, Numbers)
  BY <1>2, <1>6, <1>7, FollowWrap
<1>9. b \in Seq(RingBytes) /\ Len(b) = u
  BY <1>5 DEF ReadEffect
<1>10. /\ got' = got \o b /\ prevCndtr' = cndtr /\ cndtr' = cndtr
       /\ running' = TRUE /\ unread' = 0
       /\ UNCHANGED <<ring, size, next, stops>>
  BY <1>5 DEF ReadEffect
<1>11. due' = next
  BY <1>5 DEF ReadEffect
<1>12. /\ got' \in Seq(RingBytes) /\ Len(got') = Len(got) + u
       /\ \A i \in 1..(Len(got) + u) :
            got'[i] = IF i <= Len(got) THEN got[i] ELSE b[i - Len(got)]
  <2>1. /\ got \o b \in Seq(RingBytes) /\ Len(got \o b) = Len(got) + Len(b)
        /\ \A i \in 1..(Len(got) + Len(b)) :
             (got \o b)[i] = IF i <= Len(got) THEN got[i] ELSE b[i - Len(got)]
    BY <1>2, <1>9, ConcatProperties, Zenon
  <2> QED
    BY <1>9, <1>10, <2>1
<1>13. RingTypes'
  <2>1. 0 \in 0..(N - 1)
    BY <1>2
  <2> QED
    BY <1>1, <1>2, <1>10, <1>11, <1>12, <2>1 DEF RingTypes
<1>14. RoomLeft'
  BY <1>2, <1>4, <1>10, <1>12 DEF RoomLeft
<1>15. Stored'
  <2>1. Start' = End /\ End' = End /\ End = Wrap(End + 0, N)
    BY <1>2, <1>3, <1>10 DEF Start, End, Wrap
  <2>2. next' = Wrap(due' + 0, Numbers)
    BY <1>2, <1>10, <1>11 DEF Wrap, RingBytes
  <2> QED
    BY <1>10, <2>1, <2>2 DEF Stored
<1>16. ASSUME Delivered PROVE Delivered'
  <2> DEFINE g == got  h == got'  k == Len(got)
  <2>1. /\ k \in Nat /\ u \in Nat \ {0} /\ Len(h) = k + u
        /\ \A i \in 1..(k + u) : h[i] = IF i <= k THEN g[i] ELSE b[i - k]
        /\ \A i \in 1..(k - 1) : g[i + 1] = Follow(g[i])
        /\ k > 0 => due = Follow(g[k])
    BY <1>2, <1>12, <1>16 DEF Delivered
  <2>2. b[1] = due
    BY <1>2, <1>6 DEF Wrap, RingBytes
  <2>3. \A i \in 1..(u - 1) : b[i + 1] = Follow(b[i])
    BY <1>2, <1>6, <1>8
  <2>4. Follow(b[u]) = next
    BY <1>1, <1>2, <1>8 DEF Stored
  <2> HIDE DEF g, h, k, u
  <2>5. ASSUME NEW i \in 1..(k + u - 1) PROVE h[i + 1] = Follow(h[i])
    <3>1. CASE i < k
      <4>1. /\ i \in 1..(k + u) /\ i + 1 \in 1..(k + u) /\ i \in 1..(k - 1)
            /\ i <= k /\ i + 1 <= k
        BY <2>1, <3>1
      <4> QED
        BY <2>1, <4>1
    <3>2. CASE i = k
      <4>1. /\ i \in 1..(k + u) /\ i + 1 \in 1..(k + u) /\ i <= k /\ ~(i + 1 <= k)
            /\ (i + 1) - k = 1 /\ k > 0
        BY <2>1, <3>2
      <4> QED
        BY <2>1, <2>2, <3>2, <4>1
    <3>3. CASE i > k
      <4>1. /\ i \in 1..(k + u) /\ i + 1 \in 1..(k + u) /\ ~(i <= k) /\ ~(i + 1 <= k)
            /\ (i + 1) - k = (i - k) + 1 /\ i - k \in 1..(u - 1)
        BY <2>1, <3>3
      <4> QED
        BY <2>1, <2>3, <4>1
    <3> QED
      BY <2>1, <3>1, <3>2, <3>3
  <2>6. due' = Follow(h[Len(h)])
    <3>1. k + u \in 1..(k + u) /\ ~(k + u <= k) /\ (k + u) - k = u
      BY <2>1
    <3> QED
      BY <1>11, <2>1, <2>4, <3>1
  <2> QED
    BY <2>1, <2>5, <2>6 DEF Delivered, h
<1> QED
  BY <1>10, <1>13, <1>14, <1>15, <1>16 DEF RingInv

LEMMA NextRing ==
  ASSUME RingAssumption, CounterFits, PollsInTime, RingInv, [Next]_vars
  PROVE  RingInv'
<1>1. CASE UNCHANGED vars
  BY <1>1 DEF RingInv, RingTypes, RoomLeft, Stored, Delivered, Start, End, vars, dmaVars
<1>2. CASE Poll
  <2>1. unread = 0 \/ unread > 0
    BY DEF RingInv, RingTypes, RingAssumption
  <2> QED
    BY <1>2, <2>1, NothingReadKeeps, ReadKeeps
<1> QED
  BY <1>1, <1>2, CallsKeep, ByteKeeps, StopKeeps DEF Next

LEMMA AlwaysRing ==
  ASSUME RingAssumption, CounterFits, PollsInTime PROVE Spec => []RingInv
<1>1. Init => RingInv
  BY InitRing
<1>2. RingInv /\ [Next]_vars => RingInv'
  BY NextRing
<1> QED
  BY <1>1, <1>2, PTL DEF Spec

--------------------------------------------------------------------------------
(* The ring is a queue.                                                    *)

(* What lies between the two counters is what the host has not seen. *)
LEMMA WaitingIs ==
  ASSUME RingAssumption, RingInv, running
  PROVE  /\ Waiting \in Seq(RingBytes) /\ Len(Waiting) = unread
         /\ \A i \in 1..unread : Waiting[i] = Wrap(due + (i - 1), Numbers)
<1> DEFINE u == unread  s == Start  p == prevCndtr  c == cndtr
<1>1. /\ N \in Nat \ {0} /\ Numbers \in Nat \ {0} /\ Numbers > 2 * N
      /\ c \in 1..N /\ p \in 1..N /\ u \in 0..(N - 1) /\ due \in RingBytes
      /\ s \in 0..(N - 1) /\ s = N - p
      /\ N - c = Wrap(s + u, N)
      /\ \A i \in 0..(u - 1) : ring[Wrap(s + i, N)] = Wrap(due + i, Numbers)
  BY DEF RingInv, RingTypes, RingAssumption, Stored, Start, End
<1> HIDE DEF u, s, p, c
<1>2. (p - c) % N = u
  <2>1. CASE s + u < N
    <3>1. p - c = u /\ u \in 0..(2 * N - 1) /\ Wrap(u, N) = u
      BY <1>1, <2>1 DEF Wrap
    <3> QED
      BY <1>1, <3>1, WrapIsMod
  <2>2. CASE s + u >= N
    <3>1. p - c = u - N /\ u - N \in (-N)..(-1) /\ (u - N) + N = u
      BY <1>1, <2>2 DEF Wrap
    <3> QED
      BY <1>1, <3>1, NegativeMod
  <2> QED
    BY <1>1, <2>1, <2>2
<1>3. ASSUME NEW i \in 1..u
      PROVE  /\ ring[(N - p + i - 1) % N] = Wrap(due + (i - 1), Numbers)
             /\ Wrap(due + (i - 1), Numbers) \in RingBytes
  <2>1. /\ N - p + i - 1 = s + (i - 1) /\ s + (i - 1) \in 0..(2 * N - 1)
        /\ i - 1 \in 0..(u - 1)
    BY <1>1
  <2>2. (N - p + i - 1) % N = Wrap(s + (i - 1), N)
    BY <1>1, <2>1, WrapIsMod
  <2>3. Wrap(due + (i - 1), Numbers) \in RingBytes
    BY <1>1, <2>1 DEF Wrap, RingBytes
  <2> QED
    BY <1>1, <2>1, <2>2, <2>3
<1> DEFINE w == [i \in 1..u |-> ring[(N - p + i - 1) % N]]
<1>4. Waiting = w
  BY <1>2, Zenon DEF Waiting, p, c
<1>5. w \in [1..u -> RingBytes]
  BY <1>3
<1>6. \A i \in 1..u : w[i] = Wrap(due + (i - 1), Numbers)
  BY <1>3
<1>7. u \in Nat
  BY <1>1
<1> HIDE DEF w
<1>8. w \in Seq(RingBytes) /\ Len(w) = u
  BY <1>5, <1>7, FunctionIsSeq
<1> QED
  BY <1>4, <1>6, <1>8, Zenon DEF u

(* The queue the ring stands for has all of it, and is empty while the     *)
(* reception is stopped.                                                   *)
QueueInv ==
  /\ Waiting \in Seq(RingBytes)
  /\ Len(Waiting) = IF running THEN unread ELSE 0
  /\ \A i \in 1..Len(Waiting) : Waiting[i] = Wrap(due + (i - 1), Numbers)

LEMMA RingHoldsQueue == ASSUME RingAssumption, RingInv PROVE QueueInv
<1>1. CASE running
  BY <1>1, WaitingIs DEF QueueInv
<1>2. CASE ~running
  <2>1. Waiting = <<>>
    BY <1>2 DEF Waiting
  <2>2. Waiting \in Seq(RingBytes) /\ Len(Waiting) = 0
    BY <2>1, EmptySeq
  <2> QED
    BY <1>2, <2>2 DEF QueueInv
<1> QED
  BY <1>1, <1>2

(* With the same bytes and the same place it is the same queue. *)
LEMMA QueueStays ==
  ASSUME UNCHANGED <<ring, cndtr, prevCndtr, running>> PROVE Waiting' = Waiting
  BY DEF Waiting

LEMMA NothingWaits ==
  ASSUME NEW w, NEW S, w \in Seq(S), Len(w) = 0 PROVE w = <<>>
  BY EmptySeq

LEMMA PromiseInit == RingAssumption /\ Init => Promise!Init
<1> SUFFICES ASSUME RingAssumption, Init PROVE Promise!Init
  OBVIOUS
<1>1. N \in Nat \ {0} /\ Numbers \in Nat \ {0}
  BY DEF RingAssumption
<1>2. RingInv /\ QueueInv /\ unread = 0
  BY InitRing, RingHoldsQueue DEF Init
<1>3. Waiting = <<>>
  <2>1. Waiting \in Seq(RingBytes) /\ Len(Waiting) = 0
    BY <1>2 DEF QueueInv
  <2> QED
    BY <2>1, NothingWaits
<1> QED
  BY <1>1, <1>3 DEF Init, Promise!Init

(* A byte that comes in is the last of the queue. *)
LEMMA ArrivalQueues ==
  ASSUME RingAssumption, RingInv, QueueInv, RingInv', QueueInv', ByteArrives
  PROVE  Promise!Arrives \/ Promise!Missed
<1>1. /\ unread' = unread + 1 /\ due' = due /\ UNCHANGED <<running, size, got>>
      /\ unread \in Nat /\ next \in RingBytes /\ next' \in 0..(Numbers - 1)
  BY DEF ByteArrives, RingInv, RingTypes, RingBytes
<1>2. CASE running
  <2> DEFINE v == Waiting  w == Waiting'  u == unread
  <2>1. /\ v \in Seq(RingBytes) /\ Len(v) = u
        /\ \A i \in 1..u : v[i] = Wrap(due + (i - 1), Numbers)
        /\ w \in Seq(RingBytes) /\ Len(w) = u + 1
        /\ \A i \in 1..(u + 1) : w[i] = Wrap(due + (i - 1), Numbers)
        /\ next = Wrap(due + u, Numbers)
    BY <1>1, <1>2 DEF QueueInv, RingInv, Stored
  <2> DEFINE a == Append(v, next)
  <2> HIDE DEF v, w, u
  <2>2. a \in Seq(RingBytes) /\ Len(a) = u + 1
        /\ \A i \in 1..(u + 1) : a[i] = IF i <= u THEN v[i] ELSE next
    BY <1>1, <2>1 DEF u
  <2>3. \A i \in 1..(u + 1) : w[i] = a[i]
    <3> SUFFICES ASSUME NEW i \in 1..(u + 1) PROVE w[i] = a[i]
      OBVIOUS
    <3>1. u \in Nat
      BY <1>1 DEF u
    <3>2. CASE i \in 1..u
      BY <2>1, <2>2, <3>1, <3>2
    <3>3. CASE i = u + 1
      <4>1. i - 1 = u /\ ~(i <= u)
        BY <3>1, <3>3
      <4> QED
        BY <2>1, <2>2, <4>1
    <3>4. i \in 1..u \/ i = u + 1
      BY <3>1
    <3> QED
      BY <3>2, <3>3, <3>4
  <2> HIDE DEF a
  <2>4. w = a
    BY <2>1, <2>2, <2>3, SeqEqual, Zenon
  <2>5. Waiting' = Append(Waiting, next)
    BY <2>4 DEF w, a, v
  <2> QED
    BY <1>1, <1>2, <2>5 DEF Promise!Arrives
<1>3. CASE ~running
  <2>1. Waiting' = Waiting
    <3>1. UNCHANGED <<ring, cndtr, prevCndtr, running>>
      BY <1>3 DEF ByteArrives
    <3> QED
      BY <3>1, QueueStays
  <2> QED
    BY <1>1, <1>3, <2>1 DEF Promise!Missed
<1> QED
  BY <1>2, <1>3

(* A turn of the loop takes what is in front of the queue: all of it. *)
LEMMA PollTakes ==
  ASSUME RingAssumption, CounterFits, RingInv, QueueInv, RingInv', QueueInv', Poll
  PROVE  \/ UNCHANGED Promise!vars
         \/ Promise!ListensAgain
         \/ \E n \in 1..Len(Waiting) : Promise!Give(n)
<1>1. /\ size > 0 /\ unread \in Nat /\ UNCHANGED <<size, next>>
      /\ running' = TRUE /\ unread' = 0
  BY PollIs DEF PollEffect, RingInv, RingTypes
<1>2. Waiting' = <<>>
  <2>1. Waiting' \in Seq(RingBytes) /\ Len(Waiting') = 0
    BY <1>1 DEF QueueInv
  <2> QED
    BY <2>1, NothingWaits
<1>3. CASE running /\ unread > 0
  <2>1. PICK b : ReadEffect(b) /\ Len(got) + unread <= size
    BY <1>3, ReadIs
  <2>2. /\ Waiting \in Seq(RingBytes) /\ Len(Waiting) = unread
        /\ \A i \in 1..unread : Waiting[i] = Wrap(due + (i - 1), Numbers)
    BY <1>3 DEF QueueInv
  <2>3. b = Waiting
    <3>1. /\ b \in Seq(RingBytes) /\ Len(b) = Len(Waiting)
          /\ \A i \in 1..Len(b) : b[i] = Waiting[i]
      BY <2>1, <2>2 DEF ReadEffect
    <3> QED
      BY <2>2, <3>1, SeqEqual, Zenon
  <2>4. got' = got \o SubSeq(Waiting, 1, Len(Waiting))
    BY <2>1, <2>2, <2>3, SubSeqFull, Zenon DEF ReadEffect
  <2>5. Waiting' = SubSeq(Waiting, Len(Waiting) + 1, Len(Waiting))
    <3>1. Len(Waiting) \in Int /\ Len(Waiting) + 1 \in Int /\ Len(Waiting) < Len(Waiting) + 1
      BY <1>1, <2>2
    <3> QED
      BY <1>2, <3>1, SubSeqEmpty
  <2>6. Len(Waiting) \in 1..Len(Waiting)
    BY <1>1, <1>3, <2>2
  <2>7. Promise!Give(Len(Waiting))
    BY <1>1, <1>3, <2>1, <2>2, <2>4, <2>5 DEF Promise!Give
  <2> QED
    BY <2>6, <2>7
<1>4. CASE ~running \/ unread = 0
  <2>1. Waiting = <<>>
    <3>1. Waiting \in Seq(RingBytes) /\ Len(Waiting) = 0
      BY <1>4 DEF QueueInv
    <3> QED
      BY <3>1, NothingWaits
  <2>2. got' = got
    BY <1>4, NothingRead
  <2>3. CASE running
    BY <1>1, <1>2, <2>1, <2>2, <2>3 DEF Promise!vars
  <2>4. CASE ~running
    BY <1>1, <1>2, <2>1, <2>2, <2>4 DEF Promise!ListensAgain
  <2> QED
    BY <2>3, <2>4
<1> QED
  BY <1>1, <1>3, <1>4

LEMMA PromiseNext ==
  ASSUME RingAssumption, CounterFits, RingInv, QueueInv, RingInv', QueueInv', [Next]_vars
  PROVE  [Promise!Next]_(Promise!vars)
<1>1. CASE UNCHANGED vars
  <2>1. UNCHANGED <<ring, cndtr, prevCndtr, running, next, size, got>>
    BY <1>1 DEF vars, dmaVars
  <2> QED
    BY <2>1, QueueStays DEF Promise!vars
<1>2. CASE Receive \/ ReturnOk \/ TimesOut
  <2>1. UNCHANGED <<ring, cndtr, prevCndtr, running, next>>
    BY <1>2 DEF Receive, ReturnOk, TimesOut, dmaVars
  <2>2. Waiting' = Waiting
    BY <2>1, QueueStays
  <2>3. Promise!Request \/ Promise!Return
    BY <1>2, <2>1, <2>2
       DEF Receive, ReturnOk, TimesOut, Promise!Request, Promise!Return
  <2> QED
    BY <2>3 DEF Promise!Next
<1>3. CASE Poll
  BY <1>3, PollTakes DEF Promise!Next
<1>4. CASE ByteArrives
  BY <1>4, ArrivalQueues DEF Promise!Next
<1>5. CASE ReceptionStops
  <2>1. running /\ running' = FALSE /\ UNCHANGED <<next, size, got>>
    BY <1>5 DEF ReceptionStops
  <2>2. Waiting' = <<>>
    BY <2>1 DEF Waiting
  <2> QED
    BY <2>1, <2>2 DEF Promise!Next, Promise!Breaks
<1> QED
  BY <1>1, <1>2, <1>3, <1>4, <1>5 DEF Next

--------------------------------------------------------------------------------
(* Theorems.                                                               *)

(* The counters keep to the ring, at every length of it. *)
THEOREM CountersStayInRing ==
  ASSUME RingAssumption, CounterFits, PollsInTime PROVE Spec => []TypeOK
<1>1. RingInv => TypeOK
  <2> SUFFICES ASSUME RingInv PROVE TypeOK
    OBVIOUS
  <2>1. RingTypes /\ N \in Nat /\ Numbers \in Nat
    BY DEF RingInv, RingAssumption
  <2>2. got \in Seq(0..Junk) /\ next \in 0..(Numbers - 1) /\ due \in 0..Numbers
        /\ unread \in 0..N
    <3>1. RingBytes \subseteq 0..Junk
      BY <2>1 DEF RingBytes, Junk
    <3>2. got \in Seq(0..Junk)
      BY <2>1, <3>1, SeqMonotonic DEF RingTypes
    <3> QED
      BY <2>1, <3>2 DEF RingTypes, RingBytes
  <2> QED
    BY <2>1, <2>2 DEF TypeOK, RingTypes
<1> QED
  BY <1>1, AlwaysRing, PTL

(* No turn of the loop writes past the buffer of the caller, though each   *)
(* asks for all of the bytes again: as long as it comes in time.           *)
THEOREM ReadFits ==
  ASSUME RingAssumption, CounterFits, PollsInTime PROVE Spec => []FitsBuffer
<1>1. RingInv => FitsBuffer
  BY DEF RingInv, RoomLeft, FitsBuffer
<1> QED
  BY <1>1, AlwaysRing, PTL

(* The caller gets the bytes of the line in order, round the end of the    *)
(* ring as well.                                                           *)
THEOREM ReadInOrder ==
  ASSUME RingAssumption, CounterFits, PollsInTime PROVE Spec => []InOrder
<1>1. RingInv => InOrder
  <2> SUFFICES ASSUME RingInv, stops = 0, NEW i \in 1..(Len(got) - 1)
      PROVE  got[i + 1] = (got[i] + 1) % Numbers
    BY DEF InOrder
  <2>1. got[i + 1] = Follow(got[i])
    BY DEF RingInv, Delivered
  <2>2. got[i] \in RingBytes
    <3>1. got \in Seq(RingBytes) /\ Len(got) \in Nat
      BY DEF RingInv, RingTypes
    <3>2. i \in 1..Len(got)
      BY <3>1
    <3> QED
      BY <3>1, <3>2, ElementOfSeq
  <2> QED
    BY <2>1, <2>2, FollowIs
<1> QED
  BY <1>1, AlwaysRing, PTL

(* prev_cndtr stands for the first byte the host has not seen, also after  *)
(* the reception was started again: nothing is lost between two reads.     *)
THEOREM ReadLosesNothing ==
  ASSUME RingAssumption, CounterFits, PollsInTime PROVE Spec => []NothingLost
<1>1. ASSUME RingInv, running
      PROVE  /\ due = (next - unread) % Numbers
             /\ (N - prevCndtr + unread) % N = (N - cndtr) % N
  <2>1. /\ RingTypes /\ N \in Nat \ {0} /\ Numbers \in Nat \ {0} /\ Numbers > 2 * N
        /\ End = Wrap(Start + unread, N) /\ next = Wrap(due + unread, Numbers)
    BY <1>1 DEF RingInv, RingAssumption, Stored
  <2>2. /\ cndtr \in 1..N /\ prevCndtr \in 1..N /\ unread \in 0..(N - 1)
        /\ next \in 0..(Numbers - 1) /\ due \in 0..(Numbers - 1)
    BY <2>1 DEF RingTypes, RingBytes
  <2>3. /\ Start + unread \in 0..(2 * N - 1) /\ End \in 0..(2 * N - 1)
        /\ Wrap(End, N) = End
    BY <2>1, <2>2 DEF Start, End, Wrap
  <2>4. (Start + unread) % N = End % N
    BY <2>1, <2>3, WrapIsMod
  <2>5. CASE due + unread < Numbers
    <3>1. next - unread = due /\ due \in 0..(2 * Numbers - 1) /\ Wrap(due, Numbers) = due
      BY <2>1, <2>2, <2>5 DEF Wrap
    <3> QED
      BY <2>1, <2>4, <3>1, WrapIsMod DEF Start, End
  <2>6. CASE due + unread >= Numbers
    <3>1. next - unread = due - Numbers /\ due - Numbers \in (-Numbers)..(-1)
          /\ (due - Numbers) + Numbers = due
      BY <2>1, <2>2, <2>6 DEF Wrap
    <3> QED
      BY <2>1, <2>4, <3>1, NegativeMod DEF Start, End
  <2> QED
    BY <2>1, <2>2, <2>5, <2>6
<1>2. RingInv => NothingLost
  BY <1>1 DEF NothingLost
<1> QED
  BY <1>2, AlwaysRing, PTL

(* Ring and counters are a queue: what comes in is added at its end, each  *)
(* turn of the loop takes from its front, at every length of the ring.     *)
THEOREM RingIsQueue ==
  ASSUME RingAssumption, CounterFits, PollsInTime PROVE Spec => RingQueues
<1>1. Init => Promise!Init
  BY PromiseInit
<1>2. RingInv => QueueInv
  BY RingHoldsQueue
<1>3. RingInv /\ QueueInv /\ RingInv' /\ QueueInv' /\ [Next]_vars
        => [Promise!Next]_(Promise!vars)
  BY PromiseNext
<1> QED
  BY <1>1, <1>2, <1>3, AlwaysRing, PTL DEF Spec, RingQueues, Promise!Spec
================================================================================
