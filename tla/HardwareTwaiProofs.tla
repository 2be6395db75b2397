------------------------- MODULE HardwareTwaiProofs -------------------------
(***************************************************************************)
(* Proofs about HardwareTwai, for queues of every size.                    *)
(***************************************************************************)
EXTENDS HardwareTwai, SequenceTheorems, TLAPS

USE TwaiAssumption

(* The values of the records. *)
StackStates == [at : StackAt, runs : SUBSET FdSet, next : 1..MaxWritten + 1]
IsrStates ==
  [at : IsrAt, events : SUBSET {"RX", "TX", "RECOVERED"},
   left : 0..MaxReceived, queued : BOOLEAN]
WatchdogStates ==
  [at : WatchdogAt, lastState : SUBSET Flag, lastRx : 0..RxSize,
   lastTx : 0..TxSize, success : {"never", "since", "before"}]
Statistics ==
  [missed : 0..MaxReceived, discard : 0..MaxReceived, overrun : 0..MaxReceived]

(* The interrupt is at the first of the events it has yet to see, and has no more
   frames to look at than there are. *)
IsrInOrder ==
  /\ isr.at = "idle" => isr.events = {}
  /\ isr.at \in {"rx", "rxFrames", "rxSignal"} => "RX" \in isr.events
  /\ isr.at = "rxFrames" => isr.left <= Len(bus.fifo)
  /\ isr.at \in {"tx", "txSignal"} => "RX" \notin isr.events /\ "TX" \in isr.events
  /\ isr.at = "restart" => isr.events = {"RECOVERED"}

(* Before open() nothing happens but what the watchdog does. *)
NothingBeforeOpen ==
  At("closed") =>
    /\ tx = <<>> /\ rx = <<>> /\ flags = {} /\ isr.at = "idle"
    /\ bus.buffer = 0 /\ bus.complete /\ bus.irq = {} /\ bus.fifo = <<>>
    /\ watchdog.at # "recover"

(* A frame is being written, or counts as written, only while there is one. *)
WritesAFrame ==
  stack.at \in {"running?", "put", "occupied?", "transmit", "purgeWritten"}
  => stack.next <= MaxWritten

(* A bus that is off does not run.  One that recovers does not either, and no
   frame of the time before waits to be sent once it does: unless it was told to
   recover when it had. *)
RecoversEmpty ==
  /\ "BUS_OFF" \in flags => "RUNNING" \notin flags
  /\ "RECOVERED" \in isr.events => "BUS_OFF" \notin flags
  /\ ~bus.astray /\ Recovering =>
       /\ "RUNNING" \notin flags
       /\ stack.at \notin {"put", "occupied?", "transmit"}
       /\ tx = <<>> \/ At("purge")
  /\ ~bus.astray /\ "RECOVERED" \in isr.events => "RECOVERING" \notin flags

(* What is in the controller's buffer is the first frame of the queue. *)
BufferIsFirst ==
  ~sent.upset =>
    /\ ~Off
    /\ bus.complete <=> bus.buffer = 0
    /\ bus.buffer # 0 => tx # <<>> /\ bus.buffer = tx[1]

(* On one core the interrupt that follows a frame finds it sent, and at the head
   of the queue; and the writer does not meet it. *)
TxSeen == "TX" \in isr.events /\ isr.at # "txSignal"
TxDue == "TX" \in bus.irq \/ TxSeen
OneCoreInOrder ==
  Cores = 1 /\ ~sent.upset =>
    /\ TxDue => bus.buffer = 0 /\ tx # <<>> /\ tx[1] = sent.last
    /\ TxSeen => "TX" \notin bus.irq
    /\ bus.buffer # 0 \/ "TX" \in bus.irq => "OCCUPIED" \in flags
    /\ At("transmit") => bus.buffer = 0 /\ ~TxDue

(* The flag OCCUPIED means a frame in the buffer, one whose end the interrupt has
   yet to see, or a bus it has yet to see off. *)
OccupiedMeans ==
  ~bus.astray /\ "OCCUPIED" \in flags =>
    bus.buffer # 0 \/ "TX" \in bus.irq \/ (Off /\ "ERR" \in bus.irq)

(* While it is clear, somebody is about to look at the frames that wait. *)
LooksAtOccupied ==
  ~bus.astray /\ tx # <<>> /\ "RUNNING" \in flags /\ "OCCUPIED" \notin flags =>
    stack.at \in {"occupied?", "transmit", "purge"} \/ TxSeen

(* The frames read, those to be read, and those in the FIFO came in this order. *)
Arrivals == read \o rx \o bus.fifo
ArrivedBefore == \A i \in 1..Len(Arrivals) : Arrivals[i] <= bus.arrived

TwaiInv ==
  /\ TypeOK /\ IsrInOrder /\ NothingBeforeOpen /\ WritesAFrame
  /\ RecoversEmpty /\ BufferIsFirst /\ OneCoreInOrder /\ ArrivedBefore
  /\ OccupiedMeans /\ LooksAtOccupied
  /\ ReaderIsWoken /\ SentInOrder /\ ArrivalsAccounted

-----------------------------------------------------------------------------
(* What does not change keeps what is said of it. *)

LEMMA ArrivalsStay ==
  ASSUME TwaiInv, UNCHANGED <<rx, read, stats>>,
         bus'.fifo = bus.fifo, bus'.arrived = bus.arrived
  PROVE  (ArrivedBefore /\ ArrivalsAccounted)'
BY DEF TwaiInv, ArrivedBefore, Arrivals, ArrivalsAccounted, Counted

LEMMA OrderStays ==
  ASSUME TwaiInv, UNCHANGED <<tx, sent>>, LastPut' = LastPut
  PROVE  SentInOrder'
BY DEF TwaiInv, SentInOrder, FirstWaiting

LEMMA ControllerStays ==
  ASSUME TwaiInv, UNCHANGED <<tx, bus, sent>>
  PROVE  BufferIsFirst'
BY DEF TwaiInv, BufferIsFirst, Off

(* The types of the parts that most proofs need. *)
LEMMA TypesOfParts ==
  ASSUME TypeOK
  PROVE  /\ stack \in StackStates /\ stack.next \in 1..MaxWritten + 1
         /\ stack.next \in Nat /\ LastPut \in Int
         /\ sent.last \in Nat
         /\ isr \in IsrStates /\ watchdog \in WatchdogStates
         /\ stats \in Statistics
<1>1. stack \in StackStates /\ isr \in IsrStates
  BY DEF TypeOK, StackStates, IsrStates
<1>2. watchdog \in WatchdogStates /\ stats \in Statistics
  BY DEF TypeOK, WatchdogStates, Statistics
<1>3. stack.next \in 1..MaxWritten + 1
  BY <1>1 DEF StackStates
<1>4. stack.next \in Nat
  BY <1>3
<1>5. LastPut \in Int
  BY <1>4 DEF LastPut
<1>6. sent.last \in 0..MaxWritten
  BY DEF TypeOK
<1>7. sent.last \in Nat
  BY <1>6
<1> QED BY <1>1, <1>2, <1>3, <1>4, <1>5, <1>7

(* Frames that rise, and none of which is above a bound. *)
Rises(s) == \A i, j \in 1..Len(s) : i < j => s[i] < s[j]
AtMost(s, n) == \A i \in 1..Len(s) : s[i] <= n

Accounted == bus.arrived = Len(bus.fifo) + Len(rx) + Len(read) + Counted

LEMMA AccountMeans ==
  /\ ArrivalsAccounted <=> Accounted /\ Rises(Arrivals)
  /\ ArrivedBefore <=> AtMost(Arrivals, bus.arrived)
  /\ (ArrivalsAccounted <=> Accounted /\ Rises(Arrivals))'
  /\ (ArrivedBefore <=> AtMost(Arrivals, bus.arrived))'
BY DEF ArrivalsAccounted, Accounted, Arrivals, Rises, ArrivedBefore, AtMost

LEMMA CountedIsNat == ASSUME TwaiInv PROVE Counted \in Nat
<1>1. stats \in Statistics
  BY DEF TwaiInv, TypeOK, Statistics
<1> QED BY <1>1 DEF Counted, Statistics

(* Reading moves the border of the two queues. *)
LEMMA ReadingMoves ==
  ASSUME NEW S, NEW s \in Seq(S), NEW t \in Seq(S), t # <<>>
  PROVE  Append(s, Head(t)) \o Tail(t) = s \o t
<1>1. /\ Head(t) \in S /\ Head(t) = t[1] /\ Tail(t) \in Seq(S)
      /\ Len(Tail(t)) = Len(t) - 1
      /\ \A i \in 1..Len(Tail(t)) : Tail(t)[i] = t[i + 1]
      /\ Len(t) \in Nat \ {0} /\ Len(s) \in Nat
  BY HeadTailProperties, LenProperties, EmptySeq
<1> DEFINE a == Append(s, Head(t))
           l == a \o Tail(t)
           r == s \o t
<1>2. /\ a \in Seq(S) /\ Len(a) = Len(s) + 1
      /\ \A i \in 1..Len(s) : a[i] = s[i]
      /\ a[Len(s) + 1] = t[1]
  BY <1>1, AppendProperties
<1>3. /\ l \in Seq(S) /\ Len(l) = Len(s) + Len(t)
      /\ \A i \in 1..Len(s) + Len(t) :
           l[i] = IF i <= Len(s) + 1 THEN a[i] ELSE Tail(t)[i - (Len(s) + 1)]
  <2> DEFINE u == Tail(t)
  <2>1. a \in Seq(S) /\ u \in Seq(S) /\ Len(u) = Len(t) - 1 /\ Len(a) = Len(s) + 1
    BY <1>1, <1>2
  <2> HIDE DEF a, u
  <2>2. /\ a \o u \in Seq(S) /\ Len(a \o u) = Len(a) + Len(u)
        /\ \A i \in 1..Len(a) + Len(u) :
             (a \o u)[i] = IF i <= Len(a) THEN a[i] ELSE u[i - Len(a)]
    BY <2>1, ConcatProperties
  <2>3. Len(a) + Len(u) = Len(s) + Len(t)
    BY <1>1, <2>1
  <2> QED BY <2>1, <2>2, <2>3 DEF u
<1>4. /\ r \in Seq(S) /\ Len(r) = Len(s) + Len(t)
      /\ \A i \in 1..Len(s) + Len(t) :
           r[i] = IF i <= Len(s) THEN s[i] ELSE t[i - Len(s)]
  BY ConcatProperties
<1> HIDE DEF a, l, r
<1>5. \A i \in 1..Len(l) : l[i] = r[i]
  <2> SUFFICES ASSUME NEW i \in 1..Len(s) + Len(t)
               PROVE  l[i] = r[i]
    BY <1>3
  <2>1. CASE i <= Len(s)
    <3>1. i \in 1..Len(s)
      BY <1>1, <2>1
    <3>2. l[i] = a[i] /\ a[i] = s[i]
      BY <1>1, <1>2, <1>3, <2>1, <3>1
    <3> QED BY <1>4, <2>1, <3>2
  <2>2. CASE i = Len(s) + 1
    <3>1. l[i] = a[i]
      BY <1>1, <1>3, <2>2
    <3>2. a[i] = t[1]
      BY <1>2, <2>2
    <3>3. r[i] = t[1]
      BY <1>1, <1>4, <2>2
    <3> QED BY <3>1, <3>2, <3>3
  <2>3. CASE i > Len(s) + 1
    <3>1. i - (Len(s) + 1) \in 1..Len(Tail(t)) /\ (i - (Len(s) + 1)) + 1 = i - Len(s)
      BY <1>1, <2>3
    <3> QED BY <1>1, <1>3, <1>4, <2>3, <3>1
  <2> QED BY <1>1, <2>1, <2>2, <2>3
<1>6. l = r
  BY <1>3, <1>4, <1>5, SeqEqual
<1> QED BY <1>6 DEF l, r, a

(* Nor does it matter what comes before them.  The provers do better without
   seeing the concatenations. *)
Joined(s, t) == s \o t

LEMMA JoinedInTurn ==
  ASSUME NEW S, NEW s \in Seq(S), NEW t \in Seq(S), NEW u \in Seq(S)
  PROVE  Joined(Joined(s, t), u) = Joined(s, Joined(t, u))
<1>1. (s \o t) \o u = s \o (t \o u)
  BY ConcatAssociative
<1> QED BY <1>1 DEF Joined

LEMMA QueueingMoves ==
  ASSUME NEW S, NEW q \in Seq(S), NEW s \in Seq(S), NEW t \in Seq(S), t # <<>>
  PROVE  Joined(Joined(q, Append(s, Head(t))), Tail(t)) = Joined(Joined(q, s), t)
<1> DEFINE a == Append(s, Head(t))
           u == Tail(t)
<1>1. Head(t) \in S /\ u \in Seq(S)
  BY HeadTailProperties
<1>2. a \in Seq(S)
  BY <1>1, AppendProperties
<1>3. Joined(a, u) = Joined(s, t)
  BY ReadingMoves DEF Joined
<1> HIDE DEF a, u
<1>4. Joined(Joined(q, a), u) = Joined(q, Joined(a, u))
  BY <1>1, <1>2, JoinedInTurn
<1>5. Joined(Joined(q, s), t) = Joined(q, Joined(s, t))
  BY JoinedInTurn
<1>6. Joined(Joined(q, a), u) = Joined(Joined(q, s), t)
  BY ONLY <1>3, <1>4, <1>5
<1> QED BY <1>6 DEF a, u

(* What three sequences one after another hold. *)
LEMMA ConcatOfThree ==
  ASSUME NEW S, NEW s \in Seq(S), NEW t \in Seq(S), NEW u \in Seq(S)
  PROVE  /\ s \o t \o u \in Seq(S)
         /\ Len(s \o t \o u) = Len(s) + Len(t) + Len(u)
         /\ \A i \in 1..Len(s \o t \o u) :
              (s \o t \o u)[i] = IF i <= Len(s) THEN s[i]
                               ELSE IF i <= Len(s) + Len(t) THEN t[i - Len(s)]
                               ELSE u[i - Len(s) - Len(t)]
<1> DEFINE v == s \o t
<1>1. Len(s) \in Nat /\ Len(t) \in Nat /\ Len(u) \in Nat
  BY LenProperties
<1>2. /\ v \in Seq(S) /\ Len(v) = Len(s) + Len(t)
      /\ \A i \in 1..Len(s) + Len(t) :
           v[i] = IF i <= Len(s) THEN s[i] ELSE t[i - Len(s)]
  BY ConcatProperties
<1> HIDE DEF v
<1>a. v \in Seq(S)
  BY <1>2
<1>3. /\ v \o u \in Seq(S) /\ Len(v \o u) = Len(v) + Len(u)
      /\ \A i \in 1..Len(v) + Len(u) :
           (v \o u)[i] = IF i <= Len(v) THEN v[i] ELSE u[i - Len(v)]
  BY ONLY <1>a, u \in Seq(S), ConcatProperties
<1>4. ASSUME NEW i \in 1..Len(v \o u)
      PROVE  (v \o u)[i] = IF i <= Len(s) THEN s[i]
                           ELSE IF i <= Len(s) + Len(t) THEN t[i - Len(s)]
                           ELSE u[i - Len(s) - Len(t)]
  <2>1. CASE i <= Len(v)
    BY <1>1, <1>2, <1>3, <2>1
  <2>2. CASE i > Len(v)
    <3>1. (v \o u)[i] = u[i - Len(v)] /\ i - Len(v) = i - Len(s) - Len(t)
      BY <1>1, <1>2, <1>3, <2>2
    <3>2. ~(i <= Len(s)) /\ ~(i <= Len(s) + Len(t))
      BY <1>1, <1>2, <2>2
    <3> QED BY <3>1, <3>2
  <2> QED BY <1>1, <1>2, <1>3, <2>1, <2>2
<1> QED BY <1>1, <1>2, <1>3, <1>4 DEF v

(* What is left when some are taken out rises as well. *)
LEMMA TakenOutRises ==
  ASSUME NEW s \in Seq(Nat), NEW t \in Seq(Nat), NEW n \in Nat,
         NEW place \in [1..Len(t) -> 1..Len(s)],
         \A i, j \in 1..Len(t) : i < j => place[i] < place[j],
         \A i \in 1..Len(t) : t[i] = s[place[i]],
         Rises(s), AtMost(s, n)
  PROVE  Rises(t) /\ AtMost(t, n)
<1>1. ASSUME NEW i \in 1..Len(t), NEW j \in 1..Len(t), i < j
      PROVE  t[i] < t[j]
  <2>1. place[i] \in 1..Len(s) /\ place[j] \in 1..Len(s) /\ place[i] < place[j]
    BY <1>1
  <2>2. s[place[i]] < s[place[j]]
    BY <2>1 DEF Rises
  <2> QED BY <2>2
<1>2. ASSUME NEW i \in 1..Len(t)
      PROVE  t[i] <= n
  <2>1. place[i] \in 1..Len(s)
    OBVIOUS
  <2> QED BY <2>1 DEF AtMost
<1> QED BY <1>1, <1>2 DEF Rises, AtMost

(* What is left when the middle is taken out rises as well. *)
LEMMA MiddleTakenOut ==
  ASSUME NEW r \in Seq(Nat), NEW m \in Seq(Nat), NEW f \in Seq(Nat), NEW n \in Nat,
         Rises(r \o m \o f), AtMost(r \o m \o f, n)
  PROVE  Rises(r \o f) /\ AtMost(r \o f, n)
<1> DEFINE s == r \o m \o f
           t == r \o f
           lr == Len(r)
           lm == Len(m)
           lf == Len(f)
           place == [i \in 1..Len(t) |-> IF i <= lr THEN i ELSE i + lm]
<1>1. lr \in Nat /\ lm \in Nat /\ lf \in Nat
  BY LenProperties
<1>2. /\ s \in Seq(Nat) /\ Len(s) = lr + lm + lf
      /\ \A i \in 1..Len(s) :
           s[i] = IF i <= lr THEN r[i]
                  ELSE IF i <= lr + lm THEN m[i - lr]
                  ELSE f[i - lr - lm]
  BY ConcatOfThree
<1>3. /\ t \in Seq(Nat) /\ Len(t) = lr + lf
      /\ \A i \in 1..Len(t) :
           t[i] = IF i <= lr THEN r[i] ELSE f[i - lr]
  BY ConcatProperties
<1>4. Rises(s) /\ AtMost(s, n)
  OBVIOUS
<1> HIDE DEF s, t, lr, lm, lf
<1>5. ASSUME NEW i \in 1..Len(t)
      PROVE  /\ place[i] \in 1..Len(s) /\ t[i] = s[place[i]]
             /\ i <= lr => place[i] = i
             /\ ~(i <= lr) => place[i] = i + lm
  <2>1. i \in Nat /\ 1 <= i /\ i <= lr + lf
    <3>1. Len(t) = lr + lf
      BY <1>3
    <3> QED BY <1>1, <3>1
  <2>2. CASE i <= lr
    <3>1. i \in 1..Len(s)
      <4>1. Len(s) = lr + lm + lf
        BY <1>2
      <4> QED BY <1>1, <2>1, <2>2, <4>1
    <3>2. place[i] = i
      BY <2>2
    <3>3. t[i] = r[i] /\ s[i] = r[i]
      BY <1>2, <1>3, <2>2, <3>1
    <3> QED BY <2>2, <3>1, <3>2, <3>3
  <2>3. CASE ~(i <= lr)
    <3> DEFINE k == i + lm
    <3>1. /\ k \in 1..Len(s) /\ ~(k <= lr) /\ ~(k <= lr + lm)
          /\ k - lr - lm = i - lr
      <4>1. Len(s) = lr + lm + lf
        BY <1>2
      <4> QED BY <1>1, <2>1, <2>3, <4>1
    <3>2. place[i] = k
      BY <2>3
    <3>3. t[i] = f[i - lr]
      BY <1>3, <2>3
    <3> HIDE DEF k
    <3>4. s[k] = f[k - lr - lm]
      BY <1>2, <3>1
    <3> QED BY <2>3, <3>1, <3>2, <3>3, <3>4 DEF k
  <2> QED BY <2>2, <2>3
<1>6. place \in [1..Len(t) -> 1..Len(s)] /\ \A i \in 1..Len(t) : t[i] = s[place[i]]
  BY <1>5
<1>7. \A i, j \in 1..Len(t) : i < j => place[i] < place[j]
  <2> SUFFICES ASSUME NEW i \in 1..Len(t), NEW j \in 1..Len(t), i < j
               PROVE  place[i] < place[j]
    OBVIOUS
  <2>1. /\ i <= lr => place[i] = i
        /\ ~(i <= lr) => place[i] = i + lm
    BY <1>5
  <2>2. /\ j <= lr => place[j] = j
        /\ ~(j <= lr) => place[j] = j + lm
    BY <1>5
  <2>3. i \in Int /\ j \in Int
    OBVIOUS
  <2> HIDE DEF place
  <2> QED BY <1>1, <2>1, <2>2, <2>3
<1> HIDE DEF place
<1>8. Rises(t) /\ AtMost(t, n)
  <2>1. s \in Seq(Nat) /\ t \in Seq(Nat)
    BY <1>2, <1>3
  <2> QED BY ONLY <2>1, n \in Nat, <1>4, <1>6, <1>7, TakenOutRises
<1> QED BY <1>8 DEF t

(* The next one may be appended. *)
LEMMA NextRises ==
  ASSUME NEW s \in Seq(Nat), NEW n \in Nat, Rises(s), AtMost(s, n)
  PROVE  Rises(Append(s, n + 1)) /\ AtMost(Append(s, n + 1), n + 1)
<1> DEFINE t == Append(s, n + 1)
<1>1. /\ Len(t) = Len(s) + 1 /\ Len(s) \in Nat
      /\ \A i \in 1..Len(s) : t[i] = s[i] /\ s[i] \in Nat
      /\ t[Len(s) + 1] = n + 1
  BY AppendProperties, LenProperties, ElementOfSeq
<1> HIDE DEF t
<1>2. \A i \in 1..Len(t) : i \in 1..Len(s) \/ i = Len(s) + 1
  BY <1>1
<1>3. ASSUME NEW i \in 1..Len(t)
      PROVE  t[i] <= n + 1
  <2>1. CASE i \in 1..Len(s)
    <3>1. t[i] = s[i] /\ s[i] <= n /\ s[i] \in Nat
      BY <1>1, <2>1 DEF AtMost
    <3> QED BY <3>1
  <2>2. CASE i = Len(s) + 1
    BY <1>1, <2>2
  <2> QED BY <1>2, <2>1, <2>2
<1>4. ASSUME NEW i \in 1..Len(t), NEW j \in 1..Len(t), i < j
      PROVE  t[i] < t[j]
  <2>1. i \in 1..Len(s)
    BY <1>1, <1>4
  <2>2. t[i] = s[i] /\ s[i] <= n /\ s[i] \in Nat
    BY <1>1, <2>1 DEF AtMost
  <2>3. CASE j \in 1..Len(s)
    <3>1. s[i] < s[j] /\ t[j] = s[j]
      BY <1>1, <1>4, <2>1, <2>3 DEF Rises
    <3> QED BY <2>2, <3>1
  <2>4. CASE j = Len(s) + 1
    BY <1>1, <2>2, <2>4
  <2> QED BY <1>2, <2>3, <2>4
<1>5. Rises(t) /\ AtMost(t, n + 1)
  BY <1>3, <1>4 DEF Rises, AtMost
<1> QED BY <1>5 DEF t

(* What handing a frame to the controller does. *)
LEMMA TransmitHandsOver ==
  ASSUME TwaiInv, NEW queue \in Seq(Frame), queue # <<>>, Transmit(queue)
  PROVE  /\ flags' = flags \cup {"OCCUPIED"} /\ flags' \subseteq Flag
         /\ bus' \in Bus
         /\ bus'.fifo = bus.fifo /\ bus'.arrived = bus.arrived
         /\ bus'.state = bus.state /\ bus'.irq = bus.irq
         /\ ~bus'.astray => ~bus.astray /\ (Off => "ERR" \in bus.irq)
         /\ Off \/ bus.buffer # 0 =>
              bus'.buffer = bus.buffer /\ bus'.complete = bus.complete
         /\ ~Off /\ bus.buffer = 0 =>
              bus'.buffer = queue[1] /\ bus'.buffer # 0 /\ ~bus'.complete
<1> DEFINE frame == queue[1]
<1>1. frame \in Frame /\ frame # 0 /\ frame \in 0..MaxWritten /\ Head(queue) = frame
  BY EmptySeq, ElementOfSeq DEF Frame
<1>2. bus \in Bus /\ flags \subseteq Flag /\ Handed(frame)
  BY <1>1 DEF TwaiInv, TypeOK, Transmit
<1> HIDE DEF frame
<1>3. flags' = flags \cup {"OCCUPIED"} /\ flags' \subseteq Flag
  BY <1>2 DEF Handed, Flag
<1>4. CASE Off
  <2> DEFINE astray == bus.astray \/ "ERR" \notin bus.irq
  <2>1. bus' = [bus EXCEPT !.astray = astray] /\ astray \in BOOLEAN
    BY <1>2, <1>4 DEF Handed, Bus
  <2>2. ~astray => ~bus.astray /\ "ERR" \in bus.irq
    OBVIOUS
  <2> HIDE DEF astray
  <2> QED BY <1>2, <1>3, <1>4, <2>1, <2>2 DEF Bus
<1>5. CASE ~Off /\ bus.buffer # 0
  BY <1>2, <1>3, <1>5 DEF Handed
<1>6. CASE ~Off /\ bus.buffer = 0
  <2>1. bus' = [bus EXCEPT !.buffer = frame, !.complete = FALSE]
    BY <1>2, <1>6 DEF Handed
  <2> QED BY <1>1, <1>2, <1>3, <1>6, <2>1 DEF Bus, frame
<1> QED BY <1>4, <1>5, <1>6

(* What starting a recovery does, whether it is due or not. *)
LEMMA RecoveryStarts ==
  ASSUME TwaiInv, NEW flag, StartsRecovery(flag)
  PROVE  /\ flags' = flags \cup {"RECOVERING"} /\ flags' \subseteq Flag
         /\ bus' \in Bus /\ (Off' <=> Off)
         /\ bus'.fifo = bus.fifo /\ bus'.arrived = bus.arrived
         /\ bus'.buffer = bus.buffer /\ bus'.complete = bus.complete
         /\ bus'.irq = bus.irq
         /\ ~bus'.astray => ~bus.astray /\ flag \in flags
<1> DEFINE state == IF bus.state = "off" THEN "recovering" ELSE bus.state
           astray == bus.astray \/ flag \notin flags
<1>1. bus \in Bus /\ flags \subseteq Flag
  BY DEF TwaiInv, TypeOK
<1>2. flags' = flags \cup {"RECOVERING"} /\ flags' \subseteq Flag
  BY <1>1 DEF StartsRecovery, Flag
<1>3. /\ bus' = [bus EXCEPT !.state = state, !.astray = astray]
      /\ state \in {"active", "passive", "off", "recovering"} /\ astray \in BOOLEAN
      /\ state \in {"off", "recovering"} <=> bus.state \in {"off", "recovering"}
      /\ ~astray => ~bus.astray /\ flag \in flags
  BY <1>1 DEF StartsRecovery, Bus
<1> HIDE DEF state, astray
<1> QED BY <1>1, <1>2, <1>3 DEF Bus, Off

(* An empty queue, and what a purge leaves. *)
LEMMA NothingQueued ==
  /\ <<>> \in Seq(Frame) /\ <<>> \in Seq(1..MaxReceived) /\ Len(<<>>) = 0
  /\ [upset |-> TRUE, last |-> 0] \in [upset : BOOLEAN, last : 0..MaxWritten]
<1>1. <<>> \in Seq(Frame) /\ <<>> \in Seq(1..MaxReceived) /\ Len(<<>>) = 0
  BY EmptySeq
<1>2. 0 \in 0..MaxWritten
  OBVIOUS
<1> QED BY <1>1, <1>2

-----------------------------------------------------------------------------

LEMMA InitKeeps == Init => TwaiInv
<1> SUFFICES ASSUME Init
             PROVE  TwaiInv
  OBVIOUS
<1>1. TypeOK
  BY DEF Init, TypeOK, StackStates, IsrStates, WatchdogStates, Frame, Flag, FdSet,
         StackAt, IsrAt, WatchdogAt, Bus
<1>2. IsrInOrder /\ NothingBeforeOpen /\ WritesAFrame
  BY DEF Init, IsrInOrder, NothingBeforeOpen, WritesAFrame, At
<1>3. RecoversEmpty /\ BufferIsFirst /\ OneCoreInOrder
  BY DEF Init, RecoversEmpty, Recovering, BufferIsFirst, Off, OneCoreInOrder, TxDue,
         TxSeen, At
<1>4. ReaderIsWoken /\ OccupiedMeans /\ LooksAtOccupied /\ SentInOrder
  BY DEF Init, ReaderIsWoken, OccupiedMeans, LooksAtOccupied, TxSeen, Off,
         SentInOrder, FirstWaiting, LastPut, At
<1>5. ArrivedBefore /\ ArrivalsAccounted
  BY DEF Init, ArrivedBefore, Arrivals, ArrivalsAccounted, Counted
<1> QED BY <1>1, <1>2, <1>3, <1>4, <1>5 DEF TwaiInv

(* The stack *)

LEMMA OpenKeeps ==
  ASSUME TwaiInv, Open
  PROVE  TwaiInv'
<1>1. UNCHANGED <<tx, rx>>
  BY DEF TwaiInv, Open, NothingBeforeOpen
<1>2. TypeOK'
  BY <1>1 DEF Open, TwaiInv, TypeOK, StackStates, IsrStates, WatchdogStates, Flag,
              Goes, StackAt, At
<1>3. (IsrInOrder /\ NothingBeforeOpen /\ WritesAFrame /\ RecoversEmpty)'
  BY <1>1 DEF Open, TwaiInv, TypeOK, StackStates, IsrStates, WatchdogStates,
              IsrInOrder, NothingBeforeOpen, WritesAFrame, RecoversEmpty,
              Recovering, Goes, At
<1>4. (BufferIsFirst /\ OneCoreInOrder /\ SentInOrder)'
  BY <1>1, OrderStays, ControllerStays
     DEF Open, LastPut, OneCoreInOrder, TxDue, TxSeen, At, Goes, TwaiInv, TypeOK,
         StackStates, IsrStates, WatchdogStates
<1>5. (ReaderIsWoken /\ OccupiedMeans /\ LooksAtOccupied)'
  BY <1>1 DEF Open, TwaiInv, TypeOK, StackStates, IsrStates, WatchdogStates,
              NothingBeforeOpen, ReaderIsWoken, OccupiedMeans, LooksAtOccupied,
              TxSeen, Off, Goes, At
<1>6. (ArrivedBefore /\ ArrivalsAccounted)'
  BY <1>1, ArrivalsStay DEF Open
<1> QED BY <1>2, <1>3, <1>4, <1>5, <1>6 DEF TwaiInv

(* The steps of the stack. *)
LEMMA StackGoes ==
  ASSUME TypeOK, NEW place \in StackAt, Goes(place)
  PROVE  /\ stack' \in StackStates
         /\ stack'.at = place /\ stack'.runs = stack.runs /\ stack'.next = stack.next
BY DEF TypeOK, StackStates, IsrStates, WatchdogStates, Goes

LEMMA StackWrites ==
  ASSUME TypeOK, NEW taken \in BOOLEAN, taken => stack.next <= MaxWritten,
         Writes(taken)
  PROVE  /\ stack' \in StackStates
         /\ stack'.at = "idle"
         /\ stack'.next = IF taken THEN stack.next + 1 ELSE stack.next
<1> DEFINE next == IF taken THEN stack.next + 1 ELSE stack.next
           runs == IF taken THEN stack.runs ELSE stack.runs \ {"write"}
<1>1. stack \in StackStates
  BY DEF TypeOK, StackStates, IsrStates, WatchdogStates
<1>2. next \in 1..MaxWritten + 1 /\ runs \in SUBSET FdSet /\ "idle" \in StackAt
  BY <1>1 DEF StackAt, StackStates
<1>3. stack' = [stack EXCEPT !.at = "idle", !.next = next, !.runs = runs]
  BY <1>1 DEF Writes
<1>4. /\ stack' \in StackStates
      /\ stack'.at = "idle" /\ stack'.next = next
  <2> HIDE DEF next, runs
  <2> QED BY <1>1, <1>2, <1>3 DEF StackStates
<1> QED BY <1>4

LEMMA WriteBeginsKeeps ==
  ASSUME TwaiInv, WriteBegins
  PROVE  TwaiInv'
<1>1. TypeOK /\ stack.at = "idle" /\ stack.next <= MaxWritten
  BY DEF TwaiInv, WriteBegins, At
<1>2. /\ stack' \in StackStates
      /\ stack'.next = stack.next /\ stack'.at \in {"recover", "running?"}
  BY <1>1, StackGoes DEF WriteBegins, StackAt
<1>3. UNCHANGED <<tx, rx, flags, select, isr, watchdog, stats, bus, sent, read>>
  BY DEF WriteBegins
<1>4. TypeOK'
  BY <1>1, <1>2, <1>3 DEF TypeOK, StackStates
<1>5. IsrInOrder' /\ NothingBeforeOpen' /\ WritesAFrame'
  BY <1>1, <1>2, <1>3 DEF TwaiInv, IsrInOrder, NothingBeforeOpen, WritesAFrame, At
<1>6. RecoversEmpty'
  BY <1>1, <1>2, <1>3 DEF TwaiInv, RecoversEmpty, Recovering, At
<1>7. BufferIsFirst' /\ SentInOrder'
  BY <1>1, <1>2, <1>3, OrderStays, ControllerStays DEF LastPut
<1>8. OneCoreInOrder'
  BY <1>1, <1>2, <1>3 DEF TwaiInv, OneCoreInOrder, TxDue, TxSeen, At
<1>9. ReaderIsWoken' /\ OccupiedMeans' /\ LooksAtOccupied'
  BY <1>1, <1>2, <1>3
     DEF TwaiInv, ReaderIsWoken, OccupiedMeans, LooksAtOccupied, Off, TxSeen, At
<1>10. (ArrivedBefore /\ ArrivalsAccounted)'
  BY <1>3, ArrivalsStay
<1> QED BY <1>4, <1>5, <1>6, <1>7, <1>8, <1>9, <1>10 DEF TwaiInv

(* A recovery that was due by a flag which has been cleared since leads astray. *)
LEMMA RecoveryKeeps ==
  ASSUME TwaiInv, NEW flag, StartsRecovery(flag),
         UNCHANGED <<tx, rx, select, isr, stats, sent, read>>, ~At("closed"),
         \/ flag = "RECOVERING" /\ UNCHANGED stack
         \/ /\ flag = "BUS_OFF" /\ stack.at = "recover"
            /\ stack'.at = "purge" /\ stack'.next = stack.next
  PROVE  /\ (IsrInOrder /\ NothingBeforeOpen /\ WritesAFrame /\ RecoversEmpty)'
         /\ (BufferIsFirst /\ OneCoreInOrder /\ OccupiedMeans /\ LooksAtOccupied)'
         /\ (ArrivedBefore /\ ReaderIsWoken /\ SentInOrder /\ ArrivalsAccounted)'
<1>1. /\ flags' = flags \cup {"RECOVERING"} /\ (Off' <=> Off)
      /\ bus'.fifo = bus.fifo /\ bus'.arrived = bus.arrived
      /\ bus'.buffer = bus.buffer /\ bus'.complete = bus.complete
      /\ bus'.irq = bus.irq
      /\ ~bus'.astray => ~bus.astray /\ flag \in flags
  BY RecoveryStarts
<1>2. (IsrInOrder /\ NothingBeforeOpen /\ WritesAFrame)'
  BY <1>1 DEF TwaiInv, IsrInOrder, NothingBeforeOpen, WritesAFrame, At
<1>3. RecoversEmpty'
  BY <1>1 DEF TwaiInv, RecoversEmpty, Recovering, At
<1>4. BufferIsFirst'
  BY <1>1 DEF TwaiInv, BufferIsFirst
<1>5. OneCoreInOrder'
  BY <1>1 DEF TwaiInv, OneCoreInOrder, TxDue, TxSeen, At
<1>6. (OccupiedMeans /\ LooksAtOccupied)'
  BY <1>1 DEF TwaiInv, OccupiedMeans, LooksAtOccupied, TxSeen
<1>7. SentInOrder'
  BY OrderStays DEF LastPut
<1>8. ReaderIsWoken'
  BY DEF TwaiInv, ReaderIsWoken, At
<1>9. (ArrivedBefore /\ ArrivalsAccounted)'
  BY <1>1, ArrivalsStay
<1> QED BY <1>2, <1>3, <1>4, <1>5, <1>6, <1>7, <1>8, <1>9

LEMMA WriteRecoversKeeps ==
  ASSUME TwaiInv, WriteRecovers
  PROVE  TwaiInv'
<1>1. /\ TypeOK /\ stack.at = "recover" /\ ~At("closed") /\ StartsRecovery("BUS_OFF")
      /\ UNCHANGED <<tx, rx, select, isr, watchdog, stats, sent, read>>
  BY DEF WriteRecovers, PurgesNext, TwaiInv, At
<1>2. stack' \in StackStates /\ stack'.at = "purge" /\ stack'.next = stack.next
  BY <1>1, StackGoes DEF WriteRecovers, PurgesNext, StackAt
<1>3. TypeOK'
  BY <1>1, <1>2, RecoveryStarts DEF TypeOK, StackStates
<1> QED BY <1>1, <1>2, <1>3, RecoveryKeeps DEF TwaiInv

LEMMA WriteChecksKeeps ==
  ASSUME TwaiInv, WriteChecks
  PROVE  TwaiInv'
<1>1. TypeOK'
  BY DEF WriteChecks, TwaiInv, TypeOK, StackStates, IsrStates, WatchdogStates,
         WritesAFrame, Goes, Writes, StackAt, FdSet, At
<1>2. (IsrInOrder /\ NothingBeforeOpen /\ WritesAFrame)'
  BY DEF WriteChecks, TwaiInv, TypeOK, StackStates, IsrStates, WatchdogStates,
         IsrInOrder, NothingBeforeOpen, WritesAFrame, Goes, Writes, At
<1>3. RecoversEmpty'
  BY DEF WriteChecks, TwaiInv, TypeOK, StackStates, IsrStates, WatchdogStates,
         RecoversEmpty, Recovering, Goes, Writes, At
<1>4. (BufferIsFirst /\ SentInOrder)'
  BY OrderStays, ControllerStays
     DEF WriteChecks, TwaiInv, TypeOK, StackStates, IsrStates, WatchdogStates,
         LastPut, Goes, Writes, At
<1>5. OneCoreInOrder'
  BY DEF WriteChecks, TwaiInv, TypeOK, StackStates, IsrStates, WatchdogStates,
         OneCoreInOrder, TxDue, TxSeen, Goes, Writes, At
<1>6. (ReaderIsWoken /\ OccupiedMeans /\ LooksAtOccupied)'
  BY DEF WriteChecks, TwaiInv, TypeOK, StackStates, IsrStates, WatchdogStates,
         ReaderIsWoken, OccupiedMeans, LooksAtOccupied, TxSeen, Off, Goes, Writes,
         At
<1>7. (ArrivedBefore /\ ArrivalsAccounted)'
  BY ArrivalsStay DEF WriteChecks
<1> QED BY <1>1, <1>2, <1>3, <1>4, <1>5, <1>6, <1>7 DEF TwaiInv

LEMMA WritePutsKeeps ==
  ASSUME TwaiInv, WritePuts
  PROVE  TwaiInv'
<1>1. CASE Len(tx) < TxSize
  <2> DEFINE n == stack.next
  <2>1. /\ n \in Frame /\ tx \in Seq(Frame)
        /\ tx' = Append(tx, n) /\ Goes("occupied?") /\ At("put")
    BY <1>1 DEF WritePuts, TwaiInv, TypeOK, StackStates, IsrStates, WatchdogStates,
                WritesAFrame, Frame, At
  <2>2. /\ tx' \in Seq(Frame) /\ tx' # <<>> /\ Len(tx') = Len(tx) + 1
        /\ \A i \in 1..Len(tx) : tx'[i] = tx[i]
        /\ tx'[Len(tx) + 1] = n
        /\ Len(tx) \in Nat /\ (tx # <<>> => Len(tx) > 0)
    BY <2>1, AppendProperties, LenProperties, EmptySeq
  <2>3. TypeOK'
    <3>1. tx' \in Seq(Frame) /\ Len(tx') <= TxSize
      BY <1>1, <2>2 DEF TwaiInv, TypeOK, StackStates, IsrStates, WatchdogStates
    <3>2. stack' \in StackStates
      BY <2>1 DEF TwaiInv, TypeOK, StackStates, IsrStates, WatchdogStates, Goes,
                  StackAt
    <3> QED BY <3>1, <3>2 DEF WritePuts, TwaiInv, TypeOK, StackStates, IsrStates,
                              WatchdogStates
  <2>4. (IsrInOrder /\ NothingBeforeOpen /\ WritesAFrame /\ RecoversEmpty)'
    BY <2>1 DEF WritePuts, TwaiInv, TypeOK, StackStates, IsrStates, WatchdogStates,
                IsrInOrder, NothingBeforeOpen, WritesAFrame, RecoversEmpty,
                Recovering, Goes, At
  <2>5. (BufferIsFirst /\ OneCoreInOrder)'
    <3>1. tx # <<>> => tx'[1] = tx[1]
      BY <2>2
    <3>2. BufferIsFirst'
      BY <2>2, <3>1 DEF WritePuts, TwaiInv, BufferIsFirst, Off
    <3>3. OneCoreInOrder'
      BY <2>1, <2>2, <3>1 DEF WritePuts, TwaiInv, TypeOK, StackStates, IsrStates,
                              WatchdogStates, OneCoreInOrder, TxDue, TxSeen, Goes,
                              At
    <3> QED BY <3>2, <3>3
  <2>6. SentInOrder'
    <3>a. n \in Nat /\ Len(tx) \in Nat /\ Len(tx') = Len(tx) + 1
      BY <2>2, TypesOfParts DEF TwaiInv
    <3>b. stack' = [stack EXCEPT !.at = "occupied?"] /\ stack \in StackStates
      BY <2>1, TypesOfParts DEF TwaiInv, Goes
    <3>c. stack.at = "put" /\ stack'.at = "occupied?" /\ stack'.next = n
      BY <2>1, <3>b DEF At, StackStates
    <3>1. LastPut = n - 1 /\ LastPut' = n /\ n \in Nat
      BY <3>a, <3>c DEF LastPut
    <3> HIDE DEF n
    <3>2. FirstWaiting' = FirstWaiting /\ FirstWaiting = n - Len(tx)
      BY <3>a, <3>1 DEF FirstWaiting
    <3> QED BY <2>1, <2>2, <3>1, <3>2 DEF WritePuts, TwaiInv, SentInOrder
  <2>7. (ReaderIsWoken /\ OccupiedMeans /\ LooksAtOccupied)'
    BY <2>1 DEF WritePuts, TwaiInv, TypeOK, StackStates, IsrStates, WatchdogStates,
                ReaderIsWoken, OccupiedMeans, LooksAtOccupied, TxSeen, Off, Goes, At
  <2>8. (ArrivedBefore /\ ArrivalsAccounted)'
    BY ArrivalsStay DEF WritePuts
  <2> QED BY <2>3, <2>4, <2>5, <2>6, <2>7, <2>8 DEF TwaiInv
<1>2. CASE ~(Len(tx) < TxSize)
  <2>1. UNCHANGED tx /\ Writes(FALSE) /\ At("put")
    BY <1>2 DEF WritePuts
  <2>2. TypeOK'
    BY <2>1 DEF WritePuts, TwaiInv, TypeOK, StackStates, IsrStates, WatchdogStates,
                Writes, StackAt
  <2>3. (IsrInOrder /\ NothingBeforeOpen /\ WritesAFrame /\ RecoversEmpty)'
    BY <2>1 DEF WritePuts, TwaiInv, TypeOK, StackStates, IsrStates, WatchdogStates,
                IsrInOrder, NothingBeforeOpen, WritesAFrame, RecoversEmpty,
                Recovering, Writes, At
  <2>4. (BufferIsFirst /\ SentInOrder)'
    BY <2>1, OrderStays, ControllerStays
       DEF WritePuts, TwaiInv, TypeOK, StackStates, IsrStates, WatchdogStates,
           LastPut, Writes, At
  <2>5. (OneCoreInOrder /\ ReaderIsWoken /\ OccupiedMeans /\ LooksAtOccupied)'
    BY <2>1 DEF WritePuts, TwaiInv, TypeOK, StackStates, IsrStates, WatchdogStates,
                OneCoreInOrder, TxDue, TxSeen, ReaderIsWoken, OccupiedMeans,
                LooksAtOccupied, Off, Writes, At
  <2>6. (ArrivedBefore /\ ArrivalsAccounted)'
    BY ArrivalsStay DEF WritePuts
  <2> QED BY <2>2, <2>3, <2>4, <2>5, <2>6 DEF TwaiInv
<1> QED BY <1>1, <1>2

LEMMA WriteLooksKeeps ==
  ASSUME TwaiInv, WriteLooks, TasksRun
  PROVE  TwaiInv'
<1>1. /\ TypeOK /\ stack.at = "occupied?" /\ stack.next <= MaxWritten
      /\ stack.next \in Nat
  BY TypesOfParts DEF WriteLooks, TwaiInv, WritesAFrame, At
<1>2. /\ stack' \in StackStates
      /\ \/ /\ "RUNNING" \in flags /\ "OCCUPIED" \notin flags
            /\ stack'.at = "transmit" /\ stack'.next = stack.next
         \/ /\ "RUNNING" \notin flags \/ "OCCUPIED" \in flags
            /\ stack'.at = "idle" /\ stack'.next = stack.next + 1
  BY <1>1, StackGoes, StackWrites DEF WriteLooks, StackAt
<1>3. UNCHANGED <<tx, rx, flags, select, isr, watchdog, stats, bus, sent, read>>
  BY DEF WriteLooks
<1>4. TypeOK'
  BY <1>1, <1>2, <1>3 DEF TypeOK, StackStates, IsrStates, WatchdogStates
<1>5. IsrInOrder' /\ NothingBeforeOpen' /\ WritesAFrame'
  BY <1>1, <1>2, <1>3 DEF TwaiInv, IsrInOrder, NothingBeforeOpen, WritesAFrame, At
<1>6. RecoversEmpty'
  BY <1>1, <1>2, <1>3 DEF TwaiInv, RecoversEmpty, Recovering, At
<1>7. LastPut' = LastPut
  BY <1>1, <1>2 DEF LastPut
<1>8. BufferIsFirst' /\ SentInOrder'
  BY <1>3, <1>7, OrderStays, ControllerStays
<1>9. OneCoreInOrder'
  BY <1>1, <1>2, <1>3
     DEF TasksRun, IsrInOrder, TwaiInv, OneCoreInOrder, TxDue, TxSeen, At
<1>10. ReaderIsWoken' /\ OccupiedMeans' /\ LooksAtOccupied'
  BY <1>1, <1>2, <1>3 DEF TwaiInv, ReaderIsWoken, OccupiedMeans, LooksAtOccupied,
                          TxSeen, Off, At
<1>11. (ArrivedBefore /\ ArrivalsAccounted)'
  BY <1>3, ArrivalsStay
<1> QED BY <1>4, <1>5, <1>6, <1>8, <1>9, <1>10, <1>11 DEF TwaiInv

LEMMA StartSelectKeeps ==
  ASSUME TwaiInv, StartSelect
  PROVE  TwaiInv'
<1>1. TypeOK'
  BY DEF StartSelect, TwaiInv, TypeOK, StackStates, IsrStates, WatchdogStates,
         WritesAFrame, Goes, Writes, StackAt, FdSet, At
<1>2. (IsrInOrder /\ NothingBeforeOpen /\ WritesAFrame)'
  BY DEF StartSelect, TwaiInv, TypeOK, StackStates, IsrStates, WatchdogStates,
         IsrInOrder, NothingBeforeOpen, WritesAFrame, Goes, Writes, At
<1>3. RecoversEmpty'
  BY DEF StartSelect, TwaiInv, TypeOK, StackStates, IsrStates, WatchdogStates,
         RecoversEmpty, Recovering, Goes, Writes, At
<1>4. (BufferIsFirst /\ SentInOrder)'
  BY OrderStays, ControllerStays
     DEF StartSelect, TwaiInv, TypeOK, StackStates, IsrStates, WatchdogStates,
         LastPut, Goes, Writes, At
<1>5. OneCoreInOrder'
  BY DEF StartSelect, TwaiInv, TypeOK, StackStates, IsrStates, WatchdogStates,
         OneCoreInOrder, TxDue, TxSeen, Goes, Writes, At
<1>6. (ReaderIsWoken /\ OccupiedMeans /\ LooksAtOccupied)'
  BY DEF StartSelect, TwaiInv, TypeOK, StackStates, IsrStates, WatchdogStates,
         ReaderIsWoken, OccupiedMeans, LooksAtOccupied, TxSeen, Off, ReadyAtOnce,
         Goes, Writes, At
<1>7. (ArrivedBefore /\ ArrivalsAccounted)'
  BY ArrivalsStay DEF StartSelect
<1> QED BY <1>1, <1>2, <1>3, <1>4, <1>5, <1>6, <1>7 DEF TwaiInv

LEMMA EndSelectKeeps ==
  ASSUME TwaiInv, EndSelect
  PROVE  TwaiInv'
<1>1. TypeOK'
  BY DEF EndSelect, TwaiInv, TypeOK, StackStates, IsrStates, WatchdogStates,
         WritesAFrame, Goes, Writes, StackAt, FdSet, At
<1>2. (IsrInOrder /\ NothingBeforeOpen /\ WritesAFrame)'
  BY DEF EndSelect, TwaiInv, TypeOK, StackStates, IsrStates, WatchdogStates,
         IsrInOrder, NothingBeforeOpen, WritesAFrame, Goes, Writes, At
<1>3. RecoversEmpty'
  BY DEF EndSelect, TwaiInv, TypeOK, StackStates, IsrStates, WatchdogStates,
         RecoversEmpty, Recovering, Goes, Writes, At
<1>4. (BufferIsFirst /\ SentInOrder)'
  BY OrderStays, ControllerStays
     DEF EndSelect, TwaiInv, TypeOK, StackStates, IsrStates, WatchdogStates,
         LastPut, Goes, Writes, At
<1>5. OneCoreInOrder'
  BY DEF EndSelect, TwaiInv, TypeOK, StackStates, IsrStates, WatchdogStates,
         OneCoreInOrder, TxDue, TxSeen, Goes, Writes, At
<1>6. (ReaderIsWoken /\ OccupiedMeans /\ LooksAtOccupied)'
  BY DEF EndSelect, TwaiInv, TypeOK, StackStates, IsrStates, WatchdogStates,
         ReaderIsWoken, OccupiedMeans, LooksAtOccupied, TxSeen, Off, ReadyAtOnce,
         Goes, Writes, At
<1>7. (ArrivedBefore /\ ArrivalsAccounted)'
  BY ArrivalsStay DEF EndSelect
<1> QED BY <1>1, <1>2, <1>3, <1>4, <1>5, <1>6, <1>7 DEF TwaiInv

LEMMA WriteTransmitsKeeps ==
  ASSUME TwaiInv, WriteTransmits
  PROVE  TwaiInv'
<1>1. /\ stack.next \in 1..MaxWritten /\ stack.next + 1 \in 1..MaxWritten + 1
      /\ stack.next \in Nat
  <2>1. stack.next \in 1..MaxWritten + 1 /\ stack.next <= MaxWritten
    BY TypesOfParts DEF WriteTransmits, TwaiInv, WritesAFrame, At
  <2> QED BY <2>1
<1>2. /\ flags' \subseteq Flag /\ bus' \in Bus
      /\ flags' \in {flags, flags \cup {"OCCUPIED"}}
      /\ bus'.fifo = bus.fifo /\ bus'.arrived = bus.arrived /\ bus'.irq = bus.irq
      /\ bus'.state = bus.state /\ (~bus'.astray => ~bus.astray)
      /\ tx # <<>> => "OCCUPIED" \in flags'
      /\ tx # <<>> /\ ~bus'.astray => (Off => "ERR" \in bus.irq)
      /\ tx = <<>> => bus' = bus /\ flags' = flags
      /\ Off \/ bus.buffer # 0 =>
           bus'.buffer = bus.buffer /\ bus'.complete = bus.complete
      /\ tx # <<>> /\ ~Off /\ bus.buffer = 0 =>
           bus'.buffer = tx[1] /\ bus'.buffer # 0 /\ ~bus'.complete
  <2>1. CASE tx # <<>>
    <3>1. tx \in Seq(Frame) /\ Transmit(tx)
      BY <2>1 DEF WriteTransmits, TwaiInv, TypeOK
    <3> QED BY <2>1, <3>1, TransmitHandsOver
  <2>2. CASE tx = <<>>
    BY <2>2 DEF WriteTransmits, TwaiInv, TypeOK
  <2> QED BY <2>1, <2>2
<1>3. LastPut' = LastPut
  <2>1. TypeOK /\ stack.at = "transmit" /\ Writes(TRUE)
    BY DEF WriteTransmits, TwaiInv, At
  <2>2. stack'.at = "idle" /\ stack'.next = stack.next + 1
    BY <1>1, <2>1 DEF Writes, TypeOK, StackStates, IsrStates, WatchdogStates
  <2> QED BY <1>1, <2>1, <2>2 DEF LastPut
<1>4. /\ stack' \in StackStates /\ stack.at = "transmit" /\ stack'.at = "idle"
      /\ stack'.next = stack.next + 1
      /\ UNCHANGED <<tx, rx, select, isr, watchdog, stats, sent, read>>
  <2>1. /\ TypeOK /\ stack.at = "transmit" /\ stack.next <= MaxWritten /\ Writes(TRUE)
        /\ UNCHANGED <<tx, rx, select, isr, watchdog, stats, sent, read>>
    <3>1. stack.next <= MaxWritten
      BY <1>1
    <3> QED BY <3>1 DEF WriteTransmits, TwaiInv, At
  <2>2. /\ stack' \in StackStates /\ stack'.at = "idle"
        /\ stack'.next = IF TRUE THEN stack.next + 1 ELSE stack.next
    BY <2>1, StackWrites
  <2> QED BY <2>1, <2>2
<1>5. TypeOK'
  BY <1>2, <1>4 DEF TwaiInv, TypeOK, StackStates
<1>6. (IsrInOrder /\ NothingBeforeOpen /\ WritesAFrame /\ RecoversEmpty)'
  BY <1>2, <1>4 DEF TwaiInv, IsrInOrder, NothingBeforeOpen, WritesAFrame,
                    RecoversEmpty, Recovering, At
<1>7. (BufferIsFirst /\ OneCoreInOrder /\ OccupiedMeans /\ LooksAtOccupied)'
  <2>1. BufferIsFirst'
    BY <1>2, <1>4 DEF TwaiInv, BufferIsFirst, Off
  <2>2. OneCoreInOrder'
    BY <1>2, <1>4 DEF TwaiInv, OneCoreInOrder, TxDue, TxSeen, At
  <2>3. (OccupiedMeans /\ LooksAtOccupied)'
    BY <1>2, <1>4 DEF TwaiInv, OccupiedMeans, LooksAtOccupied, TxSeen, Off
  <2> QED BY <2>1, <2>2, <2>3
<1>8. (ReaderIsWoken /\ SentInOrder)'
  BY <1>3, <1>4, OrderStays DEF TwaiInv, ReaderIsWoken, At
<1>9. (ArrivedBefore /\ ArrivalsAccounted)'
  BY <1>2, ArrivalsStay DEF WriteTransmits
<1> QED BY <1>5, <1>6, <1>7, <1>8, <1>9 DEF TwaiInv

LEMMA WritePurgesKeeps ==
  ASSUME TwaiInv, WritePurges
  PROVE  TwaiInv'
<1>1. tx' = <<>> /\ sent' = [upset |-> TRUE, last |-> 0]
  BY DEF WritePurges, PurgeTx, Upset
<1>2. TypeOK'
  <2>1. stack' \in StackStates
    <3>1. CASE At("purge") /\ Writes(FALSE)
      BY <3>1 DEF TwaiInv, TypeOK, StackStates, IsrStates, WatchdogStates, Writes,
                  StackAt
    <3>2. CASE At("purgeWritten") /\ Writes(TRUE)
      <4>1. stack.next + 1 \in 1..MaxWritten + 1
        <5>1. stack.next \in 1..MaxWritten + 1 /\ stack.next <= MaxWritten
          BY <3>2, TypesOfParts DEF TwaiInv, WritesAFrame, At
        <5> QED BY <5>1
      <4> QED BY <3>2, <4>1 DEF TwaiInv, TypeOK, StackStates, IsrStates,
                                WatchdogStates, Writes, StackAt
    <3> QED BY <3>1, <3>2 DEF WritePurges
  <2>2. tx' \in Seq(Frame) /\ Len(tx') <= TxSize
    BY <1>1, NothingQueued
  <2>3. sent' \in [upset : BOOLEAN, last : 0..MaxWritten]
    BY <1>1, NothingQueued
  <2> QED BY <2>1, <2>2, <2>3 DEF WritePurges, TwaiInv, TypeOK, StackStates,
                                  IsrStates, WatchdogStates
<1>3. (IsrInOrder /\ NothingBeforeOpen /\ WritesAFrame /\ RecoversEmpty)'
  <2>1. /\ TypeOK /\ stack.at \in {"purge", "purgeWritten"}
        /\ stack.at = "purgeWritten" => stack.next <= MaxWritten
    BY DEF WritePurges, TwaiInv, WritesAFrame, At
  <2>2. stack'.at = "idle"
    BY <2>1, StackWrites DEF WritePurges, At
  <2>3. UNCHANGED <<flags, isr, bus>>
    BY DEF WritePurges
  <2> QED BY <1>1, <2>1, <2>2, <2>3
          DEF TwaiInv, IsrInOrder, NothingBeforeOpen, WritesAFrame, RecoversEmpty,
              Recovering, At
<1>4. (BufferIsFirst /\ OneCoreInOrder /\ SentInOrder)'
  BY <1>1 DEF BufferIsFirst, Off, OneCoreInOrder, SentInOrder
<1>5. (ReaderIsWoken /\ OccupiedMeans /\ LooksAtOccupied)'
  BY <1>1 DEF WritePurges, TwaiInv, TypeOK, StackStates, IsrStates, WatchdogStates,
              ReaderIsWoken, OccupiedMeans, LooksAtOccupied, TxSeen, Off, Writes, At
<1>6. (ArrivedBefore /\ ArrivalsAccounted)'
  BY ArrivalsStay DEF WritePurges
<1> QED BY <1>2, <1>3, <1>4, <1>5, <1>6 DEF TwaiInv

LEMMA ReadKeeps ==
  ASSUME TwaiInv, Read
  PROVE  TwaiInv'
<1>1. CASE rx # <<>>
  <2>1. /\ rx' = Tail(rx) /\ read' = Append(read, Head(rx)) /\ UNCHANGED stack
        /\ At("idle")
    BY <1>1 DEF Read
  <2>2. /\ rx \in Seq(1..MaxReceived) /\ read \in Seq(1..MaxReceived)
        /\ bus.fifo \in Seq(1..MaxReceived)
    BY DEF TwaiInv, TypeOK, StackStates, IsrStates, WatchdogStates, Bus
  <2>3. /\ rx' \in Seq(1..MaxReceived) /\ read' \in Seq(1..MaxReceived)
        /\ Len(rx') = Len(rx) - 1 /\ Len(read') = Len(read) + 1
        /\ Len(rx) \in Nat /\ Len(read) \in Nat /\ Len(bus.fifo) \in Nat
        /\ read' \o rx' = read \o rx
    <3>1. /\ Head(rx) \in 1..MaxReceived /\ Tail(rx) \in Seq(1..MaxReceived)
          /\ Len(Tail(rx)) = Len(rx) - 1
      BY <1>1, <2>2, HeadTailProperties
    <3>2. /\ Append(read, Head(rx)) \in Seq(1..MaxReceived)
          /\ Len(Append(read, Head(rx))) = Len(read) + 1
      BY <2>2, <3>1, AppendProperties
    <3>3. Append(read, Head(rx)) \o Tail(rx) = read \o rx
      BY <1>1, <2>2, ReadingMoves
    <3>4. Len(rx) \in Nat /\ Len(read) \in Nat /\ Len(bus.fifo) \in Nat
      BY <2>2, LenProperties
    <3> QED BY <2>1, <3>1, <3>2, <3>3, <3>4
  <2>4. TypeOK'
    <3>1. Len(rx') <= RxSize
      BY <2>3 DEF TwaiInv, TypeOK, StackStates, IsrStates, WatchdogStates
    <3> QED BY <2>1, <2>3, <3>1 DEF Read, TwaiInv, TypeOK, StackStates, IsrStates,
                                    WatchdogStates
  <2>5. (ArrivedBefore /\ ArrivalsAccounted)'
    <3>1. Arrivals' = Arrivals /\ UNCHANGED <<bus, stats>>
      BY <2>3 DEF Read, Arrivals
    <3>2. Len(bus.fifo) + Len(rx') + Len(read') = Len(bus.fifo) + Len(rx) + Len(read)
      <4> DEFINE f == Len(bus.fifo)
      <4>1. /\ Len(rx') = Len(rx) - 1 /\ Len(read') = Len(read) + 1
            /\ Len(rx) \in Nat /\ Len(read) \in Nat /\ f \in Nat
        BY <2>3
      <4> HIDE DEF f
      <4>2. f + Len(rx') + Len(read') = f + Len(rx) + Len(read)
        BY <4>1
      <4> QED BY <4>2 DEF f
    <3>3. bus'.fifo = bus.fifo /\ bus'.arrived = bus.arrived /\ Counted' = Counted
      BY <3>1 DEF Counted
    <3>4. Accounted /\ Rises(Arrivals) /\ ArrivedBefore
      BY AccountMeans DEF TwaiInv
    <3>5. Accounted'
      BY <3>2, <3>3, <3>4 DEF Accounted
    <3> QED BY <3>1, <3>4, <3>5, AccountMeans DEF ArrivedBefore
  <2>6. (IsrInOrder /\ NothingBeforeOpen /\ WritesAFrame /\ RecoversEmpty)'
    BY <2>1 DEF Read, TwaiInv, IsrInOrder, NothingBeforeOpen, WritesAFrame,
                RecoversEmpty, Recovering, At
  <2>7. (BufferIsFirst /\ OneCoreInOrder /\ SentInOrder /\ ReaderIsWoken /\ OccupiedMeans /\ LooksAtOccupied)'
    BY <2>1, OrderStays, ControllerStays
       DEF Read, TwaiInv, OneCoreInOrder, TxDue, TxSeen, ReaderIsWoken,
           OccupiedMeans, LooksAtOccupied, Off, LastPut, At
  <2> QED BY <2>4, <2>5, <2>6, <2>7 DEF TwaiInv
<1>2. CASE rx = <<>>
  <2>1. /\ stack' = [stack EXCEPT !.runs = @ \ {"read"}] /\ UNCHANGED <<rx, read>>
        /\ At("idle")
    BY <1>2 DEF Read
  <2>2. TypeOK'
    BY <2>1 DEF Read, TwaiInv, TypeOK, StackStates, IsrStates, WatchdogStates
  <2>3. (ArrivedBefore /\ ArrivalsAccounted)'
    BY <2>1, ArrivalsStay DEF Read
  <2>4. (IsrInOrder /\ NothingBeforeOpen /\ WritesAFrame /\ RecoversEmpty)'
    BY <2>1 DEF Read, TwaiInv, TypeOK, StackStates, IsrStates, WatchdogStates,
                IsrInOrder, NothingBeforeOpen, WritesAFrame, RecoversEmpty,
                Recovering, At
  <2>5. (BufferIsFirst /\ SentInOrder)'
    BY <2>1, OrderStays, ControllerStays DEF Read, TwaiInv, TypeOK, StackStates,
                                             IsrStates, WatchdogStates, LastPut, At
  <2>6. (OneCoreInOrder /\ ReaderIsWoken /\ OccupiedMeans /\ LooksAtOccupied)'
    BY <2>1 DEF Read, TwaiInv, TypeOK, StackStates, IsrStates, WatchdogStates,
                OneCoreInOrder, TxDue, TxSeen, ReaderIsWoken, OccupiedMeans,
                LooksAtOccupied, Off, At
  <2> QED BY <2>2, <2>3, <2>4, <2>5, <2>6 DEF TwaiInv
<1> QED BY <1>1, <1>2

(* The interrupt *)

(* Wherever the interrupt continues, it is at the first event that is left. *)
LEMMA ContinuesInOrder ==
  ASSUME NEW events \in SUBSET {"RX", "TX", "RECOVERED"}, Continues(events)
  PROVE  /\ IsrInOrder'
         /\ isr' \in IsrStates
         /\ isr'.events = events /\ isr'.at \in {"idle", "rx", "tx", "restart"}
         /\ isr'.at = "idle" <=> events = {}
<1> DEFINE at == isr'.at
<1>1. isr' = [at |-> at, events |-> events, left |-> 0, queued |-> FALSE]
  BY DEF Continues
<1>2. /\ isr'.at = IF "RX" \in events THEN "rx" ELSE IF "TX" \in events THEN "tx"
                  ELSE IF "RECOVERED" \in events THEN "restart" ELSE "idle"
      /\ isr'.events = events /\ isr'.left = 0
  BY DEF Continues
<1>3. isr' \in IsrStates
  <2>1. at \in IsrAt /\ 0 \in 0..MaxReceived
    BY <1>2 DEF IsrAt
  <2> HIDE DEF at
  <2> QED BY <1>1, <2>1 DEF IsrStates
<1> QED BY <1>2, <1>3 DEF IsrInOrder

LEMMA IsrBeginsKeeps ==
  ASSUME TwaiInv, IsrBegins
  PROVE  TwaiInv'
<1>1. /\ isr.at = "idle" /\ isr.events = {} /\ ~At("closed")
      /\ bus' = [bus EXCEPT !.irq = {}] /\ flags' = FlagsSeen
      /\ Events \in SUBSET {"RX", "TX", "RECOVERED"}
  BY DEF IsrBegins, TwaiInv, IsrInOrder, Events
<1>2. /\ IsrInOrder'
      /\ isr' \in IsrStates
      /\ isr'.events = Events /\ isr'.at \in {"idle", "rx", "tx", "restart"}
  BY <1>1, ContinuesInOrder DEF IsrBegins
<1>3. /\ "TX" \in Events <=> "TX" \in bus.irq
      /\ "RECOVERED" \in Events =>
           "RECOVERING" \in flags /\ "ERR" \in bus.irq /\ bus.state = "active"
  BY DEF Events
<1>4. bus \in Bus /\ flags \subseteq Flag
  BY DEF TwaiInv, TypeOK, StackStates, IsrStates, WatchdogStates
<1>5. /\ flags' \subseteq Flag /\ flags' \subseteq flags \cup {"BUS_OFF", "ERR_PASSIVE"}
      /\ "BUS_OFF" \in flags' => "BUS_OFF" \in flags \/ "RUNNING" \notin flags'
      /\ "RECOVERED" \in Events =>
           "BUS_OFF" \notin flags' /\ "RECOVERING" \notin flags'
      /\ "OCCUPIED" \in flags' => "TX" \notin bus.irq /\ ~(Off /\ "ERR" \in bus.irq)
      /\ "OCCUPIED" \in flags =>
           \/ "OCCUPIED" \in flags' \/ "TX" \in bus.irq
           \/ Off /\ "RUNNING" \notin flags'
  <2> DEFINE free == IF "TX" \in bus.irq THEN flags \ {"OCCUPIED"} ELSE flags
  <2>1. /\ free \subseteq flags
        /\ "OCCUPIED" \in free <=> "OCCUPIED" \in flags /\ "TX" \notin bus.irq
        /\ "RECOVERING" \in free <=> "RECOVERING" \in flags
    OBVIOUS
  <2>2. flags' = IF "ERR" \notin bus.irq THEN free
                 ELSE CASE Off -> (free \ {"RUNNING", "OCCUPIED"}) \cup {"BUS_OFF"}
                        [] bus.state = "passive" -> free \cup {"ERR_PASSIVE"}
                        [] bus.state = "active" ->
                             free \ (IF "RECOVERING" \in free
                                     THEN {"RECOVERING", "BUS_OFF", "ERR_PASSIVE"}
                                     ELSE {"ERR_PASSIVE"})
    BY <1>1 DEF FlagsSeen
  <2> HIDE DEF free
  <2>3. CASE "ERR" \notin bus.irq
    BY <1>3, <1>4, <2>1, <2>2, <2>3 DEF Flag
  <2>4. CASE "ERR" \in bus.irq /\ Off
    <3>1. flags' = (free \ {"RUNNING", "OCCUPIED"}) \cup {"BUS_OFF"}
      BY <2>2, <2>4 DEF Off
    <3> QED BY <1>3, <1>4, <2>1, <2>4, <3>1 DEF Flag, Off
  <2>5. CASE "ERR" \in bus.irq /\ bus.state = "passive"
    <3>1. flags' = free \cup {"ERR_PASSIVE"}
      BY <2>2, <2>5 DEF Off
    <3> QED BY <1>3, <1>4, <2>1, <2>5, <3>1 DEF Flag, Off
  <2>6. CASE "ERR" \in bus.irq /\ bus.state = "active"
    <3>1. flags' = free \ (IF "RECOVERING" \in free
                           THEN {"RECOVERING", "BUS_OFF", "ERR_PASSIVE"}
                           ELSE {"ERR_PASSIVE"})
      BY <2>2, <2>6 DEF Off
    <3> QED BY <1>3, <1>4, <2>1, <2>6, <3>1 DEF Flag, Off
  <2> QED BY <1>4, <2>3, <2>4, <2>5, <2>6 DEF Bus, Off
<1>6. bus' \in Bus
  BY <1>1, <1>4 DEF Bus
<1>7. TypeOK'
  BY <1>2, <1>5, <1>6 DEF IsrBegins, TwaiInv, TypeOK, StackStates, IsrStates,
                          WatchdogStates
<1>8. (NothingBeforeOpen /\ WritesAFrame /\ RecoversEmpty)'
  BY <1>1, <1>2, <1>3, <1>5 DEF IsrBegins, TwaiInv, NothingBeforeOpen, WritesAFrame,
                                RecoversEmpty, Recovering, At
<1>9. (BufferIsFirst /\ SentInOrder)'
  BY <1>1, <1>4, OrderStays DEF IsrBegins, TwaiInv, BufferIsFirst, Off, LastPut, Bus
<1>10. OneCoreInOrder'
  BY <1>1, <1>2, <1>3, <1>4, <1>5
     DEF IsrBegins, TwaiInv, OneCoreInOrder, BufferIsFirst, Off, TxDue, TxSeen, At,
         Bus
<1>11. (ReaderIsWoken /\ OccupiedMeans /\ LooksAtOccupied)'
  <2>1. ReaderIsWoken'
    BY <1>1 DEF IsrBegins, TwaiInv, ReaderIsWoken, At
  <2>2. /\ bus'.buffer = bus.buffer /\ bus'.astray = bus.astray
        /\ UNCHANGED <<tx, stack>>
    BY <1>1, <1>4 DEF IsrBegins, Bus
  <2>3. OccupiedMeans'
    BY <1>5, <2>2 DEF TwaiInv, OccupiedMeans
  <2>4. LooksAtOccupied'
    BY <1>1, <1>2, <1>3, <1>5, <2>2 DEF TwaiInv, LooksAtOccupied, TxSeen
  <2> QED BY <2>1, <2>3, <2>4
<1>12. (ArrivedBefore /\ ArrivalsAccounted)'
  BY <1>1, <1>4, ArrivalsStay DEF IsrBegins, Bus
<1> QED BY <1>2, <1>7, <1>8, <1>9, <1>10, <1>11, <1>12 DEF TwaiInv

LEMMA RxBeginsKeeps ==
  ASSUME TwaiInv, RxBegins
  PROVE  TwaiInv'
<1>1. /\ isr.at = "rx" /\ "RX" \in isr.events /\ isr \in IsrStates
      /\ isr' = [isr EXCEPT !.at = "rxFrames", !.left = Len(bus.fifo)]
      /\ UNCHANGED <<tx, rx, flags, select, stack, watchdog, stats, bus, sent, read>>
  BY DEF RxBegins, TwaiInv, TypeOK, IsrStates, IsrInOrder
<1>2. Len(bus.fifo) \in 0..MaxReceived
  <2> DEFINE f == Len(bus.fifo)
  <2>1. f \in Nat /\ Len(rx) \in Nat /\ Len(read) \in Nat
    BY LenProperties DEF TwaiInv, TypeOK, Bus
  <2>2. bus.arrived \in 0..MaxReceived /\ Counted \in Nat
    BY CountedIsNat DEF TwaiInv, TypeOK, Bus
  <2>3. bus.arrived = f + Len(rx) + Len(read) + Counted
    BY AccountMeans DEF TwaiInv, Accounted
  <2> HIDE DEF f
  <2>4. f \in 0..MaxReceived
    BY <2>1, <2>2, <2>3
  <2> QED BY <2>4 DEF f
<1>3. /\ isr' \in IsrStates /\ isr'.at = "rxFrames" /\ isr'.left = Len(bus.fifo)
      /\ isr'.events = isr.events
  BY <1>1, <1>2 DEF IsrStates, IsrAt
<1>4. TypeOK'
  BY <1>1, <1>3 DEF TwaiInv, TypeOK, IsrStates
<1>5. (IsrInOrder /\ NothingBeforeOpen /\ WritesAFrame /\ RecoversEmpty)'
  <2>1. Len(bus.fifo) \in Nat
    BY <1>2
  <2> QED BY <1>1, <1>3, <2>1 DEF TwaiInv, IsrInOrder, NothingBeforeOpen,
             WritesAFrame, RecoversEmpty, Recovering, At
<1>6. (BufferIsFirst /\ OneCoreInOrder /\ OccupiedMeans /\ LooksAtOccupied)'
  BY <1>1, <1>3 DEF TwaiInv, BufferIsFirst, Off, OneCoreInOrder, OccupiedMeans,
                    LooksAtOccupied, TxDue, TxSeen, At
<1>7. (ReaderIsWoken /\ SentInOrder)'
  BY <1>1, <1>3, OrderStays DEF TwaiInv, ReaderIsWoken, LastPut, At
<1>8. (ArrivedBefore /\ ArrivalsAccounted)'
  BY <1>1, ArrivalsStay
<1> QED BY <1>4, <1>5, <1>6, <1>7, <1>8 DEF TwaiInv

(* The frame is read from the FIFO: the one after it is the first. *)
LEMMA FrameTaken ==
  ASSUME TwaiInv, RxFrames
  PROVE  /\ bus.fifo # <<>> /\ bus.fifo \in Seq(1..MaxReceived)
         /\ Head(bus.fifo) \in 1..MaxReceived
         /\ Tail(bus.fifo) \in Seq(1..MaxReceived)
         /\ Len(bus.fifo) \in Nat \ {0} /\ Len(Tail(bus.fifo)) = Len(bus.fifo) - 1
         /\ bus' \in Bus /\ bus'.fifo = Tail(bus.fifo) /\ (Off' <=> Off)
         /\ bus'.arrived = bus.arrived /\ bus'.buffer = bus.buffer
         /\ bus'.complete = bus.complete /\ bus'.irq = bus.irq
         /\ bus'.astray = bus.astray
<1> DEFINE fifo == bus.fifo
           tail == Tail(fifo)
           overrun == bus.overrun \ {Head(fifo)}
<1>1. /\ bus \in Bus /\ fifo \in Seq(1..MaxReceived) /\ isr.left <= Len(fifo)
      /\ isr.left > 0 /\ isr.left \in Nat
  <2>1. isr.at = "rxFrames" /\ isr.left > 0
    BY DEF RxFrames
  <2>2. bus \in Bus /\ isr \in IsrStates
    BY DEF TwaiInv, TypeOK, IsrStates
  <2>3. isr.left <= Len(fifo)
    BY <2>1 DEF TwaiInv, IsrInOrder
  <2>4. fifo \in Seq(1..MaxReceived)
    BY <2>2 DEF Bus
  <2>5. isr.left \in Nat
    BY <2>2 DEF IsrStates
  <2> QED BY <2>1, <2>2, <2>3, <2>4, <2>5
<1>2. bus' = [bus EXCEPT !.fifo = tail, !.overrun = overrun]
  BY DEF RxFrames
<1> HIDE DEF fifo
<1>3. fifo # <<>> /\ Len(fifo) \in Nat \ {0}
  BY <1>1, LenProperties, EmptySeq
<1>4. /\ Head(fifo) \in 1..MaxReceived /\ tail \in Seq(1..MaxReceived)
      /\ Len(tail) = Len(fifo) - 1
  BY <1>1, <1>3, HeadTailProperties
<1>5. overrun \in SUBSET (1..MaxReceived)
  BY <1>1 DEF Bus
<1> HIDE DEF tail, overrun
<1>6. /\ bus' \in Bus /\ bus'.fifo = tail /\ (Off' <=> Off)
      /\ bus'.arrived = bus.arrived /\ bus'.buffer = bus.buffer
      /\ bus'.complete = bus.complete /\ bus'.irq = bus.irq
      /\ bus'.astray = bus.astray
  BY <1>1, <1>2, <1>4, <1>5 DEF Bus, Off
<1> QED BY <1>1, <1>3, <1>4, <1>6 DEF fifo, tail

(* It goes to rx, or counts once. *)
LEMMA FrameAccounted ==
  ASSUME TwaiInv, RxFrames
  PROVE  /\ rx' \in Seq(1..MaxReceived) /\ Len(rx') <= RxSize
         /\ stats' \in Statistics
         /\ isr' \in IsrStates /\ isr'.at = "rxFrames" /\ isr'.left = isr.left - 1
         /\ isr'.events = isr.events /\ (isr.queued => isr'.queued)
         /\ rx' = rx \/ isr'.queued
         /\ (ArrivedBefore /\ ArrivalsAccounted)'
<1> DEFINE S == 1..MaxReceived
           fifo == bus.fifo
           frame == Head(fifo)
           fate == Fate(frame)
           kept == read \o rx
<1>1. /\ fifo # <<>> /\ fifo \in Seq(S) /\ frame \in S /\ Tail(fifo) \in Seq(S)
      /\ Len(fifo) \in Nat \ {0} /\ Len(Tail(fifo)) = Len(fifo) - 1
      /\ bus'.fifo = Tail(fifo) /\ bus'.arrived = bus.arrived
  BY FrameTaken
<1>2. /\ rx \in Seq(S) /\ read \in Seq(S) /\ read' = read
      /\ Len(rx) \in Nat /\ Len(read) \in Nat /\ Len(rx) <= RxSize
      /\ stats \in Statistics /\ bus.arrived \in 0..MaxReceived
      /\ isr \in IsrStates /\ isr.at = "rxFrames" /\ isr.left > 0
  BY LenProperties DEF RxFrames, TwaiInv, TypeOK, Bus, Statistics, IsrStates
<1>3. /\ fate = "queued" => Len(rx) < RxSize
      /\ fate \in {"queued", "missed", "discard", "overrun"}
  BY DEF Fate
<1>4. /\ stats' = IF fate = "queued" THEN stats ELSE [stats EXCEPT ![fate] = @ + 1]
      /\ rx' = IF fate = "queued" THEN Append(rx, frame) ELSE rx
      /\ isr' = [isr EXCEPT !.left = @ - 1, !.queued = @ \/ fate = "queued"]
  BY DEF RxFrames, Counts
<1>5. /\ bus.arrived = Len(fifo) + Len(rx) + Len(read) + Counted
      /\ Rises(kept \o fifo) /\ AtMost(kept \o fifo, bus.arrived)
  BY AccountMeans DEF TwaiInv, Accounted, Arrivals
<1> HIDE DEF fate, frame, fifo
<1>6. kept \in Seq(S)
  <2> HIDE DEF S
  <2> QED BY <1>2, ConcatProperties
<1>7. /\ isr' \in IsrStates /\ isr'.at = "rxFrames" /\ isr'.left = isr.left - 1
      /\ isr'.events = isr.events /\ (isr.queued => isr'.queued)
      /\ fate = "queued" => isr'.queued
  <2> DEFINE queued == isr.queued \/ fate = "queued"
             left == isr.left - 1
  <2>1. queued \in BOOLEAN /\ left \in 0..MaxReceived
    BY <1>2 DEF IsrStates
  <2>2. isr' = [isr EXCEPT !.left = left, !.queued = queued]
    BY <1>4
  <2>3. (isr.queued => queued) /\ (fate = "queued" => queued)
    OBVIOUS
  <2> HIDE DEF queued, left
  <2>4. /\ isr' \in IsrStates /\ isr'.at = "rxFrames" /\ isr'.left = left
        /\ isr'.events = isr.events /\ isr'.queued = queued
    BY <1>2, <2>1, <2>2 DEF IsrStates
  <2> QED BY <2>3, <2>4 DEF left
<1>8. CASE fate = "queued"
  <2>1. rx' = Append(rx, frame) /\ stats' = stats
    BY <1>4, <1>8
  <2>2. rx' \in Seq(S) /\ Len(rx') = Len(rx) + 1
    <3> HIDE DEF S
    <3> QED BY <1>1, <1>2, <2>1, AppendProperties
  <2>3. Len(rx') <= RxSize
    BY <1>2, <1>3, <1>8, <2>2
  <2>4. Arrivals' = kept \o fifo
    <3> HIDE DEF S
    <3>1. Arrivals' = read \o Append(rx, frame) \o Tail(fifo)
      BY <1>1, <1>2, <2>1 DEF Arrivals
    <3>2. Joined(Joined(read, Append(rx, Head(fifo))), Tail(fifo))
            = Joined(Joined(read, rx), fifo)
      BY <1>1, <1>2, QueueingMoves
    <3> QED BY ONLY <3>1, <3>2 DEF Joined, frame, kept
  <2>5. Accounted'
    <3>1. bus.arrived = (Len(fifo) - 1) + (Len(rx) + 1) + Len(read) + Counted
      <4> HIDE DEF S
      <4>1. Counted \in Nat
        BY <1>2 DEF Counted, Statistics
      <4> QED BY <1>1, <1>2, <1>5, <4>1
    <3>2. Counted' = Counted
      BY <2>1 DEF Counted
    <3> QED BY <1>1, <1>2, <2>2, <3>1, <3>2 DEF Accounted
  <2>6. (ArrivedBefore /\ ArrivalsAccounted)'
    BY <1>1, <1>5, <2>4, <2>5, AccountMeans
  <2> QED BY <1>2, <1>7, <1>8, <2>1, <2>2, <2>3, <2>6
<1>9. CASE fate # "queued"
  <2>1. rx' = rx /\ stats' = [stats EXCEPT ![fate] = @ + 1]
        /\ fate \in {"missed", "discard", "overrun"}
    BY <1>3, <1>4, <1>9
  <2>a. stats.missed \in Nat /\ stats.discard \in Nat /\ stats.overrun \in Nat
    BY <1>2 DEF Statistics
  <2>2. Counted' = Counted + 1 /\ Counted \in Nat
    <3>1. CASE fate = "missed"
      <4>1. stats'.missed = stats.missed + 1 /\ stats'.discard = stats.discard
            /\ stats'.overrun = stats.overrun
        BY <1>2, <2>1, <3>1 DEF Statistics
      <4> QED BY <2>a, <4>1 DEF Counted
    <3>2. CASE fate = "discard"
      <4>1. stats'.missed = stats.missed /\ stats'.discard = stats.discard + 1
            /\ stats'.overrun = stats.overrun
        BY <1>2, <2>1, <3>2 DEF Statistics
      <4> QED BY <2>a, <4>1 DEF Counted
    <3>3. CASE fate = "overrun"
      <4>1. stats'.missed = stats.missed /\ stats'.discard = stats.discard
            /\ stats'.overrun = stats.overrun + 1
        BY <1>2, <2>1, <3>3 DEF Statistics
      <4> QED BY <2>a, <4>1 DEF Counted
    <3> QED BY <2>1, <3>1, <3>2, <3>3
  <2>3. stats' \in Statistics
    <3>1. Counted + 1 <= MaxReceived
      <4> HIDE DEF S
      <4> QED BY <1>1, <1>2, <1>5, <2>2
    <3>2. /\ stats.missed \in Nat /\ stats.discard \in Nat /\ stats.overrun \in Nat
          /\ stats.missed <= Counted /\ stats.discard <= Counted
          /\ stats.overrun <= Counted
      BY <1>2 DEF Counted, Statistics
    <3>3. \A f \in {"missed", "discard", "overrun"} :
            stats[f] + 1 \in 0..MaxReceived
      <4> HIDE DEF S
      <4>1. Counted \in Nat
        BY <2>2
      <4>2. /\ stats.missed + 1 \in 0..MaxReceived
            /\ stats.discard + 1 \in 0..MaxReceived
            /\ stats.overrun + 1 \in 0..MaxReceived
        BY ONLY TwaiAssumption, <3>1, <3>2, <4>1
      <4> QED BY <4>2
    <3> QED BY <1>2, <2>1, <3>3 DEF Statistics
  <2>4. Rises(kept \o Tail(fifo)) /\ AtMost(kept \o Tail(fifo), bus.arrived)
    <3> DEFINE m == <<frame>>
    <3>1. m \in Seq(S) /\ Append(kept, frame) = kept \o m
      <4> HIDE DEF S
      <4> QED BY <1>1, <1>6, AppendIsConcat
    <3>2. Append(kept, frame) \o Tail(fifo) = kept \o fifo
      <4> HIDE DEF S, kept
      <4> QED BY <1>1, <1>6, ReadingMoves DEF frame
    <3>3. Rises(kept \o m \o Tail(fifo)) /\ AtMost(kept \o m \o Tail(fifo), bus.arrived)
      BY <1>5, <3>1, <3>2
    <3>4. kept \in Seq(Nat) /\ m \in Seq(Nat) /\ Tail(fifo) \in Seq(Nat)
      <4>1. S \subseteq Nat
        OBVIOUS
      <4> HIDE DEF S, kept, m
      <4> QED BY <1>1, <1>6, <3>1, <4>1, SeqMonotonic
    <3>5. bus.arrived \in Nat
      BY <1>2
    <3> HIDE DEF kept, m
    <3> QED BY <3>3, <3>4, <3>5, MiddleTakenOut
  <2>5. Arrivals' = kept \o Tail(fifo)
    BY <1>1, <1>2, <2>1 DEF Arrivals
  <2>6. Accounted'
    <3>1. bus.arrived = (Len(fifo) - 1) + Len(rx) + Len(read) + (Counted + 1)
      <4> HIDE DEF S
      <4> QED BY <1>1, <1>2, <1>5, <2>2
    <3> QED BY <1>1, <1>2, <2>1, <2>2, <3>1 DEF Accounted
  <2>7. (ArrivedBefore /\ ArrivalsAccounted)'
    BY <1>1, <2>4, <2>5, <2>6, AccountMeans
  <2> QED BY <1>2, <1>7, <2>1, <2>3, <2>7
<1> QED BY <1>8, <1>9

LEMMA RxFramesKeeps ==
  ASSUME TwaiInv, RxFrames
  PROVE  TwaiInv'
<1>1. /\ rx' \in Seq(1..MaxReceived) /\ Len(rx') <= RxSize /\ stats' \in Statistics
      /\ isr' \in IsrStates /\ isr'.at = "rxFrames" /\ isr'.left = isr.left - 1
      /\ isr'.events = isr.events /\ (isr.queued => isr'.queued)
      /\ rx' = rx \/ isr'.queued
      /\ (ArrivedBefore /\ ArrivalsAccounted)'
  BY FrameAccounted
<1>2. /\ bus' \in Bus /\ bus'.fifo = Tail(bus.fifo) /\ (Off' <=> Off)
      /\ Len(bus.fifo) \in Nat \ {0} /\ Len(Tail(bus.fifo)) = Len(bus.fifo) - 1
      /\ bus'.buffer = bus.buffer /\ bus'.complete = bus.complete
      /\ bus'.irq = bus.irq /\ bus'.astray = bus.astray
  BY FrameTaken
<1>3. /\ UNCHANGED <<tx, flags, select, stack, watchdog, sent, read>>
      /\ isr.at = "rxFrames" /\ isr.left > 0 /\ isr.left \in Nat
      /\ "RX" \in isr.events /\ ~At("closed")
  BY DEF RxFrames, TwaiInv, TypeOK, IsrInOrder, NothingBeforeOpen
<1>4. TypeOK'
  BY <1>1, <1>2, <1>3 DEF TwaiInv, TypeOK, IsrStates, Statistics
<1>5. IsrInOrder'
  <2>1. isr.left <= Len(bus.fifo)
    BY <1>3 DEF TwaiInv, IsrInOrder
  <2> QED BY <1>1, <1>2, <1>3, <2>1 DEF IsrInOrder
<1>6. (NothingBeforeOpen /\ WritesAFrame /\ RecoversEmpty)'
  BY <1>1, <1>2, <1>3 DEF TwaiInv, NothingBeforeOpen, WritesAFrame,
                          RecoversEmpty, Recovering, At
<1>7. (BufferIsFirst /\ OneCoreInOrder /\ OccupiedMeans /\ LooksAtOccupied)'
  BY <1>1, <1>2, <1>3 DEF TwaiInv, BufferIsFirst, OneCoreInOrder, OccupiedMeans,
                          LooksAtOccupied, TxDue, TxSeen, At
<1>8. SentInOrder'
  BY <1>3, OrderStays DEF LastPut
<1>9. ReaderIsWoken'
  BY <1>1, <1>3 DEF TwaiInv, ReaderIsWoken, At
<1> QED BY <1>1, <1>4, <1>5, <1>6, <1>7, <1>8, <1>9 DEF TwaiInv

LEMMA RxEndsKeeps ==
  ASSUME TwaiInv, RxEnds
  PROVE  TwaiInv'
<1>1. /\ isr.at = "rxFrames" /\ "RX" \in isr.events /\ isr \in IsrStates
      /\ UNCHANGED <<tx, rx, flags, select, stack, watchdog, stats, bus, sent, read>>
  BY DEF RxEnds, TwaiInv, TypeOK, IsrStates, IsrInOrder
<1>2. /\ IsrInOrder' /\ isr' \in IsrStates
      /\ "TX" \in isr'.events <=> "TX" \in isr.events
      /\ "RECOVERED" \in isr'.events <=> "RECOVERED" \in isr.events
      /\ isr'.at \in {"idle", "rx", "tx", "restart", "rxSignal"}
      /\ isr.queued => isr'.at = "rxSignal"
  <2>1. CASE isr.queued
    <3>1. isr' = [isr EXCEPT !.at = "rxSignal"]
      BY <2>1 DEF RxEnds
    <3> QED BY <1>1, <3>1 DEF IsrStates, IsrInOrder, IsrAt
  <2>2. CASE ~isr.queued
    <3>1. /\ Continues(isr.events \ {"RX"})
          /\ isr.events \ {"RX"} \in SUBSET {"RX", "TX", "RECOVERED"}
      BY <1>1, <2>2 DEF RxEnds, IsrStates
    <3> QED BY <1>1, <2>2, <3>1, ContinuesInOrder
  <2> QED BY <2>1, <2>2
<1>3. TypeOK'
  BY <1>1, <1>2 DEF TwaiInv, TypeOK, IsrStates
<1>4. (NothingBeforeOpen /\ WritesAFrame /\ RecoversEmpty)'
  BY <1>1, <1>2 DEF TwaiInv, NothingBeforeOpen, WritesAFrame, RecoversEmpty,
                    Recovering, At
<1>5. (BufferIsFirst /\ OneCoreInOrder /\ OccupiedMeans /\ LooksAtOccupied)'
  BY <1>1, <1>2 DEF TwaiInv, BufferIsFirst, Off, OneCoreInOrder, OccupiedMeans,
                    LooksAtOccupied, TxDue, TxSeen, At
<1>6. (ReaderIsWoken /\ SentInOrder)'
  BY <1>1, <1>2, OrderStays DEF TwaiInv, ReaderIsWoken, LastPut, At
<1>7. (ArrivedBefore /\ ArrivalsAccounted)'
  BY <1>1, ArrivalsStay
<1> QED BY <1>2, <1>3, <1>4, <1>5, <1>6, <1>7 DEF TwaiInv

LEMMA RxSignalsKeeps ==
  ASSUME TwaiInv, RxSignals
  PROVE  TwaiInv'
<1>1. /\ isr.at = "rxSignal" /\ "RX" \in isr.events /\ Signalled("read")
      /\ isr.events \ {"RX"} \in SUBSET {"RX", "TX", "RECOVERED"}
  BY DEF RxSignals, TwaiInv, TypeOK, StackStates, IsrStates, WatchdogStates,
         IsrInOrder
<1>2. /\ IsrInOrder'
      /\ isr' \in IsrStates
      /\ isr'.events = isr.events \ {"RX"} /\ isr'.at \in {"idle", "rx", "tx", "restart"}
  BY <1>1, ContinuesInOrder DEF RxSignals
<1>3. /\ select' \in [wanted : SUBSET FdSet, ready : SUBSET FdSet]
      /\ select'.wanted = select.wanted
      /\ "read" \in select.wanted => "read" \in select'.ready
  BY <1>1 DEF Signalled, TwaiInv, TypeOK, StackStates, IsrStates, WatchdogStates
<1>4. TypeOK'
  BY <1>2, <1>3 DEF RxSignals, TwaiInv, TypeOK, StackStates, IsrStates,
                    WatchdogStates
<1>5. (NothingBeforeOpen /\ WritesAFrame /\ RecoversEmpty)'
  BY <1>1, <1>2 DEF RxSignals, TwaiInv, NothingBeforeOpen, WritesAFrame,
                    RecoversEmpty, Recovering, At
<1>6. (BufferIsFirst /\ OneCoreInOrder)'
  BY <1>1, <1>2 DEF RxSignals, TwaiInv, BufferIsFirst, Off, OneCoreInOrder, TxDue,
                    TxSeen, At
<1>7. SentInOrder'
  BY OrderStays DEF RxSignals, LastPut
<1>8. (ReaderIsWoken /\ OccupiedMeans /\ LooksAtOccupied)'
  BY <1>1, <1>2, <1>3 DEF RxSignals, TwaiInv, ReaderIsWoken, OccupiedMeans,
                          LooksAtOccupied, TxSeen, Off, At
<1>9. (ArrivedBefore /\ ArrivalsAccounted)'
  BY ArrivalsStay DEF RxSignals
<1> QED BY <1>2, <1>4, <1>5, <1>6, <1>7, <1>8, <1>9 DEF TwaiInv

LEMMA TxSignalsKeeps ==
  ASSUME TwaiInv, TxSignals
  PROVE  TwaiInv'
<1>1. /\ isr.at = "txSignal" /\ "RX" \notin isr.events /\ Signalled("write")
      /\ isr.events \ {"TX"} \in SUBSET {"RX", "TX", "RECOVERED"}
  BY DEF TxSignals, TwaiInv, TypeOK, StackStates, IsrStates, WatchdogStates,
         IsrInOrder
<1>2. /\ IsrInOrder'
      /\ isr' \in IsrStates
      /\ isr'.events = isr.events \ {"TX"} /\ isr'.at \in {"idle", "rx", "tx", "restart"}
  BY <1>1, ContinuesInOrder DEF TxSignals
<1>3. /\ select' \in [wanted : SUBSET FdSet, ready : SUBSET FdSet]
      /\ select'.wanted = select.wanted /\ select.ready \subseteq select'.ready
  BY <1>1 DEF Signalled, TwaiInv, TypeOK, StackStates, IsrStates, WatchdogStates,
              FdSet
<1>4. TypeOK'
  BY <1>2, <1>3 DEF TxSignals, TwaiInv, TypeOK, StackStates, IsrStates,
                    WatchdogStates
<1>5. (NothingBeforeOpen /\ WritesAFrame /\ RecoversEmpty)'
  BY <1>1, <1>2 DEF TxSignals, TwaiInv, NothingBeforeOpen, WritesAFrame,
                    RecoversEmpty, Recovering, At
<1>6. (BufferIsFirst /\ OneCoreInOrder)'
  BY <1>1, <1>2 DEF TxSignals, TwaiInv, BufferIsFirst, Off, OneCoreInOrder, TxDue,
                    TxSeen, At
<1>7. SentInOrder'
  BY OrderStays DEF TxSignals, LastPut
<1>8. (ReaderIsWoken /\ OccupiedMeans /\ LooksAtOccupied)'
  BY <1>1, <1>2, <1>3 DEF TxSignals, TwaiInv, ReaderIsWoken, OccupiedMeans,
                          LooksAtOccupied, TxSeen, Off, At
<1>9. (ArrivedBefore /\ ArrivalsAccounted)'
  BY ArrivalsStay DEF TxSignals
<1> QED BY <1>2, <1>4, <1>5, <1>6, <1>7, <1>8, <1>9 DEF TwaiInv

LEMMA RestartKeeps ==
  ASSUME TwaiInv, Restart
  PROVE  TwaiInv'
<1>1. /\ isr.at = "restart" /\ isr.events = {"RECOVERED"}
      /\ flags' = flags \cup {"RUNNING"} /\ flags' \subseteq Flag
      /\ "BUS_OFF" \notin flags
      /\ ~bus.astray => "RECOVERING" \notin flags /\ (tx = <<>> \/ At("purge"))
      /\ UNCHANGED <<tx, rx, select, stack, watchdog, stats, bus, sent, read>>
  <2>1. isr.at = "restart" /\ flags' = flags \cup {"RUNNING"}
    BY DEF Restart
  <2>2. isr.events = {"RECOVERED"} /\ flags \subseteq Flag
    BY <2>1 DEF TwaiInv, IsrInOrder, TypeOK
  <2>3. flags' \subseteq Flag
    BY <2>1, <2>2 DEF Flag
  <2>4. /\ "BUS_OFF" \notin flags
        /\ ~bus.astray => "RECOVERING" \notin flags /\ (tx = <<>> \/ At("purge"))
    BY <2>2 DEF TwaiInv, RecoversEmpty, Recovering
  <2> QED BY <2>1, <2>2, <2>3, <2>4 DEF Restart
<1>2. /\ IsrInOrder' /\ isr'.events = {} /\ isr'.at = "idle"
      /\ isr' \in IsrStates
  BY ContinuesInOrder DEF Restart
<1>3. TypeOK'
  BY <1>1, <1>2 DEF TwaiInv, TypeOK, IsrStates
<1>4. (NothingBeforeOpen /\ WritesAFrame /\ RecoversEmpty)'
  BY <1>1, <1>2 DEF Restart, TwaiInv, NothingBeforeOpen, WritesAFrame,
                    RecoversEmpty, Recovering, At
<1>5. (BufferIsFirst /\ OneCoreInOrder)'
  BY <1>1, <1>2 DEF Restart, TwaiInv, BufferIsFirst, Off, OneCoreInOrder, TxDue,
                    TxSeen, At
<1>6. SentInOrder'
  BY OrderStays DEF Restart, LastPut
<1>7. (ReaderIsWoken /\ OccupiedMeans /\ LooksAtOccupied)'
  BY <1>1, <1>2 DEF Restart, TwaiInv, ReaderIsWoken, OccupiedMeans, LooksAtOccupied,
                    TxSeen, Off, At
<1>8. (ArrivedBefore /\ ArrivalsAccounted)'
  BY ArrivalsStay DEF Restart
<1> QED BY <1>2, <1>3, <1>4, <1>5, <1>6, <1>7, <1>8 DEF TwaiInv

LEMMA TxFrameKeeps ==
  ASSUME TwaiInv, TxFrame
  PROVE  TwaiInv'
<1>1. /\ isr.at = "tx" /\ "TX" \in isr.events /\ "RX" \notin isr.events
      /\ isr.events \ {"TX"} \in SUBSET {"RX", "TX", "RECOVERED"}
      /\ ~At("closed") /\ TxSeen /\ TxDue
  BY DEF TxFrame, TwaiInv, TypeOK, StackStates, IsrStates, WatchdogStates,
         IsrInOrder, NothingBeforeOpen, TxSeen, TxDue
<1>2. /\ tx \in Seq(Frame) /\ Len(tx) <= TxSize /\ Len(tx) \in Nat
      /\ bus \in Bus /\ flags \subseteq Flag
  BY LenProperties DEF TwaiInv, TypeOK, StackStates, IsrStates, WatchdogStates
<1>3. /\ tx' \in Seq(Frame) /\ Len(tx') <= TxSize /\ (tx' # <<>> => tx # <<>>)
      /\ \/ ~(bus.complete /\ tx # <<>>) /\ UNCHANGED tx
         \/ /\ bus.complete /\ tx # <<>> /\ Len(tx) > 0 /\ Len(tx') = Len(tx) - 1
            /\ \A i \in 1..Len(tx') : tx'[i] = tx[i + 1]
  <2>1. CASE bus.complete /\ tx # <<>>
    <3>1. /\ tx' = Tail(tx) /\ tx' \in Seq(Frame) /\ Len(tx') = Len(tx) - 1
          /\ \A i \in 1..Len(tx') : tx'[i] = tx[i + 1]
          /\ Len(tx) > 0
      BY <1>2, <2>1, HeadTailProperties, EmptySeq DEF TxFrame, Unsent
    <3>2. Len(tx') <= TxSize
      BY <1>2, <3>1
    <3> QED BY <2>1, <3>1, <3>2
  <2>2. CASE ~(bus.complete /\ tx # <<>>)
    BY <1>2, <2>2 DEF TxFrame, Unsent
  <2> QED BY <2>1, <2>2
<1>4. /\ flags' \subseteq Flag /\ flags' \in {flags, flags \cup {"OCCUPIED"}}
      /\ bus' \in Bus /\ bus'.fifo = bus.fifo /\ bus'.arrived = bus.arrived
      /\ bus'.state = bus.state /\ bus'.irq = bus.irq
      /\ tx' = <<>> => bus' = bus /\ flags' = flags
      /\ ~bus'.astray => ~bus.astray
      /\ ~bus'.astray /\ tx' # <<>> => (Off => "ERR" \in bus.irq)
      /\ Off \/ bus.buffer # 0 =>
           bus'.buffer = bus.buffer /\ bus'.complete = bus.complete
      /\ tx' # <<>> => "OCCUPIED" \in flags'
      /\ tx' # <<>> /\ ~Off /\ bus.buffer = 0 =>
           bus'.buffer = tx'[1] /\ bus'.buffer # 0 /\ ~bus'.complete
  <2>1. CASE tx' # <<>>
    BY <1>3, <2>1, TransmitHandsOver DEF TxFrame, GoesOn
  <2>2. CASE tx' = <<>>
    BY <1>2, <2>2 DEF TxFrame, GoesOn
  <2> QED BY <2>1, <2>2
<1>5. /\ IsrInOrder' /\ ~TxSeen'
      /\ isr' \in IsrStates
      /\ "RECOVERED" \in isr'.events <=> "RECOVERED" \in isr.events
  <2>1. CASE tx' # <<>>
    <3>1. isr' = [isr EXCEPT !.at = "txSignal"]
      BY <2>1 DEF TxFrame, GoesOn
    <3> QED BY <1>1, <3>1 DEF TwaiInv, TypeOK, StackStates, IsrStates,
                              WatchdogStates, IsrInOrder, IsrAt, TxSeen
  <2>2. CASE tx' = <<>>
    <3>1. Continues(isr.events \ {"TX"})
      BY <2>2 DEF TxFrame, GoesOn
    <3> QED BY <1>1, <3>1, ContinuesInOrder DEF TxSeen
  <2> QED BY <2>1, <2>2
<1>6. TypeOK'
  <2>1. watchdog' \in WatchdogStates
    BY DEF TxFrame, TwaiInv, TypeOK, StackStates, IsrStates, WatchdogStates
  <2> QED BY <1>3, <1>4, <1>5, <2>1 DEF TxFrame, TwaiInv, TypeOK, StackStates,
                                        IsrStates, WatchdogStates
<1>7. (NothingBeforeOpen /\ WritesAFrame /\ RecoversEmpty)'
  BY <1>1, <1>3, <1>4, <1>5 DEF TxFrame, TwaiInv, NothingBeforeOpen, WritesAFrame,
                                RecoversEmpty, Recovering, At
<1>8. BufferIsFirst'
  BY <1>3, <1>4 DEF TxFrame, TwaiInv, BufferIsFirst, Off
<1>9. OneCoreInOrder'
  BY <1>1, <1>4, <1>5 DEF TxFrame, TwaiInv, OneCoreInOrder, TxDue, At
<1>10. SentInOrder'
  <2> SUFFICES ASSUME ~sent.upset
               PROVE  /\ \A i \in 1..Len(tx') : tx'[i] = FirstWaiting' + i - 1
                      /\ sent.last <= FirstWaiting'
                      /\ Cores = 1 => FirstWaiting' <= sent.last + 1
    BY DEF TxFrame, SentInOrder
  <2>1. /\ \A i \in 1..Len(tx) : tx[i] = FirstWaiting + i - 1
        /\ sent.last <= FirstWaiting
        /\ Cores = 1 => FirstWaiting <= sent.last + 1
    BY DEF TwaiInv, SentInOrder
  <2>2. LastPut' = LastPut /\ LastPut \in Int /\ sent.last \in Nat
    BY TypesOfParts DEF TxFrame, TwaiInv, LastPut
  <2>3. CASE UNCHANGED tx
    BY <2>1, <2>2, <2>3 DEF FirstWaiting
  <2>4. CASE /\ bus.complete /\ tx # <<>> /\ Len(tx) > 0 /\ Len(tx') = Len(tx) - 1
             /\ \A i \in 1..Len(tx') : tx'[i] = tx[i + 1]
    <3>1. FirstWaiting' = FirstWaiting + 1 /\ FirstWaiting \in Int
      BY <1>2, <2>2, <2>4 DEF FirstWaiting
    <3>2. \A i \in 1..Len(tx') : tx'[i] = FirstWaiting' + i - 1
      BY <1>2, <2>1, <2>4, <3>1
    <3>3. Cores = 1 => FirstWaiting = sent.last
      BY <1>1, <1>2, <2>1, <2>4, <3>1 DEF TwaiInv, OneCoreInOrder
    <3> QED BY <2>1, <2>2, <3>1, <3>2, <3>3
  <2> QED BY <1>3, <2>3, <2>4
<1>11. (ReaderIsWoken /\ OccupiedMeans /\ LooksAtOccupied)'
  BY <1>1, <1>4 DEF TxFrame, TwaiInv, ReaderIsWoken, OccupiedMeans, LooksAtOccupied,
                    TxSeen, Off, At
<1>12. (ArrivedBefore /\ ArrivalsAccounted)'
  BY <1>4, ArrivalsStay DEF TxFrame
<1> QED BY <1>5, <1>6, <1>7, <1>8, <1>9, <1>10, <1>11, <1>12 DEF TwaiInv

(* The watchdog *)

LEMMA WatchdogOnlyKeeps ==
  ASSUME TwaiInv, UNCHANGED <<tx, rx, flags, select, stack, isr, stats, bus, sent, read>>,
         watchdog' \in WatchdogStates, At("closed") => watchdog'.at # "recover"
  PROVE  TwaiInv'
<1>1. TypeOK'
  BY DEF TwaiInv, TypeOK, StackStates, IsrStates, WatchdogStates
<1>2. (IsrInOrder /\ NothingBeforeOpen /\ WritesAFrame /\ RecoversEmpty)'
  BY DEF TwaiInv, IsrInOrder, NothingBeforeOpen, WritesAFrame, RecoversEmpty,
         Recovering, At
<1>3. (BufferIsFirst /\ OneCoreInOrder)'
  BY DEF TwaiInv, BufferIsFirst, Off, OneCoreInOrder, TxDue, TxSeen, At
<1>4. (SentInOrder /\ ReaderIsWoken /\ OccupiedMeans /\ LooksAtOccupied)'
  BY OrderStays DEF TwaiInv, LastPut, ReaderIsWoken, OccupiedMeans, LooksAtOccupied,
                    TxSeen, Off, At
<1>5. (ArrivedBefore /\ ArrivalsAccounted)'
  BY ArrivalsStay
<1> QED BY <1>1, <1>2, <1>3, <1>4, <1>5 DEF TwaiInv

LEMMA ChecksKeep ==
  ASSUME TwaiInv, ChecksState \/ ChecksRx \/ ChecksTx
  PROVE  TwaiInv'
<1>1. watchdog \in WatchdogStates
  BY DEF TwaiInv, TypeOK, WatchdogStates
<1>2. PICK place \in WatchdogAt :
        /\ watchdog' = [watchdog EXCEPT !.at = place]
        /\ place = "recover" => "RECOVERING" \in flags
  BY DEF ChecksState, ChecksRx, ChecksTx, WatchdogGoes, WatchdogAt
<1>3. watchdog' \in WatchdogStates /\ watchdog'.at = place
  BY <1>1, <1>2 DEF WatchdogStates
<1>4. At("closed") => watchdog'.at # "recover"
  BY <1>2, <1>3 DEF TwaiInv, NothingBeforeOpen
<1> QED BY <1>3, <1>4, WatchdogOnlyKeeps DEF ChecksState, ChecksRx, ChecksTx

LEMMA RecoversKeeps ==
  ASSUME TwaiInv, Recovers
  PROVE  TwaiInv'
<1>1. /\ StartsRecovery("RECOVERING") /\ ~At("closed")
      /\ UNCHANGED <<tx, rx, select, stack, isr, stats, sent, read>>
  BY DEF Recovers, TwaiInv, NothingBeforeOpen
<1>2. watchdog' \in WatchdogStates
  BY DEF Recovers, WatchdogGoes, WatchdogAt, WatchdogStates, TwaiInv, TypeOK
<1>3. TypeOK'
  BY <1>1, <1>2, RecoveryStarts DEF TwaiInv, TypeOK, WatchdogStates
<1> QED BY <1>1, <1>3, RecoveryKeeps DEF TwaiInv

LEMMA NotesKeep ==
  ASSUME TwaiInv, NotesState \/ NotesRx \/ NotesTx,
         UNCHANGED <<tx, rx, flags, select, stack, isr, stats, bus, sent, read>>
  PROVE  TwaiInv'
<1>1. Len(rx) \in 0..RxSize /\ Len(tx) \in 0..TxSize
  <2>1. /\ rx \in Seq(1..MaxReceived) /\ Len(rx) <= RxSize
        /\ tx \in Seq(Frame) /\ Len(tx) <= TxSize
    BY DEF TwaiInv, TypeOK
  <2>2. Len(rx) \in Nat /\ Len(tx) \in Nat
    BY ONLY <2>1, LenProperties
  <2> QED BY <2>1, <2>2
<1>2. watchdog' \in WatchdogStates /\ watchdog'.at \in {"rx", "tx", "state"}
  <2> DEFINE success == IF watchdog.success = "since" THEN "before" ELSE watchdog.success
             seen == IF "RECOVERING" \in flags THEN flags ELSE {}
  <2>1. /\ watchdog \in WatchdogStates
        /\ success \in {"never", "since", "before"} /\ seen \in SUBSET Flag
    BY DEF TwaiInv, TypeOK, WatchdogStates
  <2>2. CASE NotesState
    <3>1. watchdog' = [watchdog EXCEPT !.at = "rx", !.lastState = seen]
      BY <2>2 DEF NotesState
    <3> HIDE DEF seen
    <3> QED BY <2>1, <3>1 DEF WatchdogAt, WatchdogStates
  <2>3. CASE NotesRx
    BY <1>1, <2>1, <2>3 DEF NotesRx, WatchdogAt, WatchdogStates
  <2>4. CASE NotesTx
    <3>1. watchdog' = [watchdog EXCEPT !.at = "state", !.lastTx = Len(tx), !.success = success]
      BY <2>1, <2>4 DEF NotesTx
    <3> HIDE DEF success
    <3> QED BY <1>1, <2>1, <3>1 DEF WatchdogAt, WatchdogStates
  <2> QED BY <2>2, <2>3, <2>4
<1> QED BY <1>2, WatchdogOnlyKeeps

LEMMA PurgesTxKeeps ==
  ASSUME TwaiInv, PurgesTx
  PROVE  TwaiInv'
<1>1. CASE watchdog.at = "noteTx" /\ NotesTx /\ UNCHANGED <<tx, sent>>
  BY <1>1, NotesKeep DEF PurgesTx
<1>2. CASE watchdog.at = "purgeTx" /\ PurgeTx /\ WatchdogGoes("noteTx")
  <2>1. tx' = <<>> /\ sent' = [upset |-> TRUE, last |-> 0]
    BY <1>2 DEF PurgeTx, Upset
  <2>2. TypeOK'
    <3>1. watchdog' \in WatchdogStates
      BY <1>2 DEF WatchdogGoes, WatchdogAt, TwaiInv, TypeOK, StackStates, IsrStates,
                  WatchdogStates
    <3>2. tx' \in Seq(Frame) /\ Len(tx') <= TxSize
      BY <2>1, NothingQueued
    <3>3. sent' \in [upset : BOOLEAN, last : 0..MaxWritten]
      BY <2>1, NothingQueued
    <3> QED BY <3>1, <3>2, <3>3 DEF PurgesTx, TwaiInv, TypeOK, StackStates,
                                    IsrStates, WatchdogStates
  <2>3. (IsrInOrder /\ NothingBeforeOpen /\ WritesAFrame /\ RecoversEmpty)'
    <3>1. watchdog'.at = "noteTx"
      BY <1>2 DEF WatchdogGoes, TwaiInv, TypeOK
    <3> QED BY <2>1, <3>1 DEF PurgesTx, TwaiInv, IsrInOrder, NothingBeforeOpen, WritesAFrame,
                RecoversEmpty, Recovering, At
  <2>4. (BufferIsFirst /\ OneCoreInOrder /\ SentInOrder)'
    BY <2>1 DEF BufferIsFirst, Off, OneCoreInOrder, SentInOrder
  <2>5. (ReaderIsWoken /\ OccupiedMeans /\ LooksAtOccupied)'
    BY <2>1 DEF PurgesTx, TwaiInv, ReaderIsWoken, OccupiedMeans, LooksAtOccupied,
                TxSeen, Off, At
  <2>6. (ArrivedBefore /\ ArrivalsAccounted)'
    BY ArrivalsStay DEF PurgesTx
  <2> QED BY <2>2, <2>3, <2>4, <2>5, <2>6 DEF TwaiInv
<1> QED BY <1>1, <1>2 DEF PurgesTx

(* The frames purged count as missed, and those on both sides still rise. *)
LEMMA PurgesRxKeeps ==
  ASSUME TwaiInv, PurgesRx
  PROVE  TwaiInv'
<1>1. CASE watchdog.at = "noteRx" /\ NotesRx /\ UNCHANGED <<rx, stats>>
  BY <1>1, NotesKeep DEF PurgesRx
<1>2. CASE watchdog.at = "purgeRx" /\ PurgeRx /\ WatchdogGoes("noteRx")
  <2> DEFINE S == 1..MaxReceived
             fifo == bus.fifo
             more == stats.missed + Len(rx)
  <2>1. /\ rx' = <<>> /\ stats' = [stats EXCEPT !.missed = more]
        /\ UNCHANGED <<tx, flags, select, stack, isr, bus, sent, read>>
    BY <1>2 DEF PurgeRx, PurgesRx
  <2>2. /\ rx \in Seq(S) /\ read \in Seq(S) /\ fifo \in Seq(S)
        /\ Len(rx) \in Nat /\ Len(read) \in Nat /\ Len(fifo) \in Nat
        /\ stats \in Statistics /\ bus.arrived \in 0..MaxReceived
        /\ bus.arrived = Len(fifo) + Len(rx) + Len(read) + Counted
    BY LenProperties, AccountMeans DEF TwaiInv, TypeOK, Bus, Accounted, Statistics
  <2>3. rx' \in Seq(S) /\ Len(rx') = 0
    BY <2>1, EmptySeq
  <2> HIDE DEF fifo
  <2>4. stats' \in Statistics /\ Counted' = Counted + Len(rx) /\ Counted \in Nat
    <3>a. stats.missed \in Nat /\ stats.discard \in Nat /\ stats.overrun \in Nat
      BY <2>2 DEF Statistics
    <3>1. Counted \in Nat /\ more \in Nat /\ more <= Counted + Len(rx)
      <4>1. \A m, d, o, l \in Nat :
              m + d + o \in Nat /\ m + l \in Nat /\ m + l <= m + d + o + l
        OBVIOUS
      <4>2. Len(rx) \in Nat
        BY <2>2
      <4> QED BY <3>a, <4>1, <4>2, Zenon DEF Counted
    <3>2. more \in 0..MaxReceived
      <4> HIDE DEF S, more
      <4> QED BY <2>2, <3>1
    <3>3. Counted' = more + stats.discard + stats.overrun
      BY <2>1, <2>2 DEF Counted, Statistics
    <3>4. more + stats.discard + stats.overrun = Counted + Len(rx)
      <4>1. Len(rx) \in Nat
        BY <2>2
      <4> QED BY ONLY <3>a, <4>1 DEF Counted
    <3> HIDE DEF more
    <3>5. stats' \in Statistics
      BY <2>1, <2>2, <3>2 DEF Statistics
    <3> QED BY <3>1, <3>3, <3>4, <3>5
  <2>5. TypeOK'
    <3>1. watchdog' \in WatchdogStates
      BY <1>2 DEF WatchdogGoes, WatchdogAt, TwaiInv, TypeOK, WatchdogStates
    <3>2. Len(rx') <= RxSize
      BY <2>3
    <3> QED BY <2>1, <2>3, <2>4, <3>1, <3>2 DEF TwaiInv, TypeOK, WatchdogStates, Statistics
  <2>6. (ArrivedBefore /\ ArrivalsAccounted)'
    <3>1. read \in Seq(Nat) /\ rx \in Seq(Nat) /\ fifo \in Seq(Nat)
      <4>1. S \subseteq Nat
        OBVIOUS
      <4> HIDE DEF S
      <4> QED BY <2>2, <4>1, SeqMonotonic
    <3>2. Rises(read \o rx \o fifo) /\ AtMost(read \o rx \o fifo, bus.arrived)
      BY AccountMeans DEF TwaiInv, Arrivals, fifo
    <3>3. bus.arrived \in Nat
      BY <2>2
    <3>4. Rises(read \o fifo) /\ AtMost(read \o fifo, bus.arrived)
      BY <3>1, <3>2, <3>3, MiddleTakenOut
    <3>5. Arrivals' = read \o fifo
      BY <2>1, <2>2, ConcatEmptySeq DEF Arrivals, fifo
    <3>6. Accounted'
      <4>1. bus.arrived = Len(fifo) + Len(rx') + Len(read) + Counted'
        <5> HIDE DEF S
        <5> QED BY <2>2, <2>3, <2>4
      <4> QED BY <2>1, <4>1 DEF Accounted, fifo
    <3> QED BY <2>1, <3>4, <3>5, <3>6, AccountMeans
  <2>7. (IsrInOrder /\ NothingBeforeOpen /\ WritesAFrame /\ RecoversEmpty)'
    <3>1. watchdog'.at = "noteRx"
      BY <1>2 DEF WatchdogGoes, TwaiInv, TypeOK
    <3> QED BY <2>1, <3>1 DEF TwaiInv, IsrInOrder, NothingBeforeOpen, WritesAFrame,
                        RecoversEmpty, Recovering, At
  <2>8. (BufferIsFirst /\ OneCoreInOrder /\ OccupiedMeans /\ LooksAtOccupied)'
    BY <2>1 DEF TwaiInv, BufferIsFirst, Off, OneCoreInOrder, OccupiedMeans,
                LooksAtOccupied, TxDue, TxSeen, At
  <2>9. (ReaderIsWoken /\ SentInOrder)'
    BY <2>1, OrderStays DEF TwaiInv, LastPut, ReaderIsWoken, At
  <2> QED BY <2>5, <2>6, <2>7, <2>8, <2>9 DEF TwaiInv
<1> QED BY <1>1, <1>2 DEF PurgesRx

(* The controller and the bus *)

(* The next frame that arrives is the last of all and above them all. *)
LEMMA ArrivesKeeps ==
  ASSUME TwaiInv, Arrives
  PROVE  TwaiInv'
<1> DEFINE S == 1..MaxReceived
           fifo == bus.fifo
           n == bus.arrived
<1>1. /\ ~At("closed") /\ n < MaxReceived
      /\ Outside /\ UNCHANGED sent
      /\ \E overrun \in {bus.overrun, bus.overrun \cup {n + 1}} :
           bus' = [bus EXCEPT !.fifo = Append(fifo, n + 1), !.arrived = n + 1,
                              !.overrun = overrun]
  BY DEF Arrives
<1>2. /\ bus \in Bus /\ n \in Nat /\ n + 1 \in S /\ Counted \in Nat
      /\ rx \in Seq(S) /\ read \in Seq(S) /\ fifo \in Seq(S)
      /\ Len(rx) \in Nat /\ Len(read) \in Nat /\ Len(fifo) \in Nat
      /\ n = Len(fifo) + Len(rx) + Len(read) + Counted
  <2>1. bus \in Bus /\ n \in 0..MaxReceived /\ Counted \in Nat
    BY CountedIsNat DEF TwaiInv, TypeOK, Bus
  <2>2. n \in Nat /\ n + 1 \in S
    <3> HIDE DEF n
    <3> QED BY <1>1, <2>1
  <2>3. rx \in Seq(S) /\ read \in Seq(S) /\ fifo \in Seq(S)
    BY DEF TwaiInv, TypeOK, StackStates, IsrStates, WatchdogStates, Bus
  <2>4. Len(rx) \in Nat /\ Len(read) \in Nat /\ Len(fifo) \in Nat
    BY <2>3, LenProperties
  <2>5. n = Len(fifo) + Len(rx) + Len(read) + Counted
    BY AccountMeans DEF TwaiInv, Accounted
  <2> HIDE DEF S, fifo, n
  <2> QED BY <2>1, <2>2, <2>3, <2>4, <2>5
<1>3. Append(fifo, n + 1) \in Seq(S) /\ Len(Append(fifo, n + 1)) = Len(fifo) + 1
  <2> HIDE DEF S, fifo, n
  <2> QED BY <1>2, AppendProperties
<1>4. /\ bus' \in Bus /\ bus'.fifo = Append(fifo, n + 1) /\ bus'.arrived = n + 1
      /\ bus'.state = bus.state /\ bus'.buffer = bus.buffer
      /\ bus'.complete = bus.complete /\ bus'.irq = bus.irq
      /\ bus'.astray = bus.astray
  <2> DEFINE f == Append(fifo, n + 1)
             m == n + 1
  <2>1. f \in Seq(S) /\ m \in 0..MaxReceived
    BY <1>2, <1>3
  <2>2. PICK overrun \in {bus.overrun, bus.overrun \cup {m}} :
          bus' = [bus EXCEPT !.fifo = f, !.arrived = m, !.overrun = overrun]
    BY <1>1
  <2>3. overrun \in SUBSET S
    BY <1>2, <2>2 DEF Bus
  <2> HIDE DEF f, m
  <2>4. /\ bus' \in Bus /\ bus'.fifo = f /\ bus'.arrived = m
        /\ bus'.state = bus.state /\ bus'.buffer = bus.buffer
        /\ bus'.complete = bus.complete /\ bus'.irq = bus.irq
        /\ bus'.astray = bus.astray
    BY <1>2, <2>1, <2>2, <2>3 DEF Bus
  <2> QED BY <2>4 DEF f, m
<1>5. (ArrivedBefore /\ ArrivalsAccounted)'
  <2> DEFINE q == read \o rx
             s == q \o fifo
  <2>1. q \in Seq(S)
    BY <1>2, ConcatProperties
  <2>2. s \in Seq(S) /\ Append(s, n + 1) = q \o Append(fifo, n + 1)
    <3> DEFINE m == n + 1
    <3>1. m \in S
      BY <1>2
    <3> HIDE DEF S, fifo, m, q
    <3>2. s \in Seq(S)
      BY <1>2, <2>1, ConcatProperties
    <3>3. Append(q \o fifo, m) = q \o Append(fifo, m)
      <4>1. q \in Seq(S) /\ fifo \in Seq(S) /\ m \in S
        BY <1>2, <2>1, <3>1
      <4>2. Append(fifo, m) = fifo \o <<m>> /\ <<m>> \in Seq(S)
        BY <4>1, AppendIsConcat
      <4>3. Append(q \o fifo, m) = (q \o fifo) \o <<m>>
        BY <3>2, <4>1, AppendIsConcat
      <4>4. (q \o fifo) \o <<m>> = q \o (fifo \o <<m>>)
        BY <4>1, <4>2, ConcatAssociative
      <4> QED BY <4>2, <4>3, <4>4
    <3> QED BY <3>2, <3>3 DEF m
  <2>3. s \in Seq(Nat)
    <3>1. S \subseteq Nat
      OBVIOUS
    <3> HIDE DEF S, s
    <3> QED BY <2>2, <3>1, SeqMonotonic
  <2>4. Rises(s) /\ AtMost(s, n)
    BY AccountMeans DEF TwaiInv, Arrivals
  <2>5. Rises(Append(s, n + 1)) /\ AtMost(Append(s, n + 1), n + 1)
    <3> HIDE DEF s, n
    <3> QED BY <1>2, <2>3, <2>4, NextRises
  <2>6. Arrivals' = Append(s, n + 1)
    BY <1>1, <1>4, <2>2 DEF Arrivals, Outside
  <2>7. Accounted'
    <3>1. n + 1 = Len(fifo) + 1 + Len(rx) + Len(read) + Counted
      <4> HIDE DEF fifo, n
      <4> QED BY <1>2
    <3>2. Counted' = Counted /\ rx' = rx /\ read' = read
      BY <1>1 DEF Counted, Outside
    <3> QED BY <1>3, <1>4, <3>1, <3>2 DEF Accounted
  <2> QED BY <1>4, <2>5, <2>6, <2>7, AccountMeans
<1> HIDE DEF S, fifo, n
<1>6. TypeOK'
  BY <1>1, <1>4 DEF Outside, TwaiInv, TypeOK, StackStates, IsrStates, WatchdogStates
<1>7. (IsrInOrder /\ NothingBeforeOpen /\ WritesAFrame /\ RecoversEmpty)'
  <2>1. bus'.astray = bus.astray /\ isr.left \in Nat
    BY <1>4 DEF TwaiInv, TypeOK
  <2>2. Len(bus'.fifo) = Len(bus.fifo) + 1 /\ Len(bus.fifo) \in Nat
    BY <1>2, <1>3, <1>4 DEF fifo
  <2> QED BY <1>1, <2>1, <2>2 DEF Outside, TwaiInv, IsrInOrder, NothingBeforeOpen, WritesAFrame,
              RecoversEmpty, Recovering, At
<1>8. (BufferIsFirst /\ OneCoreInOrder)'
  BY <1>1, <1>4 DEF Outside, TwaiInv, BufferIsFirst, Off, OneCoreInOrder, TxDue,
                    TxSeen, At
<1>9. (SentInOrder /\ ReaderIsWoken /\ OccupiedMeans /\ LooksAtOccupied)'
  BY <1>1, OrderStays DEF Outside, TwaiInv, LastPut, ReaderIsWoken, OccupiedMeans,
                          LooksAtOccupied, TxSeen, Off, At
<1> QED BY <1>5, <1>6, <1>7, <1>8, <1>9 DEF TwaiInv

LEMMA IsSentKeeps ==
  ASSUME TwaiInv, IsSent
  PROVE  TwaiInv'
<1>1. /\ bus.buffer # 0 /\ Outside
      /\ bus' = [bus EXCEPT !.buffer = 0, !.complete = TRUE, !.irq = @ \cup {"TX"}]
      /\ sent' = IF sent.upset THEN sent ELSE [sent EXCEPT !.last = bus.buffer]
  BY DEF IsSent
<1>2. bus \in Bus /\ bus.buffer \in 0..MaxWritten
      /\ sent \in [upset : BOOLEAN, last : 0..MaxWritten]
  BY DEF TwaiInv, TypeOK, StackStates, IsrStates, WatchdogStates, Bus
<1>3. /\ bus' \in Bus /\ bus'.fifo = bus.fifo /\ bus'.arrived = bus.arrived
      /\ bus'.state = bus.state /\ bus'.buffer = 0 /\ bus'.complete
      /\ bus'.irq = bus.irq \cup {"TX"}
  <2> DEFINE irq == bus.irq \cup {"TX"}
  <2>1. irq \in SUBSET {"TX", "ERR"} /\ 0 \in 0..MaxWritten
    BY <1>2 DEF Bus
  <2>2. bus' = [bus EXCEPT !.buffer = 0, !.complete = TRUE, !.irq = irq]
    BY <1>1
  <2> HIDE DEF irq
  <2>3. /\ bus' \in Bus /\ bus'.fifo = bus.fifo /\ bus'.arrived = bus.arrived
        /\ bus'.state = bus.state /\ bus'.buffer = 0 /\ bus'.complete
        /\ bus'.irq = irq
    BY <1>2, <2>1, <2>2 DEF Bus
  <2> QED BY <2>3 DEF irq
<1>4. /\ sent' \in [upset : BOOLEAN, last : 0..MaxWritten]
      /\ sent'.upset = sent.upset
      /\ ~sent.upset => sent'.last = bus.buffer /\ tx # <<>> /\ bus.buffer = tx[1]
  BY <1>1, <1>2 DEF TwaiInv, BufferIsFirst, Off
<1>5. TypeOK'
  BY <1>1, <1>3, <1>4 DEF Outside, TwaiInv, TypeOK, StackStates, IsrStates,
                          WatchdogStates
<1>6. (IsrInOrder /\ NothingBeforeOpen /\ WritesAFrame /\ RecoversEmpty)'
  BY <1>1 DEF Outside, TwaiInv, IsrInOrder, NothingBeforeOpen, WritesAFrame,
              RecoversEmpty, Recovering, At
<1>7. (BufferIsFirst /\ OneCoreInOrder)'
  BY <1>1, <1>3, <1>4 DEF Outside, TwaiInv, BufferIsFirst, Off, OneCoreInOrder,
                          TxDue, TxSeen, At
<1>8. SentInOrder'
  <2> SUFFICES ASSUME ~sent.upset
               PROVE  /\ \A i \in 1..Len(tx) : tx[i] = FirstWaiting + i - 1
                      /\ sent'.last <= FirstWaiting
                      /\ Cores = 1 => FirstWaiting <= sent'.last + 1
    BY <1>1, <1>4 DEF Outside, SentInOrder, FirstWaiting, LastPut
  <2>1. \A i \in 1..Len(tx) : tx[i] = FirstWaiting + i - 1
    BY DEF TwaiInv, SentInOrder
  <2>2. Len(tx) \in Nat /\ Len(tx) >= 1 /\ FirstWaiting \in Int
    <3>1. Len(tx) \in Nat \ {0}
      BY <1>4, EmptySeq DEF TwaiInv, TypeOK, StackStates, IsrStates, WatchdogStates
    <3>2. LastPut \in Int
      BY TypesOfParts DEF TwaiInv
    <3> QED BY <3>1, <3>2 DEF FirstWaiting
  <2>3. sent'.last = FirstWaiting
    BY <1>4, <2>1, <2>2
  <2> QED BY <2>1, <2>2, <2>3
<1>9. (ReaderIsWoken /\ OccupiedMeans /\ LooksAtOccupied)'
  BY <1>1 DEF Outside, TwaiInv, ReaderIsWoken, OccupiedMeans, LooksAtOccupied,
              TxSeen, Off, At
<1>10. (ArrivedBefore /\ ArrivalsAccounted)'
  BY <1>1, <1>3, ArrivalsStay DEF Outside
<1> QED BY <1>5, <1>6, <1>7, <1>8, <1>9, <1>10 DEF TwaiInv

LEMMA ChangesKeeps ==
  ASSUME TwaiInv, NEW state \in {"active", "passive", "off"}, Changes(state)
  PROVE  TwaiInv'
<1>1. /\ ~At("closed") /\ bus.errors < MaxErrors /\ Outside
      /\ bus' = [bus EXCEPT !.state = state, !.errors = @ + 1, !.irq = @ \cup {"ERR"},
                            !.buffer = IF state = "off" THEN 0 ELSE @]
      /\ IF state = "off" THEN sent' = [upset |-> TRUE, last |-> 0] ELSE UNCHANGED sent
      /\ Off => "ERR" \notin bus.irq
  BY DEF Changes, Upset, Off
<1>2. bus \in Bus /\ sent \in [upset : BOOLEAN, last : 0..MaxWritten]
  BY DEF TwaiInv, TypeOK, StackStates, IsrStates, WatchdogStates
<1>3. /\ bus' \in Bus /\ bus'.fifo = bus.fifo /\ bus'.arrived = bus.arrived
      /\ bus'.state = state /\ bus'.complete = bus.complete
      /\ bus'.irq = bus.irq \cup {"ERR"}
      /\ bus'.astray = bus.astray
      /\ state # "off" => bus'.buffer = bus.buffer
  <2> DEFINE irq == bus.irq \cup {"ERR"}
             buffer == IF state = "off" THEN 0 ELSE bus.buffer
             errors == bus.errors + 1
  <2>1. /\ irq \in SUBSET {"TX", "ERR"} /\ buffer \in 0..MaxWritten
        /\ errors \in 0..MaxErrors
    BY <1>1, <1>2 DEF Bus
  <2>2. bus' = [bus EXCEPT !.state = state, !.errors = errors, !.irq = irq,
                          !.buffer = buffer]
    BY <1>1
  <2>3. state # "off" => buffer = bus.buffer
    OBVIOUS
  <2> HIDE DEF irq, buffer, errors
  <2>4. /\ bus' \in Bus /\ bus'.fifo = bus.fifo /\ bus'.arrived = bus.arrived
        /\ bus'.state = state /\ bus'.complete = bus.complete
        /\ bus'.irq = irq /\ bus'.buffer = buffer /\ bus'.astray = bus.astray
    BY <1>2, <2>1, <2>2 DEF Bus
  <2> QED BY <2>3, <2>4 DEF irq
<1>4. sent' \in [upset : BOOLEAN, last : 0..MaxWritten]
  BY <1>1, <1>2, NothingQueued
<1>5. TypeOK'
  BY <1>1, <1>3, <1>4 DEF Outside, TwaiInv, TypeOK, StackStates, IsrStates,
                          WatchdogStates
<1>6. (IsrInOrder /\ NothingBeforeOpen /\ WritesAFrame /\ RecoversEmpty)'
  BY <1>1, <1>3 DEF Outside, TwaiInv, IsrInOrder, NothingBeforeOpen, WritesAFrame,
              RecoversEmpty, Recovering, At
<1>7. (BufferIsFirst /\ OneCoreInOrder)'
  BY <1>1, <1>3 DEF Outside, TwaiInv, BufferIsFirst, Off, OneCoreInOrder, TxDue,
                    TxSeen, At
<1>8. SentInOrder'
  <2>1. CASE state = "off"
    BY <1>1, <2>1 DEF SentInOrder
  <2>2. CASE state # "off"
    BY <1>1, <2>2, OrderStays DEF Outside, LastPut
  <2> QED BY <2>1, <2>2
<1>9. (ReaderIsWoken /\ OccupiedMeans /\ LooksAtOccupied)'
  <2>1. ReaderIsWoken'
    BY <1>1 DEF Outside, TwaiInv, ReaderIsWoken, At
  <2>2. OccupiedMeans'
    BY <1>1, <1>3 DEF Outside, TwaiInv, OccupiedMeans, Off
  <2>3. LooksAtOccupied'
    BY <1>1, <1>3 DEF Outside, TwaiInv, LooksAtOccupied, TxSeen
  <2> QED BY <2>1, <2>2, <2>3
<1>10. (ArrivedBefore /\ ArrivalsAccounted)'
  BY <1>1, <1>3, ArrivalsStay DEF Outside
<1> QED BY <1>5, <1>6, <1>7, <1>8, <1>9, <1>10 DEF TwaiInv

-----------------------------------------------------------------------------

LEMMA StutterKeeps ==
  ASSUME TwaiInv, UNCHANGED vars
  PROVE  TwaiInv'
<1>1. UNCHANGED <<tx, rx, flags, select, stack, isr, watchdog, stats, bus, sent, read>>
  BY DEF vars
<1>2. watchdog' \in WatchdogStates
  BY <1>1 DEF TwaiInv, TypeOK, WatchdogStates
<1>3. At("closed") => watchdog'.at # "recover"
  BY <1>1 DEF TwaiInv, NothingBeforeOpen
<1> QED BY <1>1, <1>2, <1>3, WatchdogOnlyKeeps

LEMMA NextKeeps == TwaiInv /\ [Next]_vars => TwaiInv'
<1> SUFFICES ASSUME TwaiInv, [Next]_vars
             PROVE  TwaiInv'
  OBVIOUS
<1>1. CASE TasksRun /\ Stack
  BY <1>1, OpenKeeps, WriteBeginsKeeps, WriteRecoversKeeps, WriteChecksKeeps,
     WritePutsKeeps, WriteLooksKeeps, WriteTransmitsKeeps, WritePurgesKeeps,
     ReadKeeps, StartSelectKeeps DEF Stack
<1>2. CASE EndSelect
  BY <1>2, EndSelectKeeps
<1>3. CASE Watchdog
  <2>1. CASE NotesState
    BY <2>1, NotesKeep DEF NotesState
  <2> QED BY <1>3, <2>1, ChecksKeep, RecoversKeeps, PurgesRxKeeps, PurgesTxKeeps
          DEF Watchdog
<1>4. CASE Isr
  BY <1>4, IsrBeginsKeeps, RxBeginsKeeps, RxFramesKeeps, RxEndsKeeps, RxSignalsKeeps,
     TxFrameKeeps, TxSignalsKeeps, RestartKeeps DEF Isr
<1>5. CASE Controller
  BY <1>5, ArrivesKeeps, IsSentKeeps, ChangesKeeps DEF Controller
<1>6. CASE UNCHANGED vars
  BY <1>6, StutterKeeps
<1> QED BY <1>1, <1>2, <1>3, <1>4, <1>5, <1>6 DEF Next

(* Everything above holds in every state the driver reaches. *)
THEOREM TwaiSafe == Spec => []TwaiInv
BY InitKeeps, NextKeeps, PTL DEF Spec

(* The queues never hold more than their buffers, and every variable its kind of
   value, whatever the tasks and the interrupt do to each other. *)
THEOREM DriverTypeOK == Spec => []TypeOK
BY TwaiSafe, PTL DEF TwaiInv

(* A stack that waits in select() for frames while there are some is about to be
   woken by the interrupt. *)
THEOREM DriverWakesTheReader == Spec => []ReaderIsWoken
BY TwaiSafe, PTL DEF TwaiInv

(* The flag OCCUPIED says either that the buffer holds a frame or will be seen
   empty, or that somebody is about to look at it. *)
LEMMA NeverIdleFollows == TwaiInv => NeverIdle
<1> SUFFICES ASSUME OccupiedMeans, LooksAtOccupied
             PROVE  NeverIdle
  BY DEF TwaiInv
<1>1. CASE "OCCUPIED" \in flags
  BY <1>1 DEF OccupiedMeans, NeverIdle
<1>2. CASE "OCCUPIED" \notin flags
  BY <1>2 DEF LooksAtOccupied, NeverIdle, TxSeen
<1> QED BY <1>1, <1>2

(* No frame waits beside an empty buffer of a controller that runs, without the
   writer or the interrupt about to see to it, until a bus that was seen off is
   handed a frame or one that has recovered is told to recover. *)
THEOREM DriverNeverIdle == Spec => []NeverIdle
BY TwaiSafe, NeverIdleFollows, PTL

(* A bus that was off starts again with nothing of before to send, and does not
   run until then, unless it was told to recover when it had. *)
THEOREM DriverRestartsEmpty == Spec => []RestartsEmpty
<1>1. TwaiInv => RestartsEmpty
  BY DEF TwaiInv, RecoversEmpty, RestartsEmpty
<1> QED BY <1>1, TwaiSafe, PTL

(* Frames are sent in the order they were written, and on one core none is left
   out, until a purge or a bus that is off. *)
THEOREM DriverSendsInOrder == Spec => []SentInOrder
BY TwaiSafe, PTL DEF TwaiInv

(* Every frame that arrived was read, waits, or counts once, as missed, discarded
   or overrun, and none is read before an earlier one. *)
THEOREM DriverAccountsForArrivals == Spec => []ArrivalsAccounted
BY TwaiSafe, PTL DEF TwaiInv

=============================================================================
