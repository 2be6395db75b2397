-------------------------- MODULE DccSourceProofs --------------------------
(***************************************************************************)
(* Proofs about DccSource, for every size of the ring and of the table.    *)
(***************************************************************************)
EXTENDS DccSource, FiniteSetTheorems, SequenceTheorems, TLAPS

USE SizeAssumption

DccInv == TypeOK /\ NothingTorn /\ CopyHasRoom /\ LocosAreDistinct

(* The packets that the operators build are packets. *)
LEMMA SpeedPacketTypes ==
  \A a \in Address, v \in Speed, n \in 1..3 : SpeedPacket(a, v, n) \in Packet
BY DEF SpeedPacket, Packet

LEMMA FunctionPacketTypes ==
  \A a \in Address, g \in 1..3, on \in SUBSET Function, n \in 1..3 :
    FunctionPacket(a, g, on, n) \in Packet
BY DEF FunctionPacket, Packet, Speed

LEMMA NotTorn == /\ \A p \in Packet : p # Torn
                 /\ Idle # Torn
                 /\ Idle.repeats = 1
                 /\ Torn.repeats = 1
BY DEF Packet, Idle, Torn

(* Only a slot that waits is read, and the one being written does not. *)
LEMMA AfterSlot == \A i \in Slot : After(i) \in Slot /\ After(i) # i
BY DEF Slot, After

LEMMA HeadDoesNotWait ==
  ASSUME head \in Slot, tail \in Slot
  PROVE  ~Waits(head)
BY DEF Slot, Waits

LEMMA TailWaits ==
  ASSUME head \in Slot, tail \in Slot, head # tail
  PROVE  Waits(tail)
BY DEF Slot, Waits

(* Publishing makes head wait and no other, sending the next packet makes none
   wait that did not. *)
LEMMA PublishAddsHead ==
  ASSUME head \in Slot, tail \in Slot, After(head) # tail,
         head' = After(head), tail' = tail, NEW i \in Slot, Waits(i)'
  PROVE  Waits(i) \/ i = head
BY DEF Slot, Waits, After

LEMMA SendingRemovesTail ==
  ASSUME head \in Slot, tail \in Slot, head # tail,
         head' = head, tail' = After(tail), NEW i \in Slot, Waits(i)'
  PROVE  Waits(i) /\ i # tail
BY DEF Slot, Waits, After

(* Neither does it take the room of a copy under way. *)
LEMMA SendingKeepsRoom ==
  ASSUME head \in Slot, tail \in Slot, head # tail, After(head) # tail
  PROVE  After(head) # After(tail)
BY DEF Slot, After

(* An ascending order of a set of functions or of entries is a sequence. *)
LEMMA FiniteFunctions == \A s \in SUBSET Function : Cardinality(s) \in Nat
<1>1. 0 \in Int /\ 28 \in Int
  OBVIOUS
<1>2. IsFiniteSet(0..28)
  BY <1>1, FS_Interval, Zenon
<1>3. ASSUME NEW s \in SUBSET Function
      PROVE  IsFiniteSet(s)
  <2>1. s \subseteq 0..28
    BY LocoAssumption
  <2> QED BY <1>2, <2>1, FS_Subset, Zenon
<1> QED BY <1>3, FS_CardinalityType, Zenon

LEMMA FiniteEntries == \A s \in SUBSET Entry : Cardinality(s) \in Nat
<1>1. 0 \in Int /\ MaxLocos - 1 \in Int
  OBVIOUS
<1>2. IsFiniteSet(Entry)
  BY <1>1, FS_Interval, Zenon DEF Entry
<1> QED BY <1>2, FS_Subset, FS_CardinalityType, Zenon

(* The locomotives stay distinct where the table stays as it is. *)
LEMMA SameTable ==
  ASSUME LocosAreDistinct, table' = table
  PROVE  LocosAreDistinct'
BY DEF LocosAreDistinct, Used

-----------------------------------------------------------------------------

LEMMA InitKeeps == Init => DccInv
<1> SUFFICES ASSUME Init
             PROVE  DccInv
  OBVIOUS
<1>1. NoLoco \in Loco /\ NoCommand \in Command
  BY DEF NoLoco, Loco, NoCommand, Command, Speed
<1>2. 0 \in Slot /\ 0 \in Entry
  BY DEF Slot, Entry
<1>3. heard \in [Address -> Decoder]
  BY DEF Init, Silence, Decoder, Speed
<1>4. TypeOK
  <2>1. /\ slots \in [Slot -> Packet \cup {Idle, Torn}]
        /\ current \in Packet \cup {Idle, Torn}
        /\ table \in [Entry -> Loco]
    BY <1>1 DEF Init
  <2>2. /\ sent \in 0..PacketsPerRefresh
        /\ commands \in 0..MaxCommands
        /\ left \in 1..3
        /\ phase \in 0..3
    BY DEF Init, PacketsPerRefresh
  <2>3. calls \in Seq(Packet)
    BY DEF Init
  <2> QED BY <1>1, <1>2, <1>3, <2>1, <2>2, <2>3 DEF Init, TypeOK
<1>5. NothingTorn
  BY NotTorn, <1>2 DEF Init, NothingTorn
<1>6. LocosAreDistinct
  BY DEF Init, LocosAreDistinct, Used, NoLoco
<1> QED BY <1>4, <1>5, <1>6 DEF Init, DccInv, CopyHasRoom

(* queuePacket() and the interrupt. *)
LEMMA DropKeeps ==
  ASSUME DccInv, Drop
  PROVE  DccInv'
<1>1. calls' \in Seq(Packet)
  BY DEF Drop, DccInv, TypeOK
<1>2. LocosAreDistinct'
  BY SameTable DEF Drop, DccInv, tableVars
<1> QED BY <1>1, <1>2 DEF Drop, DccInv, TypeOK, NothingTorn, CopyHasRoom,
                          Waits, ringVars, railVars, tableVars, Free

LEMMA CopyKeeps ==
  ASSUME DccInv, Copy
  PROVE  DccInv'
<1>1. TypeOK'
  BY DEF Copy, DccInv, TypeOK, railVars, tableVars
<1>2. NothingTorn'
  <2>1. ~Waits(head)
    BY HeadDoesNotWait DEF DccInv, TypeOK
  <2>2. \A i \in Slot : Waits(i)' <=> Waits(i)
    BY DEF Copy, Waits
  <2> QED BY <2>1, <2>2 DEF Copy, DccInv, TypeOK, NothingTorn, railVars
<1>3. LocosAreDistinct'
  BY SameTable DEF Copy, DccInv, tableVars
<1> QED BY <1>1, <1>2, <1>3 DEF Copy, DccInv, CopyHasRoom, Free, After

LEMMA PublishKeeps ==
  ASSUME DccInv, Publish
  PROVE  DccInv'
<1>1. /\ calls # <<>>
      /\ After(head) # tail
      /\ Head(calls) \in Packet
      /\ Tail(calls) \in Seq(Packet)
  BY DEF Publish, DccInv, CopyHasRoom, Free, TypeOK
<1>2. TypeOK'
  BY <1>1, AfterSlot DEF Publish, DccInv, TypeOK, railVars, tableVars
<1>3. NothingTorn'
  <2>1. ASSUME NEW i \in Slot, Waits(i)'
        PROVE  slots'[i] # Torn
    <3>1. Waits(i) \/ i = head
      BY <1>1, <2>1, PublishAddsHead DEF Publish, DccInv, TypeOK
    <3> QED BY <1>1, <3>1, NotTorn DEF Publish, DccInv, TypeOK, NothingTorn
  <2> QED BY <2>1 DEF Publish, DccInv, NothingTorn, railVars
<1>4. LocosAreDistinct'
  BY SameTable DEF Publish, DccInv, tableVars
<1> QED BY <1>2, <1>3, <1>4 DEF Publish, DccInv, CopyHasRoom

LEMMA PacketSentKeeps ==
  ASSUME DccInv, PacketSent
  PROVE  DccInv'
<1>1. heard' \in [Address -> Decoder]
  <2>1. ASSUME NEW d \in Decoder, NEW p \in Packet
        PROVE  Hears(d, p) \in Decoder
    BY DEF Hears, Packet, Decoder
  <2>2. current.kind = "loco" => current \in Packet
    BY DEF DccInv, TypeOK, Idle, Torn
  <2> QED BY <2>1, <2>2 DEF PacketSent, DccInv, TypeOK
<1>2. sent' \in 0..PacketsPerRefresh
  BY DEF PacketSent, DccInv, TypeOK, PacketsPerRefresh
<1>6. LocosAreDistinct'
  BY SameTable DEF PacketSent, DccInv, tableVars
<1>3. CASE head # tail /\ current' = slots[tail]
           /\ slots' = [slots EXCEPT ![tail] = Idle] /\ tail' = After(tail)
           /\ left' = slots[tail].repeats
  <2>1. slots[tail] # Torn
    BY <1>3, TailWaits DEF DccInv, TypeOK, NothingTorn
  <2>2. slots[tail].repeats \in 1..3
    BY NotTorn DEF DccInv, TypeOK, Packet
  <2>3. TypeOK'
    BY <1>1, <1>2, <1>3, <2>2, AfterSlot
       DEF PacketSent, DccInv, TypeOK, tableVars
  <2>4. ASSUME NEW i \in Slot, Waits(i)'
        PROVE  slots'[i] # Torn
    <3>1. Waits(i) /\ i # tail
      BY <1>3, <2>4, SendingRemovesTail DEF PacketSent, DccInv, TypeOK
    <3> QED BY <1>3, <3>1 DEF DccInv, TypeOK, NothingTorn
  <2>5. CopyHasRoom'
    <3>1. After(head)' = After(head)
      BY DEF PacketSent, After
    <3>2. copying => After(head) # After(tail)
      BY <1>3, SendingKeepsRoom DEF DccInv, TypeOK, CopyHasRoom
    <3> QED BY <1>3, <3>1, <3>2 DEF PacketSent, DccInv, CopyHasRoom, Free
  <2> QED BY <1>3, <1>6, <2>1, <2>3, <2>4, <2>5 DEF DccInv, NothingTorn
<1>4. CASE /\ slots' = slots /\ tail' = tail
           /\ current' = current \/ current' = Idle
           /\ left' \in 1..3
  <2>1. TypeOK'
    BY <1>1, <1>2, <1>4 DEF PacketSent, DccInv, TypeOK, tableVars
  <2>2. NothingTorn'
    BY <1>4, NotTorn DEF PacketSent, DccInv, NothingTorn, Waits
  <2> QED BY <1>4, <1>6, <2>1, <2>2
             DEF PacketSent, DccInv, CopyHasRoom, Free, After
<1>5. left > 1 => left - 1 \in 1..3
  BY DEF DccInv, TypeOK
<1> QED BY <1>3, <1>4, <1>5 DEF PacketSent

(* begin() and end(). *)
LEMMA BeginKeeps ==
  ASSUME DccInv, Begin
  PROVE  DccInv'
<1>1. ~copying
  BY DEF Begin, DccInv, CopyHasRoom
<1>2. 0 \in Slot
  BY DEF Slot
<1>3. sent' \in 0..PacketsPerRefresh
  BY DEF Begin, DccInv, TypeOK, PacketsPerRefresh
<1>4. TypeOK'
  <2>1. slots' \in [Slot -> Packet \cup {Idle, Torn}]
    BY DEF Begin
  <2> QED BY <1>2, <1>3, <2>1 DEF Begin, DccInv, TypeOK, tableVars
<1>5. NothingTorn'
  BY NotTorn DEF Begin, NothingTorn
<1>6. LocosAreDistinct'
  BY SameTable DEF Begin, DccInv, tableVars
<1> QED BY <1>1, <1>4, <1>5, <1>6 DEF Begin, DccInv, CopyHasRoom

LEMMA EndKeeps ==
  ASSUME DccInv, End
  PROVE  DccInv'
<1>1. ~copying
  BY DEF End, DccInv, CopyHasRoom
<1>2. Silence \in Decoder
  BY DEF Silence, Decoder, Speed
<1>3. TypeOK'
  BY <1>2 DEF End, DccInv, TypeOK, ringVars, railVars, tableVars
<1>4. NothingTorn'
  BY DEF End, DccInv, NothingTorn, ringVars, railVars, Waits
<1>5. LocosAreDistinct'
  BY SameTable DEF End, DccInv, tableVars
<1> QED BY <1>1, <1>3, <1>4, <1>5 DEF End, DccInv, CopyHasRoom, ringVars

(* A call that only sets the table and what is to be queued. *)
LEMMA CallKeeps ==
  ASSUME DccInv, TypeOK', LocosAreDistinct', Free,
         UNCHANGED <<running, ringVars, railVars>>
  PROVE  DccInv'
<1>1. ~copying
  BY DEF DccInv, CopyHasRoom
<1>2. NothingTorn'
  BY DEF DccInv, NothingTorn, ringVars, railVars, Waits
<1> QED BY <1>1, <1>2 DEF DccInv, CopyHasRoom, ringVars

LEMMA SequenceOfPackets ==
  ASSUME NEW n \in Nat, NEW q \in [1..n -> Packet]
  PROVE  q \in Seq(Packet)
OBVIOUS

(* The functions of a group, and of a table entry. *)
LEMMA GroupTypes == \A f \in Function : GroupOf(f) \in 1..3
BY LocoAssumption DEF GroupOf

LEMMA ApplyLocoKeeps ==
  ASSUME DccInv, NEW a \in Address, NEW v \in Speeds,
         NEW fns \in SUBSET Function, ApplyLoco(a, v, fns)
  PROVE  DccInv'
<1>1. last' \in Command
  BY DEF ApplyLoco, Command
<1>2. commands' \in 0..MaxCommands
  BY DEF ApplyLoco, DccInv, TypeOK
<1>3. CASE UNCHANGED <<table, calls>>
  <2>1. TypeOK'
    BY <1>1, <1>2, <1>3 DEF ApplyLoco, DccInv, TypeOK, ringVars, railVars
  <2>2. LocosAreDistinct'
    BY <1>3, SameTable DEF DccInv
  <2> QED BY <2>1, <2>2, CallKeeps DEF ApplyLoco
<1>4. ASSUME NEW i \in Found(a), NEW order \in Ascending(Changed(a, fns)),
             table' = [table EXCEPT ![i] =
               [used |-> TRUE, address |-> a, speed |-> v,
                on |-> Functioned(FunctionsOf(i), Changed(a, fns), fns, 28)]],
             calls' = LocoCalls(a, i, v, fns, order)
      PROVE  DccInv'
  <2>1. v \in Speed
    BY DEF Speed
  <2>2. \A f : Functioned(FunctionsOf(i), Changed(a, fns), fns, f)
                 \in SUBSET Function
    BY DEF Functioned
  <2>3. table' \in [Entry -> Loco]
    <3>1. [used |-> TRUE, address |-> a, speed |-> v,
           on |-> Functioned(FunctionsOf(i), Changed(a, fns), fns, 28)]
            \in Loco
      BY <2>1, <2>2 DEF Loco
    <3> QED BY <1>4, <3>1 DEF DccInv, TypeOK
  <2>4. calls' \in Seq(Packet)
    <3> DEFINE changed == Changed(a, fns)
               n == Cardinality(changed)
               q == [k \in DOMAIN order |->
                       FunctionPacket(a, GroupOf(order[k]),
                         Functioned(FunctionsOf(i), changed, fns, order[k]),
                         2)]
    <3>1. changed \in SUBSET Function
      BY DEF Changed
    <3>2. n \in Nat /\ order \in [1..n -> changed]
      BY <3>1, FiniteFunctions DEF Ascending
    <3>3. ASSUME NEW k \in DOMAIN order
          PROVE  q[k] \in Packet
      <4>1. order[k] \in Function
        BY <3>1, <3>2
      <4>2. GroupOf(order[k]) \in 1..3 /\ 2 \in 1..3
        BY <4>1, GroupTypes
      <4> QED BY <2>2, <4>2, FunctionPacketTypes
    <3>4. q \in [1..n -> Packet]
      BY <3>2, <3>3
    <3>5. q \in Seq(Packet)
      <4> HIDE DEF q, n
      <4> QED BY <3>2, <3>4, SequenceOfPackets
    <3>6. <<SpeedPacket(a, v, 2)>> \in Seq(Packet)
      <4>1. SpeedPacket(a, v, 2) \in Packet
        BY <2>1, SpeedPacketTypes
      <4> QED BY <4>1
    <3>7. calls' = <<SpeedPacket(a, v, 2)>> \o q
      BY <1>4 DEF LocoCalls
    <3> HIDE DEF q
    <3> QED BY <3>5, <3>6, <3>7, ConcatProperties
  <2>5. TypeOK'
    BY <1>1, <1>2, <2>3, <2>4
       DEF ApplyLoco, DccInv, TypeOK, ringVars, railVars
  <2>6. LocosAreDistinct'
    <3>1. /\ i \in Entry
          /\ \A j \in Used : table[j].address = a => i = j
      BY DEF Found, First, Used, DccInv, LocosAreDistinct
    <3>2. \A j \in Entry : /\ j = i => table'[j].used /\ table'[j].address = a
                           /\ j # i => table'[j] = table[j]
      BY <1>4 DEF DccInv, TypeOK
    <3>3. \A j \in Used' : j = i \/ (j # i /\ j \in Used)
      BY <3>2 DEF Used
    <3> QED BY <3>1, <3>2, <3>3 DEF DccInv, LocosAreDistinct, Used
  <2> QED BY <2>5, <2>6, CallKeeps DEF ApplyLoco
<1> QED BY <1>3, <1>4 DEF ApplyLoco

LEMMA EmergencyStopAllKeeps ==
  ASSUME DccInv, EmergencyStopAll
  PROVE  DccInv'
<1>1. PICK order \in Ascending(Used) :
        calls' = [k \in DOMAIN order |->
                    SpeedPacket(table[order[k]].address, -1, 3)]
  BY DEF EmergencyStopAll
<1>2. calls' \in Seq(Packet)
  <2> DEFINE n == Cardinality(Used)
  <2>1. Used \in SUBSET Entry
    BY DEF Used
  <2>2. n \in Nat /\ order \in [1..n -> Used]
    BY <2>1, FiniteEntries DEF Ascending
  <2>3. ASSUME NEW k \in DOMAIN order
        PROVE  SpeedPacket(table[order[k]].address, -1, 3) \in Packet
    <3>1. table[order[k]].address \in Address
      BY <2>2 DEF DccInv, LocosAreDistinct
    <3>2. -1 \in Speed /\ 3 \in 1..3
      BY DEF Speed
    <3> QED BY <3>1, <3>2, SpeedPacketTypes
  <2>4. calls' \in [1..n -> Packet]
    BY <1>1, <2>2, <2>3
  <2> QED BY <2>2, <2>4, SequenceOfPackets
<1>3. table' \in [Entry -> Loco]
  <2>1. \A l \in Loco : [l EXCEPT !.speed = -1] \in Loco
    BY DEF Loco, Speed
  <2> QED BY <2>1 DEF EmergencyStopAll, DccInv, TypeOK
<1>4. commands' \in 0..MaxCommands
  BY DEF EmergencyStopAll, DccInv, TypeOK
<1>5. TypeOK'
  BY <1>2, <1>3, <1>4 DEF EmergencyStopAll, DccInv, TypeOK, ringVars, railVars
<1>6. LocosAreDistinct'
  <2>1. \A i \in Entry : /\ table'[i].used = table[i].used
                         /\ table'[i].address = table[i].address
    BY DEF EmergencyStopAll, DccInv, TypeOK, Loco
  <2> QED BY <2>1 DEF DccInv, LocosAreDistinct, Used
<1> QED BY <1>5, <1>6, CallKeeps DEF EmergencyStopAll

LEMMA UpdateKeeps ==
  ASSUME DccInv, Update
  PROVE  DccInv'
<1>1. sent' \in 0..PacketsPerRefresh
  BY DEF Update, PacketsPerRefresh
<1>2. /\ cursor' \in Entry
      /\ phase' \in 0..3
      /\ calls' \in Seq(Packet)
  <2>1. CASE UNCHANGED <<cursor, phase, calls>>
    BY <2>1 DEF DccInv, TypeOK
  <2>2. CASE /\ cursor' \in NextUsed
             /\ phase' = (phase + 1) % 4
             /\ calls' = <<RefreshPacket(cursor')>>
    <3>1. cursor' \in Used
      BY <2>2 DEF NextUsed
    <3>2. /\ table[cursor'].address \in Address
          /\ table[cursor'].speed \in Speed
          /\ table[cursor'].on \in SUBSET Function
      BY <3>1 DEF DccInv, TypeOK, LocosAreDistinct, Used, Loco
    <3>3. RefreshPacket(cursor') \in Packet
      <4>1. phase # 0 => phase \in 1..3
        BY DEF DccInv, TypeOK
      <4>2. 1 \in 1..3
        OBVIOUS
      <4> QED BY <3>2, <4>1, <4>2, SpeedPacketTypes, FunctionPacketTypes
                 DEF RefreshPacket
    <3>4. cursor' \in Entry
      BY <3>1 DEF Used
    <3>5. phase' \in 0..3
      BY <2>2 DEF DccInv, TypeOK
    <3> QED BY <2>2, <3>3, <3>4, <3>5
  <2> QED BY <2>1, <2>2 DEF Update
<1>3. TypeOK'
  BY <1>1, <1>2 DEF Update, DccInv, TypeOK, ringVars, railVars
<1>4. LocosAreDistinct'
  BY SameTable DEF Update, DccInv
<1> QED BY <1>3, <1>4, CallKeeps DEF Update

LEMMA NextKeeps == DccInv /\ [Next]_vars => DccInv'
<1> SUFFICES ASSUME DccInv, [Next]_vars
             PROVE  DccInv'
  OBVIOUS
<1>1. CASE Begin \/ End
  BY <1>1, BeginKeeps, EndKeeps
<1>2. ASSUME NEW a \in Address, NEW v \in Speeds, NEW fns \in SUBSET Function,
             ApplyLoco(a, v, fns)
      PROVE  DccInv'
  BY <1>2, ApplyLocoKeeps
<1>3. CASE EmergencyStopAll \/ Update
  BY <1>3, EmergencyStopAllKeeps, UpdateKeeps
<1>4. CASE Drop \/ Copy \/ Publish
  BY <1>4, DropKeeps, CopyKeeps, PublishKeeps
<1>5. CASE PacketSent
  BY <1>5, PacketSentKeeps
<1>6. CASE UNCHANGED vars
  <2>1. LocosAreDistinct'
    BY <1>6, SameTable DEF DccInv, vars, tableVars
  <2> QED BY <1>6, <2>1 DEF DccInv, TypeOK, NothingTorn, CopyHasRoom, Waits,
             Free, After, vars, ringVars, railVars, tableVars
<1> QED BY <1>1, <1>2, <1>3, <1>4, <1>5, <1>6 DEF Next

-----------------------------------------------------------------------------

(* The inductive invariant holds of every behaviour of the source. *)
THEOREM DccSafe == Spec => []DccInv
<1>1. Init => DccInv
  BY InitKeeps
<1>2. DccInv /\ [Next]_vars => DccInv'
  BY NextKeeps
<1> QED BY <1>1, <1>2, PTL DEF Spec

(* The interrupt never sends half a packet, however large the ring and
   wherever it interrupts queuePacket(). *)
THEOREM NoPacketTorn == Spec => []NothingTorn
<1>1. DccInv => NothingTorn
  BY DEF DccInv
<1> QED BY <1>1, DccSafe, PTL

(* No locomotive is in the table twice (DCCSource::findLoco). *)
THEOREM TableIsDistinct == Spec => []LocosAreDistinct
<1>1. DccInv => LocosAreDistinct
  BY DEF DccInv
<1> QED BY <1>1, DccSafe, PTL

-----------------------------------------------------------------------------
(* The ring is a queue *)

Ring(h, t, s) == [k \in 1..((h - t + Slots) % Slots) |-> s[(t + k - 1) % Slots]]
Contents == Packet \cup {Idle, Torn}

(* The slot of a packet that waits: the k-th from t on. *)
At(t, k) == IF t + k - 1 < Slots THEN t + k - 1 ELSE t + k - 1 - Slots
Count(h, t) == IF t <= h THEN h - t ELSE h - t + Slots

LEMMA Wraps ==
  /\ \A x \in Nat : x < Slots => x % Slots = x
  /\ \A x \in Nat : x >= Slots /\ x < 2 * Slots => x % Slots = x - Slots
OBVIOUS

LEMMA RingIs ==
  ASSUME NEW h \in Slot, NEW t \in Slot, NEW s \in [Slot -> Contents]
  PROVE  /\ Count(h, t) \in 0..Slots - 1
         /\ Ring(h, t, s) = [k \in 1..Count(h, t) |-> s[At(t, k)]]
         /\ Ring(h, t, s) \in Seq(Contents)
         /\ Len(Ring(h, t, s)) = Count(h, t)
         /\ \A k \in 1..Count(h, t) : At(t, k) \in Slot
<1> DEFINE n == Count(h, t)
           q == [k \in 1..n |-> s[At(t, k)]]
<1>1. n \in 0..Slots - 1 /\ (h - t + Slots) % Slots = n
  <2>1. h \in Nat /\ t \in Nat /\ h < Slots /\ t < Slots
    BY DEF Slot
  <2>2. h - t + Slots \in Nat
    BY <2>1
  <2> QED BY <2>1, <2>2, Wraps DEF Count
<1>2. ASSUME NEW k \in 1..n
      PROVE  At(t, k) \in Slot /\ (t + k - 1) % Slots = At(t, k)
  <2>1. t \in Nat /\ t < Slots /\ k \in Nat /\ k >= 1 /\ k < Slots
    BY <1>1 DEF Slot
  <2>2. t + k - 1 \in Nat /\ t + k - 1 < 2 * Slots
    BY <2>1
  <2>3. (t + k - 1) % Slots = At(t, k)
    BY <2>1, <2>2, Wraps DEF At
  <2>4. At(t, k) \in Slot
    BY <2>1 DEF At, Slot
  <2> QED BY <2>3, <2>4
<1>3. Ring(h, t, s) = q
  BY <1>1, <1>2 DEF Ring
<1> HIDE DEF n
<1>4. q \in [1..n -> Contents] /\ n \in Nat
  BY <1>1, <1>2
<1>5. q \in Seq(Contents) /\ Len(q) = n
  <2> HIDE DEF q
  <2> QED BY <1>4
<1> QED BY <1>1, <1>2, <1>3, <1>5 DEF n

(* The ring without its head, with one more, and without its tail. *)
LEMMA RingIgnoresHead ==
  ASSUME NEW h \in Slot, NEW t \in Slot, NEW s \in [Slot -> Contents], NEW c \in Contents
  PROVE  Ring(h, t, [s EXCEPT ![h] = c]) = Ring(h, t, s)
<1> DEFINE n == Count(h, t)
           r == [s EXCEPT ![h] = c]
<1>1. r \in [Slot -> Contents]
  OBVIOUS
<1>2. n \in 0..Slots - 1 /\ \A k \in 1..n : At(t, k) \in Slot
  BY RingIs
<1>3. \A k \in 1..n : At(t, k) # h
  BY DEF At, Count, Slot
<1>4. \A k \in 1..n : r[At(t, k)] = s[At(t, k)]
  BY <1>2, <1>3
<1>5. /\ Ring(h, t, r) = [k \in 1..n |-> r[At(t, k)]]
      /\ Ring(h, t, s) = [k \in 1..n |-> s[At(t, k)]]
  <2> HIDE DEF r
  <2> QED BY <1>1, RingIs
<1> HIDE DEF n, r
<1>6. Ring(h, t, r) = Ring(h, t, s)
  BY <1>4, <1>5
<1> QED BY <1>6 DEF r

LEMMA RingGrows ==
  ASSUME NEW h \in Slot, NEW t \in Slot, After(h) # t, NEW s \in [Slot -> Contents]
  PROVE  /\ Count(h, t) < Slots - 1
         /\ Ring(After(h), t, s) = Append(Ring(h, t, s), s[h])
<1> DEFINE n == Count(h, t)
<1>1. n \in 0..Slots - 1 /\ \A k \in 1..n : At(t, k) \in Slot
  BY RingIs
<1>2. n < Slots - 1 /\ Count(After(h), t) = n + 1 /\ At(t, n + 1) = h
  BY DEF Count, After, Slot, At
<1>3. /\ Ring(h, t, s) = [k \in 1..n |-> s[At(t, k)]]
      /\ Ring(h, t, s) \in Seq(Contents) /\ Len(Ring(h, t, s)) = n
  BY RingIs
<1> DEFINE q == Ring(h, t, s)
           f == Ring(After(h), t, s)
<1>4. /\ f = [k \in 1..n + 1 |-> s[At(t, k)]]
      /\ f \in Seq(Contents) /\ Len(f) = n + 1
  BY <1>2, AfterSlot, RingIs
<1>5. /\ Append(q, s[h]) \in Seq(Contents) /\ Len(Append(q, s[h])) = n + 1
      /\ \A k \in 1..n : Append(q, s[h])[k] = q[k]
      /\ Append(q, s[h])[n + 1] = s[h]
  <2>1. s[h] \in Contents /\ q \in Seq(Contents) /\ Len(q) = n
    BY <1>3
  <2> HIDE DEF q
  <2> QED BY <2>1, AppendProperties
<1> HIDE DEF n
<1>6. \A k \in 1..n : f[k] = q[k]
  BY <1>1, <1>3, <1>4
<1>7. f[n + 1] = s[h]
  BY <1>1, <1>2, <1>4
<1> HIDE DEF f, q
<1>8. \A k \in 1..n + 1 : f[k] = Append(q, s[h])[k]
  BY <1>1, <1>5, <1>6, <1>7
<1>9. f = Append(q, s[h])
  BY <1>4, <1>5, <1>8, SeqEqual
<1> QED BY <1>2, <1>9 DEF f, q, n

LEMMA RingShrinks ==
  ASSUME NEW h \in Slot, NEW t \in Slot, h # t, NEW s \in [Slot -> Contents],
         NEW c \in Contents
  PROVE  /\ Ring(h, t, s) # <<>> /\ Head(Ring(h, t, s)) = s[t]
         /\ Ring(h, After(t), [s EXCEPT ![t] = c]) = Tail(Ring(h, t, s))
<1> DEFINE n == Count(h, t)
           r == [s EXCEPT ![t] = c]
           q == Ring(h, t, s)
<1>1. n \in 0..Slots - 1 /\ \A k \in 1..n : At(t, k) \in Slot
  BY RingIs
<1>2. n >= 1 /\ Count(h, After(t)) = n - 1 /\ At(t, 1) = t
  BY DEF Count, After, Slot, At
<1>3. \A k \in 1..n - 1 : At(After(t), k) = At(t, k + 1) /\ At(t, k + 1) # t
  BY DEF Count, After, Slot, At
<1>4. r \in [Slot -> Contents] /\ \A i \in Slot : i # t => r[i] = s[i]
  OBVIOUS
<1>5. /\ q = [k \in 1..n |-> s[At(t, k)]]
      /\ q \in Seq(Contents) /\ Len(q) = n
  BY RingIs
<1>6. Ring(h, After(t), r) = [k \in 1..n - 1 |-> r[At(After(t), k)]]
  <2> HIDE DEF r
  <2>1. Ring(h, After(t), r) = [k \in 1..Count(h, After(t)) |-> r[At(After(t), k)]]
    BY <1>4, AfterSlot, RingIs
  <2> QED BY <1>2, <2>1
<1> HIDE DEF n, r, q
<1>7. q # <<>> /\ Head(q) = s[t]
  BY <1>1, <1>2, <1>5
<1>8. Tail(q) = [k \in 1..n - 1 |-> q[k + 1]]
  BY <1>1, <1>2, <1>5
<1>9. \A k \in 1..n - 1 : r[At(After(t), k)] = q[k + 1]
  <2>1. ASSUME NEW k \in 1..n - 1
        PROVE  r[At(After(t), k)] = q[k + 1]
    <3>1. k + 1 \in 1..n /\ At(t, k + 1) \in Slot /\ q[k + 1] = s[At(t, k + 1)]
      BY <1>1, <1>5
    <3> QED BY <1>3, <1>4, <3>1
  <2> QED BY <2>1
<1>10. Ring(h, After(t), r) = Tail(q)
  BY <1>6, <1>8, <1>9
<1> QED BY <1>7, <1>10 DEF q, r

LEMMA RingEmpty ==
  ASSUME NEW h \in Slot, NEW s \in [Slot -> Contents]
  PROVE  Ring(h, h, s) = <<>>
<1>1. Count(h, h) = 0
  BY DEF Count, Slot
<1>2. Ring(h, h, s) \in Seq(Contents) /\ Len(Ring(h, h, s)) = 0
  BY <1>1, RingIs
<1> QED BY <1>2, EmptySeq

LEMMA WaitingIs == Waiting = Ring(head, tail, slots) /\ Waiting' = Ring(head', tail', slots')
BY DEF Waiting, Ring

LEMMA RingTypes ==
  ASSUME DccInv
  PROVE  /\ head \in Slot /\ tail \in Slot /\ slots \in [Slot -> Contents]
         /\ left \in 1..3 /\ Idle \in Contents /\ Torn \in Contents
BY DEF DccInv, TypeOK, Contents

(* Nobody sees a packet that is being copied. *)
LEMMA CopyIsHidden ==
  ASSUME DccInv, Copy
  PROVE  UNCHANGED Queue!queueVars
<1>1. /\ slots' = [slots EXCEPT ![head] = Torn] /\ head' = head /\ tail' = tail
      /\ current' = current /\ left' = left
  BY DEF Copy, railVars
<1>2. Ring(head, tail, slots') = Ring(head, tail, slots)
  BY <1>1, RingTypes, RingIgnoresHead
<1> QED BY <1>1, <1>2, WaitingIs DEF Queue!queueVars

LEMMA PublishPuts ==
  ASSUME DccInv, Publish
  PROVE  Queue!Put
<1> DEFINE p == Head(calls)
           q == Ring(head, tail, slots)
<1>1. /\ slots' = [slots EXCEPT ![head] = p] /\ head' = After(head) /\ tail' = tail
      /\ current' = current /\ left' = left
  BY DEF Publish, railVars
<1>2. p \in Packet /\ After(head) # tail
  BY DEF Publish, DccInv, TypeOK, CopyHasRoom, Free
<1> HIDE DEF p
<1>3. p \in Contents /\ slots' \in [Slot -> Contents] /\ slots'[head] = p
  BY <1>1, <1>2, RingTypes DEF Contents
<1>4. Ring(head, tail, slots') = q
  <2>1. Ring(head, tail, [slots EXCEPT ![head] = p]) = Ring(head, tail, slots)
    <3>1. head \in Slot /\ tail \in Slot /\ slots \in [Slot -> Contents] /\ p \in Contents
      BY <1>3, RingTypes
    <3> QED BY <3>1, RingIgnoresHead
  <2> QED BY <1>1, <2>1
<1>5. q \in Seq(Contents) /\ Len(q) < Slots - 1
  BY <1>2, RingTypes, RingIs, RingGrows
<1>6. Ring(head', tail', slots') = Append(q, p)
  <2>1. Ring(After(head), tail, slots') = Append(Ring(head, tail, slots'), slots'[head])
    BY <1>2, <1>3, RingTypes, RingGrows
  <2> QED BY <1>1, <1>3, <1>4, <2>1
<1>7. Waiting = q /\ Waiting' = Append(q, p)
  BY <1>6, WaitingIs
<1> HIDE DEF q
<1>8. Waiting' # <<>> /\ Waiting'[Len(Waiting')] = p
  BY <1>3, <1>5, <1>7, AppendProperties
<1> QED BY <1>1, <1>2, <1>5, <1>7, <1>8 DEF Queue!Put

LEMMA PacketSentSends ==
  ASSUME DccInv, PacketSent
  PROVE  Queue!SendAgain \/ Queue!SendNext \/ Queue!SendIdle
<1>1. head' = head
  BY DEF PacketSent
<1>2. CASE left > 1 /\ left' = left - 1 /\ UNCHANGED <<current, slots, tail>>
  BY <1>1, <1>2, WaitingIs DEF Queue!SendAgain
<1>3. CASE /\ left <= 1 /\ head # tail /\ current' = slots[tail]
           /\ slots' = [slots EXCEPT ![tail] = Idle] /\ tail' = After(tail)
           /\ left' = slots[tail].repeats
  <2>1. /\ Waiting # <<>> /\ Head(Waiting) = slots[tail]
        /\ Waiting' = Tail(Waiting)
    <3>1. /\ Ring(head, tail, slots) # <<>>
          /\ Head(Ring(head, tail, slots)) = slots[tail]
          /\ Ring(head, After(tail), [slots EXCEPT ![tail] = Idle]) =
               Tail(Ring(head, tail, slots))
      <4>1. /\ head \in Slot /\ tail \in Slot /\ head # tail /\ Idle \in Contents
            /\ slots \in [Slot -> Contents]
        BY <1>3, RingTypes
      <4> QED BY <4>1, RingShrinks, ZenonT(60)
    <3> QED BY <1>1, <1>3, <3>1, WaitingIs
  <2>2. left = 1
    BY <1>3, RingTypes
  <2> QED BY <1>3, <2>1, <2>2 DEF Queue!SendNext
<1>4. CASE /\ left <= 1 /\ head = tail /\ current' = Idle /\ left' = 1
           /\ UNCHANGED <<slots, tail>>
  <2>1. Waiting = <<>> /\ Waiting' = Waiting
    BY <1>1, <1>4, RingTypes, RingEmpty, WaitingIs
  <2>2. left = 1
    BY <1>4, RingTypes
  <2> QED BY <1>4, <2>1, <2>2 DEF Queue!SendIdle
<1> QED BY <1>2, <1>3, <1>4 DEF PacketSent

LEMMA BeginRestarts ==
  ASSUME DccInv, Begin
  PROVE  Queue!Restart
<1>1. /\ slots' = [i \in Slot |-> Idle] /\ head' = 0 /\ tail' = 0
      /\ current' = Idle /\ left' = 1
  BY DEF Begin
<1>2. 0 \in Slot /\ slots' \in [Slot -> Contents]
  BY <1>1 DEF Slot, Contents
<1>3. Waiting' = <<>>
  BY <1>1, <1>2, RingEmpty, WaitingIs
<1> QED BY <1>1, <1>3 DEF Queue!Restart

LEMMA StepsOfTheQueue == DccInv /\ [Next]_vars => [Queue!Next]_Queue!queueVars
<1> SUFFICES ASSUME DccInv, [Next]_vars
             PROVE  [Queue!Next]_Queue!queueVars
  OBVIOUS
<1>1. CASE UNCHANGED <<ringVars, railVars>>
  BY <1>1, WaitingIs DEF Queue!queueVars, ringVars, railVars
<1>2. CASE Copy
  BY <1>2, CopyIsHidden
<1>3. CASE Publish
  BY <1>3, PublishPuts DEF Queue!Next
<1>4. CASE PacketSent
  BY <1>4, PacketSentSends DEF Queue!Next
<1>5. CASE Begin
  BY <1>5, BeginRestarts DEF Queue!Next
<1>6. CASE End \/ EmergencyStopAll \/ Update \/ Drop
  BY <1>1, <1>6 DEF End, EmergencyStopAll, Update, Drop
<1>7. ASSUME NEW a \in Address, NEW v \in Speeds, NEW fns \in SUBSET Function,
             ApplyLoco(a, v, fns)
      PROVE  UNCHANGED <<ringVars, railVars>>
  BY <1>7 DEF ApplyLoco
<1> QED BY <1>1, <1>2, <1>3, <1>4, <1>5, <1>6, <1>7 DEF Next, vars

(* The ring with its interrupt is a queue of whole packets, however large it is
   and wherever the interrupt comes in a copy: what is put there is sent in
   order and as often as asked for (DCCSource::queuePacket, onDccTimer). *)
THEOREM RingImplementsQueue == Spec => RingIsAQueue
<1>1. Init => Queue!Init
  <2> SUFFICES ASSUME Init
               PROVE  Queue!Init
    OBVIOUS
  <2>1. head = 0 /\ tail = 0 /\ 0 \in Slot /\ slots \in [Slot -> Contents]
    BY DEF Init, Slot, Contents
  <2>2. Waiting = <<>>
    BY <2>1, RingEmpty, WaitingIs
  <2> QED BY <2>2 DEF Init, Queue!Init
<1>2. DccInv /\ [Next]_vars => [Queue!Next]_Queue!queueVars
  BY StepsOfTheQueue
<1> QED BY <1>1, <1>2, DccSafe, PTL DEF Spec, RingIsAQueue, Queue!Spec

=============================================================================
