----------------------------- MODULE DccSource -----------------------------
(***************************************************************************)
(* The DCC source on channel A: the table of locomotives, the rotation     *)
(* that refreshes them, and the ring of packets between the threads that   *)
(* queue them and the timer interrupt that sends them.                     *)
(*                                                                         *)
(* A call into the source - a locomotive command, the emergency stop at    *)
(* the end of a lease, a refresh - is made under the hardware lock, so one *)
(* is over before the next begins.  The interrupt knows no lock: it may    *)
(* come between any two packets a call queues and, while one is being      *)
(* copied into its slot, between the first byte and the store to g_head    *)
(* that publishes it.  The interrupt itself is atomic to the threads.  A   *)
(* packet's bits are one step of it: what happens between two bits of a    *)
(* packet touches nothing but the bit counters.                            *)
(***************************************************************************)
EXTENDS Integers, Sequences, FiniteSets

CONSTANTS
  Slots,        \* PACKET_SLOTS, the slots of the ring
  MaxLocos,     \* DCC_MAX_LOCOS, the entries of the table
  Address,      \* the locomotives' addresses
  Speeds,       \* the speeds they are given
  Function,     \* the functions they have
  MaxCommands   \* a bound on the commands of one behaviour

ASSUME SizeAssumption ==
  /\ Slots \in Nat /\ Slots > 1
  /\ MaxLocos \in Nat /\ MaxLocos > 0
  /\ MaxCommands \in Nat

ASSUME LocoAssumption ==
  /\ Address \subseteq 1..10239
  /\ Speeds \subseteq -1..126
  /\ Function \subseteq 0..28

VARIABLES
  running,    \* running_: the timer is attached
  slots,      \* g_slots
  head,       \* g_head, stored by the threads
  tail,       \* g_tail, stored by the interrupt
  current,    \* g_current, the packet on the rails
  left,       \* g_repeatsLeft
  table,      \* locos_
  cursor,     \* refreshCursor_
  phase,      \* refreshPhase_
  last,       \* LiveControl: loco_, the last locomotive command
  calls,      \* the packets the call under way has yet to queue
  copying,    \* the first of them is being copied into slots[head]
  sent,       \* packets sent since the last refresh, up to PacketsPerRefresh
  heard,      \* external: what each decoder was last told
  commands    \* the commands given, up to MaxCommands

ringVars == <<slots, head, tail, copying>>
railVars == <<current, left>>
tableVars == <<table, cursor, phase, last>>
vars == <<running, ringVars, railVars, tableVars, calls, sent, heard,
          commands>>

Slot == 0..(Slots - 1)
Entry == 0..(MaxLocos - 1)

(* The functions of group 1, 2 and 3; group 0 is the speed. *)
Functions(group) ==
  CASE group = 1 -> Function \cap 0..4
    [] group = 2 -> Function \cap 5..8
    [] group = 3 -> Function \cap 9..12

(* A locomotive stands when it enters the table; -1 is the emergency stop. *)
Speed == Speeds \cup {0, -1}

Packet ==
  [kind : {"loco"}, to : Address, group : 0..3, speed : Speed,
   on : SUBSET Function, repeats : 1..3]
Idle == [kind |-> "idle", to |-> 0, group |-> 0, speed |-> 0, on |-> {},
         repeats |-> 1]
(* A slot in the middle of a copy. *)
Torn == [Idle EXCEPT !.kind = "torn"]

Loco == [used : BOOLEAN, address : Address \cup {0}, speed : Speed,
         on : SUBSET Function]
NoLoco == [used |-> FALSE, address |-> 0, speed |-> 0, on |-> {}]
Command == [address : Address \cup {0}, on : SUBSET Function]
NoCommand == [address |-> 0, on |-> {}]
Decoder == [speed : Speed, on : SUBSET Function]
Silence == [speed |-> 0, on |-> {}]

(* What is sent of a locomotive between two refreshes: they are 30 ms apart,
   and the longest packet takes no more than 13 ms. *)
PacketsPerRefresh == 2

TypeOK ==
  /\ running \in BOOLEAN
  /\ slots \in [Slot -> Packet \cup {Idle, Torn}]
  /\ head \in Slot
  /\ tail \in Slot
  /\ current \in Packet \cup {Idle, Torn}
  /\ left \in 1..3
  /\ table \in [Entry -> Loco]
  /\ cursor \in Entry
  /\ phase \in 0..3
  /\ last \in Command
  /\ calls \in Seq(Packet)
  /\ copying \in BOOLEAN
  /\ sent \in 0..PacketsPerRefresh
  /\ heard \in [Address -> Decoder]
  /\ commands \in 0..MaxCommands

Init ==
  /\ running = FALSE
  /\ slots = [i \in Slot |-> Idle]
  /\ head = 0
  /\ tail = 0
  /\ current = Idle
  /\ left = 1
  /\ table = [i \in Entry |-> NoLoco]
  /\ cursor = 0
  /\ phase = 0
  /\ last = NoCommand
  /\ calls = <<>>
  /\ copying = FALSE
  /\ sent = 0
  /\ heard = [a \in Address |-> Silence]
  /\ commands = 0

-----------------------------------------------------------------------------
(* Packets *)

SpeedPacket(a, speed, repeats) ==
  [kind |-> "loco", to |-> a, group |-> 0, speed |-> speed, on |-> {},
   repeats |-> repeats]
FunctionPacket(a, group, on, repeats) ==
  [kind |-> "loco", to |-> a, group |-> group, speed |-> 0,
   on |-> on \cap Functions(group), repeats |-> repeats]

(* setFunction() sends the group of the function, and the last one for every
   function past F12. *)
GroupOf(f) == IF f <= 4 THEN 1 ELSE IF f <= 8 THEN 2 ELSE 3

-----------------------------------------------------------------------------
(* The ring: queuePacket() *)

After(i) == IF i = Slots - 1 THEN 0 ELSE i + 1

(* A packet is dropped when the source is off or the ring is full. *)
Drop ==
  /\ calls # <<>>
  /\ ~copying
  /\ ~running \/ After(head) = tail
  /\ calls' = Tail(calls)
  /\ UNCHANGED <<running, ringVars, railVars, tableVars, sent, heard,
                 commands>>

(* Mistake: the slot is published before it is filled. *)
CopyPublished ==
  /\ calls # <<>>
  /\ ~copying
  /\ running /\ After(head) # tail
  /\ slots' = [slots EXCEPT ![head] = Torn]
  /\ head' = After(head)
  /\ copying' = TRUE
  /\ UNCHANGED <<running, tail, railVars, tableVars, calls, sent, heard,
                 commands>>

(* Mistake: a full ring is not noticed. *)
CopyWithoutRoom ==
  /\ calls # <<>>
  /\ ~copying
  /\ running
  /\ slots' = [slots EXCEPT ![head] = Torn]
  /\ copying' = TRUE
  /\ UNCHANGED <<running, head, tail, railVars, tableVars, calls, sent, heard,
                 commands>>

Copy ==
  /\ calls # <<>>
  /\ ~copying
  /\ running /\ After(head) # tail
  /\ slots' = [slots EXCEPT ![head] = Torn]
  /\ copying' = TRUE
  /\ UNCHANGED <<running, head, tail, railVars, tableVars, calls, sent, heard,
                 commands>>

Publish ==
  /\ copying
  /\ slots' = [slots EXCEPT ![head] = Head(calls)]
  /\ head' = After(head)
  /\ copying' = FALSE
  /\ calls' = Tail(calls)
  /\ UNCHANGED <<running, tail, railVars, tableVars, sent, heard, commands>>

-----------------------------------------------------------------------------
(* The timer interrupt: a packet has gone out.  The slot it takes next is not
   read again before it is written, so it is left blank here. *)

Hears(d, p) ==
  IF p.group = 0 THEN [d EXCEPT !.speed = p.speed]
  ELSE [d EXCEPT !.on = (@ \ Functions(p.group)) \cup p.on]

PacketSent ==
  /\ running
  /\ heard' = IF current.kind = "loco"
              THEN [heard EXCEPT ![current.to] = Hears(@, current)]
              ELSE heard
  /\ sent' = IF sent < PacketsPerRefresh THEN sent + 1 ELSE sent
  /\ \/ /\ left > 1
        /\ left' = left - 1
        /\ UNCHANGED <<current, slots, tail>>
     \/ /\ left <= 1
        /\ head # tail
        /\ current' = slots[tail]
        /\ slots' = [slots EXCEPT ![tail] = Idle]
        /\ tail' = After(tail)
        /\ left' = slots[tail].repeats
     \/ /\ left <= 1
        /\ head = tail
        /\ current' = Idle
        /\ left' = 1
        /\ UNCHANGED <<slots, tail>>
  /\ UNCHANGED <<running, head, copying, tableVars, calls, commands>>

-----------------------------------------------------------------------------
(* Calls into the source *)

(* Nobody else is in a call: the hardware lock is free. *)
Free == calls = <<>>

(* begin(), which got its timer: the ring is empty, and no slot will be read
   before it is written.  lastRefresh_ is as the last run left it. *)
Begin ==
  /\ Free
  /\ ~running
  /\ running' = TRUE
  /\ slots' = [i \in Slot |-> Idle]
  /\ head' = 0
  /\ tail' = 0
  /\ current' = Idle
  /\ left' = 1
  /\ sent' \in {sent, PacketsPerRefresh}
  /\ UNCHANGED <<copying, tableVars, calls, heard, commands>>

(* end() takes the power off the rails; a decoder without power forgets. *)
End ==
  /\ Free
  /\ running
  /\ running' = FALSE
  /\ heard' = [a \in Address |-> Silence]
  /\ UNCHANGED <<ringVars, railVars, tableVars, calls, sent, commands>>

(* The members of a set of numbers in order. *)
Ascending(s) ==
  {q \in [1..Cardinality(s) -> s] :
     \A i, j \in DOMAIN q : i < j => q[i] < q[j]}

Used == {i \in Entry : table[i].used}
First(s) == {i \in s : \A j \in s : i <= j}

(* Mistake: a locomotive that is in the table is not looked for. *)
FoundUnused(a) == First(Entry \ Used)

(* findLoco(address, true): the entries it may answer with, none when the
   table is full and does not hold the address. *)
Found(a) ==
  LET holding == {i \in Used : table[i].address = a}
      unused == Entry \ Used
  IN IF holding # {} THEN First(holding) ELSE First(unused)

(* LiveControl::apply_loco: the speed, and the functions that differ from the
   last command, each with the functions as they are by then. *)
Changed(a, fns) ==
  {f \in Function : a # last.address \/ (f \in fns) # (f \in last.on)}
Functioned(old, changed, fns, upto) ==
  {f \in Function : IF f \in changed /\ f <= upto THEN f \in fns
                                                  ELSE f \in old}

FunctionsOf(i) == IF table[i].used THEN table[i].on ELSE {}
LocoCalls(a, i, speed, fns, order) ==
  <<SpeedPacket(a, speed, 2)>>
    \o [k \in DOMAIN order |->
          FunctionPacket(a, GroupOf(order[k]),
                         Functioned(FunctionsOf(i), Changed(a, fns), fns,
                                    order[k]), 2)]

ApplyLoco(a, speed, fns) ==
  /\ Free
  /\ commands < MaxCommands
  /\ commands' = commands + 1
  /\ last' = [address |-> a, on |-> fns]
  /\ \/ /\ Found(a) = {}
        /\ UNCHANGED <<table, calls>>
     \/ \E i \in Found(a), order \in Ascending(Changed(a, fns)) :
          /\ table' = [table EXCEPT ![i] =
               [used |-> TRUE, address |-> a, speed |-> speed,
                on |-> Functioned(FunctionsOf(i), Changed(a, fns), fns, 28)]]
          /\ calls' = LocoCalls(a, i, speed, fns, order)
  /\ UNCHANGED <<running, ringVars, railVars, cursor, phase, sent, heard>>

(* emergencyStopAll(), which LiveControl::expire calls while the source runs:
   every locomotive of the table, in the table's order. *)
EmergencyStopAll ==
  /\ Free
  /\ running
  /\ commands < MaxCommands
  /\ commands' = commands + 1
  /\ table' = [i \in Entry |->
                 IF i \in Used THEN [table[i] EXCEPT !.speed = -1]
                               ELSE table[i]]
  /\ \E order \in Ascending(Used) :
       calls' = [k \in DOMAIN order |->
                   SpeedPacket(table[order[k]].address, -1, 3)]
  /\ UNCHANGED <<running, ringVars, railVars, cursor, phase, last, sent,
                 heard>>

(* Mistake: the search starts at the cursor and not after it. *)
NextUsedFromCursor ==
  LET distance(i) == (i - cursor + MaxLocos) % MaxLocos
  IN {i \in Used : \A j \in Used : distance(i) <= distance(j)}

NextUsed ==
  LET distance(i) == (i - cursor - 1 + MaxLocos) % MaxLocos
  IN {i \in Used : \A j \in Used : distance(i) <= distance(j)}

(* Mistake: the last of the four packets repeats the one before it. *)
RefreshTwoGroups(i) ==
  IF phase = 0 THEN SpeedPacket(table[i].address, table[i].speed, 1)
  ELSE FunctionPacket(table[i].address, IF phase = 3 THEN 2 ELSE phase,
                      table[i].on, 1)

RefreshPacket(i) ==
  IF phase = 0 THEN SpeedPacket(table[i].address, table[i].speed, 1)
  ELSE FunctionPacket(table[i].address, phase, table[i].on, 1)

(* update(): every 30 ms the next locomotive of the table has the next of its
   four packets sent. *)
Update ==
  /\ Free
  /\ running
  /\ sent = PacketsPerRefresh
  /\ sent' = 0
  /\ \/ /\ Used = {}
        /\ UNCHANGED <<cursor, phase, calls>>
     \/ /\ cursor' \in NextUsed
        /\ phase' = (phase + 1) % 4
        /\ calls' = <<RefreshPacket(cursor')>>
  /\ UNCHANGED <<running, ringVars, railVars, table, last, heard, commands>>

Next ==
  \/ Begin \/ End
  \/ \E a \in Address, v \in Speeds, fns \in SUBSET Function :
       ApplyLoco(a, v, fns)
  \/ EmergencyStopAll
  \/ Update
  \/ Drop \/ Copy \/ Publish
  \/ PacketSent

Spec == Init /\ [][Next]_vars

(* The timer does not stop while it is attached, a call runs to its end, and
   the hardware thread polls for ever. *)
FairSpec ==
  /\ Spec
  /\ WF_vars(PacketSent)
  /\ WF_vars(Drop \/ Copy \/ Publish)
  /\ WF_vars(Update)
-----------------------------------------------------------------------------
(* Safety *)

Waits(i) == IF tail <= head THEN tail <= i /\ i < head
                            ELSE tail <= i \/ i < head

(* The interrupt never sends, nor can it come to send, a slot that a thread
   is still copying a packet into (the order of the copy and of the store to
   g_head in DCCSource::queuePacket). *)
NothingTorn ==
  /\ current # Torn
  /\ \A i \in Slot : Waits(i) => slots[i] # Torn

(* A copy under way is a call's, has its slot, and the source runs: end()
   cannot come between the two halves of queuePacket(). *)
CopyHasRoom == copying => ~Free /\ running /\ After(head) # tail

(* A locomotive has one entry, so that its refresh never contradicts its
   commands (DCCSource::findLoco). *)
LocosAreDistinct ==
  \A i \in Used :
    /\ table[i].address \in Address
    /\ \A j \in Used : table[i].address = table[j].address => i = j

(* The ring with its interrupt is a queue: every packet it takes is sent whole,
   in order and as often as asked for, and idle packets fill the gaps
   (DCCSource::queuePacket, onDccTimer and begin). *)
Waiting ==
  [k \in 1..((head - tail + Slots) % Slots) |-> slots[(tail + k - 1) % Slots]]
Queue == INSTANCE PacketQueue WITH
           Capacity <- Slots - 1, waiting <- Waiting, onRails <- current
RingIsAQueue == Queue!Spec

-----------------------------------------------------------------------------
(* Liveness under FairSpec, once the commands have stopped. *)

SpeedTold(i) == heard[table[i].address].speed = table[i].speed
FunctionsTold(i, fns) ==
  heard[table[i].address].on \cap fns = table[i].on \cap fns

Odd == Cardinality(Used) % 2 = 1

(* With an odd number of locomotives the rotation makes up for every packet
   that was dropped: each decoder comes to hear the speed and the functions F0
   to F12 its locomotive was last given, an emergency stop included
   (DCCSource::update). *)
OddTableIsHeard ==
  <>[](running /\ Odd)
  => <>[](\A i \in Used : SpeedTold(i) /\ FunctionsTold(i, 0..12))

-----------------------------------------------------------------------------
(* What the comments say and the code does not do; each is the one property
   of a run that TLC finds violated. *)

(* DCCSource.cpp:333-334, "a loco that stops hearing its address will
   eventually time out, so speed and functions are re-sent on a rotation": the
   speed of every locomotive in the table is sent again and again. *)
SpeedsAreRefreshed ==
  \A i \in Entry :
    <>[](running /\ i \in Used)
    => []<>(current.kind = "loco" /\ current.group = 0
              /\ current.to = table[i].address)

=============================================================================
