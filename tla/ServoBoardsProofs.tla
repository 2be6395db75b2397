------------------------- MODULE ServoBoardsProofs -------------------------
(***************************************************************************)
(* That what a servo board gives is what the driver wants, that a servo's  *)
(* pulses stop only where it has settled, that an arrival is reported only *)
(* where it is, and that no servo is given a width outside its travel, for *)
(* any number of channels, any settings and any settling times.            *)
(***************************************************************************)
EXTENDS ServoBoards, TLAPS

Moves == [from : Int, to : Int, elapsed : Nat, duration : Int]
ChannelState ==
  [value : Int, known : BOOLEAN, target : Position \cup {"None"}, move : Moves,
   announce : BOOLEAN, arrived : BOOLEAN, pulsing : BOOLEAN,
   rest : Nat, settle : Nat]
BoardState ==
  [present : BOOLEAN, sinceCheck : Nat, written : [Channel -> Int]]
ChipState == [awake : BOOLEAN, out : [Channel -> Int]]
Outcome ==
  [chan : [Channel -> ChannelState], board : BoardState, chip : ChipState]

(* Where the driver trusts what it wrote, it is what the board gives. *)
Trusted(b) ==
  b.board.present /\ b.chip.awake => b.board.written = b.chip.out
(* The board has been given all that is wanted. *)
UpToDate(b) == b.board.present => b.board.written = Wanted(b)

Driver == [chan |-> chan, board |-> board, chip |-> chip]

(* The inductive invariant. *)
ServoInv ==
  /\ settings \in Settings
  /\ Driver \in Outcome
  /\ Trusted(Driver)
  /\ polled => UpToDate(Driver)

-----------------------------------------------------------------------------
(* The types of what a move does to a channel. *)

LEMMA SettingsTyped ==
  ASSUME NEW s \in Settings, NEW ch \in Channel
  PROVE  /\ s.fitted \in BOOLEAN /\ s.hold \in BOOLEAN
         /\ s.channel[ch].closed \in Nat /\ s.channel[ch].thrown \in Nat
         /\ s.channel[ch].time \in Nat
         /\ s.channel[ch].powerOn \in Position \cup {"Leave"}
<1>1. s \in BoardSettings BY ServoAssumption
<1>2. s.channel[ch] \in ChannelSettings BY <1>1 DEF BoardSettings
<1>3. s.fitted \in BOOLEAN /\ s.hold \in BOOLEAN BY <1>1 DEF BoardSettings
<1> QED BY <1>2, <1>3 DEF ChannelSettings

LEMMA ArrivedTyped ==
  ASSUME NEW c \in ChannelState, NEW settle \in Nat, NEW present \in BOOLEAN
  PROVE  Arrived(c, settle, present) \in ChannelState
<1>1. Still \in Moves BY DEF Still, Moves
<1>2. (c.announce /\ present) \in BOOLEAN OBVIOUS
<1> QED BY <1>1, <1>2 DEF ChannelState, Arrived

LEMMA GoalTyped ==
  ASSUME NEW s \in Settings, NEW ch \in Channel, NEW p
  PROVE  Goal(s, ch, p) \in Nat
BY SettingsTyped DEF Goal

LEMMA MovedToTyped ==
  ASSUME NEW s \in Settings, NEW ch \in Channel, NEW c \in ChannelState,
         NEW to \in Nat, NEW announce \in BOOLEAN, NEW present \in BOOLEAN
  PROVE  MovedTo(s, ch, c, to, announce, present) \in ChannelState
<1> DEFINE span == Distance(s.channel[ch].thrown, s.channel[ch].closed)
           distance == Distance(to, c.value)
           time == s.channel[ch].time
           toldOf == announce /\ UseIn(s, ch) = "Servo"
           start == Started(c, toldOf)
           jump == ~c.known \/ (time = 0 /\ distance # 0)
           duration == (time * Least(distance, span)) \div span
           m == [from |-> c.value, to |-> to, elapsed |-> 0, duration |-> duration]
<1>1. c.value \in Int BY DEF ChannelState
<1>2. span \in Nat BY SettingsTyped DEF Distance
<1>3. distance \in Int BY <1>1 DEF Distance
<1>4. start \in ChannelState
  <2>1. toldOf \in BOOLEAN OBVIOUS
  <2> QED BY <2>1 DEF Started, ChannelState
<1>5. CASE ~c.known \/ time = 0 \/ span = 0 \/ distance = 0
  <2>1. [start EXCEPT !.value = to, !.known = TRUE] \in ChannelState
    <3>1. \A a \in ChannelState :
            [a EXCEPT !.value = to, !.known = TRUE] \in ChannelState
      <4> TAKE a \in ChannelState
      <4>1. [a EXCEPT !.value = to] \in ChannelState BY DEF ChannelState
      <4>2. [[a EXCEPT !.value = to] EXCEPT !.known = TRUE] \in ChannelState
        BY <4>1 DEF ChannelState
      <4> QED BY <4>2 DEF ChannelState
    <3> QED BY <1>4, <3>1
  <2>2. (IF jump THEN JUMP_SETTLE ELSE SETTLE) \in Nat BY ServoAssumption
  <2>3. Arrived([start EXCEPT !.value = to, !.known = TRUE],
                IF jump THEN JUMP_SETTLE ELSE SETTLE, present) \in ChannelState
    BY <2>1, <2>2, ArrivedTyped
  <2> QED BY <1>5, <2>3 DEF MovedTo
<1>6. CASE ~(~c.known \/ time = 0 \/ span = 0 \/ distance = 0)
  <2>1. span \in Int /\ span > 0 BY <1>2, <1>6
  <2>2. Least(distance, span) \in Int BY <1>2, <1>3 DEF Least
  <2>3. time \in Int BY SettingsTyped
  <2>4. time * Least(distance, span) \in Int BY <2>2, <2>3
  <2>5. duration \in Int BY <2>1, <2>4
  <2>6. m \in Moves BY <1>1, <2>5 DEF Moves
  <2>7. [start EXCEPT !.move = m] \in ChannelState BY <1>4, <2>6 DEF ChannelState
  <2> QED BY <1>6, <2>7 DEF MovedTo
<1> QED BY <1>5, <1>6

LEMMA SteppedTyped ==
  ASSUME NEW ch \in Channel, settings \in Settings, Driver \in Outcome
  PROVE  Stepped(ch) \in ChannelState
<1> DEFINE c == chan[ch]
<1>1. c \in ChannelState BY DEF Driver, Outcome
<1>2. board.present \in BOOLEAN BY DEF Driver, Outcome, BoardState
<1>3. c.move \in Moves BY <1>1 DEF ChannelState
<1>4. CASE c.move # Still /\ c.move.elapsed >= c.move.duration
  <2>1. [c EXCEPT !.value = c.move.to] \in ChannelState
    BY <1>1, <1>3 DEF ChannelState, Moves
  <2>2. Arrived([c EXCEPT !.value = c.move.to], SETTLE, board.present) \in ChannelState
    BY <1>2, <2>1, ArrivedTyped, ServoAssumption
  <2> QED BY <1>4, <2>2 DEF Stepped
<1>5. CASE c.move # Still /\ ~(c.move.elapsed >= c.move.duration)
  <2> DEFINE m == c.move
  <2>1. m.from \in Int /\ m.to \in Int /\ m.elapsed \in Int /\ m.duration \in Int
    BY <1>3 DEF Moves
  <2>2. m.duration > 0 BY <1>3, <1>5 DEF Moves
  <2>3. (m.to - m.from) * m.elapsed \in Int /\ (m.from - m.to) * m.elapsed \in Int
    BY <2>1
  <2>4. ((m.to - m.from) * m.elapsed) \div m.duration \in Int BY <2>1, <2>2, <2>3
  <2>5. ((m.from - m.to) * m.elapsed) \div m.duration \in Int BY <2>1, <2>2, <2>3
  <2>6. Between(m) \in Int BY <2>1, <2>4, <2>5 DEF Between
  <2>7. [c EXCEPT !.value = Between(m)] \in ChannelState BY <1>1, <2>6 DEF ChannelState
  <2> QED BY <1>5, <2>7 DEF Stepped
<1>6. CASE c.move = Still
  <2>1. [c EXCEPT !.pulsing = FALSE] \in ChannelState BY <1>1 DEF ChannelState
  <2> QED BY <1>1, <1>6, <2>1 DEF Stepped
<1> QED BY <1>4, <1>5, <1>6

LEMMA RepositionedTyped ==
  ASSUME NEW s \in Settings, NEW ch \in Channel, NEW present \in BOOLEAN,
         Driver \in Outcome
  PROVE  Repositioned(s, ch, present) \in ChannelState
<1> DEFINE c == chan[ch]
<1>1. c \in ChannelState BY DEF Driver, Outcome
<1>2. (c.move # Still /\ c.announce) \in BOOLEAN OBVIOUS
<1>3. MovedTo(s, ch, c, Goal(s, ch, c.target), c.move # Still /\ c.announce, present)
        \in ChannelState
  BY <1>1, <1>2, GoalTyped, MovedToTyped
<1> QED BY <1>1, <1>3 DEF Repositioned

LEMMA PoweredOnTyped ==
  ASSUME NEW s \in Settings, NEW ch \in Channel, NEW present \in BOOLEAN,
         Driver \in Outcome
  PROVE  PoweredOn(s, ch, present) \in ChannelState
<1> DEFINE c == chan[ch]
           p == s.channel[ch].powerOn
           r == Reset(c)
<1>1. r \in ChannelState
  <2>1. c \in ChannelState BY DEF Driver, Outcome
  <2>2. Still \in Moves BY DEF Still, Moves
  <2> QED BY <2>1, <2>2 DEF Reset, ChannelState
<1>2. CASE p \in Position
  <2>1. [r EXCEPT !.target = p] \in ChannelState BY <1>1, <1>2 DEF ChannelState
  <2>2. MovedTo(s, ch, [r EXCEPT !.target = p], Goal(s, ch, p), FALSE, present)
          \in ChannelState
    BY <2>1, GoalTyped, MovedToTyped
  <2> QED BY <1>1, <2>2 DEF PoweredOn
<1>3. CASE p = "Leave" BY <1>1, <1>3 DEF PoweredOn
<1> QED BY <1>2, <1>3, SettingsTyped

LEMMA ConfiguredTyped ==
  ASSUME NEW s \in Settings, NEW ch \in Channel, NEW present \in BOOLEAN,
         Driver \in Outcome
  PROVE  Configured(s, ch, present) \in ChannelState
<1> DEFINE d == IF SameKind(s, ch) THEN Repositioned(s, ch, present)
                ELSE PoweredOn(s, ch, present)
<1>1. d \in ChannelState BY RepositionedTyped, PoweredOnTyped
<1>2. [d EXCEPT !.pulsing = TRUE] \in ChannelState BY <1>1 DEF ChannelState
<1> QED BY <1>1, <1>2 DEF Configured

-----------------------------------------------------------------------------
(* What transfers make of the board. *)

LEMMA PwmIsWritten ==
  ASSUME NEW b \in Outcome
  PROVE  /\ Wanted(b) \in [Channel -> Int]
         /\ \A ch \in Channel : Wanted(b)[ch] # NotWritten
<1>1. ASSUME NEW ch \in Channel
      PROVE  Pwm(b.chan[ch]) \in Int /\ Pwm(b.chan[ch]) # NotWritten
  <2>1. b.chan[ch].value \in Int BY DEF Outcome, ChannelState
  <2> QED BY <2>1 DEF Pwm, Least, FULL, Off, NotWritten
<1> QED BY <1>1 DEF Wanted

(* A transfer that succeeds leaves the board up to date, also one of which
   nothing is taken for written. *)
LEMMA SentIsUpToDate ==
  ASSUME NEW b \in Outcome,
         Trusted(b) \/ \A ch \in Channel : b.board.written[ch] = NotWritten
  PROVE  Sent(b) \in Outcome /\ Trusted(Sent(b)) /\ UpToDate(Sent(b))
<1> DEFINE w == Wanted(b)
           changed == {ch \in Channel : w[ch] # b.board.written[ch]}
           o == IF b.chip.awake
                THEN [ch \in Channel |-> IF ch \in changed THEN w[ch]
                                         ELSE b.chip.out[ch]]
                ELSE b.chip.out
           t == Sent(b)
<1>1. w \in [Channel -> Int] BY PwmIsWritten
<1>2. b.board \in BoardState /\ b.chip \in ChipState /\ b.chan \in [Channel -> ChannelState]
  BY DEF Outcome
<1>3. o \in [Channel -> Int] BY <1>1, <1>2 DEF ChipState
<1>4. [b.board EXCEPT !.written = w] \in BoardState BY <1>1, <1>2 DEF BoardState
<1>5. [b.chip EXCEPT !.out = o] \in ChipState BY <1>2, <1>3 DEF ChipState
<1>6. /\ t.chan = b.chan
      /\ t.board = [b.board EXCEPT !.written = w]
      /\ t.chip = [b.chip EXCEPT !.out = o]
  BY DEF Sent, Outcome
<1>7. t \in Outcome
  <2>1. t = [b EXCEPT !.board = t.board, !.chip = t.chip]
    BY <1>6 DEF Sent, Outcome
  <2> QED BY <1>4, <1>5, <1>6, <2>1 DEF Outcome
<1>8. /\ t.board.written = w /\ t.board.present = b.board.present
      /\ t.chip.out = o /\ t.chip.awake = b.chip.awake
  BY <1>2, <1>6 DEF BoardState, ChipState
<1>9. Wanted(t) = w BY <1>6 DEF Wanted
<1>10. ASSUME t.board.present, t.chip.awake
       PROVE  o = w
  <2>1. ASSUME NEW ch \in Channel PROVE o[ch] = w[ch]
    <3>1. CASE ch \in changed BY <1>8, <1>10, <3>1
    <3>2. CASE ch \notin changed
      <4>1. w[ch] = b.board.written[ch] BY <3>2
      <4>2. b.board.written[ch] # NotWritten BY <4>1, PwmIsWritten
      <4>3. b.board.written[ch] = b.chip.out[ch] BY <4>2, <1>8, <1>10 DEF Trusted
      <4> QED BY <1>8, <1>10, <3>2, <4>1, <4>3
    <3> QED BY <3>1, <3>2
  <2> QED BY <1>1, <1>3, <2>1
<1>11. Trusted(t) BY <1>8, <1>10 DEF Trusted
<1>12. UpToDate(t) BY <1>8, <1>9 DEF UpToDate
<1> QED BY <1>7, <1>11, <1>12

LEMMA LostIsSafe ==
  ASSUME NEW b \in Outcome
  PROVE  Lost(b) \in Outcome /\ Trusted(Lost(b)) /\ UpToDate(Lost(b))
<1>1. b.board \in BoardState BY DEF Outcome
<1> DEFINE k == [b.board EXCEPT !.present = FALSE, !.sinceCheck = 0]
<1>2. k \in BoardState /\ k.present = FALSE BY <1>1 DEF BoardState
<1>3. Lost(b) = [b EXCEPT !.board = k] BY DEF Lost, Outcome
<1>4. Lost(b) \in Outcome /\ Lost(b).board = k BY <1>2, <1>3 DEF Outcome
<1> QED BY <1>2, <1>4 DEF Trusted, UpToDate

LEMMA TransfersAreSafe ==
  ASSUME NEW b \in Outcome,
         Trusted(b) \/ \A ch \in Channel : b.board.written[ch] = NotWritten,
         NEW t \in Transfers(b)
  PROVE  t \in Outcome /\ Trusted(t) /\ UpToDate(t)
<1>1. Sent(b) \in Outcome /\ Trusted(Sent(b)) /\ UpToDate(Sent(b))
  BY SentIsUpToDate
<1>2. [b EXCEPT !.chip = Sent(b).chip] \in Outcome BY <1>1 DEF Outcome
<1>3. \/ t = Sent(b) \/ t = Lost(b) \/ t = Lost([b EXCEPT !.chip = Sent(b).chip])
  BY DEF Transfers
<1> QED BY <1>1, <1>2, <1>3, LostIsSafe

LEMMA FlushesAreSafe ==
  ASSUME NEW b \in Outcome, Trusted(b), NEW t \in Flushes(b)
  PROVE  t \in Outcome /\ Trusted(t) /\ UpToDate(t)
BY TransfersAreSafe DEF Flushes, UpToDate

LEMMA SwingingTyped ==
  ASSUME NEW ch, NEW c \in ChannelState
  PROVE  Swinging(ch, c) \in ChannelState
<1>1. [c EXCEPT !.pulsing = TRUE] \in ChannelState BY DEF ChannelState
<1>2. [[c EXCEPT !.pulsing = TRUE] EXCEPT !.rest = 0] \in ChannelState
  BY <1>1 DEF ChannelState
<1>3. [[[c EXCEPT !.pulsing = TRUE] EXCEPT !.rest = 0] EXCEPT !.settle = JUMP_SETTLE]
        \in ChannelState
  BY <1>2, ServoAssumption DEF ChannelState
<1>4. [c EXCEPT !.pulsing = TRUE, !.rest = 0, !.settle = JUMP_SETTLE] \in ChannelState
  BY <1>3 DEF ChannelState
<1> QED BY <1>4 DEF Swinging

LEMMA InitsAreSafe ==
  ASSUME NEW b \in Outcome, NEW t \in Inits(b)
  PROVE  t \in Outcome /\ Trusted(t) /\ UpToDate(t)
<1> DEFINE r == Restarted(b)
           none == [ch \in Channel |-> NotWritten]
           k == [b.board EXCEPT !.present = TRUE, !.written = none]
           p == [b.chip EXCEPT !.awake = TRUE]
           c == [ch \in Channel |-> Swinging(ch, b.chan[ch])]
<1>1. b.board \in BoardState /\ b.chip \in ChipState /\ b.chan \in [Channel -> ChannelState]
  BY DEF Outcome
<1>2. none \in [Channel -> Int] BY DEF NotWritten
<1>3. k \in BoardState /\ k.written = none BY <1>1, <1>2 DEF BoardState
<1>4. p \in ChipState BY <1>1 DEF ChipState
<1>5. c \in [Channel -> ChannelState]
  <2>1. ASSUME NEW ch \in Channel PROVE Swinging(ch, b.chan[ch]) \in ChannelState
    BY <1>1, SwingingTyped
  <2> QED BY <2>1
<1>6. r = [b EXCEPT !.board = k, !.chip = p, !.chan = c] BY DEF Restarted, Outcome
<1>7. r \in Outcome /\ r.board = k BY <1>3, <1>4, <1>5, <1>6 DEF Outcome
<1>8. \A ch \in Channel : r.board.written[ch] = NotWritten BY <1>3, <1>7
<1>9. CASE t \in Transfers(r) BY <1>7, <1>8, <1>9, TransfersAreSafe
<1>10. CASE t \in {Lost([b EXCEPT !.chip.awake = a]) : a \in BOOLEAN}
  <2>1. PICK a \in BOOLEAN : t = Lost([b EXCEPT !.chip.awake = a]) BY <1>10
  <2>2. [b.chip EXCEPT !.awake = a] \in ChipState BY <1>1 DEF ChipState
  <2>3. [b EXCEPT !.chip.awake = a] \in Outcome BY <2>2 DEF Outcome
  <2> QED BY <2>1, <2>3, LostIsSafe
<1> QED BY <1>9, <1>10 DEF Inits

(* A check keeps a board up to date. *)
LEMMA ChecksAreSafe ==
  ASSUME NEW b \in Outcome, Trusted(b), NEW t \in Checks(b)
  PROVE  t \in Outcome /\ Trusted(t) /\ (UpToDate(b) => UpToDate(t))
<1> DEFINE k == [b.board EXCEPT !.sinceCheck = 0]
           d == [b EXCEPT !.board = k]
<1>1. b.board \in BoardState BY DEF Outcome
<1>2. k \in BoardState /\ k.present = b.board.present /\ k.written = b.board.written
  BY <1>1 DEF BoardState
<1>3. [b EXCEPT !.board.sinceCheck = 0] = d BY DEF Outcome
<1>4. d \in Outcome /\ d.board = k /\ d.chip = b.chip /\ d.chan = b.chan
  BY <1>2 DEF Outcome
<1>5. Trusted(d) BY <1>2, <1>4 DEF Trusted
<1>6. UpToDate(b) => UpToDate(d) BY <1>2, <1>4 DEF UpToDate, Wanted
<1>7. t = d \/ t \in Inits(d) \/ t = Lost(d) BY <1>3 DEF Checks
<1> QED BY <1>4, <1>5, <1>6, <1>7, InitsAreSafe, LostIsSafe

-----------------------------------------------------------------------------
(* The invariant. *)

LEMMA WidthTyped == Width \subseteq Nat
<1>1. ASSUME NEW s \in Settings, NEW ch \in Channel
      PROVE  {s.channel[ch].closed, s.channel[ch].thrown} \subseteq Nat
  BY SettingsTyped
<1> QED BY <1>1 DEF Width, Off

LEMMA ChipTyped == Chip \subseteq ChipState
<1> SUFFICES ASSUME NEW k \in Chip PROVE k \in ChipState OBVIOUS
<1>1. k.out \in [Channel -> Width] BY DEF Chip
<1>2. ASSUME NEW ch \in Channel PROVE k.out[ch] \in Int
  <2>1. k.out[ch] \in Width BY <1>1
  <2>2. k.out[ch] \in Nat BY <2>1, WidthTyped
  <2> QED BY <2>2
<1>3. k.out \in [Channel -> Int] BY <1>1, <1>2
<1> QED BY <1>3 DEF Chip, ChipState

LEMMA ServoInit == Init => ServoInv
<1> SUFFICES ASSUME Init PROVE ServoInv OBVIOUS
<1>1. settings \in Settings BY DEF Init
<1>2. chan \in [Channel -> ChannelState]
  <2>1. Still \in Moves BY DEF Still, Moves
  <2>2. NewChannel \in ChannelState BY <2>1 DEF NewChannel, ChannelState
  <2> QED BY <2>2 DEF Init
<1>3. board \in BoardState /\ ~board.present
  BY DEF Init, BoardState, NotWritten
<1>4. chip \in ChipState BY ChipTyped DEF Init
<1>5. Driver \in Outcome /\ ~Driver.board.present BY <1>2, <1>3, <1>4 DEF Driver, Outcome
<1> QED BY <1>1, <1>5 DEF ServoInv, Trusted, UpToDate

(* The driver's state after a step is the outcome that the step has chosen. *)
LEMMA SameOutcome ==
  ASSUME NEW b \in Outcome, Becomes(b), chan' = b.chan
  PROVE  /\ Driver' = b
         /\ (Trusted(Driver))' <=> Trusted(b)
         /\ (UpToDate(Driver))' <=> UpToDate(b)
<1>1. b = [chan |-> b.chan, board |-> b.board, chip |-> b.chip] BY DEF Outcome
<1>2. Driver' = b BY <1>1 DEF Driver, Becomes
<1> QED BY <1>2 DEF Trusted, UpToDate, Wanted

LEMMA ConfigureKeeps ==
  ASSUME ServoInv, NEW s \in Settings, Configure(s)
  PROVE  ServoInv'
<1> DEFINE same == s.address = settings.address /\ s.fitted = settings.fitted
           present == board.present /\ same
           c == [ch \in Channel |-> Configured(s, ch, present)]
           k0 == [board EXCEPT !.present = present]
           Before(k) == [chan |-> c, chip |-> k, board |-> k0]
<1> USE DEF ServoInv
<1>1. board \in BoardState /\ chip \in ChipState BY DEF Driver, Outcome
<1>2. present \in BOOLEAN BY <1>1 DEF BoardState
<1>3. c \in [Channel -> ChannelState] BY <1>2, ConfiguredTyped
<1>4. k0 \in BoardState /\ k0.present = present /\ k0.written = board.written
  BY <1>1, <1>2 DEF BoardState
<1>5. PICK k \in IF s.address = settings.address THEN {chip} ELSE Chip :
        \E b1 \in IF s.fitted THEN Checks(Before(k)) ELSE {Before(k)} :
          Becomes(b1) /\ chan' = b1.chan
  BY DEF Configure
<1>6. k \in ChipState BY <1>1, <1>5, ChipTyped
<1>7. Before(k) \in Outcome BY <1>3, <1>4, <1>6 DEF Outcome
<1>8. Trusted(Before(k))
  <2>1. CASE present
    <3>1. k = chip BY <1>5, <2>1
    <3> QED BY <1>4, <2>1, <3>1 DEF Trusted, Driver
  <2>2. CASE ~present BY <1>4, <2>2 DEF Trusted
  <2> QED BY <2>1, <2>2
<1>9. PICK b1 \in IF s.fitted THEN Checks(Before(k)) ELSE {Before(k)} :
        Becomes(b1) /\ chan' = b1.chan
  BY <1>5
<1>10. b1 \in Outcome /\ Trusted(b1) BY <1>7, <1>8, <1>9, ChecksAreSafe
<1>11. Driver' \in Outcome /\ (Trusted(Driver))' BY <1>9, <1>10, SameOutcome
<1>12. settings' \in Settings /\ ~polled' BY DEF Configure
<1> QED BY <1>11, <1>12

LEMMA SetKeeps ==
  ASSUME ServoInv, NEW ch \in Channel, NEW position \in Position, Set(ch, position)
  PROVE  ServoInv'
<1> DEFINE c == [chan[ch] EXCEPT !.target = position]
           n == MovedTo(settings, ch, c, Goal(settings, ch, position), TRUE,
                        board.present)
<1> USE DEF ServoInv
<1>1. board \in BoardState /\ chip \in ChipState /\ chan \in [Channel -> ChannelState]
  BY DEF Driver, Outcome
<1>2. c \in ChannelState BY <1>1 DEF ChannelState
<1>3. board.present \in BOOLEAN BY <1>1 DEF BoardState
<1>4. n \in ChannelState BY <1>2, <1>3, GoalTyped, MovedToTyped
<1>5. chan' = [chan EXCEPT ![ch] = n] BY DEF Set
<1>6. chan' \in [Channel -> ChannelState] BY <1>1, <1>4, <1>5
<1>7. board' = board /\ chip' = chip /\ settings' = settings /\ ~polled' BY DEF Set
<1>8. Driver' \in Outcome BY <1>1, <1>6, <1>7 DEF Driver, Outcome
<1>9. (Trusted(Driver))' BY <1>7 DEF Trusted, Driver
<1> QED BY <1>7, <1>8, <1>9

LEMMA PollKeeps ==
  ASSUME ServoInv, Poll
  PROVE  ServoInv'
<1> DEFINE c == [ch \in Channel |-> IF settings.fitted /\ frameDue
                                   THEN Stepped(ch) ELSE chan[ch]]
           stepped == [chan |-> c, board |-> board, chip |-> chip]
<1> USE DEF ServoInv
<1>1. board \in BoardState /\ chip \in ChipState /\ chan \in [Channel -> ChannelState]
  BY DEF Driver, Outcome
<1>2. c \in [Channel -> ChannelState] BY <1>1, SteppedTyped
<1>3. stepped \in Outcome BY <1>1, <1>2 DEF Outcome
<1>4. Trusted(stepped) BY DEF Trusted, Driver
<1>5. PICK b1 \in Flushes(stepped) :
        \E b2 \in IF settings.fitted /\ b1.board.sinceCheck >= CHECK
                  THEN Checks(b1) ELSE {b1} :
          /\ Becomes(b2)
          /\ chan' = [ch \in Channel |-> [b2.chan[ch] EXCEPT !.arrived = FALSE]]
  BY DEF Poll
<1>6. b1 \in Outcome /\ Trusted(b1) /\ UpToDate(b1)
  BY <1>3, <1>4, FlushesAreSafe
<1>7. PICK b2 \in IF settings.fitted /\ b1.board.sinceCheck >= CHECK
                  THEN Checks(b1) ELSE {b1} :
          /\ Becomes(b2)
          /\ chan' = [ch \in Channel |-> [b2.chan[ch] EXCEPT !.arrived = FALSE]]
  BY <1>5
<1>8. b2 \in Outcome /\ Trusted(b2) /\ UpToDate(b2)
  BY <1>6, <1>7, ChecksAreSafe
<1>9. /\ b2.board \in BoardState /\ b2.chip \in ChipState
      /\ b2.chan \in [Channel -> ChannelState]
  BY <1>8 DEF Outcome
<1>10. ASSUME NEW ch \in Channel
       PROVE  /\ [b2.chan[ch] EXCEPT !.arrived = FALSE] \in ChannelState
              /\ Pwm([b2.chan[ch] EXCEPT !.arrived = FALSE]) = Pwm(b2.chan[ch])
  <2>1. b2.chan[ch] \in ChannelState BY <1>9
  <2> QED BY <2>1 DEF ChannelState, Pwm
<1>11. chan' \in [Channel -> ChannelState] BY <1>7, <1>10
<1>12. board' = b2.board /\ chip' = b2.chip BY <1>7 DEF Becomes
<1>13. Driver' \in Outcome BY <1>9, <1>11, <1>12 DEF Driver, Outcome
<1>14. (Trusted(Driver))' BY <1>8, <1>12 DEF Trusted, Driver
<1>15. (Wanted(Driver))' = Wanted(b2) BY <1>7, <1>10 DEF Wanted, Driver
<1>16. (UpToDate(Driver))' BY <1>8, <1>12, <1>15 DEF UpToDate, Driver
<1>17. settings' = settings BY DEF Poll
<1> QED BY <1>13, <1>14, <1>16, <1>17

LEMMA PowerCutKeeps ==
  ASSUME ServoInv, PowerCut
  PROVE  ServoInv'
<1> USE DEF ServoInv
<1>1. board \in BoardState /\ chan \in [Channel -> ChannelState]
  BY DEF Driver, Outcome
<1>2. chip' \in ChipState /\ ~chip'.awake BY DEF PowerCut, ChipState, Off
<1>3. UNCHANGED <<settings, chan, board, polled>> BY DEF PowerCut
<1>4. Driver' \in Outcome BY <1>1, <1>2, <1>3 DEF Driver, Outcome
<1>5. (Trusted(Driver))' BY <1>2 DEF Trusted, Driver
<1>6. (UpToDate(Driver))' <=> UpToDate(Driver) BY <1>3 DEF UpToDate, Wanted, Driver
<1> QED BY <1>3, <1>4, <1>5, <1>6

LEMMA AgedTyped ==
  ASSUME NEW c \in ChannelState
  PROVE  Aged(c) \in ChannelState
<1> DEFINE m == IF c.move = Still THEN Still
                ELSE [c.move EXCEPT !.elapsed = Older(c.move.elapsed, c.move.duration)]
           r == Older(c.rest, JUMP_SETTLE)
<1>1. m \in Moves
  <2>1. Still \in Moves BY DEF Still, Moves
  <2>2. c.move \in Moves BY DEF ChannelState
  <2>3. Older(c.move.elapsed, c.move.duration) \in Nat BY <2>2 DEF Moves, Older
  <2> QED BY <2>1, <2>2, <2>3 DEF Moves
<1>2. r \in Nat BY ServoAssumption DEF ChannelState, Older
<1>3. [c EXCEPT !.rest = r] \in ChannelState BY <1>2 DEF ChannelState
<1>4. [[c EXCEPT !.rest = r] EXCEPT !.move = m] \in ChannelState
  BY <1>1, <1>3 DEF ChannelState
<1>5. [[c EXCEPT !.rest = r] EXCEPT !.move = m] = [c EXCEPT !.rest = r, !.move = m]
  BY DEF ChannelState
<1>6. Aged(c) = [c EXCEPT !.rest = r, !.move = m] BY DEF Aged
<1> QED BY <1>4, <1>5, <1>6

LEMMA TickKeeps ==
  ASSUME ServoInv, Tick
  PROVE  ServoInv'
<1> USE DEF ServoInv
<1>1. board \in BoardState /\ chip \in ChipState /\ chan \in [Channel -> ChannelState]
  BY DEF Driver, Outcome
<1>2. ASSUME NEW ch \in Channel PROVE Aged(chan[ch]) \in ChannelState
  BY <1>1, AgedTyped
<1>3. chan' \in [Channel -> ChannelState] BY <1>2 DEF Tick
<1>4. board' \in BoardState /\ board'.present = board.present /\ board'.written = board.written
  <2>1. Older(board.sinceCheck, CHECK) \in Nat
    BY <1>1, ServoAssumption DEF BoardState, Older
  <2> QED BY <1>1, <2>1 DEF Tick, BoardState
<1>5. chip' = chip /\ settings' = settings /\ ~polled' BY DEF Tick
<1>6. Driver' \in Outcome BY <1>1, <1>3, <1>4, <1>5 DEF Driver, Outcome
<1>7. (Trusted(Driver))' BY <1>4, <1>5 DEF Trusted, Driver
<1> QED BY <1>5, <1>6, <1>7

LEMMA UnchangedKeeps ==
  ASSUME ServoInv, UNCHANGED <<settings, chan, board, chip, polled>>
  PROVE  ServoInv'
BY DEF ServoInv, Driver, Outcome, Trusted, UpToDate, Wanted

(* ServoBoards: the driver's types, that it trusts what it wrote only where the
   board gives it, and that a poll leaves a board up to date, whichever
   transfers fail (ServoBoards::flush, init and check). *)
THEOREM BoardSafe == Spec => []ServoInv
<1>1. Init => ServoInv BY ServoInit
<1>2. ServoInv /\ [Next]_vars => ServoInv'
  <2> SUFFICES ASSUME ServoInv, [Next]_vars PROVE ServoInv' OBVIOUS
  <2>1. CASE \E s \in Settings : Configure(s) BY <2>1, ConfigureKeeps
  <2>2. CASE \E ch \in Channel, p \in Position : Set(ch, p) BY <2>2, SetKeeps
  <2>3. CASE Poll BY <2>3, PollKeeps
  <2>4. CASE PowerCut BY <2>4, PowerCutKeeps
  <2>5. CASE Line BY <2>5, UnchangedKeeps DEF Line
  <2>6. CASE Tick BY <2>6, TickKeeps
  <2>7. CASE UNCHANGED vars BY <2>7, UnchangedKeeps DEF vars
  <2> QED BY <2>1, <2>2, <2>3, <2>4, <2>5, <2>6, <2>7 DEF Next
<1> QED BY <1>1, <1>2, PTL DEF Spec

(* ServoBoards: after a poll, a board that answers and runs gives every channel
   the width that the driver wants, through transfers that failed half way,
   boards that went away and loads of the configuration. *)
THEOREM SentIsWanted == Spec => []SentAsWanted
<1>1. ServoInv => SentAsWanted
  <2> SUFFICES ASSUME ServoInv, polled, board.present, chip.awake,
                      NEW ch \in Channel
               PROVE  chip.out[ch] = Pwm(chan[ch])
    BY DEF SentAsWanted
  <2>1. board.written = chip.out BY DEF ServoInv, Trusted, Driver
  <2>2. board.written = Wanted(Driver) BY DEF ServoInv, UpToDate, Driver
  <2>3. Wanted(Driver)[ch] = Pwm(chan[ch]) BY DEF Wanted, Driver
  <2> QED BY <2>1, <2>2, <2>3
<1> QED BY <1>1, BoardSafe, PTL

-----------------------------------------------------------------------------
(* What a servo has been given. *)

IsServo(s, ch) == UseIn(s, ch) = "Servo"

(* A channel by itself: what is pulsed is somewhere known, what moves is pulsed
   and goes to a width that a servo can be given, and what has just arrived has
   not rested yet. *)
Kept(s, ch, c) ==
  /\ c.pulsing => c.known
  /\ c.move # Still => c.pulsing
  /\ c.known => c.settle >= SETTLE
  /\ IsServo(s, ch) /\ c.known => Bound(c) \in 1..FULL
  /\ c.arrived => c.move = Still /\ c.pulsing /\ c.rest = 0

(* A servo in position, on a board that answers and runs, has been given its
   width for as long as it rests; and for the settling time if its pulses have
   stopped. *)
Given(ch, ticks) ==
  shaft[ch].width = chan[ch].value /\ shaft[ch].ticks >= ticks
RestKnown(ch) ==
  /\ IsServo(settings, ch) /\ chan[ch].known /\ chan[ch].move = Still
  /\ board.present /\ chip.awake
  => /\ chan[ch].rest = 0 \/ Given(ch, Least(chan[ch].rest, SETTLE))
     /\ chan[ch].pulsing \/ Given(ch, SETTLE)

(* A servo that has been commanded is there, or on its way. *)
GoesTo(s, ch, c) ==
  /\ IsServo(s, ch) /\ c.known /\ c.target \in Position
  /\ Bound(c) = Goal(s, ch, c.target)

MovesInv ==
  /\ shaft \in [Channel -> [width : Int, ticks : Nat]]
  /\ owed \subseteq Channel
  /\ \A ch \in Channel :
       /\ Kept(settings, ch, chan[ch])
       /\ RestKnown(ch)
       /\ ch \in owed => GoesTo(settings, ch, chan[ch])
       /\ polled => ~chan[ch].arrived

-----------------------------------------------------------------------------
(* The steps of a channel *)

LEMMA ArrivedIs ==
  ASSUME NEW c \in ChannelState, NEW settle \in Nat, NEW present \in BOOLEAN
  PROVE  LET r == Arrived(c, settle, present) IN
         /\ r.value = c.value /\ r.known = c.known /\ r.target = c.target
         /\ r.pulsing = c.pulsing /\ r.move = Still /\ r.rest = 0 /\ r.settle = settle
         /\ r.arrived => c.announce
BY DEF Arrived, ChannelState

LEMMA GoalInRange ==
  ASSUME NEW s \in Settings, NEW ch \in Channel, NEW p, IsServo(s, ch)
  PROVE  Goal(s, ch, p) \in 1..FULL
<1>1. /\ s.channel[ch].closed \in Nat /\ s.channel[ch].thrown \in Nat
  BY SettingsTyped
<1>2. s.channel[ch].use = "Servo"
  BY DEF IsServo, UseIn
<1>3. /\ s.channel[ch].closed <= FULL /\ s.channel[ch].thrown <= FULL
      /\ s.channel[ch].closed # 0 /\ s.channel[ch].thrown # 0
  BY <1>2, ServoAssumption DEF Off
<1>4. \A w \in Nat : w # 0 /\ w <= FULL => w \in 1..FULL
  BY DEF FULL
<1> QED BY <1>1, <1>3, <1>4 DEF Goal

(* moveTo() *)
LEMMA MovedToDoes ==
  ASSUME NEW s \in Settings, NEW ch \in Channel, NEW c \in ChannelState,
         NEW to \in Nat, NEW announce \in BOOLEAN, NEW present \in BOOLEAN,
         c.known => c.settle >= SETTLE
  PROVE  LET r == MovedTo(s, ch, c, to, announce, present) IN
         /\ r.pulsing /\ r.known /\ Bound(r) = to /\ r.target = c.target
         /\ r.settle >= SETTLE
         /\ r.move = Still => r.rest = 0
         /\ r.arrived => announce /\ r.move = Still
<1> DEFINE span == Distance(s.channel[ch].thrown, s.channel[ch].closed)
           distance == Distance(to, c.value)
           time == s.channel[ch].time
           toldOf == announce /\ UseIn(s, ch) = "Servo"
           start == Started(c, toldOf)
           jump == ~c.known \/ (time = 0 /\ distance # 0)
           settle == IF jump THEN JUMP_SETTLE ELSE SETTLE
           there == [start EXCEPT !.value = to, !.known = TRUE]
           duration == (time * Least(distance, span)) \div span
           m == [from |-> c.value, to |-> to, elapsed |-> 0, duration |-> duration]
           r == MovedTo(s, ch, c, to, announce, present)
<1>1. /\ start \in ChannelState /\ start.pulsing /\ start.announce = toldOf
      /\ ~start.arrived /\ start.known = c.known /\ start.target = c.target
      /\ start.settle = c.settle /\ start.value = c.value
  <2>1. toldOf \in BOOLEAN OBVIOUS
  <2> HIDE DEF toldOf
  <2> QED BY <2>1 DEF Started, ChannelState
<1>2. settle \in Nat /\ settle >= SETTLE
  BY ServoAssumption
<1>3. CASE ~c.known \/ time = 0 \/ span = 0 \/ distance = 0
  <2>1. /\ there \in ChannelState /\ there.value = to /\ there.known
        /\ there.pulsing /\ there.target = c.target /\ there.announce = toldOf
    <3> HIDE DEF start, toldOf
    <3>1. [start EXCEPT !.value = to] \in ChannelState
      BY <1>1 DEF ChannelState
    <3>2. [[start EXCEPT !.value = to] EXCEPT !.known = TRUE] \in ChannelState
      BY <3>1 DEF ChannelState
    <3>3. there \in ChannelState
      BY <3>2 DEF ChannelState
    <3>4. /\ there.value = to /\ there.known /\ there.pulsing = start.pulsing
          /\ there.target = start.target /\ there.announce = start.announce
      BY <1>1 DEF ChannelState
    <3> QED BY <1>1, <3>3, <3>4
  <2>2. r = Arrived(there, settle, present)
    BY <1>3 DEF MovedTo
  <2> HIDE DEF there, settle, r, toldOf, jump
  <2>3. /\ r.value = to /\ r.known /\ r.target = c.target /\ r.pulsing
        /\ r.move = Still /\ r.rest = 0 /\ r.settle = settle
        /\ r.arrived => toldOf
    <3>1. there \in ChannelState /\ settle \in Nat
      BY <1>2, <2>1
    <3> DEFINE x == Arrived(there, settle, present)
    <3>2. /\ x.value = there.value /\ x.known = there.known /\ x.target = there.target
          /\ x.pulsing = there.pulsing /\ x.move = Still /\ x.rest = 0 /\ x.settle = settle
          /\ x.arrived => there.announce
      BY <3>1, ArrivedIs
    <3> HIDE DEF x
    <3> QED BY <2>1, <2>2, <3>2 DEF x
  <2> QED BY <1>2, <2>3 DEF Bound, r, toldOf
<1>4. CASE ~(~c.known \/ time = 0 \/ span = 0 \/ distance = 0)
  <2>1. r = [start EXCEPT !.move = m]
    BY <1>4 DEF MovedTo
  <2>2. m # Still /\ m.to = to
    <3>1. c.value \in Int /\ to # c.value
      BY <1>4 DEF ChannelState, Distance
    <3>2. m.from # m.to /\ Still.from = Still.to
      BY <3>1 DEF Still
    <3> QED BY <3>2
  <2> HIDE DEF start, m, r
  <2>3. /\ r.move = m /\ r.pulsing /\ r.known /\ r.target = c.target
        /\ r.settle = c.settle /\ ~r.arrived
    BY <1>1, <1>4, <2>1 DEF ChannelState
  <2> QED BY <1>4, <2>2, <2>3 DEF Bound, r
<1> QED BY <1>3, <1>4

LEMMA MovedToKept ==
  ASSUME NEW s \in Settings, NEW ch \in Channel, NEW c \in ChannelState,
         NEW p, NEW announce \in BOOLEAN, NEW present \in BOOLEAN,
         c.known => c.settle >= SETTLE
  PROVE  LET r == MovedTo(s, ch, c, Goal(s, ch, p), announce, present) IN
         /\ Kept(s, ch, r)
         /\ r.pulsing /\ r.known /\ Bound(r) = Goal(s, ch, p) /\ r.target = c.target
         /\ r.move = Still => r.rest = 0
         /\ r.arrived => announce
<1> DEFINE r == MovedTo(s, ch, c, Goal(s, ch, p), announce, present)
<1>1. Goal(s, ch, p) \in Nat
  BY GoalTyped
<1>2. /\ r.pulsing /\ r.known /\ Bound(r) = Goal(s, ch, p) /\ r.target = c.target
      /\ r.settle >= SETTLE
      /\ r.move = Still => r.rest = 0
      /\ r.arrived => announce /\ r.move = Still
  BY <1>1, MovedToDoes
<1> HIDE DEF r
<1>3. Kept(s, ch, r)
  BY <1>2, GoalInRange DEF Kept
<1> QED BY <1>2, <1>3 DEF r

(* step() *)
LEMMA SteppedDoes ==
  ASSUME NEW ch \in Channel, settings \in Settings, Driver \in Outcome,
         Kept(settings, ch, chan[ch])
  PROVE  LET c == chan[ch]
             r == Stepped(ch)
         IN /\ Kept(settings, ch, r)
            /\ r.known = c.known /\ r.target = c.target /\ Bound(r) = Bound(c)
            /\ \/ r.move # Still
               \/ r.move = Still /\ r.rest = 0 /\ r.pulsing
               \/ r = c
               \/ /\ c.move = Still /\ Rests(ch) /\ ~c.arrived /\ ~r.arrived
                  /\ r.move = Still /\ r.rest = c.rest /\ r.value = c.value /\ ~r.pulsing
<1> DEFINE c == chan[ch]
           r == Stepped(ch)
<1>1. c \in ChannelState /\ board.present \in BOOLEAN /\ c.move \in Moves
  BY DEF Driver, Outcome, BoardState, ChannelState
<1>2. CASE c.move # Still /\ c.move.elapsed >= c.move.duration
  <2> DEFINE there == [c EXCEPT !.value = c.move.to]
  <2>1. /\ there \in ChannelState /\ there.value = c.move.to /\ there.known = c.known
        /\ there.target = c.target /\ there.pulsing = c.pulsing
    <3>1. c.move.to \in Int
      BY <1>1 DEF Moves
    <3> HIDE DEF c
    <3> QED BY <1>1, <3>1 DEF ChannelState
  <2>2. r = Arrived(there, SETTLE, board.present)
    BY <1>2 DEF Stepped
  <2> HIDE DEF c, r, there
  <2>3. /\ r.value = c.move.to /\ r.known = c.known /\ r.target = c.target
        /\ r.pulsing = c.pulsing /\ r.move = Still /\ r.rest = 0 /\ r.settle = SETTLE
    BY <1>1, <2>1, <2>2, ArrivedIs, ServoAssumption
  <2>4. Kept(settings, ch, c) /\ c.pulsing /\ c.known
    BY <1>2 DEF Kept, c
  <2>5. Bound(r) = Bound(c)
    BY <1>2, <2>3 DEF Bound
  <2>6. Kept(settings, ch, r)
    BY <2>3, <2>4, <2>5, ServoAssumption DEF Kept
  <2> QED BY <2>3, <2>4, <2>5, <2>6 DEF c, r
<1>3. CASE c.move # Still /\ ~(c.move.elapsed >= c.move.duration)
  <2>1. r = [c EXCEPT !.value = Between(c.move)]
    BY <1>3 DEF Stepped
  <2> HIDE DEF c, r
  <2>2. /\ r.move = c.move /\ r.known = c.known /\ r.target = c.target
        /\ r.pulsing = c.pulsing /\ r.settle = c.settle /\ r.rest = c.rest
        /\ r.arrived = c.arrived
    BY <1>1, <2>1 DEF ChannelState
  <2>3. Bound(r) = Bound(c)
    BY <1>3, <2>2 DEF Bound
  <2>4. Kept(settings, ch, r)
    <3>1. Kept(settings, ch, c)
      BY DEF c
    <3> QED BY <2>2, <2>3, <3>1 DEF Kept
  <2> QED BY <1>3, <2>2, <2>3, <2>4 DEF c, r
<1>4. CASE c.move = Still /\ ~Rests(ch)
  <2>1. r = c
    BY <1>4 DEF Stepped
  <2> QED BY <2>1
<1>5. CASE c.move = Still /\ Rests(ch)
  <2>1. r = [c EXCEPT !.pulsing = FALSE]
    BY <1>5 DEF Stepped
  <2>2. c.pulsing /\ c.rest >= c.settle
    BY <1>5 DEF Rests
  <2> HIDE DEF c, r
  <2>3. /\ r.move = c.move /\ r.known = c.known /\ r.target = c.target
        /\ ~r.pulsing /\ r.settle = c.settle /\ r.rest = c.rest
        /\ r.arrived = c.arrived /\ r.value = c.value
    BY <1>1, <2>1 DEF ChannelState
  <2>4. Bound(r) = Bound(c)
    BY <2>3 DEF Bound
  <2>5. Kept(settings, ch, c)
    BY DEF c
  <2>6. ~c.arrived
    <3>1. c.settle >= SETTLE /\ c.settle \in Nat
      BY <1>1, <2>2, <2>5 DEF Kept, ChannelState
    <3> QED BY <2>2, <2>5, <3>1, ServoAssumption DEF Kept
  <2>7. Kept(settings, ch, r)
    BY <1>5, <2>3, <2>4, <2>5, <2>6 DEF Kept
  <2> QED BY <1>5, <2>3, <2>4, <2>6, <2>7 DEF c, r
<1> QED BY <1>2, <1>3, <1>4, <1>5

(* init(), of a channel *)
LEMMA SwingingDoes ==
  ASSUME NEW ch \in Channel, NEW c \in ChannelState, settings' \in Settings,
         Kept(settings', ch, c)
  PROVE  LET r == Swinging(ch, c) IN
         /\ Kept(settings', ch, r)
         /\ r.known = c.known /\ r.target = c.target /\ Bound(r) = Bound(c)
         /\ r.arrived = c.arrived /\ r.move = c.move /\ (c.pulsing => r.pulsing)
         /\ IsServo(settings', ch) /\ c.known /\ c.move = Still =>
              r.rest = 0 /\ r.pulsing
<1> DEFINE r == Swinging(ch, c)
<1>1. CASE IsServo(settings', ch) /\ c.known /\ c.move = Still
  <2>1. r = [c EXCEPT !.pulsing = TRUE, !.rest = 0, !.settle = JUMP_SETTLE]
    BY <1>1 DEF Swinging, IsServo
  <2> HIDE DEF r
  <2>2. /\ r.pulsing /\ r.rest = 0 /\ r.settle = JUMP_SETTLE /\ r.value = c.value
        /\ r.known = c.known /\ r.target = c.target /\ r.arrived = c.arrived
        /\ r.move = c.move
    BY <2>1 DEF ChannelState
  <2>3. Bound(r) = Bound(c)
    BY <2>2 DEF Bound
  <2>4. Kept(settings', ch, r)
    BY <1>1, <2>2, <2>3, ServoAssumption DEF Kept
  <2> QED BY <2>2, <2>3, <2>4 DEF r
<1>2. CASE ~(IsServo(settings', ch) /\ c.known /\ c.move = Still)
  <2>1. r = c
    BY <1>2 DEF Swinging, IsServo
  <2> QED BY <1>2, <2>1
<1> QED BY <1>1, <1>2

(* configure(), of a channel *)
LEMMA ConfiguredDoes ==
  ASSUME NEW s \in Settings, NEW ch \in Channel, NEW present \in BOOLEAN,
         Driver \in Outcome, Kept(settings, ch, chan[ch])
  PROVE  LET c == chan[ch]
             r == Configured(s, ch, present)
         IN /\ Kept(s, ch, r)
            /\ SameKind(s, ch) /\ c.pulsing => r.pulsing
            /\ SameKind(s, ch) /\ GoesTo(settings, ch, c) => GoesTo(s, ch, r)
            /\ \/ r.move # Still
               \/ r.rest = 0 /\ r.pulsing
               \/ ~r.known
               \/ /\ SameKind(s, ch) /\ r.rest = c.rest /\ r.value = c.value
                  /\ c.known /\ c.move = Still /\ (c.pulsing => r.pulsing)
<1> DEFINE c == chan[ch]
           d == IF SameKind(s, ch) THEN Repositioned(s, ch, present)
                ELSE PoweredOn(s, ch, present)
           r == Configured(s, ch, present)
           Done(x) == /\ Kept(s, ch, x)
                      /\ SameKind(s, ch) /\ c.pulsing => x.pulsing
                      /\ SameKind(s, ch) /\ GoesTo(settings, ch, c) => GoesTo(s, ch, x)
                      /\ \/ x.move # Still
                         \/ x.rest = 0 /\ x.pulsing
                         \/ ~x.known
                         \/ /\ SameKind(s, ch) /\ x.rest = c.rest /\ x.value = c.value
                            /\ c.known /\ c.move = Still /\ (c.pulsing => x.pulsing)
<1>1. c \in ChannelState /\ Kept(settings, ch, c)
  BY DEF Driver, Outcome
<1>2. SameKind(s, ch) => (IsServo(s, ch) <=> IsServo(settings, ch))
  BY DEF SameKind, IsServo
<1>3. ASSUME SameKind(s, ch) PROVE Done(d)
  <2> DEFINE told == c.move # Still /\ c.announce
             x == MovedTo(s, ch, c, Goal(s, ch, c.target), told, present)
  <2>1. d = IF c.target # "None" /\ Goal(s, ch, c.target) # Bound(c) THEN x ELSE c
    BY <1>3 DEF Repositioned
  <2>2. told \in BOOLEAN /\ (c.known => c.settle >= SETTLE)
    BY <1>1 DEF Kept
  <2> HIDE DEF c, d, told
  <2>3. /\ Kept(s, ch, x)
        /\ x.pulsing /\ x.known /\ Bound(x) = Goal(s, ch, c.target) /\ x.target = c.target
        /\ x.move = Still => x.rest = 0
    BY <1>1, <2>2, MovedToKept
  <2> HIDE DEF x
  <2>4. CASE d = x
    <3>1. GoesTo(settings, ch, c) => GoesTo(s, ch, d)
      BY <1>2, <1>3, <2>3, <2>4 DEF GoesTo
    <3> QED BY <2>3, <2>4, <3>1 DEF Done
  <2>5. CASE d = c /\ (c.target # "None" => Goal(s, ch, c.target) = Bound(c))
    <3>1. Kept(s, ch, c)
      BY <1>1, <1>2, <1>3 DEF Kept
    <3>2. GoesTo(settings, ch, c) => GoesTo(s, ch, c)
      BY <1>2, <1>3, <2>5 DEF GoesTo, Position
    <3> QED BY <1>3, <2>5, <3>1, <3>2 DEF Done
  <2> QED BY <2>1, <2>4, <2>5
<1>4. ASSUME ~SameKind(s, ch) PROVE Done(d)
  <2> DEFINE p == s.channel[ch].powerOn
             e == Reset(c)
             f == [e EXCEPT !.target = p]
             told == FALSE
             x == MovedTo(s, ch, f, Goal(s, ch, p), told, present)
  <2>1. /\ e \in ChannelState /\ ~e.known /\ ~e.pulsing /\ ~e.arrived /\ e.move = Still
    <3>1. Still \in Moves
      BY DEF Still, Moves
    <3> HIDE DEF c
    <3> QED BY <1>1, <3>1 DEF Reset, ChannelState
  <2>2. d = e \/ (p \in Position /\ d = x)
    <3>1. d = PoweredOn(s, ch, present)
      BY <1>4
    <3> HIDE DEF d
    <3>2. p \in Position \cup {"Leave"}
      BY SettingsTyped
    <3>3. CASE UseIn(s, ch) = "Unused" \/ p = "Leave"
      <4>1. PoweredOn(s, ch, present) = e
        BY <3>3 DEF PoweredOn
      <4> HIDE DEF e, x
      <4> QED BY <3>1, <4>1
    <3>4. CASE ~(UseIn(s, ch) = "Unused" \/ p = "Leave")
      <4>1. PoweredOn(s, ch, present) = x
        BY <3>4 DEF PoweredOn
      <4> HIDE DEF e, x
      <4> QED BY <3>1, <3>2, <3>4, <4>1
    <3> QED BY <3>3, <3>4
  <2>3. CASE d = e
    <3>1. Kept(s, ch, d)
      BY <2>1, <2>3 DEF Kept
    <3> QED BY <1>4, <2>1, <2>3, <3>1
  <2>4. CASE p \in Position /\ d = x
    <3> HIDE DEF c, d, e, p
    <3>1. f \in ChannelState /\ ~f.known
      BY <2>1, <2>4 DEF ChannelState
    <3>2. told \in BOOLEAN
      OBVIOUS
    <3> HIDE DEF f, told
    <3>3. /\ Kept(s, ch, x) /\ x.pulsing
          /\ x.move = Still => x.rest = 0
      BY <3>1, <3>2, MovedToKept
    <3> HIDE DEF x
    <3> QED BY <1>4, <2>4, <3>3
  <2> QED BY <2>2, <2>3, <2>4
<1>5. Done(d)
  BY <1>3, <1>4
<1>6. CASE UseIn(s, ch) = "Servo" /\ s.hold /\ d.known
  <2>1. r = [d EXCEPT !.pulsing = TRUE]
    BY <1>6 DEF Configured
  <2>2. d \in ChannelState
    <3>1. Repositioned(s, ch, present) \in ChannelState
            /\ PoweredOn(s, ch, present) \in ChannelState
      BY RepositionedTyped, PoweredOnTyped
    <3> QED BY <3>1
  <2> HIDE DEF c, d, r
  <2>3. /\ r.pulsing /\ r.known = d.known /\ r.move = d.move /\ r.rest = d.rest
        /\ r.settle = d.settle /\ r.arrived = d.arrived /\ r.value = d.value
        /\ r.target = d.target
    BY <2>1, <2>2 DEF ChannelState
  <2>4. Bound(r) = Bound(d)
    BY <2>3 DEF Bound
  <2>5. Kept(s, ch, r)
    BY <1>5, <1>6, <2>3, <2>4 DEF Kept
  <2>6. SameKind(s, ch) /\ GoesTo(settings, ch, c) => GoesTo(s, ch, r)
    BY <1>5, <2>3, <2>4 DEF GoesTo
  <2> QED BY <1>5, <2>3, <2>5, <2>6 DEF c, r
<1>7. CASE ~(UseIn(s, ch) = "Servo" /\ s.hold /\ d.known)
  <2>1. r = d
    BY <1>7 DEF Configured
  <2> QED BY <1>5, <2>1
<1> QED BY <1>6, <1>7

-----------------------------------------------------------------------------
(* What transfers, and setting a board up, make of the channels: a board that
   answers and runs has been all along, or has all servos given their widths
   anew. *)

SwungIn(b) == [ch \in Channel |-> Swinging(ch, b.chan[ch])]
RunsOnly(t, b) == t.board.present /\ t.chip.awake => b.board.present /\ b.chip.awake

LEMMA LostDoes ==
  ASSUME NEW b \in Outcome
  PROVE  Lost(b).chan = b.chan /\ ~Lost(b).board.present
<1>1. b.board \in BoardState
  BY DEF Outcome
<1> DEFINE k == [b.board EXCEPT !.present = FALSE, !.sinceCheck = 0]
<1>2. k.present = FALSE
  BY <1>1 DEF BoardState
<1>3. Lost(b) = [b EXCEPT !.board = k]
  BY DEF Lost, Outcome
<1> HIDE DEF k
<1> QED BY <1>2, <1>3 DEF Outcome

LEMMA TransfersDo ==
  ASSUME NEW b \in Outcome, NEW t \in Transfers(b)
  PROVE  t.chan = b.chan /\ RunsOnly(t, b)
<1> DEFINE s == Sent(b)
<1>1. /\ s.chan = b.chan /\ s.board.present = b.board.present
      /\ s.chip.awake = b.chip.awake /\ s.chip \in ChipState
  <2> DEFINE w == Wanted(b)
             o == IF b.chip.awake
                  THEN [ch \in Channel |-> IF w[ch] # b.board.written[ch] THEN w[ch]
                                           ELSE b.chip.out[ch]]
                  ELSE b.chip.out
             k == [b.board EXCEPT !.written = w]
             p == [b.chip EXCEPT !.out = o]
  <2>1. w \in [Channel -> Int]
    BY PwmIsWritten
  <2>2. b.board \in BoardState /\ b.chip \in ChipState
    BY DEF Outcome
  <2>3. o \in [Channel -> Int]
    BY <2>1, <2>2 DEF ChipState
  <2>4. s = [b EXCEPT !.board = k, !.chip = p]
    BY DEF Sent, Outcome
  <2> HIDE DEF w, o
  <2>5. p \in ChipState /\ p.awake = b.chip.awake /\ k.present = b.board.present
    BY <2>2, <2>3 DEF ChipState, BoardState
  <2> HIDE DEF k, p, s
  <2> QED BY <2>4, <2>5 DEF Outcome
<1>2. t = s \/ t = Lost(b) \/ t = Lost([b EXCEPT !.chip = s.chip])
  BY DEF Transfers
<1> HIDE DEF s
<1>3. CASE t = s
  BY <1>1, <1>3 DEF RunsOnly
<1>4. CASE t = Lost(b)
  BY <1>4, LostDoes DEF RunsOnly
<1>5. CASE t = Lost([b EXCEPT !.chip = s.chip])
  <2> DEFINE u == [b EXCEPT !.chip = s.chip]
  <2>1. u \in Outcome /\ u.chan = b.chan
    BY <1>1 DEF Outcome
  <2> HIDE DEF u
  <2> QED BY <1>5, <2>1, LostDoes DEF RunsOnly, u
<1> QED BY <1>2, <1>3, <1>4, <1>5

LEMMA FlushesDo ==
  ASSUME NEW b \in Outcome, NEW t \in Flushes(b)
  PROVE  t.chan = b.chan /\ RunsOnly(t, b)
BY TransfersDo DEF Flushes, RunsOnly

LEMMA InitsDo ==
  ASSUME NEW b \in Outcome, NEW t \in Inits(b),
         \A ch \in Channel : Swinging(ch, b.chan[ch]) \in ChannelState
  PROVE  t.chan = SwungIn(b) \/ (t.chan = b.chan /\ ~t.board.present)
<1> DEFINE r == Restarted(b)
           none == [ch \in Channel |-> NotWritten]
           k == [b.board EXCEPT !.present = TRUE, !.written = none]
           p == [b.chip EXCEPT !.awake = TRUE]
           c == SwungIn(b)
<1>1. b.board \in BoardState /\ b.chip \in ChipState
  BY DEF Outcome
<1>2. k \in BoardState
  <2>1. none \in [Channel -> Int]
    BY DEF NotWritten
  <2> HIDE DEF none
  <2> QED BY <1>1, <2>1 DEF BoardState
<1>3. p \in ChipState
  BY <1>1 DEF ChipState
<1>4. c \in [Channel -> ChannelState]
  BY DEF SwungIn
<1>5. r = [b EXCEPT !.board = k, !.chip = p, !.chan = c]
  BY DEF Restarted, Outcome, SwungIn
<1> HIDE DEF none, k, p, c, r
<1>6. r \in Outcome /\ r.chan = c
  BY <1>2, <1>3, <1>4, <1>5 DEF Outcome
<1>7. CASE t \in Transfers(r)
  BY <1>6, <1>7, TransfersDo DEF c
<1>8. CASE t \in {Lost([b EXCEPT !.chip.awake = a]) : a \in BOOLEAN}
  <2>1. PICK a \in BOOLEAN : t = Lost([b EXCEPT !.chip.awake = a])
    BY <1>8
  <2> DEFINE u == [b EXCEPT !.chip.awake = a]
  <2>2. [b.chip EXCEPT !.awake = a] \in ChipState
    BY <1>1 DEF ChipState
  <2>3. u \in Outcome /\ u.chan = b.chan
    BY <2>2 DEF Outcome
  <2> HIDE DEF u
  <2> QED BY <2>1, <2>3, LostDoes DEF u
<1> QED BY <1>7, <1>8 DEF Inits, r

LEMMA ChecksDo ==
  ASSUME NEW b \in Outcome, NEW t \in Checks(b),
         \A ch \in Channel : Swinging(ch, b.chan[ch]) \in ChannelState
  PROVE  t.chan = SwungIn(b) \/ (t.chan = b.chan /\ RunsOnly(t, b))
<1> DEFINE k == [b.board EXCEPT !.sinceCheck = 0]
           d == [b EXCEPT !.board.sinceCheck = 0]
<1>1. b.board \in BoardState
  BY DEF Outcome
<1>2. k \in BoardState /\ k.present = b.board.present
  BY <1>1 DEF BoardState
<1>3. d = [b EXCEPT !.board = k]
  BY DEF Outcome
<1> HIDE DEF k, d
<1>4. d \in Outcome /\ d.board = k /\ d.chip = b.chip /\ d.chan = b.chan
  BY <1>2, <1>3 DEF Outcome
<1>5. SwungIn(d) = SwungIn(b)
  BY <1>4 DEF SwungIn
<1>6. t = d \/ t \in Inits(d) \/ t = Lost(d)
  BY DEF Checks, d
<1>7. CASE t = d
  BY <1>2, <1>4, <1>7 DEF RunsOnly
<1>8. CASE t \in Inits(d)
  BY <1>4, <1>5, <1>8, InitsDo DEF RunsOnly
<1>9. CASE t = Lost(d)
  BY <1>4, <1>9, LostDoes DEF RunsOnly
<1> QED BY <1>6, <1>7, <1>8, <1>9

-----------------------------------------------------------------------------
(* What the steps make of a channel. *)

Same(q, c) == q.known = c.known /\ q.target = c.target /\ Bound(q) = Bound(c)

(* That a poll makes q of a channel, before the arrival is taken. *)
PolledTo(ch, q) ==
  /\ q \in ChannelState /\ Kept(settings, ch, q) /\ Same(q, chan[ch])
  /\ chan'[ch] = [q EXCEPT !.arrived = FALSE]
  /\ \/ q.move # Still
     \/ q.rest = 0 /\ q.pulsing
     \/ ~(IsServo(settings, ch) /\ q.known) /\ (chan[ch].pulsing => q.pulsing)
     \/ /\ board'.present /\ chip'.awake => board.present /\ chip.awake
        /\ q.rest = chan[ch].rest /\ q.value = chan[ch].value
        /\ chan[ch].move = Still
        /\ q.pulsing = chan[ch].pulsing \/ Rests(ch)
  /\ ch \in owed' => ch \in owed
  /\ ch \in owed \ owed' /\ board'.present => q.arrived

LEMMA PollDoes ==
  ASSUME ServoInv, MovesInv, Poll, NEW ch \in Channel
  PROVE  \E q : PolledTo(ch, q)
<1> DEFINE c == [k \in Channel |-> IF settings.fitted /\ frameDue THEN Stepped(k)
                                   ELSE chan[k]]
           stepped == [chan |-> c, board |-> board, chip |-> chip]
<1>1. /\ board \in BoardState /\ chip \in ChipState /\ chan \in [Channel -> ChannelState]
      /\ settings \in Settings /\ settings' = settings /\ Driver \in Outcome
  BY DEF ServoInv, Driver, Outcome, Poll
<1>2. c \in [Channel -> ChannelState]
  BY <1>1, SteppedTyped
<1>3. stepped \in Outcome
  BY <1>1, <1>2 DEF Outcome
<1>4. PICK b1 \in Flushes(stepped) :
        \E b2 \in IF settings.fitted /\ b1.board.sinceCheck >= CHECK
                  THEN Checks(b1) ELSE {b1} :
          /\ Becomes(b2)
          /\ chan' = [k \in Channel |-> [b2.chan[k] EXCEPT !.arrived = FALSE]]
          /\ owed' = IF b2.board.present
                     THEN {k \in owed : ~b2.chan[k].arrived} ELSE {}
  BY DEF Poll
<1>5. PICK b2 \in IF settings.fitted /\ b1.board.sinceCheck >= CHECK
                  THEN Checks(b1) ELSE {b1} :
          /\ Becomes(b2)
          /\ chan' = [k \in Channel |-> [b2.chan[k] EXCEPT !.arrived = FALSE]]
          /\ owed' = IF b2.board.present
                     THEN {k \in owed : ~b2.chan[k].arrived} ELSE {}
  BY <1>4
<1> DEFINE q == b2.chan[ch]
<1>6. b1 \in Outcome /\ b1.chan = c /\ RunsOnly(b1, stepped)
  <2>1. Trusted(stepped)
    BY DEF ServoInv, Trusted, Driver
  <2> HIDE DEF stepped
  <2>2. b1 \in Outcome /\ b1.chan = stepped.chan /\ RunsOnly(b1, stepped)
    BY <1>3, <2>1, FlushesAreSafe, FlushesDo
  <2> QED BY <2>2 DEF stepped
<1>7. RunsOnly(b1, stepped) <=> (b1.board.present /\ b1.chip.awake => board.present /\ chip.awake)
  BY DEF RunsOnly
<1> HIDE DEF stepped
<1>8. \A k \in Channel :
        /\ Kept(settings, k, c[k]) /\ Same(c[k], chan[k])
        /\ \/ c[k].move # Still
           \/ c[k].rest = 0 /\ c[k].pulsing
           \/ /\ c[k].move = Still /\ chan[k].move = Still
              /\ c[k].rest = chan[k].rest /\ c[k].value = chan[k].value
              /\ c[k].pulsing = chan[k].pulsing \/ Rests(k)
  <2> SUFFICES ASSUME NEW k \in Channel
               PROVE  /\ Kept(settings, k, c[k]) /\ Same(c[k], chan[k])
                      /\ \/ c[k].move # Still
                         \/ c[k].rest = 0 /\ c[k].pulsing
                         \/ /\ c[k].move = Still /\ chan[k].move = Still
                            /\ c[k].rest = chan[k].rest /\ c[k].value = chan[k].value
                            /\ c[k].pulsing = chan[k].pulsing \/ Rests(k)
    OBVIOUS
  <2>1. Kept(settings, k, chan[k])
    BY DEF MovesInv
  <2>2. CASE c[k] = chan[k]
    BY <2>1, <2>2 DEF Same
  <2>3. CASE c[k] = Stepped(k)
    <3> DEFINE r == Stepped(k)
    <3>1. /\ Kept(settings, k, r)
          /\ r.known = chan[k].known /\ r.target = chan[k].target
          /\ Bound(r) = Bound(chan[k])
          /\ \/ r.move # Still
             \/ r.move = Still /\ r.rest = 0 /\ r.pulsing
             \/ r = chan[k]
             \/ /\ chan[k].move = Still /\ Rests(k)
                /\ r.move = Still /\ r.rest = chan[k].rest /\ r.value = chan[k].value
      BY <1>1, <2>1, SteppedDoes
    <3>2. c[k] = r
      BY <2>3
    <3> HIDE DEF r, c
    <3> QED BY <3>1, <3>2 DEF Same
  <2> QED BY <2>2, <2>3
<1> HIDE DEF c
<1>9. ASSUME NEW k \in Channel
      PROVE  /\ Swinging(k, c[k]) \in ChannelState
             /\ LET r == Swinging(k, c[k]) IN
                /\ Kept(settings, k, r)
                /\ Same(r, c[k]) /\ r.arrived = c[k].arrived /\ r.move = c[k].move
                /\ c[k].pulsing => r.pulsing
                /\ IsServo(settings, k) /\ c[k].known /\ c[k].move = Still =>
                     r.rest = 0 /\ r.pulsing
  <2> DEFINE r == Swinging(k, c[k])
  <2>1. c[k] \in ChannelState /\ Kept(settings', k, c[k]) /\ settings' \in Settings
    BY <1>1, <1>2, <1>8
  <2>2. /\ Kept(settings', k, r)
        /\ r.known = c[k].known /\ r.target = c[k].target /\ Bound(r) = Bound(c[k])
        /\ r.arrived = c[k].arrived /\ r.move = c[k].move
        /\ c[k].pulsing => r.pulsing
        /\ IsServo(settings', k) /\ c[k].known /\ c[k].move = Still =>
             r.rest = 0 /\ r.pulsing
    BY <2>1, SwingingDoes
  <2>3. r \in ChannelState
    BY <2>1, SwingingTyped
  <2> HIDE DEF r
  <2>4. Same(r, c[k])
    BY <2>2 DEF Same
  <2> QED BY <1>1, <2>2, <2>3, <2>4 DEF r
<1>10. /\ chan'[ch] = [q EXCEPT !.arrived = FALSE]
       /\ ch \in owed' => ch \in owed
       /\ ch \in owed \ owed' /\ board'.present => q.arrived
       /\ board' = b2.board /\ chip' = b2.chip
  BY <1>5 DEF Becomes
<1>11. CASE b2.chan = SwungIn(b1)
  <2>1. q = Swinging(ch, c[ch])
    BY <1>6, <1>11 DEF SwungIn
  <2> HIDE DEF q
  <2>2. /\ q \in ChannelState /\ Kept(settings, ch, q) /\ Same(q, c[ch])
        /\ q.move = c[ch].move /\ (c[ch].pulsing => q.pulsing)
        /\ IsServo(settings, ch) /\ c[ch].known /\ c[ch].move = Still =>
             q.rest = 0 /\ q.pulsing
    BY <1>9, <2>1
  <2>3. Same(q, chan[ch])
    BY <1>8, <2>2 DEF Same
  <2>4. q.known = c[ch].known /\ c[ch].known = chan[ch].known
    BY <1>8, <2>2 DEF Same
  <2>5. \/ q.move # Still
        \/ q.rest = 0 /\ q.pulsing
        \/ ~(IsServo(settings, ch) /\ q.known) /\ (chan[ch].pulsing => q.pulsing)
    <3>1. CASE IsServo(settings, ch) /\ q.known
      BY <2>2, <2>4, <3>1
    <3>2. CASE ~q.known
      <4>1. ~chan[ch].pulsing
        BY <2>4, <3>2 DEF MovesInv, Kept
      <4> QED BY <3>2, <4>1
    <3>3. CASE ~IsServo(settings, ch) /\ q.move = Still
      <4>1. ~Rests(ch)
        BY <3>3 DEF Rests, IsServo
      <4>2. c[ch].pulsing \/ c[ch].pulsing = chan[ch].pulsing
        BY <1>8, <2>2, <3>3, <4>1
      <4> QED BY <2>2, <3>3, <4>2
    <3> QED BY <3>1, <3>2, <3>3
  <2>6. PolledTo(ch, q)
    BY <1>10, <2>2, <2>3, <2>5 DEF PolledTo
  <2> QED BY <2>6
<1>12. CASE b2.chan = b1.chan /\ RunsOnly(b2, b1)
  <2>1. q = c[ch]
    BY <1>6, <1>12
  <2>2. board'.present /\ chip'.awake => board.present /\ chip.awake
    BY <1>6, <1>7, <1>10, <1>12 DEF RunsOnly
  <2> HIDE DEF q
  <2>3. PolledTo(ch, q)
    BY <1>2, <1>8, <1>10, <2>1, <2>2 DEF PolledTo
  <2> QED BY <2>3
<1>13. b2.chan = SwungIn(b1) \/ (b2.chan = b1.chan /\ RunsOnly(b2, b1))
  <2>1. CASE b2 \in Checks(b1)
    <3>1. \A k \in Channel : Swinging(k, b1.chan[k]) \in ChannelState
      BY <1>6, <1>9
    <3> QED BY <1>6, <2>1, <3>1, ChecksDo
  <2>2. CASE b2 = b1
    BY <2>2 DEF RunsOnly
  <2> QED BY <1>5, <2>1, <2>2
<1> QED BY <1>11, <1>12, <1>13

LEMMA AgedDoes ==
  ASSUME NEW c \in ChannelState
  PROVE  LET r == Aged(c) IN
         /\ r.value = c.value /\ r.known = c.known /\ r.target = c.target
         /\ r.pulsing = c.pulsing /\ r.settle = c.settle /\ r.arrived = c.arrived
         /\ r.rest = Older(c.rest, JUMP_SETTLE)
         /\ r.move = Still <=> c.move = Still
         /\ Bound(r) = Bound(c)
<1> DEFINE m == IF c.move = Still THEN Still
                ELSE [c.move EXCEPT !.elapsed = Older(c.move.elapsed, c.move.duration)]
           n == Older(c.rest, JUMP_SETTLE)
           r == Aged(c)
<1>1. c.move \in Moves
  BY DEF ChannelState
<1>2. c.move # Still => m # Still /\ m.to = c.move.to
  <2> SUFFICES ASSUME c.move # Still PROVE m # Still /\ m.to = c.move.to
    OBVIOUS
  <2>1. CASE c.move.duration = 0
    <3>1. Older(c.move.elapsed, c.move.duration) = c.move.elapsed
      BY <1>1, <2>1 DEF Moves, Older
    <3>2. m = c.move
      BY <1>1, <3>1 DEF Moves
    <3> QED BY <3>2
  <2>2. CASE c.move.duration # 0
    <3>1. m.duration = c.move.duration /\ m.to = c.move.to
      BY <1>1 DEF Moves
    <3>2. Still.duration = 0
      BY DEF Still
    <3> HIDE DEF m
    <3> QED BY <2>2, <3>1, <3>2
  <2> QED BY <2>1, <2>2
<1>3. c.move = Still => m = Still
  OBVIOUS
<1>4. r = [c EXCEPT !.rest = n, !.move = m]
  BY DEF Aged
<1> HIDE DEF m, n, r
<1>5. /\ r.value = c.value /\ r.known = c.known /\ r.target = c.target
      /\ r.pulsing = c.pulsing /\ r.settle = c.settle /\ r.arrived = c.arrived
      /\ r.rest = n /\ r.move = m
  BY <1>4 DEF ChannelState
<1>6. Bound(r) = Bound(c)
  BY <1>2, <1>3, <1>5 DEF Bound
<1> QED BY <1>2, <1>3, <1>5, <1>6 DEF n, r

-----------------------------------------------------------------------------
(* The moves. *)

LEMMA PollKeepsMoves ==
  ASSUME ServoInv, MovesInv, Poll
  PROVE  MovesInv'
<1>1. settings' = settings /\ shaft' = shaft /\ polled' /\ Driver \in Outcome
  BY DEF Poll, ServoInv
<1>2. ASSUME NEW ch \in Channel
      PROVE  /\ Kept(settings', ch, chan'[ch])
             /\ RestKnown(ch)'
             /\ ch \in owed' => ch \in owed /\ GoesTo(settings', ch, chan'[ch])
             /\ ~chan'[ch].arrived
  <2>1. PICK q : PolledTo(ch, q)
    BY PollDoes
  <2> DEFINE c == chan[ch]
             n == chan'[ch]
  <2>2. c \in ChannelState
    BY <1>1 DEF Driver, Outcome
  <2>3. q \in ChannelState /\ Kept(settings, ch, q) /\ Same(q, c)
    BY <2>1 DEF PolledTo
  <2>4. n = [q EXCEPT !.arrived = FALSE]
    BY <2>1 DEF PolledTo
  <2>5. /\ n.value = q.value /\ n.known = q.known /\ n.target = q.target
        /\ n.move = q.move /\ n.pulsing = q.pulsing /\ n.rest = q.rest
        /\ n.settle = q.settle /\ ~n.arrived
    BY <2>3, <2>4 DEF ChannelState
  <2>6. Bound(n) = Bound(q)
    BY <2>5 DEF Bound
  <2> HIDE DEF c, n
  <2>7. Kept(settings, ch, n)
    BY <2>3, <2>5, <2>6 DEF Kept
  <2>8. ch \in owed' => ch \in owed /\ GoesTo(settings, ch, n)
    <3>1. ch \in owed' => ch \in owed
      BY <2>1 DEF PolledTo
    <3>2. ch \in owed => GoesTo(settings, ch, c)
      BY DEF MovesInv, c
    <3> QED BY <2>3, <2>5, <2>6, <3>1, <3>2 DEF GoesTo, Same
  <2>9. ASSUME IsServo(settings, ch), n.known, n.move = Still, board'.present, chip'.awake
        PROVE  /\ n.rest = 0 \/ (shaft[ch].width = n.value /\ shaft[ch].ticks >= Least(n.rest, SETTLE))
               /\ n.pulsing \/ (shaft[ch].width = n.value /\ shaft[ch].ticks >= SETTLE)
    <3>1. CASE q.rest = 0 /\ q.pulsing
      BY <2>5, <3>1
    <3>2. CASE /\ board.present /\ chip.awake
               /\ q.rest = c.rest /\ q.value = c.value /\ c.move = Still
               /\ q.pulsing = c.pulsing \/ Rests(ch)
      <4>1. c.known
        BY <2>3, <2>5, <2>9 DEF Same
      <4>2. /\ c.rest = 0 \/ Given(ch, Least(c.rest, SETTLE))
            /\ c.pulsing \/ Given(ch, SETTLE)
        BY <2>9, <3>2, <4>1 DEF MovesInv, RestKnown, c
      <4>3. Rests(ch) => Given(ch, SETTLE)
        <5> SUFFICES ASSUME Rests(ch) PROVE Given(ch, SETTLE)
          OBVIOUS
        <5>1. c.rest >= c.settle
          BY DEF Rests, c
        <5>2. c.settle >= SETTLE /\ c.settle \in Nat /\ c.rest \in Nat
          BY <2>2, <4>1 DEF MovesInv, Kept, ChannelState, c
        <5>3. c.rest # 0 /\ Least(c.rest, SETTLE) = SETTLE
          BY <5>1, <5>2, ServoAssumption DEF Least
        <5> QED BY <4>2, <5>3
      <4> QED BY <2>5, <3>2, <4>2, <4>3 DEF Given, c
    <3>3. \/ q.rest = 0 /\ q.pulsing
          \/ /\ board.present /\ chip.awake
             /\ q.rest = c.rest /\ q.value = c.value /\ c.move = Still
             /\ q.pulsing = c.pulsing \/ Rests(ch)
      BY <2>1, <2>5, <2>9 DEF PolledTo, c
    <3> QED BY <3>1, <3>2, <3>3
  <2>10. RestKnown(ch)'
    BY <1>1, <2>9 DEF RestKnown, Given, n
  <2> QED BY <1>1, <2>5, <2>7, <2>8, <2>10 DEF n
<1>3. owed' \subseteq Channel
  BY DEF MovesInv, Poll
<1> QED BY <1>1, <1>2, <1>3 DEF MovesInv

LEMMA SetKeepsMoves ==
  ASSUME ServoInv, MovesInv, NEW ch \in Channel, NEW position \in Position,
         Set(ch, position)
  PROVE  MovesInv' /\ \A k \in Channel : chan[k].pulsing => chan'[k].pulsing
<1> DEFINE c == [chan[ch] EXCEPT !.target = position]
           told == TRUE
           n == MovedTo(settings, ch, c, Goal(settings, ch, position), told, board.present)
<1>1. /\ settings \in Settings /\ chan \in [Channel -> ChannelState]
      /\ board.present \in BOOLEAN
  BY DEF ServoInv, Driver, Outcome, BoardState
<1>2. chan[ch] \in ChannelState
  BY <1>1
<1>3. /\ c \in ChannelState /\ c.target = position
      /\ c.known => c.settle >= SETTLE
  BY <1>2 DEF ChannelState, MovesInv, Kept
<1>4. told \in BOOLEAN
  OBVIOUS
<1>5. chan' = [chan EXCEPT ![ch] = n]
  BY DEF Set
<1>6. UNCHANGED <<settings, board, chip, shaft>> /\ ~polled'
  BY DEF Set
<1> HIDE DEF c, told
<1>7. /\ Kept(settings, ch, n) /\ n.pulsing /\ n.known
      /\ Bound(n) = Goal(settings, ch, position) /\ n.target = position
      /\ n.move = Still => n.rest = 0
  BY <1>1, <1>3, <1>4, MovedToKept
<1> HIDE DEF n
<1>8. chan'[ch] = n /\ \A k \in Channel : k # ch => chan'[k] = chan[k]
  BY <1>1, <1>5
<1>9. /\ owed' \subseteq Channel
      /\ \A k \in owed' : k \in owed \/ k = ch
      /\ ch \in owed' => IsServo(settings, ch)
  BY DEF MovesInv, Set, IsServo
<1>10. ASSUME NEW k \in Channel
       PROVE  /\ Kept(settings, k, chan'[k])
              /\ RestKnown(k)'
              /\ k \in owed' => GoesTo(settings, k, chan'[k])
  <2>1. CASE k = ch
    <3>1. RestKnown(ch)'
      BY <1>7, <1>8 DEF RestKnown
    <3>2. ch \in owed' => GoesTo(settings, ch, n)
      BY <1>7, <1>9 DEF GoesTo
    <3> QED BY <1>7, <1>8, <2>1, <3>1, <3>2
  <2>2. CASE k # ch
    <3>1. RestKnown(k)'
      BY <1>6, <1>8, <2>2 DEF MovesInv, RestKnown, Given
    <3> QED BY <1>8, <1>9, <2>2, <3>1 DEF MovesInv
  <2> QED BY <2>1, <2>2
<1>11. MovesInv'
  BY <1>6, <1>9, <1>10 DEF MovesInv
<1> QED BY <1>7, <1>8, <1>11

LEMMA TickKeepsMoves ==
  ASSUME ServoInv, MovesInv, Tick
  PROVE  MovesInv'
<1>1. /\ settings' = settings /\ chip' = chip /\ owed' = owed /\ polled /\ ~polled'
      /\ settings \in Settings /\ chan \in [Channel -> ChannelState]
      /\ board \in BoardState /\ board'.present = board.present
      /\ chip \in ChipState /\ SETTLE \in Nat /\ SETTLE >= 1 /\ JUMP_SETTLE \in Nat
  <2>1. board'.present = board.present
    BY DEF Tick, ServoInv, Driver, Outcome, BoardState
  <2> QED BY <2>1, ServoAssumption DEF Tick, ServoInv, Driver, Outcome
<1>2. ASSUME NEW ch \in Channel
      PROVE  /\ shaft'[ch] \in [width : Int, ticks : Nat]
             /\ chip.awake /\ chip.out[ch] # Off => shaft'[ch].width = chip.out[ch]
             /\ chip.awake /\ chip.out[ch] # Off => shaft'[ch].ticks >= 1
             /\ ~(chip.awake /\ chip.out[ch] # Off) => shaft'[ch] = shaft[ch]
  <2>1. shaft'[ch] = Pulsed(ch)
    BY DEF Tick
  <2>2. shaft[ch] \in [width : Int, ticks : Nat] /\ chip.out[ch] \in Int
    BY <1>1 DEF MovesInv, ChipState
  <2>3. shaft[ch].ticks \in Nat /\ Least(1, SETTLE) = 1
        /\ Older(shaft[ch].ticks, SETTLE) \in Nat /\ Older(shaft[ch].ticks, SETTLE) >= 1
    BY <1>1, <2>2 DEF Least, Older
  <2> QED BY <2>1, <2>2, <2>3 DEF Pulsed
<1>3. ASSUME NEW ch \in Channel
      PROVE  /\ Kept(settings, ch, chan'[ch])
             /\ RestKnown(ch)'
             /\ ch \in owed => GoesTo(settings, ch, chan'[ch])
  <2> DEFINE c == chan[ch]
             n == chan'[ch]
  <2>1. c \in ChannelState /\ c.rest \in Nat /\ c.value \in Int
    BY <1>1 DEF ChannelState
  <2>2. n = Aged(c)
    BY DEF Tick
  <2> HIDE DEF c, n
  <2>3. /\ n.value = c.value /\ n.known = c.known /\ n.target = c.target
        /\ n.pulsing = c.pulsing /\ n.settle = c.settle /\ n.arrived = c.arrived
        /\ n.rest = Older(c.rest, JUMP_SETTLE)
        /\ n.move = Still <=> c.move = Still
        /\ Bound(n) = Bound(c)
    BY <2>1, <2>2, AgedDoes
  <2>4. /\ Kept(settings, ch, c) /\ RestKnown(ch) /\ ~c.arrived
        /\ ch \in owed => GoesTo(settings, ch, c)
    BY <1>1 DEF MovesInv, c
  <2>5. Kept(settings, ch, n)
    BY <2>3, <2>4 DEF Kept
  <2>6. ch \in owed => GoesTo(settings, ch, n)
    BY <2>3, <2>4 DEF GoesTo
  <2>7. ASSUME IsServo(settings, ch), n.known, n.move = Still, board.present, chip.awake
        PROVE  /\ shaft'[ch].width = n.value /\ shaft'[ch].ticks >= Least(n.rest, SETTLE)
               /\ n.pulsing \/ (shaft'[ch].width = n.value /\ shaft'[ch].ticks >= SETTLE)
    <3>1. c.value \in 1..FULL /\ c.value # Off /\ Least(c.value, FULL) = c.value
      <4>1. Bound(c) = c.value
        BY <2>3, <2>7 DEF Bound
      <4>2. c.value \in 1..FULL
        BY <2>3, <2>4, <2>7, <4>1 DEF Kept
      <4>3. \A w \in 1..FULL : w # Off /\ Least(w, FULL) = w
        BY DEF FULL, Off, Least
      <4> QED BY <4>2, <4>3
    <3>2. chip.out[ch] = IF c.pulsing THEN c.value ELSE Off
      <4>1. chip.out[ch] = Pwm(c)
        <5>1. board.written = chip.out
          BY <2>7 DEF ServoInv, Trusted, Driver
        <5>2. board.written = Wanted(Driver)
          BY <1>1, <2>7 DEF ServoInv, UpToDate, Driver
        <5>3. Wanted(Driver)[ch] = Pwm(c)
          BY DEF Wanted, Driver, c
        <5> QED BY <5>1, <5>2, <5>3
      <4> QED BY <3>1, <4>1 DEF Pwm
    <3>3. /\ c.rest = 0 \/ Given(ch, Least(c.rest, SETTLE))
          /\ c.pulsing \/ Given(ch, SETTLE)
      BY <2>3, <2>4, <2>7 DEF RestKnown, c
    <3>4. n.rest \in Nat /\ n.rest <= c.rest + 1
      BY <1>1, <2>1, <2>3 DEF Older
    <3>5. shaft[ch].ticks \in Nat /\ shaft[ch].width \in Int
      BY DEF MovesInv
    <3>6. shaft'[ch].ticks \in Nat
      BY <1>2
    <3>7. CASE c.pulsing
      <4>1. shaft'[ch].width = c.value /\ shaft'[ch].ticks >= 1
        BY <1>2, <2>7, <3>1, <3>2, <3>7
      <4>2. CASE c.rest = 0
        <5>1. Least(n.rest, SETTLE) <= 1 /\ Least(n.rest, SETTLE) \in Nat
          BY <1>1, <3>4, <4>2 DEF Least
        <5> QED BY <2>3, <3>6, <3>7, <4>1, <5>1
      <4>3. CASE c.rest # 0
        <5>1. shaft[ch].width = c.value /\ shaft[ch].ticks >= Least(c.rest, SETTLE)
          BY <3>3, <4>3 DEF Given, c
        <5>2. shaft'[ch].ticks = Older(shaft[ch].ticks, SETTLE)
          BY <1>1, <2>7, <3>1, <3>2, <3>7, <5>1 DEF Tick, Pulsed
        <5>3. shaft'[ch].ticks >= Least(n.rest, SETTLE)
          BY <1>1, <2>1, <3>4, <3>5, <5>1, <5>2 DEF Least, Older
        <5> QED BY <2>3, <3>7, <4>1, <5>3
      <4> QED BY <4>2, <4>3
    <3>8. CASE ~c.pulsing
      <4>1. shaft'[ch] = shaft[ch]
        BY <1>2, <3>2, <3>8
      <4>2. shaft[ch].width = c.value /\ shaft[ch].ticks >= SETTLE
        BY <3>3, <3>8 DEF Given, c
      <4>3. SETTLE >= Least(n.rest, SETTLE) /\ Least(n.rest, SETTLE) \in Nat
        BY <1>1, <3>4 DEF Least
      <4> QED BY <1>1, <2>3, <3>5, <4>1, <4>2, <4>3
    <3> QED BY <3>7, <3>8
  <2>8. RestKnown(ch)'
    BY <1>1, <2>7 DEF RestKnown, Given, n
  <2> QED BY <2>5, <2>6, <2>8 DEF n
<1>4. shaft' \in [Channel -> [width : Int, ticks : Nat]]
  BY <1>2 DEF Tick
<1> QED BY <1>1, <1>3, <1>4 DEF MovesInv

LEMMA ConfigureKeepsMoves ==
  ASSUME ServoInv, MovesInv, NEW s \in Settings, Configure(s)
  PROVE  /\ MovesInv'
         /\ \A ch \in Channel :
              SameKind(s, ch) /\ chan[ch].pulsing => chan'[ch].pulsing
<1> DEFINE same == s.address = settings.address /\ s.fitted = settings.fitted
           present == board.present /\ same
           c == [ch \in Channel |-> Configured(s, ch, present)]
           k0 == [board EXCEPT !.present = present]
           Before(k) == [chan |-> c, chip |-> k, board |-> k0]
<1>1. /\ board \in BoardState /\ chip \in ChipState /\ Driver \in Outcome
      /\ settings' = s /\ ~polled'
  BY DEF ServoInv, Driver, Outcome, Configure
<1>2. present \in BOOLEAN
  BY <1>1 DEF BoardState
<1>3. c \in [Channel -> ChannelState]
  BY <1>1, <1>2, ConfiguredTyped
<1>4. k0 \in BoardState /\ k0.present = present
  BY <1>1, <1>2 DEF BoardState
<1>5. PICK k \in IF s.address = settings.address THEN {chip} ELSE Chip :
        \E b1 \in IF s.fitted THEN Checks(Before(k)) ELSE {Before(k)} :
          /\ Becomes(b1)
          /\ chan' = b1.chan
          /\ owed' = IF b1.board.present /\ present THEN StillOwed(s) ELSE {}
          /\ shaft' = IF s.address = settings.address THEN shaft
                      ELSE [ch \in Channel |-> Unpulsed]
  BY DEF Configure
<1>6. k \in ChipState
  BY <1>1, <1>5, ChipTyped
<1>7. Before(k) \in Outcome
  BY <1>3, <1>4, <1>6 DEF Outcome
<1>8. PICK b1 \in IF s.fitted THEN Checks(Before(k)) ELSE {Before(k)} :
          /\ Becomes(b1)
          /\ chan' = b1.chan
          /\ owed' = IF b1.board.present /\ present THEN StillOwed(s) ELSE {}
          /\ shaft' = IF s.address = settings.address THEN shaft
                      ELSE [ch \in Channel |-> Unpulsed]
  BY <1>5
<1>9. /\ owed' \subseteq StillOwed(s) /\ board' = b1.board /\ chip' = b1.chip
  BY <1>8 DEF Becomes
<1> DEFINE b == Before(k)
<1>10. b.chan = c /\ b.board = k0 /\ b.chip = k
  OBVIOUS
<1>11. present => s.address = settings.address
  OBVIOUS
<1> HIDE DEF b, k0
<1>12. ASSUME NEW ch \in Channel
       PROVE  LET r == c[ch] IN
              /\ Kept(s, ch, r)
              /\ SameKind(s, ch) /\ chan[ch].pulsing => r.pulsing
              /\ SameKind(s, ch) /\ GoesTo(settings, ch, chan[ch]) => GoesTo(s, ch, r)
              /\ \/ r.move # Still
                 \/ r.rest = 0 /\ r.pulsing
                 \/ ~r.known
                 \/ /\ SameKind(s, ch) /\ r.rest = chan[ch].rest /\ r.value = chan[ch].value
                    /\ chan[ch].known /\ chan[ch].move = Still
                    /\ (chan[ch].pulsing => r.pulsing)
  <2>1. Kept(settings, ch, chan[ch])
    BY DEF MovesInv
  <2> HIDE DEF present
  <2> QED BY <1>1, <1>2, <2>1, ConfiguredDoes
<1>13. ASSUME NEW ch \in Channel
       PROVE  /\ Swinging(ch, c[ch]) \in ChannelState
              /\ LET r == Swinging(ch, c[ch]) IN
                 /\ Kept(s, ch, r)
                 /\ Same(r, c[ch]) /\ r.move = c[ch].move
                 /\ c[ch].pulsing => r.pulsing
                 /\ IsServo(s, ch) /\ c[ch].known /\ c[ch].move = Still =>
                      r.rest = 0 /\ r.pulsing
  <2> DEFINE r == Swinging(ch, c[ch])
  <2> HIDE DEF c
  <2>1. c[ch] \in ChannelState /\ Kept(settings', ch, c[ch]) /\ settings' \in Settings
    BY <1>1, <1>3, <1>12
  <2>2. /\ Kept(settings', ch, r)
        /\ r.known = c[ch].known /\ r.target = c[ch].target /\ Bound(r) = Bound(c[ch])
        /\ r.move = c[ch].move /\ (c[ch].pulsing => r.pulsing)
        /\ IsServo(settings', ch) /\ c[ch].known /\ c[ch].move = Still =>
             r.rest = 0 /\ r.pulsing
    BY <2>1, SwingingDoes
  <2>3. r \in ChannelState
    BY <2>1, SwingingTyped
  <2> HIDE DEF r
  <2>4. Same(r, c[ch])
    BY <2>2 DEF Same
  <2> QED BY <1>1, <2>2, <2>3, <2>4 DEF r
<1> HIDE DEF c
<1>14. \/ b1.chan = SwungIn(b)
       \/ b1.chan = c /\ (RunsOnly(b1, b) \/ ~s.fitted)
  <2>1. CASE s.fitted
    <3>1. b1 \in Checks(b)
      BY <1>8, <2>1 DEF b
    <3>2. \A ch \in Channel : Swinging(ch, b.chan[ch]) \in ChannelState
      BY <1>10, <1>13
    <3>3. b \in Outcome
      BY <1>7 DEF b
    <3> QED BY <1>10, <3>1, <3>2, <3>3, ChecksDo
  <2>2. CASE ~s.fitted
    <3>1. b1 = b
      BY <1>8, <2>2 DEF b
    <3> QED BY <1>10, <2>2, <3>1
  <2> QED BY <2>1, <2>2
<1>15. ASSUME NEW ch \in Channel
       PROVE  /\ Kept(s, ch, chan'[ch])
              /\ RestKnown(ch)'
              /\ ch \in owed' => GoesTo(s, ch, chan'[ch])
              /\ SameKind(s, ch) /\ chan[ch].pulsing => chan'[ch].pulsing
  <2> DEFINE n == chan'[ch]
             r == c[ch]
  <2>1. ch \in owed' => GoesTo(s, ch, r)
    <3>1. ch \in owed' => ch \in owed /\ SameKind(s, ch)
      BY <1>9 DEF StillOwed
    <3>2. ch \in owed => GoesTo(settings, ch, chan[ch])
      BY DEF MovesInv
    <3> QED BY <1>12, <3>1, <3>2
  <2>2. CASE b1.chan = SwungIn(b)
    <3>1. n = Swinging(ch, r)
      BY <1>8, <1>10, <2>2 DEF SwungIn
    <3> HIDE DEF n, r
    <3>2. /\ Kept(s, ch, n) /\ Same(n, r) /\ n.move = r.move /\ (r.pulsing => n.pulsing)
          /\ IsServo(s, ch) /\ r.known /\ r.move = Still => n.rest = 0 /\ n.pulsing
      BY <1>13, <3>1 DEF r
    <3>3. ch \in owed' => GoesTo(s, ch, n)
      BY <2>1, <3>2 DEF GoesTo, Same
    <3>4. RestKnown(ch)'
      BY <1>1, <3>2 DEF RestKnown, Same, n
    <3>5. SameKind(s, ch) /\ chan[ch].pulsing => n.pulsing
      BY <1>12, <3>2 DEF r
    <3> QED BY <3>2, <3>3, <3>4, <3>5 DEF n
  <2>3. CASE b1.chan = c /\ (RunsOnly(b1, b) \/ ~s.fitted)
    <3>1. n = r
      BY <1>8, <2>3
    <3> HIDE DEF n, r
    <3>2. Kept(s, ch, n)
      BY <1>12, <3>1 DEF r
    <3>3. ASSUME IsServo(s, ch), n.known, n.move = Still, board'.present, chip'.awake
          PROVE  /\ n.rest = 0 \/ (shaft'[ch].width = n.value /\ shaft'[ch].ticks >= Least(n.rest, SETTLE))
                 /\ n.pulsing \/ (shaft'[ch].width = n.value /\ shaft'[ch].ticks >= SETTLE)
      <4>1. s.fitted
        BY <3>3 DEF IsServo, UseIn
      <4>2. b.board.present /\ b.chip.awake
        BY <1>9, <2>3, <3>3, <4>1 DEF RunsOnly
      <4>3. present /\ s.address = settings.address
        BY <1>4, <1>10, <1>11, <4>2
      <4>4. board.present /\ chip.awake /\ shaft' = shaft
        BY <1>5, <1>8, <1>10, <4>2, <4>3
      <4>5. \/ n.rest = 0 /\ n.pulsing
            \/ /\ SameKind(s, ch) /\ n.rest = chan[ch].rest /\ n.value = chan[ch].value
               /\ chan[ch].known /\ chan[ch].move = Still
               /\ (chan[ch].pulsing => n.pulsing)
        BY <1>12, <3>1, <3>3 DEF r
      <4>6. CASE n.rest = 0 /\ n.pulsing
        BY <4>6
      <4>7. CASE /\ SameKind(s, ch) /\ n.rest = chan[ch].rest /\ n.value = chan[ch].value
                 /\ chan[ch].known /\ chan[ch].move = Still
                 /\ (chan[ch].pulsing => n.pulsing)
        <5>1. IsServo(settings, ch)
          BY <3>3, <4>7 DEF SameKind, IsServo
        <5> QED BY <4>4, <4>7, <5>1 DEF MovesInv, RestKnown, Given
      <4> QED BY <4>5, <4>6, <4>7
    <3>4. RestKnown(ch)'
      BY <1>1, <3>3 DEF RestKnown, Given, n
    <3>5. SameKind(s, ch) /\ chan[ch].pulsing => n.pulsing
      BY <1>12, <3>1 DEF r
    <3> QED BY <2>1, <3>1, <3>2, <3>4, <3>5 DEF n
  <2> QED BY <1>14, <2>2, <2>3
<1>16. owed' \subseteq Channel /\ shaft' \in [Channel -> [width : Int, ticks : Nat]]
  <2>1. owed' \subseteq owed
    BY <1>9 DEF StillOwed
  <2>2. Unpulsed \in [width : Int, ticks : Nat]
    BY DEF Unpulsed, Off
  <2> QED BY <1>8, <2>1, <2>2 DEF MovesInv
<1>17. MovesInv'
  BY <1>1, <1>15, <1>16 DEF MovesInv
<1> QED BY <1>15, <1>17

LEMMA PowerCutKeepsMoves ==
  ASSUME MovesInv, PowerCut
  PROVE  MovesInv'
<1>1. UNCHANGED <<settings, chan, board, polled, owed>> /\ ~chip'.awake
  BY DEF PowerCut
<1>2. shaft' \in [Channel -> [width : Int, ticks : Nat]]
  <2>1. Unpulsed \in [width : Int, ticks : Nat]
    BY DEF Unpulsed, Off
  <2> QED BY <2>1 DEF PowerCut
<1>3. \A ch \in Channel : RestKnown(ch)'
  BY <1>1 DEF RestKnown
<1> QED BY <1>1, <1>2, <1>3 DEF MovesInv

LEMMA MovesInit == Init => MovesInv
<1> SUFFICES ASSUME Init PROVE MovesInv
  OBVIOUS
<1>1. shaft \in [Channel -> [width : Int, ticks : Nat]] /\ owed = {} /\ ~polled
  BY DEF Init, Unpulsed, Off
<1>2. ASSUME NEW ch \in Channel
      PROVE  Kept(settings, ch, chan[ch]) /\ RestKnown(ch)
  <2>1. ~chan[ch].known /\ ~chan[ch].pulsing /\ ~chan[ch].arrived /\ chan[ch].move = Still
    BY DEF Init, NewChannel
  <2> QED BY <2>1 DEF Kept, RestKnown
<1> QED BY <1>1, <1>2 DEF MovesInv

LEMMA MovesStay ==
  ASSUME MovesInv, UNCHANGED <<settings, chan, board, chip, polled, owed, shaft>>
  PROVE  MovesInv'
<1>1. \A ch \in Channel : RestKnown(ch)'
  BY DEF MovesInv, RestKnown, Given
<1> QED BY <1>1 DEF MovesInv

(* ServoBoards: a channel that is pulsed is somewhere known and has a settling
   time; a servo is sent only to widths it can be given; a servo in position has been
   given its width for as long as it rests, and one that is owed an arrival is
   where it was sent or goes there (ServoBoards::moveTo, step, init and
   configure). *)
THEOREM MovesSafe == Spec => []MovesInv
<1>1. Init => MovesInv
  BY MovesInit
<1>2. ServoInv /\ MovesInv /\ [Next]_vars => MovesInv'
  <2> SUFFICES ASSUME ServoInv, MovesInv, [Next]_vars PROVE MovesInv'
    OBVIOUS
  <2>1. CASE \E s \in Settings : Configure(s)
    BY <2>1, ConfigureKeepsMoves
  <2>2. CASE \E ch \in Channel, p \in Position : Set(ch, p)
    BY <2>2, SetKeepsMoves
  <2>3. CASE Poll
    BY <2>3, PollKeepsMoves
  <2>4. CASE PowerCut
    BY <2>4, PowerCutKeepsMoves
  <2>5. CASE Line
    BY <2>5, MovesStay DEF Line
  <2>6. CASE Tick
    BY <2>6, TickKeepsMoves
  <2>7. CASE UNCHANGED vars
    BY <2>7, MovesStay DEF vars
  <2> QED BY <2>1, <2>2, <2>3, <2>4, <2>5, <2>6, <2>7 DEF Next
<1> QED BY <1>1, <1>2, BoardSafe, PTL DEF Spec

(* ServoBoards: a servo's pulses stop only after it has been given the width it
   is at for the settling time, power cuts that the driver has not seen
   excepted (ServoBoards::step). *)
THEOREM RestsAreSettled == Spec => RestsSettled
<1> DEFINE Settles ==
      \A ch \in Channel :
        /\ chan[ch].pulsing /\ ~chan'[ch].pulsing
        /\ settings' = settings
        /\ board'.present /\ chip'.awake
        => shaft[ch].width = chan[ch].value /\ shaft[ch].ticks >= SETTLE
<1>1. ServoInv /\ MovesInv /\ [Next]_vars => [Settles]_vars
  <2> SUFFICES ASSUME ServoInv, MovesInv, Next,
                      NEW ch \in Channel, chan[ch].pulsing, ~chan'[ch].pulsing,
                      settings' = settings, board'.present, chip'.awake
               PROVE  Given(ch, SETTLE)
    BY DEF Given
  <2>1. /\ settings \in Settings /\ chan \in [Channel -> ChannelState] /\ Driver \in Outcome
        /\ board.present \in BOOLEAN
    BY DEF ServoInv, Driver, Outcome, BoardState
  <2>2. Kept(settings, ch, chan[ch])
    BY DEF MovesInv
  <2>3. CASE \E s \in Settings : Configure(s)
    <3>1. PICK s \in Settings : Configure(s)
      BY <2>3
    <3>2. s = settings /\ SameKind(settings, ch)
      BY <3>1 DEF Configure, SameKind
    <3>3. chan'[ch].pulsing
      BY <3>1, <3>2, ConfigureKeepsMoves
    <3> QED BY <3>3
  <2>4. CASE \E k \in Channel, p \in Position : Set(k, p)
    <3>1. PICK k \in Channel, p \in Position : Set(k, p)
      BY <2>4
    <3>2. chan'[ch].pulsing
      BY <3>1, SetKeepsMoves
    <3> QED BY <3>2
  <2>5. CASE Poll
    <3>1. PICK q : PolledTo(ch, q)
      BY <2>5, PollDoes
    <3>2. ~q.pulsing
      <4>1. q \in ChannelState /\ chan'[ch] = [q EXCEPT !.arrived = FALSE]
        BY <3>1 DEF PolledTo
      <4>2. chan'[ch].pulsing = q.pulsing
        BY <4>1 DEF ChannelState
      <4> QED BY <4>2
    <3>3. q.move = Still /\ q.known = chan[ch].known /\ chan[ch].known
      BY <2>2, <3>1, <3>2 DEF PolledTo, Kept, Same
    <3>4. Rests(ch) /\ chan[ch].move = Still /\ board.present /\ chip.awake
      BY <3>1, <3>2, <3>3 DEF PolledTo
    <3>5. IsServo(settings, ch) /\ chan[ch].rest >= chan[ch].settle
      BY <3>4 DEF Rests, IsServo
    <3>6. chan[ch].rest = 0 \/ Given(ch, Least(chan[ch].rest, SETTLE))
      BY <3>3, <3>4, <3>5 DEF MovesInv, RestKnown
    <3>7. chan[ch].rest # 0 /\ Least(chan[ch].rest, SETTLE) = SETTLE
      <4>1. chan[ch].rest \in Nat /\ chan[ch].settle \in Nat /\ chan[ch].settle >= SETTLE
        BY <2>1, <2>2, <3>3 DEF Kept, ChannelState
      <4> QED BY <3>5, <4>1, ServoAssumption DEF Least
    <3> QED BY <3>6, <3>7
  <2>6. CASE Tick
    <3>1. chan'[ch] = Aged(chan[ch])
      BY <2>6 DEF Tick
    <3>2. chan'[ch].pulsing = chan[ch].pulsing
      BY <2>1, <3>1, AgedDoes
    <3> QED BY <3>2
  <2>7. CASE PowerCut \/ Line
    BY <2>7 DEF PowerCut, Line
  <2> QED BY <2>3, <2>4, <2>5, <2>6, <2>7 DEF Next
<1>2. Spec => [][Settles]_vars
  BY <1>1, BoardSafe, MovesSafe, PTL DEF Spec
<1> QED BY <1>2 DEF RestsSettled

(* ServoBoards: when an arrival is reported, the board gives the servo the
   position of the last command (ServoBoards::arrive, set and configure). *)
THEOREM ArrivalsAreReal == Spec => ArrivalIsReal
<1> DEFINE Real ==
      \A ch \in owed \ owed' :
        Poll /\ board'.present /\ chip'.awake
        => chip'.out[ch] = Goal(settings, ch, chan'[ch].target)
<1>1. ServoInv /\ ServoInv' /\ MovesInv /\ [Next]_vars => [Real]_vars
  <2> SUFFICES ASSUME ServoInv, ServoInv', MovesInv, Poll, NEW ch \in owed \ owed',
                      board'.present, chip'.awake
               PROVE  chip'.out[ch] = Goal(settings, ch, chan'[ch].target)
    OBVIOUS
  <2>1. ch \in Channel /\ GoesTo(settings, ch, chan[ch]) /\ settings \in Settings
    BY DEF MovesInv, ServoInv
  <2>2. PICK q : PolledTo(ch, q)
    BY <2>1, PollDoes
  <2> DEFINE n == chan'[ch]
  <2>3. /\ q \in ChannelState /\ Kept(settings, ch, q) /\ Same(q, chan[ch]) /\ q.arrived
        /\ n = [q EXCEPT !.arrived = FALSE]
    BY <2>2 DEF PolledTo
  <2>4. n.value = q.value /\ n.pulsing = q.pulsing /\ n.target = q.target
    BY <2>3 DEF ChannelState
  <2>5. q.move = Still /\ q.pulsing
    BY <2>3 DEF Kept
  <2>6. q.value = Goal(settings, ch, n.target)
    BY <2>1, <2>3, <2>4, <2>5 DEF GoesTo, Same, Bound
  <2>7. q.value \in 1..FULL
    BY <2>1, <2>6, GoalInRange DEF GoesTo
  <2>8. Least(q.value, FULL) = q.value
    <3>1. \A w \in 1..FULL : Least(w, FULL) = w
      BY DEF Least, FULL
    <3> QED BY <2>7, <3>1
  <2>9. chip'.out[ch] = Pwm(n)
    <3>1. board'.written = chip'.out
      BY DEF ServoInv, Trusted, Driver
    <3>2. board'.written = (Wanted(Driver))'
      BY DEF ServoInv, UpToDate, Driver, Poll
    <3>3. (Wanted(Driver))'[ch] = Pwm(n)
      BY <2>1 DEF Wanted, Driver
    <3> QED BY <3>1, <3>2, <3>3
  <2>10. Pwm(n) = q.value
    BY <2>4, <2>5, <2>8 DEF Pwm
  <2> QED BY <2>6, <2>9, <2>10
<1>2. Spec => [][Real]_vars
  BY <1>1, BoardSafe, MovesSafe, PTL DEF Spec
<1> QED BY <1>2 DEF ArrivalIsReal
-----------------------------------------------------------------------------
(* The widths that servos are given on their way. *)

(* Between lo and hi lie all positions that any servo may have. *)
Travel(lo, hi) ==
  /\ lo \in Nat /\ hi \in 0..FULL
  /\ \A s \in Settings, ch \in Channel :
       s.channel[ch].use = "Servo" =>
         s.channel[ch].closed \in lo..hi /\ s.channel[ch].thrown \in lo..hi

(* A channel that is between them, and moves between them. *)
Within(lo, hi, c) ==
  /\ c.value \in lo..hi
  /\ c.move # Still =>
       /\ c.move.from \in lo..hi /\ c.move.to \in lo..hi
       /\ c.move.duration \in Nat /\ c.move.elapsed \in 0..c.move.duration

ServosWithin(lo, hi) ==
  \A ch \in Channel :
    IsServo(settings, ch) /\ chan[ch].known => Within(lo, hi, chan[ch])

(* What a board that answers gives a servo after a poll: a width of its travel,
   or no pulses. *)
GivenInTravel(lo, hi) ==
  polled /\ board.present /\ chip.awake
  => \A ch \in Channel : IsServo(settings, ch) => chip.out[ch] \in {Off} \cup lo..hi

LEMMA TravelBounds ==
  ASSUME NEW lo, NEW hi, Travel(lo, hi)
  PROVE  /\ lo \in Nat /\ hi \in Nat
         /\ \A w \in lo..hi : Least(w, FULL) = w
<1>1. lo \in Nat /\ hi \in 0..FULL
  BY DEF Travel
<1> QED BY <1>1 DEF Least, FULL

LEMMA PartOf ==
  ASSUME NEW a \in Nat, NEW e \in Nat, NEW d \in Nat \ {0}, e <= d
  PROVE  (a * e) \div d \in 0..a
<1> DEFINE p == a * e
           q == p \div d
<1>1. p \in Nat /\ p <= a * d
  OBVIOUS
<1>2. q \in Nat /\ d * q <= p
  OBVIOUS
<1> HIDE DEF p
<1>3. d * q <= a * d
  BY <1>1, <1>2
<1> HIDE DEF q
<1>4. q <= a
  <2>1. SUFFICES ASSUME q >= a + 1 PROVE FALSE
    BY <1>2
  <2>2. d * q >= d * (a + 1)
    BY <1>2, <2>1
  <2>3. d * (a + 1) = a * d + d
    OBVIOUS
  <2> QED BY <1>2, <1>3, <2>2, <2>3
<1> QED BY <1>2, <1>4 DEF p, q

LEMMA BetweenStays ==
  ASSUME NEW lo \in Nat, NEW hi \in Nat, NEW m \in Moves,
         m.from \in lo..hi, m.to \in lo..hi,
         m.duration \in Nat, m.elapsed \in 0..m.duration, m.duration # 0
  PROVE  Between(m) \in lo..hi
<1>1. CASE m.to > m.from
  <2> DEFINE a == m.to - m.from
             q == (a * m.elapsed) \div m.duration
  <2>1. a \in Nat /\ m.elapsed \in Nat /\ m.elapsed <= m.duration
    BY <1>1
  <2> HIDE DEF a
  <2>2. q \in 0..a
    BY <2>1, PartOf
  <2>3. Between(m) = m.from + q
    BY <1>1 DEF Between, a
  <2> HIDE DEF q
  <2> QED BY <2>2, <2>3 DEF a
<1>2. CASE ~(m.to > m.from)
  <2> DEFINE a == m.from - m.to
             q == (a * m.elapsed) \div m.duration
  <2>1. a \in Nat /\ m.elapsed \in Nat /\ m.elapsed <= m.duration
    BY <1>2
  <2> HIDE DEF a
  <2>2. q \in 0..a
    BY <2>1, PartOf
  <2>3. Between(m) = m.from - q
    BY <1>2 DEF Between, a
  <2> HIDE DEF q
  <2> QED BY <2>2, <2>3 DEF a
<1> QED BY <1>1, <1>2

LEMMA MovedToWithin ==
  ASSUME NEW lo \in Nat, NEW hi \in Nat,
         NEW s \in Settings, NEW ch \in Channel, NEW c \in ChannelState,
         NEW to \in lo..hi, NEW announce \in BOOLEAN, NEW present \in BOOLEAN,
         c.known => c.value \in lo..hi
  PROVE  Within(lo, hi, MovedTo(s, ch, c, to, announce, present))
<1> DEFINE span == Distance(s.channel[ch].thrown, s.channel[ch].closed)
           distance == Distance(to, c.value)
           time == s.channel[ch].time
           toldOf == announce /\ UseIn(s, ch) = "Servo"
           start == Started(c, toldOf)
           jump == ~c.known \/ (time = 0 /\ distance # 0)
           there == [start EXCEPT !.value = to, !.known = TRUE]
           settle == IF jump THEN JUMP_SETTLE ELSE SETTLE
           p == time * Least(distance, span)
           m == [from |-> c.value, to |-> to, elapsed |-> 0, duration |-> p \div span]
           r == MovedTo(s, ch, c, to, announce, present)
<1>1. start \in ChannelState /\ start.known = c.known
  BY DEF Started, ChannelState
<1>2. /\ span \in Nat /\ distance \in Nat /\ time \in Nat
  <2>1. c.value \in Int BY DEF ChannelState
  <2> QED BY <2>1, SettingsTyped DEF Distance
<1>3. r = IF ~c.known \/ time = 0 \/ span = 0 \/ distance = 0
          THEN Arrived(there, settle, present) ELSE [start EXCEPT !.move = m]
  BY DEF MovedTo
<1> HIDE DEF start, r
<1>4. there \in ChannelState /\ there.value = to
  <2>1. to \in Int
    OBVIOUS
  <2>2. [start EXCEPT !.value = to] \in ChannelState
    BY <1>1, <2>1 DEF ChannelState
  <2> QED BY <1>1, <2>1, <2>2 DEF ChannelState
<1> HIDE DEF there
<1>5. CASE ~c.known \/ time = 0 \/ span = 0 \/ distance = 0
  <2>1. settle \in Nat
    BY ServoAssumption
  <2> HIDE DEF settle
  <2>2. LET a == Arrived(there, settle, present) IN a.value = there.value /\ a.move = Still
    BY <1>4, <2>1, ArrivedIs
  <2>3. r = Arrived(there, settle, present)
    BY <1>3, <1>5
  <2>4. r.value = to /\ r.move = Still
    BY <1>4, <2>2, <2>3
  <2> QED BY <2>4 DEF Within, r
<1>6. CASE ~(~c.known \/ time = 0 \/ span = 0 \/ distance = 0)
  <2>1. Least(distance, span) \in Nat
    BY <1>2 DEF Least
  <2>2. p \in Nat
    BY <1>2, <2>1
  <2>3. span \in Nat \ {0}
    BY <1>2, <1>6
  <2> HIDE DEF p, span
  <2>4. p \div span \in Nat
    BY <2>2, <2>3
  <2>5. m.from = c.value /\ m.to = to /\ m.elapsed = 0 /\ m.duration \in Nat
    BY <2>4
  <2>6. r = [start EXCEPT !.move = m]
    BY <1>3, <1>6 DEF span
  <2> HIDE DEF m
  <2>7. r.move = m /\ r.value = c.value
    BY <1>1, <2>6 DEF ChannelState, Started, start
  <2>8. c.value \in lo..hi
    BY <1>6
  <2> HIDE DEF r
  <2>9. 0 \in 0..m.duration
    BY <2>5
  <2>10. Within(lo, hi, r)
    BY <2>5, <2>7, <2>8, <2>9 DEF Within
  <2> QED BY <2>10 DEF r
<1> QED BY <1>5, <1>6

LEMMA SteppedWithin ==
  ASSUME NEW lo \in Nat, NEW hi \in Nat,
         NEW ch \in Channel, chan[ch] \in ChannelState, board.present \in BOOLEAN,
         Within(lo, hi, chan[ch])
  PROVE  Within(lo, hi, Stepped(ch))
<1> DEFINE c == chan[ch]
           r == Stepped(ch)
           m == c.move
<1>1. c \in ChannelState /\ Within(lo, hi, c) /\ m \in Moves
  BY DEF ChannelState
<1>2. CASE m # Still /\ m.elapsed >= m.duration
  <2> DEFINE d == [c EXCEPT !.value = m.to]
  <2>1. d \in ChannelState /\ d.value = m.to
    BY <1>1 DEF ChannelState, Moves
  <2>2. r = Arrived(d, SETTLE, board.present)
    BY <1>2 DEF Stepped
  <2> HIDE DEF d, r
  <2>3. r.value = m.to /\ r.move = Still
    BY <2>1, <2>2, ArrivedIs, ServoAssumption
  <2>4. m.to \in lo..hi
    BY <1>1, <1>2 DEF Within
  <2>5. Within(lo, hi, r)
    BY <2>3, <2>4 DEF Within
  <2> QED BY <2>5 DEF r
<1>3. CASE m # Still /\ ~(m.elapsed >= m.duration)
  <2>1. /\ m.from \in lo..hi /\ m.to \in lo..hi
        /\ m.duration \in Nat /\ m.elapsed \in 0..m.duration
    BY <1>1, <1>3 DEF Within
  <2>2. m.duration # 0
    BY <1>3, <2>1
  <2> DEFINE v == Between(m)
  <2>3. v \in lo..hi
    BY <1>1, <2>1, <2>2, BetweenStays
  <2>4. r = [c EXCEPT !.value = v]
    BY <1>3 DEF Stepped
  <2> HIDE DEF v, r
  <2>5. r.value = v /\ r.move = m
    BY <1>1, <2>4 DEF ChannelState
  <2> HIDE DEF m
  <2>6. Within(lo, hi, r)
    BY <2>1, <2>3, <2>5 DEF Within
  <2> QED BY <2>6 DEF r
<1>4. CASE m = Still
  <2>1. r.value = c.value /\ r.move = m
    BY <1>1, <1>4 DEF Stepped, ChannelState
  <2> HIDE DEF r
  <2>2. Within(lo, hi, r)
    BY <1>1, <1>4, <2>1 DEF Within
  <2> QED BY <2>2 DEF r
<1> QED BY <1>2, <1>3, <1>4

LEMMA SteppedKnows ==
  ASSUME NEW ch \in Channel, chan[ch] \in ChannelState, board.present \in BOOLEAN
  PROVE  Stepped(ch).known = chan[ch].known
<1> DEFINE c == chan[ch]
           d == [c EXCEPT !.value = c.move.to]
           r == Stepped(ch)
<1>1. d \in ChannelState /\ d.known = c.known
  BY DEF ChannelState, Moves
<1>2. CASE r = Arrived(d, SETTLE, board.present)
  <2> HIDE DEF d, r
  <2> QED BY <1>1, <1>2, ArrivedIs, ServoAssumption DEF r
<1>3. CASE r \in {[c EXCEPT !.value = Between(c.move)], [c EXCEPT !.pulsing = FALSE], c}
  BY <1>3 DEF ChannelState
<1> QED BY <1>2, <1>3 DEF Stepped

LEMMA SwingingWithin ==
  ASSUME NEW lo, NEW hi, NEW ch, NEW c \in ChannelState
  PROVE  LET r == Swinging(ch, c) IN
         /\ r.known = c.known /\ r.value = c.value /\ r.move = c.move
         /\ Within(lo, hi, c) => Within(lo, hi, r)
<1> DEFINE r == Swinging(ch, c)
<1>1. r.known = c.known /\ r.value = c.value /\ r.move = c.move
  BY DEF Swinging, ChannelState
<1> HIDE DEF r
<1>2. Within(lo, hi, c) => Within(lo, hi, r)
  BY <1>1 DEF Within
<1> QED BY <1>1, <1>2 DEF r

LEMMA AgedWithin ==
  ASSUME NEW lo \in Nat, NEW hi \in Nat, NEW c \in ChannelState, Within(lo, hi, c)
  PROVE  Within(lo, hi, Aged(c))
<1> DEFINE m == c.move
           e == Older(m.elapsed, m.duration)
           n == IF m = Still THEN Still ELSE [m EXCEPT !.elapsed = e]
           r == Aged(c)
<1>1. r.value = c.value /\ r.move = n
  BY DEF Aged, ChannelState
<1>2. m \in Moves
  BY DEF ChannelState
<1>3. CASE m = Still
  <2> HIDE DEF r
  <2>1. r.move = Still
    BY <1>1, <1>3
  <2>2. Within(lo, hi, r)
    BY <1>1, <2>1 DEF Within
  <2> QED BY <2>2 DEF r
<1>4. CASE m # Still
  <2>1. /\ m.from \in lo..hi /\ m.to \in lo..hi
        /\ m.duration \in Nat /\ m.elapsed \in 0..m.duration
    BY <1>4 DEF Within
  <2>2. e \in 0..m.duration
    BY <2>1 DEF Older
  <2> HIDE DEF e
  <2>3. n.from = m.from /\ n.to = m.to /\ n.duration = m.duration /\ n.elapsed = e
    BY <1>2, <1>4 DEF Moves
  <2> HIDE DEF r, m, n
  <2>4. r.value \in lo..hi
    BY <1>1 DEF Within
  <2>5. Within(lo, hi, r)
    BY <1>1, <2>1, <2>2, <2>3, <2>4 DEF Within
  <2> QED BY <2>5 DEF r
<1> QED BY <1>3, <1>4

LEMMA GoalInTravel ==
  ASSUME NEW lo, NEW hi, Travel(lo, hi),
         NEW s \in Settings, NEW ch \in Channel, NEW p, IsServo(s, ch)
  PROVE  Goal(s, ch, p) \in lo..hi
BY DEF Travel, Goal, IsServo, UseIn

LEMMA ConfiguredWithin ==
  ASSUME NEW lo, NEW hi, Travel(lo, hi),
         NEW s \in Settings, NEW ch \in Channel, NEW present \in BOOLEAN,
         Driver \in Outcome, IsServo(s, ch), ServosWithin(lo, hi),
         Configured(s, ch, present).known
  PROVE  Within(lo, hi, Configured(s, ch, present))
<1> DEFINE c == chan[ch]
           p == s.channel[ch].powerOn
           z == Reset(c)
           d == IF SameKind(s, ch) THEN Repositioned(s, ch, present)
                ELSE PoweredOn(s, ch, present)
           r == Configured(s, ch, present)
<1>1. c \in ChannelState /\ lo \in Nat /\ hi \in Nat
  BY TravelBounds DEF Driver, Outcome
<1>2. d \in ChannelState
  BY RepositionedTyped, PoweredOnTyped
<1>3. r.known = d.known /\ r.value = d.value /\ r.move = d.move
  <2> HIDE DEF d
  <2>1. r = IF UseIn(s, ch) = "Servo" /\ s.hold /\ d.known
            THEN [d EXCEPT !.pulsing = TRUE] ELSE d
    BY DEF Configured, d
  <2> QED BY <1>2, <2>1 DEF ChannelState
<1>4. d.known => Within(lo, hi, d)
  <2>1. CASE SameKind(s, ch)
    <3>1. IsServo(settings, ch)
      BY <2>1 DEF SameKind, IsServo
    <3>2. c.known => Within(lo, hi, c)
      BY <3>1 DEF ServosWithin
    <3>3. CASE d = c
      BY <3>2, <3>3
    <3>4. CASE d = MovedTo(s, ch, c, Goal(s, ch, c.target), c.move # Still /\ c.announce, present)
      <4> DEFINE to == Goal(s, ch, c.target)
                 told == c.move # Still /\ c.announce
      <4>1. to \in lo..hi /\ told \in BOOLEAN /\ (c.known => c.value \in lo..hi)
        BY <3>2, GoalInTravel DEF Within
      <4>2. d = MovedTo(s, ch, c, to, told, present)
        BY <3>4
      <4> HIDE DEF to, told, c, d
      <4> QED BY <1>1, <4>1, <4>2, MovedToWithin
    <3> QED BY <2>1, <3>3, <3>4 DEF Repositioned
  <2>2. CASE ~SameKind(s, ch)
    <3>1. z \in ChannelState /\ ~z.known
      <4>1. Still \in Moves
        BY DEF Still, Moves
      <4> QED BY <1>1, <4>1 DEF Reset, ChannelState
    <3>2. d = PoweredOn(s, ch, present)
      BY <2>2
    <3>3. CASE UseIn(s, ch) = "Unused" \/ p = "Leave"
      <4>1. d = z
        BY <3>2, <3>3 DEF PoweredOn
      <4> QED BY <3>1, <4>1
    <3>4. CASE ~(UseIn(s, ch) = "Unused" \/ p = "Leave")
      <4> DEFINE y == [z EXCEPT !.target = p]
                 to == Goal(s, ch, p)
                 told == FALSE
      <4>1. p \in Position
        BY <3>4, SettingsTyped
      <4> HIDE DEF p, z
      <4>2. y \in ChannelState /\ ~y.known
        BY <3>1, <4>1 DEF ChannelState
      <4>3. to \in lo..hi /\ told \in BOOLEAN
        BY GoalInTravel
      <4>4. d = MovedTo(s, ch, y, to, told, present)
        BY <3>2, <3>4 DEF PoweredOn, p, z
      <4> HIDE DEF to, told, y, d
      <4> QED BY <1>1, <4>2, <4>3, <4>4, MovedToWithin
    <3> QED BY <3>3, <3>4
  <2> QED BY <2>1, <2>2
<1> HIDE DEF d, r
<1>5. r.known
  BY DEF r
<1>6. Within(lo, hi, r)
  BY <1>3, <1>4, <1>5 DEF Within
<1> QED BY <1>6 DEF r

(* What a poll, and a load of the configuration, may make of a channel. *)
LEMMA PollMakes ==
  ASSUME ServoInv, Poll, NEW ch \in Channel
  PROVE  \E c \in {Stepped(ch), chan[ch]} : \E q \in {c, Swinging(ch, c)} :
           /\ c \in ChannelState /\ q \in ChannelState
           /\ chan'[ch] = [q EXCEPT !.arrived = FALSE]
<1> DEFINE c == [k \in Channel |-> IF settings.fitted /\ frameDue THEN Stepped(k)
                                   ELSE chan[k]]
           stepped == [chan |-> c, board |-> board, chip |-> chip]
<1>1. /\ board \in BoardState /\ chip \in ChipState /\ chan \in [Channel -> ChannelState]
      /\ settings \in Settings /\ Driver \in Outcome
  BY DEF ServoInv, Driver, Outcome
<1>2. c \in [Channel -> ChannelState]
  BY <1>1, SteppedTyped
<1>3. stepped \in Outcome
  BY <1>1, <1>2 DEF Outcome
<1>4. PICK b1 \in Flushes(stepped) :
        \E b2 \in IF settings.fitted /\ b1.board.sinceCheck >= CHECK
                  THEN Checks(b1) ELSE {b1} :
          chan' = [k \in Channel |-> [b2.chan[k] EXCEPT !.arrived = FALSE]]
  BY DEF Poll
<1>5. PICK b2 \in IF settings.fitted /\ b1.board.sinceCheck >= CHECK
                  THEN Checks(b1) ELSE {b1} :
          chan' = [k \in Channel |-> [b2.chan[k] EXCEPT !.arrived = FALSE]]
  BY <1>4
<1>6. b1 \in Outcome /\ b1.chan = c
  <2>1. Trusted(stepped)
    BY DEF ServoInv, Trusted, Driver
  <2> HIDE DEF stepped
  <2>2. b1 \in Outcome /\ b1.chan = stepped.chan
    BY <1>3, <2>1, FlushesAreSafe, FlushesDo
  <2> QED BY <2>2 DEF stepped
<1>7. c[ch] \in {Stepped(ch), chan[ch]}
  OBVIOUS
<1> HIDE DEF stepped, c
<1>8. \A k \in Channel : Swinging(k, c[k]) \in ChannelState
  BY <1>2, SwingingTyped
<1>9. b2.chan = SwungIn(b1) \/ b2.chan = b1.chan
  <2>1. CASE b2 \in Checks(b1)
    <3>1. \A k \in Channel : Swinging(k, b1.chan[k]) \in ChannelState
      BY <1>6, <1>8
    <3> QED BY <1>6, <2>1, <3>1, ChecksDo
  <2> QED BY <1>5, <2>1
<1>10. b2.chan[ch] \in {c[ch], Swinging(ch, c[ch])}
  BY <1>6, <1>9 DEF SwungIn
<1>11. c[ch] \in ChannelState /\ Swinging(ch, c[ch]) \in ChannelState
  BY <1>2, <1>8
<1> QED BY <1>5, <1>7, <1>10, <1>11

LEMMA ConfigureMakes ==
  ASSUME ServoInv, NEW s \in Settings, Configure(s), NEW ch \in Channel
  PROVE  \E present \in BOOLEAN :
           LET c == Configured(s, ch, present) IN
           c \in ChannelState /\ chan'[ch] \in {c, Swinging(ch, c)}
<1> DEFINE same == s.address = settings.address /\ s.fitted = settings.fitted
           present == board.present /\ same
           c == [k \in Channel |-> Configured(s, k, present)]
           k0 == [board EXCEPT !.present = present]
           Before(k) == [chan |-> c, chip |-> k, board |-> k0]
<1>1. board \in BoardState /\ chip \in ChipState /\ Driver \in Outcome
  BY DEF ServoInv, Driver, Outcome
<1>2. present \in BOOLEAN
  BY <1>1 DEF BoardState
<1>3. c \in [Channel -> ChannelState]
  BY <1>1, <1>2, ConfiguredTyped
<1>4. k0 \in BoardState
  BY <1>1, <1>2 DEF BoardState
<1>5. PICK k \in IF s.address = settings.address THEN {chip} ELSE Chip :
        \E b1 \in IF s.fitted THEN Checks(Before(k)) ELSE {Before(k)} : chan' = b1.chan
  BY DEF Configure
<1>6. k \in ChipState
  BY <1>1, <1>5, ChipTyped
<1> DEFINE b == Before(k)
<1>7. b \in Outcome /\ b.chan = c
  BY <1>3, <1>4, <1>6 DEF Outcome
<1>8. PICK b1 \in IF s.fitted THEN Checks(b) ELSE {b} : chan' = b1.chan
  BY <1>5
<1>9. c[ch] = Configured(s, ch, present)
  OBVIOUS
<1> HIDE DEF b, c, k0, present
<1>10. \A j \in Channel : Swinging(j, b.chan[j]) \in ChannelState
  BY <1>3, <1>7, SwingingTyped
<1>11. b1.chan = SwungIn(b) \/ b1.chan = b.chan
  BY <1>7, <1>8, <1>10, ChecksDo
<1>12. chan'[ch] \in {c[ch], Swinging(ch, c[ch])}
  BY <1>7, <1>8, <1>11 DEF SwungIn
<1> QED BY <1>2, <1>3, <1>9, <1>12

LEMMA ServosWithinInit ==
  ASSUME NEW lo, NEW hi, Init
  PROVE  ServosWithin(lo, hi)
BY DEF Init, NewChannel, ServosWithin

LEMMA PollKeepsWithin ==
  ASSUME NEW lo, NEW hi, Travel(lo, hi), ServoInv, ServosWithin(lo, hi), Poll
  PROVE  ServosWithin(lo, hi)'
<1>1. lo \in Nat /\ hi \in Nat
  BY TravelBounds
<1>2. /\ chan \in [Channel -> ChannelState] /\ settings' = settings
      /\ board.present \in BOOLEAN /\ Driver \in Outcome /\ settings \in Settings
  BY DEF ServoInv, Driver, Outcome, BoardState, Poll
<1>3. ASSUME NEW ch \in Channel, IsServo(settings, ch), chan'[ch].known
      PROVE  Within(lo, hi, chan'[ch])
  <2>1. PICK c \in {Stepped(ch), chan[ch]} : \E q \in {c, Swinging(ch, c)} :
           /\ c \in ChannelState /\ q \in ChannelState
           /\ chan'[ch] = [q EXCEPT !.arrived = FALSE]
    BY PollMakes
  <2>2. PICK q \in {c, Swinging(ch, c)} :
           /\ c \in ChannelState /\ q \in ChannelState
           /\ chan'[ch] = [q EXCEPT !.arrived = FALSE]
    BY <2>1
  <2> DEFINE n == chan'[ch]
  <2>3. n.known = q.known /\ n.value = q.value /\ n.move = q.move
    BY <2>2 DEF ChannelState
  <2> HIDE DEF n
  <2>4. q.known = c.known /\ (Within(lo, hi, c) => Within(lo, hi, q))
    BY <2>2, SwingingWithin
  <2>5. c.known = chan[ch].known
    <3>1. CASE c = chan[ch]
      BY <3>1
    <3>2. CASE c = Stepped(ch)
      BY <1>2, <3>2, SteppedKnows
    <3> QED BY <3>1, <3>2
  <2>6. Within(lo, hi, chan[ch])
    <3>1. chan[ch].known
      BY <1>3, <2>3, <2>4, <2>5 DEF n
    <3> QED BY <1>3, <3>1 DEF ServosWithin
  <2>7. Within(lo, hi, c)
    BY <1>1, <1>2, <2>6, SteppedWithin
  <2>8. Within(lo, hi, n)
    BY <2>3, <2>4, <2>7 DEF Within
  <2> QED BY <2>8 DEF n
<1> QED BY <1>2, <1>3 DEF ServosWithin

LEMMA ConfigureKeepsWithin ==
  ASSUME NEW lo, NEW hi, Travel(lo, hi), ServoInv, ServosWithin(lo, hi),
         NEW s \in Settings, Configure(s)
  PROVE  ServosWithin(lo, hi)'
<1>1. settings' = s /\ Driver \in Outcome
  BY DEF Configure, ServoInv
<1>2. ASSUME NEW ch \in Channel, IsServo(s, ch), chan'[ch].known
      PROVE  Within(lo, hi, chan'[ch])
  <2>1. PICK present \in BOOLEAN :
           LET c == Configured(s, ch, present) IN
           c \in ChannelState /\ chan'[ch] \in {c, Swinging(ch, c)}
    BY ConfigureMakes
  <2> DEFINE c == Configured(s, ch, present)
             r == Swinging(ch, c)
  <2>2. c.known => Within(lo, hi, c)
    BY <1>1, <1>2, ConfiguredWithin
  <2>3. r.known = c.known /\ (Within(lo, hi, c) => Within(lo, hi, r))
    BY <2>1, SwingingWithin
  <2> HIDE DEF c, r
  <2>4. chan'[ch] \in {c, r}
    BY <2>1 DEF c, r
  <2> QED BY <1>2, <2>2, <2>3, <2>4
<1> QED BY <1>1, <1>2 DEF ServosWithin

LEMMA SetKeepsWithin ==
  ASSUME NEW lo, NEW hi, Travel(lo, hi), ServoInv, ServosWithin(lo, hi),
         NEW ch \in Channel, NEW position \in Position, Set(ch, position)
  PROVE  ServosWithin(lo, hi)'
<1> DEFINE c == [chan[ch] EXCEPT !.target = position]
           told == TRUE
           to == Goal(settings, ch, position)
           n == MovedTo(settings, ch, c, to, told, board.present)
<1>1. /\ settings \in Settings /\ chan \in [Channel -> ChannelState]
      /\ board.present \in BOOLEAN /\ lo \in Nat /\ hi \in Nat
  BY TravelBounds DEF ServoInv, Driver, Outcome, BoardState
<1>2. c \in ChannelState /\ c.known = chan[ch].known /\ c.value = chan[ch].value
  BY <1>1 DEF ChannelState
<1>3. chan' = [chan EXCEPT ![ch] = n] /\ settings' = settings
  BY DEF Set
<1>4. IsServo(settings, ch) => Within(lo, hi, n)
  <2> SUFFICES ASSUME IsServo(settings, ch) PROVE Within(lo, hi, n)
    OBVIOUS
  <2>1. to \in lo..hi
    BY <1>1, GoalInTravel
  <2>2. c.known => c.value \in lo..hi
    BY <1>2 DEF ServosWithin, Within
  <2> HIDE DEF to, c, told
  <2>3. told \in BOOLEAN
    BY DEF told
  <2> QED BY <1>1, <1>2, <2>1, <2>2, <2>3, MovedToWithin
<1> HIDE DEF n
<1>5. chan'[ch] = n /\ \A k \in Channel : k # ch => chan'[k] = chan[k]
  BY <1>1, <1>3
<1> QED BY <1>3, <1>4, <1>5 DEF ServosWithin

LEMMA TickKeepsWithin ==
  ASSUME NEW lo, NEW hi, Travel(lo, hi), ServoInv, ServosWithin(lo, hi), Tick
  PROVE  ServosWithin(lo, hi)'
<1>1. lo \in Nat /\ hi \in Nat
  BY TravelBounds
<1>2. chan \in [Channel -> ChannelState] /\ settings' = settings
  BY DEF ServoInv, Driver, Outcome, Tick
<1>3. ASSUME NEW ch \in Channel, IsServo(settings, ch), chan'[ch].known
      PROVE  Within(lo, hi, chan'[ch])
  <2>1. chan'[ch] = Aged(chan[ch]) /\ chan[ch] \in ChannelState
    BY <1>2 DEF Tick
  <2>2. chan[ch].known
    BY <1>3, <2>1, AgedDoes
  <2>3. Within(lo, hi, chan[ch])
    BY <1>3, <2>2 DEF ServosWithin
  <2> QED BY <1>1, <2>1, <2>3, AgedWithin
<1> QED BY <1>2, <1>3 DEF ServosWithin

(* ServoBoards: whatever positions its servos may be configured to have, with
   the settings changed under a move, commands that turn it round, and boards
   that come and go, a servo is never given a width beyond the least and the
   greatest of them: from where it is to where it goes a move passes nothing
   else (ServoBoards::step, moveTo and configure). *)
THEOREM ServosStayInTravel ==
  ASSUME NEW CONSTANT lo, NEW CONSTANT hi, Travel(lo, hi)
  PROVE  Spec => []GivenInTravel(lo, hi)
<1>1. Init => ServosWithin(lo, hi)
  BY ServosWithinInit
<1>2. ServoInv /\ ServosWithin(lo, hi) /\ [Next]_vars => ServosWithin(lo, hi)'
  <2> SUFFICES ASSUME ServoInv, ServosWithin(lo, hi), [Next]_vars
               PROVE  ServosWithin(lo, hi)'
    OBVIOUS
  <2>1. CASE \E s \in Settings : Configure(s)
    BY <2>1, ConfigureKeepsWithin
  <2>2. CASE \E ch \in Channel, p \in Position : Set(ch, p)
    BY <2>2, SetKeepsWithin
  <2>3. CASE Poll
    BY <2>3, PollKeepsWithin
  <2>4. CASE Tick
    BY <2>4, TickKeepsWithin
  <2>5. CASE UNCHANGED <<settings, chan>>
    BY <2>5 DEF ServosWithin
  <2>6. PowerCut \/ Line \/ UNCHANGED vars => UNCHANGED <<settings, chan>>
    BY DEF PowerCut, Line, vars
  <2> QED BY <2>1, <2>2, <2>3, <2>4, <2>5, <2>6 DEF Next
<1>3. ServoInv /\ MovesInv /\ SentAsWanted /\ ServosWithin(lo, hi)
      => GivenInTravel(lo, hi)
  <2> SUFFICES ASSUME ServoInv, MovesInv, SentAsWanted, ServosWithin(lo, hi),
                      polled, board.present, chip.awake,
                      NEW ch \in Channel, IsServo(settings, ch)
               PROVE  chip.out[ch] \in {Off} \cup lo..hi
    BY DEF GivenInTravel
  <2>1. chip.out[ch] = Pwm(chan[ch])
    BY DEF SentAsWanted
  <2>2. CASE ~chan[ch].pulsing
    BY <2>1, <2>2 DEF Pwm
  <2>3. CASE chan[ch].pulsing
    <3>1. chan[ch].known
      BY <2>3 DEF MovesInv, Kept
    <3>2. chan[ch].value \in lo..hi
      BY <3>1 DEF ServosWithin, Within
    <3>3. Least(chan[ch].value, FULL) = chan[ch].value
      BY <3>2, TravelBounds
    <3> QED BY <2>1, <2>3, <3>2, <3>3 DEF Pwm
  <2> QED BY <2>2, <2>3
<1> QED BY <1>1, <1>2, <1>3, BoardSafe, MovesSafe, SentIsWanted, PTL DEF Spec

-----------------------------------------------------------------------------
(* Types *)

(* A channel's clocks, and where it moves to. *)
Timed(c) ==
  /\ c.rest \in 0..JUMP_SETTLE /\ c.settle \in {0, SETTLE, JUMP_SETTLE}
  /\ c.move # Still => c.move.to \in Width
ChannelFits(c) == Within(0, FULL, c) /\ Timed(c)

(* What the driver knows of a board, and what the board gives. *)
BoardFits(b) ==
  /\ b.board.sinceCheck \in 0..CHECK
  /\ b.board.written \in [Channel -> Nat] /\ b.chip.out \in [Channel -> Nat]

TypeInv ==
  /\ \A ch \in Channel : ChannelFits(chan[ch])
  /\ BoardFits(Driver)
  /\ board.present => settings.fitted
  /\ {reliable, frameDue, polled} \subseteq BOOLEAN
  /\ events \in 0..MaxEvents

LEMMA GoalIsAWidth ==
  ASSUME NEW s \in Settings, NEW ch \in Channel, NEW p
  PROVE  Goal(s, ch, p) \in Width /\ Goal(s, ch, p) \in 0..FULL
<1> DEFINE g == Goal(s, ch, p)
           w == {s.channel[ch].closed, s.channel[ch].thrown}
           all == {{t.channel[k].closed, t.channel[k].thrown} :
                     t \in Settings, k \in Channel}
<1>1. g \in w
  BY DEF Goal
<1>2. w \in all
  OBVIOUS
<1>3. Width = {Off} \cup UNION all
  BY DEF Width
<1>4. g \in Nat /\ g <= FULL
  BY <1>1, SettingsTyped, ServoAssumption
<1> HIDE DEF g, w, all
<1>5. g \in Width
  BY <1>1, <1>2, <1>3
<1>6. g \in 0..FULL
  BY <1>4 DEF FULL
<1> QED BY <1>5, <1>6 DEF g

LEMMA ArrivedTimed ==
  ASSUME NEW c \in ChannelState, NEW settle \in {SETTLE, JUMP_SETTLE},
         NEW present \in BOOLEAN
  PROVE  Timed(Arrived(c, settle, present))
<1> DEFINE r == Arrived(c, settle, present)
<1>1. settle \in Nat
  BY ServoAssumption
<1>2. r.move = Still /\ r.rest = 0 /\ r.settle = settle
  BY <1>1, ArrivedIs
<1> HIDE DEF r
<1>3. Timed(r)
  BY <1>2, ServoAssumption DEF Timed
<1> QED BY <1>3 DEF r

LEMMA MovedToFits ==
  ASSUME NEW s \in Settings, NEW ch \in Channel, NEW c \in ChannelState, ChannelFits(c),
         NEW p, NEW announce \in BOOLEAN, NEW present \in BOOLEAN
  PROVE  ChannelFits(MovedTo(s, ch, c, Goal(s, ch, p), announce, present))
<1> DEFINE to == Goal(s, ch, p)
           span == Distance(s.channel[ch].thrown, s.channel[ch].closed)
           distance == Distance(to, c.value)
           time == s.channel[ch].time
           toldOf == announce /\ UseIn(s, ch) = "Servo"
           start == Started(c, toldOf)
           jump == ~c.known \/ (time = 0 /\ distance # 0)
           there == [start EXCEPT !.value = to, !.known = TRUE]
           settle == IF jump THEN JUMP_SETTLE ELSE SETTLE
           m == [from |-> c.value, to |-> to, elapsed |-> 0,
                 duration |-> (time * Least(distance, span)) \div span]
           r == MovedTo(s, ch, c, to, announce, present)
<1>1. to \in Width /\ to \in 0..FULL
  BY GoalIsAWidth
<1>2. Within(0, FULL, r)
  <2>1. c.value \in 0..FULL
    BY DEF ChannelFits, Within
  <2>2. 0 \in Nat /\ FULL \in Nat
    BY DEF FULL
  <2> HIDE DEF to
  <2> QED BY <1>1, <2>1, <2>2, MovedToWithin
<1>3. r = Arrived(there, settle, present) \/ r = [start EXCEPT !.move = m]
  BY DEF MovedTo
<1>4. start \in ChannelState /\ start.rest = c.rest /\ start.settle = c.settle
  BY DEF Started, ChannelState
<1>5. CASE r = Arrived(there, settle, present)
  <2>1. to \in Int
    BY <1>1
  <2> HIDE DEF start, r, to
  <2>2. [start EXCEPT !.value = to] \in ChannelState
    BY <1>4, <2>1 DEF ChannelState
  <2>3. there \in ChannelState
    BY <1>4, <2>1, <2>2 DEF ChannelState
  <2>4. settle \in {SETTLE, JUMP_SETTLE}
    OBVIOUS
  <2> HIDE DEF there, settle
  <2>5. Timed(r)
    BY <1>5, <2>3, <2>4, ArrivedTimed
  <2> QED BY <1>2, <2>5 DEF ChannelFits, r, to
<1>6. CASE r = [start EXCEPT !.move = m]
  <2>1. m.to = to
    OBVIOUS
  <2> HIDE DEF m, r
  <2>2. r.rest = c.rest /\ r.settle = c.settle /\ r.move = m
    BY <1>4, <1>6 DEF ChannelState
  <2>3. Timed(r)
    BY <1>1, <2>1, <2>2 DEF ChannelFits, Timed
  <2> QED BY <1>2, <2>3 DEF ChannelFits, r
<1> QED BY <1>3, <1>5, <1>6

LEMMA SteppedFits ==
  ASSUME NEW ch \in Channel, chan[ch] \in ChannelState, board.present \in BOOLEAN,
         ChannelFits(chan[ch])
  PROVE  ChannelFits(Stepped(ch))
<1> DEFINE c == chan[ch]
           d == [c EXCEPT !.value = c.move.to]
           r == Stepped(ch)
<1>1. Within(0, FULL, r)
  BY SteppedWithin DEF ChannelFits, FULL
<1>2. CASE r = Arrived(d, SETTLE, board.present)
  <2>1. d \in ChannelState
    BY DEF ChannelState, Moves
  <2> HIDE DEF d, r
  <2>2. Timed(r)
    BY <1>2, <2>1, ArrivedTimed
  <2> QED BY <1>1, <2>2 DEF ChannelFits, r
<1>3. CASE r \in {[c EXCEPT !.value = Between(c.move)], [c EXCEPT !.pulsing = FALSE], c}
  <2>1. r.rest = c.rest /\ r.settle = c.settle /\ r.move = c.move
    BY <1>3 DEF ChannelState
  <2> HIDE DEF r
  <2>2. Timed(r)
    BY <2>1 DEF ChannelFits, Timed
  <2> QED BY <1>1, <2>2 DEF ChannelFits, r
<1> QED BY <1>2, <1>3 DEF Stepped

LEMMA SwingingFits ==
  ASSUME NEW ch, NEW c \in ChannelState, ChannelFits(c)
  PROVE  ChannelFits(Swinging(ch, c))
<1> DEFINE r == Swinging(ch, c)
<1>1. Within(0, FULL, r) /\ r.move = c.move
  BY SwingingWithin DEF ChannelFits
<1>2. \/ r.rest = c.rest /\ r.settle = c.settle
      \/ r.rest = 0 /\ r.settle = JUMP_SETTLE
  BY DEF Swinging, ChannelState
<1> HIDE DEF r
<1>3. 0 \in 0..JUMP_SETTLE
  BY ServoAssumption
<1>4. Timed(r)
  BY <1>1, <1>2, <1>3 DEF ChannelFits, Timed
<1> QED BY <1>1, <1>4 DEF ChannelFits, r

LEMMA AgedFits ==
  ASSUME NEW c \in ChannelState, ChannelFits(c)
  PROVE  ChannelFits(Aged(c))
<1> DEFINE r == Aged(c)
<1>1. Within(0, FULL, r)
  BY AgedWithin DEF ChannelFits, FULL
<1>2. /\ r.rest = Older(c.rest, JUMP_SETTLE) /\ r.settle = c.settle
      /\ r.move = Still <=> c.move = Still
      /\ Bound(r) = Bound(c)
  BY AgedDoes
<1> HIDE DEF r
<1>3. r.rest \in 0..JUMP_SETTLE
  BY <1>2, ServoAssumption DEF ChannelFits, Timed, Older
<1>4. r.move # Still => r.move.to \in Width
  BY <1>2 DEF ChannelFits, Timed, Bound
<1>5. Timed(r)
  BY <1>2, <1>3, <1>4 DEF ChannelFits, Timed
<1> QED BY <1>1, <1>5 DEF ChannelFits, r

LEMMA ConfiguredFits ==
  ASSUME NEW s \in Settings, NEW ch \in Channel, NEW present \in BOOLEAN,
         Driver \in Outcome, ChannelFits(chan[ch])
  PROVE  ChannelFits(Configured(s, ch, present))
<1> DEFINE c == chan[ch]
           p == s.channel[ch].powerOn
           z == Reset(c)
           y == [z EXCEPT !.target = p]
           d == IF SameKind(s, ch) THEN Repositioned(s, ch, present)
                ELSE PoweredOn(s, ch, present)
           r == Configured(s, ch, present)
<1>1. c \in ChannelState
  BY DEF Driver, Outcome
<1>2. ChannelFits(Repositioned(s, ch, present))
  <2> DEFINE told == c.move # Still /\ c.announce
  <2>1. told \in BOOLEAN
    OBVIOUS
  <2> HIDE DEF told
  <2>2. ChannelFits(MovedTo(s, ch, c, Goal(s, ch, c.target), told, present))
    BY <1>1, <2>1, MovedToFits
  <2> QED BY <2>2 DEF Repositioned, told
<1>3. ChannelFits(PoweredOn(s, ch, present))
  <2>1. z \in ChannelState /\ z.value = c.value /\ z.move = Still
        /\ z.rest = c.rest /\ z.settle = c.settle
    <3>1. Still \in Moves
      BY DEF Still, Moves
    <3> QED BY <1>1, <3>1 DEF Reset, ChannelState
  <2> HIDE DEF z
  <2>2. ChannelFits(z)
    BY <2>1 DEF ChannelFits, Within, Timed
  <2>3. CASE p \in Position
    <3> HIDE DEF p
    <3>1. y \in ChannelState /\ y.value = z.value /\ y.move = z.move
          /\ y.rest = z.rest /\ y.settle = z.settle
      BY <2>1, <2>3 DEF ChannelState
    <3> DEFINE told == FALSE
    <3>2. told \in BOOLEAN
      OBVIOUS
    <3> HIDE DEF y, told
    <3>3. ChannelFits(y)
      BY <2>2, <3>1 DEF ChannelFits, Within, Timed
    <3>4. ChannelFits(MovedTo(s, ch, y, Goal(s, ch, p), told, present))
      BY <3>1, <3>2, <3>3, MovedToFits
    <3> QED BY <2>2, <3>4 DEF PoweredOn, y, z, p, told
  <2>4. CASE p = "Leave"
    BY <2>2, <2>4 DEF PoweredOn, z
  <2> QED BY <2>3, <2>4, SettingsTyped
<1>4. d \in ChannelState /\ ChannelFits(d)
  BY <1>2, <1>3, RepositionedTyped, PoweredOnTyped
<1>5. r \in {d, [d EXCEPT !.pulsing = TRUE]}
  BY DEF Configured
<1> HIDE DEF d, r
<1>6. r.value = d.value /\ r.move = d.move /\ r.rest = d.rest /\ r.settle = d.settle
  BY <1>4, <1>5 DEF ChannelState
<1>7. ChannelFits(r)
  BY <1>4, <1>6 DEF ChannelFits, Within, Timed
<1> QED BY <1>7 DEF r

-----------------------------------------------------------------------------
(* The board *)

LEMMA PwmIsNatural ==
  ASSUME NEW b \in Outcome, \A ch \in Channel : b.chan[ch].value \in Nat
  PROVE  Wanted(b) \in [Channel -> Nat]
<1>1. ASSUME NEW ch \in Channel PROVE Pwm(b.chan[ch]) \in Nat
  <2>1. b.chan[ch].value \in Nat
    OBVIOUS
  <2> QED BY <2>1 DEF Pwm, Least, FULL, Off
<1> QED BY <1>1 DEF Wanted

LEMMA LostFits ==
  ASSUME NEW b \in Outcome, BoardFits(b)
  PROVE  BoardFits(Lost(b)) /\ Lost(b).board.present = FALSE
<1> DEFINE k == [b.board EXCEPT !.present = FALSE, !.sinceCheck = 0]
<1>1. k.written = b.board.written /\ k.sinceCheck = 0 /\ k.present = FALSE
  BY DEF Outcome, BoardState
<1>2. Lost(b) = [b EXCEPT !.board = k]
  BY DEF Lost, Outcome
<1> HIDE DEF k
<1>3. Lost(b).board = k /\ Lost(b).chip = b.chip
  BY <1>2 DEF Outcome
<1>4. 0 \in 0..CHECK
  BY ServoAssumption
<1> QED BY <1>1, <1>3, <1>4 DEF BoardFits

LEMMA TransfersFit ==
  ASSUME NEW b \in Outcome, BoardFits(b), \A ch \in Channel : b.chan[ch].value \in Nat,
         NEW t \in Transfers(b)
  PROVE  BoardFits(t)
<1> DEFINE w == Wanted(b)
           o == IF b.chip.awake
                THEN [ch \in Channel |-> IF w[ch] # b.board.written[ch] THEN w[ch]
                                         ELSE b.chip.out[ch]]
                ELSE b.chip.out
           p == [b.chip EXCEPT !.out = o]
           k == [b.board EXCEPT !.written = w]
           t1 == Sent(b)
           t2 == [b EXCEPT !.chip = t1.chip]
<1>1. w \in [Channel -> Nat]
  BY PwmIsNatural
<1> HIDE DEF w
<1>2. o \in [Channel -> Nat]
  BY <1>1 DEF BoardFits
<1>3. Sent(b) = [b EXCEPT !.board = k, !.chip = p]
  <2>1. b.chip.out \in [Channel -> Int]
    BY DEF Outcome, ChipState
  <2> QED BY <2>1 DEF Sent, Outcome, w
<1> HIDE DEF o
<1>4. p \in ChipState /\ p.out = o
  BY <1>2 DEF Outcome, ChipState
<1>5. k.written = w /\ k.sinceCheck = b.board.sinceCheck
  BY DEF Outcome, BoardState
<1> HIDE DEF p, k
<1>6. t1.board = k /\ t1.chip = p
  BY <1>3 DEF Outcome
<1>7. BoardFits(t1)
  BY <1>1, <1>2, <1>4, <1>5, <1>6 DEF BoardFits
<1>8. t2 \in Outcome /\ t2.board = b.board /\ t2.chip = p
  BY <1>4, <1>6 DEF Outcome
<1>9. BoardFits(t2)
  BY <1>2, <1>4, <1>8 DEF BoardFits
<1>10. t \in {t1, Lost(b), Lost(t2)}
  BY DEF Transfers
<1> HIDE DEF t1, t2
<1> QED BY <1>7, <1>8, <1>9, <1>10, LostFits

LEMMA FlushesFit ==
  ASSUME NEW b \in Outcome, BoardFits(b), \A ch \in Channel : b.chan[ch].value \in Nat,
         NEW t \in Flushes(b)
  PROVE  BoardFits(t)
BY TransfersFit DEF Flushes

LEMMA InitsFit ==
  ASSUME NEW b \in Outcome, BoardFits(b), \A ch \in Channel : b.chan[ch].value \in Nat,
         NEW t \in Inits(b)
  PROVE  BoardFits(t)
<1> DEFINE r == Restarted(b)
           none == [ch \in Channel |-> NotWritten]
           k == [b.board EXCEPT !.present = TRUE, !.written = none]
           p == [b.chip EXCEPT !.awake = TRUE]
           c == SwungIn(b)
<1>1. none \in [Channel -> Nat] /\ none \in [Channel -> Int]
  BY DEF NotWritten
<1>2. k \in BoardState /\ k.written = none /\ k.sinceCheck = b.board.sinceCheck
  BY <1>1 DEF Outcome, BoardState
<1>3. p \in ChipState /\ p.out = b.chip.out
  BY DEF Outcome, ChipState
<1>4. c \in [Channel -> ChannelState]
        /\ \A ch \in Channel : c[ch].value = b.chan[ch].value
  <2>1. ASSUME NEW ch \in Channel
        PROVE  Swinging(ch, b.chan[ch]) \in ChannelState
               /\ Swinging(ch, b.chan[ch]).value = b.chan[ch].value
    <3>1. b.chan[ch] \in ChannelState
      BY DEF Outcome
    <3> QED BY <3>1, SwingingTyped, SwingingWithin
  <2> QED BY <2>1 DEF SwungIn
<1>5. r = [b EXCEPT !.board = k, !.chip = p, !.chan = c]
  BY DEF Restarted, Outcome, SwungIn
<1> HIDE DEF none, k, p, c
<1>6. r \in Outcome /\ r.board = k /\ r.chip = p /\ r.chan = c
  BY <1>2, <1>3, <1>4, <1>5 DEF Outcome
<1> HIDE DEF r
<1>7. BoardFits(r) /\ \A ch \in Channel : r.chan[ch].value \in Nat
  BY <1>1, <1>2, <1>3, <1>4, <1>6 DEF BoardFits
<1>8. CASE t \in Transfers(r)
  BY <1>6, <1>7, <1>8, TransfersFit
<1>9. CASE \E a \in BOOLEAN : t = Lost([b EXCEPT !.chip.awake = a])
  <2>1. PICK a \in BOOLEAN : t = Lost([b EXCEPT !.chip.awake = a])
    BY <1>9
  <2> DEFINE e == [b EXCEPT !.chip.awake = a]
             q == [b.chip EXCEPT !.awake = a]
  <2>2. q \in ChipState /\ q.out = b.chip.out
    BY DEF Outcome, ChipState
  <2>3. e = [b EXCEPT !.chip = q]
    BY DEF Outcome
  <2> HIDE DEF q
  <2>4. e \in Outcome /\ e.board = b.board /\ e.chip = q
    BY <2>2, <2>3 DEF Outcome
  <2> HIDE DEF e
  <2>5. BoardFits(e)
    BY <2>2, <2>4 DEF BoardFits
  <2> QED BY <2>1, <2>4, <2>5, LostFits DEF e
<1> QED BY <1>8, <1>9 DEF Inits, r

LEMMA ChecksFit ==
  ASSUME NEW b \in Outcome, BoardFits(b), \A ch \in Channel : b.chan[ch].value \in Nat,
         NEW t \in Checks(b)
  PROVE  BoardFits(t)
<1> DEFINE k == [b.board EXCEPT !.sinceCheck = 0]
           d == [b EXCEPT !.board.sinceCheck = 0]
<1>1. k \in BoardState /\ k.sinceCheck = 0 /\ k.written = b.board.written
  BY DEF Outcome, BoardState
<1>2. d = [b EXCEPT !.board = k]
  BY DEF Outcome
<1> HIDE DEF k
<1>3. d \in Outcome /\ d.board = k /\ d.chip = b.chip /\ d.chan = b.chan
  BY <1>1, <1>2 DEF Outcome
<1>4. 0 \in 0..CHECK
  BY ServoAssumption
<1> HIDE DEF d
<1>5. BoardFits(d) /\ \A ch \in Channel : d.chan[ch].value \in Nat
  BY <1>1, <1>3, <1>4 DEF BoardFits
<1>6. t = d \/ t = Lost(d) \/ t \in Inits(d)
  BY DEF Checks, d
<1> QED BY <1>3, <1>5, <1>6, LostFits, InitsFit

LEMMA TypeInit == Init => TypeInv
<1> SUFFICES ASSUME Init PROVE TypeInv
  OBVIOUS
<1>1. ASSUME NEW ch \in Channel PROVE ChannelFits(chan[ch])
  <2>1. /\ chan[ch].value = 0 /\ chan[ch].move = Still /\ chan[ch].rest = 0
        /\ chan[ch].settle = 0
    BY DEF Init, NewChannel
  <2>2. 0 \in 0..FULL /\ 0 \in 0..JUMP_SETTLE
    BY ServoAssumption DEF FULL
  <2> QED BY <2>1, <2>2 DEF ChannelFits, Within, Timed
<1>2. /\ board.sinceCheck \in 0..CHECK /\ board.written \in [Channel -> Nat]
      /\ ~board.present
  BY ServoAssumption DEF Init, NotWritten
<1>3. chip.out \in [Channel -> Nat]
  <2>1. chip.out \in [Channel -> Width]
    BY DEF Init, Chip
  <2> QED BY <2>1, WidthTyped
<1>4. BoardFits(Driver)
  BY <1>2, <1>3 DEF BoardFits, Driver
<1>5. events \in 0..MaxEvents
  <2>1. events = 0
    BY DEF Init
  <2> QED BY <2>1, ServoAssumption
<1>6. {reliable, frameDue, polled} \subseteq BOOLEAN
  BY DEF Init
<1> QED BY <1>1, <1>2, <1>4, <1>5, <1>6 DEF TypeInv

LEMMA PollKeepsTypes ==
  ASSUME ServoInv, TypeInv, Poll
  PROVE  TypeInv'
<1> DEFINE c == [k \in Channel |-> IF settings.fitted /\ frameDue THEN Stepped(k)
                                   ELSE chan[k]]
           stepped == [chan |-> c, board |-> board, chip |-> chip]
<1>1. /\ board \in BoardState /\ chip \in ChipState /\ chan \in [Channel -> ChannelState]
      /\ settings \in Settings /\ Driver \in Outcome /\ board.present \in BOOLEAN
  BY DEF ServoInv, Driver, Outcome, BoardState
<1>2. c \in [Channel -> ChannelState]
  BY <1>1, SteppedTyped
<1>3. stepped \in Outcome
  BY <1>1, <1>2 DEF Outcome
<1>4. PICK b1 \in Flushes(stepped) :
        \E b2 \in IF settings.fitted /\ b1.board.sinceCheck >= CHECK
                  THEN Checks(b1) ELSE {b1} : Becomes(b2)
  BY DEF Poll
<1>5. PICK b2 \in IF settings.fitted /\ b1.board.sinceCheck >= CHECK
                  THEN Checks(b1) ELSE {b1} : Becomes(b2)
  BY <1>4
<1>6. ASSUME NEW ch \in Channel
      PROVE  ChannelFits(chan[ch]) /\ ChannelFits(Stepped(ch)) /\ ChannelFits(c[ch])
             /\ c[ch].value \in Nat
  <2>1. ChannelFits(chan[ch]) /\ ChannelFits(Stepped(ch))
    BY <1>1, SteppedFits DEF TypeInv
  <2>2. c[ch] \in {Stepped(ch), chan[ch]}
    OBVIOUS
  <2> HIDE DEF c
  <2>3. c[ch].value \in 0..FULL
    BY <2>1, <2>2 DEF ChannelFits, Within
  <2> QED BY <2>1, <2>2, <2>3
<1>7. b1 \in Outcome /\ b1.chan = c /\ BoardFits(b1)
  <2>1. Trusted(stepped) /\ stepped.chan = c
    BY DEF ServoInv, Trusted, Driver
  <2>2. BoardFits(stepped)
    BY DEF TypeInv, BoardFits, Driver
  <2> HIDE DEF stepped, c
  <2> QED BY <1>3, <1>6, <2>1, <2>2, FlushesAreSafe, FlushesDo, FlushesFit
<1>8. stepped.board.present = board.present
  OBVIOUS
<1> HIDE DEF stepped, c
<1>9. BoardFits(b2)
  BY <1>5, <1>6, <1>7, ChecksFit
<1>10. BoardFits(Driver)'
  BY <1>5, <1>9 DEF BoardFits, Driver, Becomes
<1>11. b2.board.present => settings.fitted
  <2> SUFFICES ASSUME ~settings.fitted PROVE ~b2.board.present
    OBVIOUS
  <2>1. ~stepped.board.present
    BY <1>8 DEF TypeInv
  <2>2. b1 = stepped
    BY <1>4, <2>1 DEF Flushes
  <2> QED BY <1>5, <2>1, <2>2
<1>12. ASSUME NEW ch \in Channel
       PROVE  ChannelFits(chan'[ch])
  <2>1. PICK d \in {Stepped(ch), chan[ch]} : \E q \in {d, Swinging(ch, d)} :
           /\ d \in ChannelState /\ q \in ChannelState
           /\ chan'[ch] = [q EXCEPT !.arrived = FALSE]
    BY PollMakes
  <2>2. PICK q \in {d, Swinging(ch, d)} :
           /\ d \in ChannelState /\ q \in ChannelState
           /\ chan'[ch] = [q EXCEPT !.arrived = FALSE]
    BY <2>1
  <2> DEFINE n == chan'[ch]
  <2>3. n.value = q.value /\ n.move = q.move /\ n.rest = q.rest /\ n.settle = q.settle
    BY <2>2 DEF ChannelState
  <2> HIDE DEF n
  <2>4. ChannelFits(d)
    BY <1>6
  <2>5. ChannelFits(q)
    BY <2>2, <2>4, SwingingFits
  <2>6. ChannelFits(n)
    BY <2>3, <2>5 DEF ChannelFits, Within, Timed
  <2> QED BY <2>6 DEF n
<1>13. settings' = settings /\ board'.present = b2.board.present
  BY <1>5 DEF Poll, Becomes
<1>14. events' \in 0..MaxEvents /\ {reliable, frameDue, polled}' \subseteq BOOLEAN
  BY DEF Poll, TypeInv
<1> QED BY <1>10, <1>11, <1>12, <1>13, <1>14 DEF TypeInv

LEMMA ConfigureKeepsTypes ==
  ASSUME ServoInv, TypeInv, NEW s \in Settings, Configure(s)
  PROVE  TypeInv'
<1> DEFINE same == s.address = settings.address /\ s.fitted = settings.fitted
           present == board.present /\ same
           c == [ch \in Channel |-> Configured(s, ch, present)]
           k0 == [board EXCEPT !.present = present]
           Before(k) == [chan |-> c, chip |-> k, board |-> k0]
<1>1. board \in BoardState /\ chip \in ChipState /\ Driver \in Outcome
  BY DEF ServoInv, Driver, Outcome
<1>2. present \in BOOLEAN
  BY <1>1 DEF BoardState
<1>3. c \in [Channel -> ChannelState]
  BY <1>1, <1>2, ConfiguredTyped
<1>4. /\ k0 \in BoardState /\ k0.present = present
      /\ k0.sinceCheck = board.sinceCheck /\ k0.written = board.written
  BY <1>1, <1>2 DEF BoardState
<1>5. PICK k \in IF s.address = settings.address THEN {chip} ELSE Chip :
        \E b1 \in IF s.fitted THEN Checks(Before(k)) ELSE {Before(k)} : Becomes(b1)
  BY DEF Configure
<1>6. k \in ChipState /\ k.out \in [Channel -> Nat]
  <2>1. chip.out \in [Channel -> Nat]
    BY DEF TypeInv, BoardFits, Driver
  <2>2. k \in Chip => k.out \in [Channel -> Width]
    BY DEF Chip
  <2> QED BY <1>1, <1>5, <2>1, <2>2, ChipTyped, WidthTyped
<1> DEFINE b == Before(k)
<1>7. b \in Outcome /\ b.chan = c /\ b.board = k0 /\ b.chip = k
  BY <1>3, <1>4, <1>6 DEF Outcome
<1>8. PICK b1 \in IF s.fitted THEN Checks(b) ELSE {b} : Becomes(b1)
  BY <1>5
<1>9. ASSUME NEW ch \in Channel, NEW there \in BOOLEAN
      PROVE  ChannelFits(Configured(s, ch, there))
  BY <1>1, <1>9, ConfiguredFits DEF TypeInv
<1>10. \A ch \in Channel : c[ch].value \in Nat
  <2> SUFFICES ASSUME NEW ch \in Channel PROVE c[ch].value \in Nat
    OBVIOUS
  <2>1. c[ch] = Configured(s, ch, present)
    OBVIOUS
  <2> HIDE DEF c, present
  <2>2. c[ch].value \in 0..FULL
    BY <1>2, <1>9, <2>1 DEF ChannelFits, Within
  <2> QED BY <2>2
<1>11. ~s.fitted => ~present
  BY DEF TypeInv
<1> HIDE DEF b, c, k0, present
<1>12. BoardFits(b)
  BY <1>4, <1>6, <1>7 DEF TypeInv, BoardFits, Driver
<1>13. BoardFits(b1)
  BY <1>7, <1>8, <1>10, <1>12, ChecksFit
<1>14. BoardFits(Driver)'
  BY <1>8, <1>13 DEF BoardFits, Driver, Becomes
<1>15. board'.present => s.fitted
  BY <1>4, <1>7, <1>8, <1>11 DEF Becomes
<1>16. ASSUME NEW ch \in Channel
       PROVE  ChannelFits(chan'[ch])
  <2>1. PICK there \in BOOLEAN :
           LET d == Configured(s, ch, there) IN
           d \in ChannelState /\ chan'[ch] \in {d, Swinging(ch, d)}
    BY ConfigureMakes
  <2> DEFINE d == Configured(s, ch, there)
  <2>2. ChannelFits(d)
    BY <1>9
  <2>3. d \in ChannelState /\ chan'[ch] \in {d, Swinging(ch, d)}
    BY <2>1
  <2> HIDE DEF d
  <2> QED BY <2>2, <2>3, SwingingFits
<1>17. /\ settings' = s /\ events' \in 0..MaxEvents
       /\ {reliable, frameDue, polled}' \subseteq BOOLEAN
  <2>1. events \in 0..MaxEvents /\ events < MaxEvents /\ events' = events + 1
    BY DEF Configure, TypeInv
  <2>2. events' \in 0..MaxEvents
    BY <2>1, ServoAssumption
  <2> QED BY <2>2 DEF Configure, TypeInv
<1> QED BY <1>14, <1>15, <1>16, <1>17 DEF TypeInv

LEMMA SetKeepsTypes ==
  ASSUME ServoInv, TypeInv, NEW ch \in Channel, NEW position \in Position,
         Set(ch, position)
  PROVE  TypeInv'
<1> DEFINE c == [chan[ch] EXCEPT !.target = position]
           told == TRUE
           n == MovedTo(settings, ch, c, Goal(settings, ch, position), told, board.present)
<1>1. /\ settings \in Settings /\ chan \in [Channel -> ChannelState]
      /\ board.present \in BOOLEAN
  BY DEF ServoInv, Driver, Outcome, BoardState
<1>2. /\ c \in ChannelState /\ c.value = chan[ch].value /\ c.move = chan[ch].move
      /\ c.rest = chan[ch].rest /\ c.settle = chan[ch].settle
  BY <1>1 DEF ChannelState
<1>3. chan' = [chan EXCEPT ![ch] = n]
  BY DEF Set
<1> HIDE DEF c
<1>4. ChannelFits(c)
  BY <1>2 DEF TypeInv, ChannelFits, Within, Timed
<1>5. told \in BOOLEAN
  OBVIOUS
<1> HIDE DEF told
<1>6. ChannelFits(n)
  BY <1>1, <1>2, <1>4, <1>5, MovedToFits
<1> HIDE DEF n
<1>7. \A k \in Channel : chan'[k] = IF k = ch THEN n ELSE chan[k]
  BY <1>1, <1>3
<1>8. events' \in 0..MaxEvents
  <2>1. events \in 0..MaxEvents /\ events < MaxEvents /\ events' = events + 1
    BY DEF Set, TypeInv
  <2> QED BY <2>1, ServoAssumption
<1>9. UNCHANGED <<settings, board, chip, reliable, frameDue>> /\ polled' = FALSE
  BY DEF Set
<1>10. \A k \in Channel : ChannelFits(chan'[k])
  BY <1>6, <1>7 DEF TypeInv
<1> QED BY <1>8, <1>9, <1>10 DEF TypeInv, BoardFits, Driver

LEMMA TickKeepsTypes ==
  ASSUME ServoInv, TypeInv, Tick
  PROVE  TypeInv'
<1>1. board \in BoardState /\ chan \in [Channel -> ChannelState]
  BY DEF ServoInv, Driver, Outcome
<1>2. ASSUME NEW ch \in Channel PROVE ChannelFits(chan'[ch])
  <2>1. chan'[ch] = Aged(chan[ch]) /\ chan[ch] \in ChannelState
    BY <1>1 DEF Tick
  <2> QED BY <2>1, AgedFits DEF TypeInv
<1>3. /\ board'.present = board.present /\ board'.written = board.written
      /\ board'.sinceCheck = Older(board.sinceCheck, CHECK)
  BY <1>1 DEF Tick, BoardState
<1>4. board.sinceCheck \in 0..CHECK
  BY DEF TypeInv, BoardFits, Driver
<1>5. board'.sinceCheck \in 0..CHECK
  BY <1>3, <1>4, ServoAssumption DEF Older
<1>6. BoardFits(Driver)'
  BY <1>3, <1>5 DEF TypeInv, BoardFits, Driver, Tick
<1>7. /\ UNCHANGED <<settings, events>>
      /\ {reliable, frameDue, polled}' \subseteq BOOLEAN
  BY DEF Tick, TypeInv
<1> QED BY <1>2, <1>3, <1>6, <1>7 DEF TypeInv

LEMMA PowerCutKeepsTypes ==
  ASSUME TypeInv, PowerCut
  PROVE  TypeInv'
<1>1. chip'.out \in [Channel -> Nat] /\ UNCHANGED <<settings, chan, board>>
  BY DEF PowerCut, Off
<1>2. BoardFits(Driver)'
  BY <1>1 DEF TypeInv, BoardFits, Driver
<1>3. events' \in 0..MaxEvents
  <2>1. events \in 0..MaxEvents /\ events < MaxEvents /\ events' = events + 1
    BY DEF PowerCut, TypeInv
  <2> QED BY <2>1, ServoAssumption
<1>4. {reliable, frameDue, polled}' \subseteq BOOLEAN
  BY DEF PowerCut, TypeInv
<1> QED BY <1>1, <1>2, <1>3, <1>4 DEF TypeInv

(* ServoBoards is type correct: no width below nothing is computed on the way,
   no move runs past its end, and a board that is not fitted is never taken for
   one that answers (ServoBoards.h, Channel and Board). *)
THEOREM ServoTypeOK == Spec => []TypeOK
<1>1. Init => TypeInv
  BY TypeInit
<1>2. ServoInv /\ TypeInv /\ [Next]_vars => TypeInv'
  <2> SUFFICES ASSUME ServoInv, TypeInv, [Next]_vars PROVE TypeInv'
    OBVIOUS
  <2>1. CASE \E s \in Settings : Configure(s)
    BY <2>1, ConfigureKeepsTypes
  <2>2. CASE \E ch \in Channel, p \in Position : Set(ch, p)
    BY <2>2, SetKeepsTypes
  <2>3. CASE Poll
    BY <2>3, PollKeepsTypes
  <2>4. CASE PowerCut
    BY <2>4, PowerCutKeepsTypes
  <2>5. CASE Line
    <3>1. reliable' \in BOOLEAN
      BY <2>5 DEF Line, TypeInv
    <3>2. UNCHANGED <<settings, chan, board, chip, frameDue, polled, events>>
      BY <2>5 DEF Line
    <3> QED BY <3>1, <3>2 DEF TypeInv, BoardFits, Driver
  <2>6. CASE Tick
    BY <2>6, TickKeepsTypes
  <2>7. CASE UNCHANGED vars
    BY <2>7 DEF vars, TypeInv, BoardFits, Driver
  <2> QED BY <2>1, <2>2, <2>3, <2>4, <2>5, <2>6, <2>7 DEF Next
<1>3. ServoInv /\ MovesInv /\ TypeInv => TypeOK
  <2> SUFFICES ASSUME ServoInv, MovesInv, TypeInv PROVE TypeOK
    OBVIOUS
  <2>1. settings \in BoardSettings
    BY ServoAssumption DEF ServoInv
  <2>2. ASSUME NEW ch \in Channel
        PROVE  LET c == chan[ch] IN
               /\ c.value \in Nat
               /\ {c.known, c.announce, c.arrived, c.pulsing} \subseteq BOOLEAN
               /\ c.target \in Position \cup {"None"}
               /\ c.move # Still =>
                    /\ c.move.to \in Width
                    /\ c.move.elapsed \in 0..c.move.duration
               /\ c.rest \in 0..JUMP_SETTLE
               /\ c.settle \in {0, SETTLE, JUMP_SETTLE}
    <3> DEFINE c == chan[ch]
    <3>1. c \in ChannelState
      BY DEF ServoInv, Driver, Outcome
    <3>2. Within(0, FULL, c) /\ Timed(c)
      BY DEF TypeInv, ChannelFits
    <3> HIDE DEF c
    <3>3. /\ {c.known, c.announce, c.arrived, c.pulsing} \subseteq BOOLEAN
          /\ c.target \in Position \cup {"None"}
      BY <3>1 DEF ChannelState
    <3>4. c.value \in Nat
      <4>1. c.value \in 0..FULL
        BY <3>2 DEF Within
      <4> QED BY <4>1
    <3>5. c.move # Still => c.move.to \in Width /\ c.move.elapsed \in 0..c.move.duration
      BY <3>2 DEF Within, Timed
    <3>6. c.rest \in 0..JUMP_SETTLE /\ c.settle \in {0, SETTLE, JUMP_SETTLE}
      BY <3>2 DEF Timed
    <3> QED BY <3>3, <3>4, <3>5, <3>6 DEF c
  <2>3. board.present \in BOOLEAN /\ chip.awake \in BOOLEAN
    BY DEF ServoInv, Driver, Outcome, BoardState, ChipState
  <2>4. /\ board.sinceCheck \in 0..CHECK /\ chip.out \in [Channel -> Nat]
        /\ \A ch \in Channel : board.written[ch] \in Nat
    BY DEF TypeInv, BoardFits, Driver
  <2>5. owed \subseteq Channel
    BY DEF MovesInv
  <2> QED BY <2>1, <2>2, <2>3, <2>4, <2>5 DEF TypeOK, TypeInv
<1> QED BY <1>1, <1>2, <1>3, BoardSafe, MovesSafe, PTL DEF Spec

=============================================================================
