---------------------------- MODULE ServoBoards ----------------------------
(***************************************************************************)
(* One servo and light board: the moves of its channels, what the driver   *)
(* sends to the board's PCA9685, and a board that is lost, loses its power *)
(* and comes back.  Handlers and polls exclude each other by the hardware  *)
(* lock, so each is one action; within one, every transfer on the I2C bus  *)
(* may fail.                                                               *)
(*                                                                         *)
(* A tick is one servo frame of 20 ms.  Widths stand for the pulse widths  *)
(* of a servo and the levels of a light; that an inverted light is sent    *)
(* the complement of its level is left out, and so is Channel::raw, which  *)
(* only setPulse() sets, and that has no caller.                           *)
(***************************************************************************)
EXTENDS Integers

CONSTANTS
  Channel,        \* the channels of the board
  Address,        \* addresses a board may have
  Settings,       \* what the configuration file may say
  SETTLE,         \* SETTLE_MS, in ticks
  JUMP_SETTLE,    \* JUMP_SETTLE_MS
  CHECK,          \* CHECK_MS
  MaxEvents       \* a bound on commands, loads and power cuts

Off == 0
FULL == 4096
Use == {"Unused", "Servo", "Light"}
Position == {"Closed", "Thrown"}
ChannelSettings ==
  [use : Use, closed : Nat, thrown : Nat, time : Nat,
   powerOn : Position \cup {"Leave"}]
BoardSettings ==
  [fitted : BOOLEAN, address : Address, hold : BOOLEAN,
   channel : [Channel -> ChannelSettings]]

(* A servo's positions are clamped to 500 to 2500 us. *)
ASSUME ServoAssumption ==
  /\ Settings \subseteq BoardSettings
  /\ \A s \in Settings, ch \in Channel :
       /\ s.channel[ch].closed <= FULL /\ s.channel[ch].thrown <= FULL
       /\ s.channel[ch].use = "Servo" =>
            s.channel[ch].closed # Off /\ s.channel[ch].thrown # Off
  /\ SETTLE \in Nat \ {0} /\ JUMP_SETTLE \in Nat /\ CHECK \in Nat
  /\ SETTLE <= JUMP_SETTLE
  /\ MaxEvents \in Nat

VARIABLES
  settings,    \* what of Board and Channel the configuration sets
  chan,        \* the rest of each Channel
  board,       \* the rest of Board: present, lastCheck's age and written
  chip,        \* external: the PCA9685, whether it runs and what it sends
  reliable,    \* external: every transfer on the bus succeeds
  frameDue,    \* FRAME_MS have passed since lastFrame
  polled,      \* the hardware thread has polled in this state
  events,      \* the commands, loads and power cuts there have been
  owed,        \* history: channels commanded while the board was there
  shaft        \* history: how each servo has been pulsed

vars == <<settings, chan, board, chip, reliable, frameDue, polled, events,
          owed, shaft>>

-----------------------------------------------------------------------------
(* Types *)

Still == [from |-> 0, to |-> 0, elapsed |-> 0, duration |-> 0]
Width == {Off} \cup UNION {{s.channel[ch].closed, s.channel[ch].thrown} :
                             s \in Settings, ch \in Channel}
NotWritten == 65535

TypeOK ==
  /\ settings \in BoardSettings
  /\ \A ch \in Channel :
       LET c == chan[ch] IN
         /\ c.value \in Nat
         /\ {c.known, c.announce, c.arrived, c.pulsing} \subseteq BOOLEAN
         /\ c.target \in Position \cup {"None"}
         /\ c.move # Still =>
              /\ c.move.to \in Width
              /\ c.move.elapsed \in 0..c.move.duration
         /\ c.rest \in 0..JUMP_SETTLE
         /\ c.settle \in {0, SETTLE, JUMP_SETTLE}
  /\ board.present \in BOOLEAN
  /\ board.present => settings.fitted
  /\ board.sinceCheck \in 0..CHECK
  /\ \A ch \in Channel : board.written[ch] \in Nat
  /\ chip.awake \in BOOLEAN /\ chip.out \in [Channel -> Nat]
  /\ {reliable, frameDue, polled} \subseteq BOOLEAN
  /\ events \in 0..MaxEvents
  /\ owed \subseteq Channel

NewChannel ==
  [value |-> 0, known |-> FALSE, target |-> "None", move |-> Still,
   announce |-> FALSE, arrived |-> FALSE, pulsing |-> FALSE,
   rest |-> 0, settle |-> 0]

(* A chip that the node has not set up yet: it may have run before. *)
Chip == [awake : BOOLEAN, out : [Channel -> Width]]
Unpulsed == [width |-> Off, ticks |-> 0]

(* As the constructor leaves it, before the first load. *)
Init ==
  /\ settings \in {s \in Settings : ~s.fitted}
  /\ chan = [ch \in Channel |-> NewChannel]
  /\ board = [present |-> FALSE, sinceCheck |-> 0,
              written |-> [ch \in Channel |-> NotWritten]]
  /\ chip \in Chip
  /\ reliable \in BOOLEAN
  /\ frameDue = FALSE
  /\ polled = FALSE
  /\ events = 0
  /\ owed = {}
  /\ shaft = [ch \in Channel |-> Unpulsed]

-----------------------------------------------------------------------------
(* Moves *)

UseIn(s, ch) == IF s.fitted THEN s.channel[ch].use ELSE "Unused"
Goal(s, ch, position) ==
  IF position = "Thrown" THEN s.channel[ch].thrown ELSE s.channel[ch].closed
Distance(a, b) == IF a > b THEN a - b ELSE b - a
Least(a, b) == IF a < b THEN a ELSE b

(* Mistake: only a servo that has moved is reported. *)
ArrivedIfMoved(c, settle, present) ==
  [c EXCEPT !.move = Still, !.rest = 0, !.settle = settle,
            !.arrived = c.announce /\ present /\ c.move # Still]
(* ServoBoards::arrive() *)
Arrived(c, settle, present) ==
  [c EXCEPT !.move = Still, !.rest = 0, !.settle = settle,
            !.arrived = c.announce /\ present]

(* Mistake: the arrival of the move before is not forgotten. *)
StartedKeepingArrival(c, announce) ==
  [c EXCEPT !.pulsing = TRUE, !.announce = announce]
Started(c, announce) ==
  [c EXCEPT !.pulsing = TRUE, !.announce = announce, !.arrived = FALSE]

(* ServoBoards::moveTo() *)
MovedTo(s, ch, c, to, announce, present) ==
  LET span == Distance(s.channel[ch].thrown, s.channel[ch].closed)
      distance == Distance(to, c.value)
      time == s.channel[ch].time
      start == Started(c, announce /\ UseIn(s, ch) = "Servo")
      jump == ~c.known \/ (time = 0 /\ distance # 0)
  IN IF ~c.known \/ time = 0 \/ span = 0 \/ distance = 0
     THEN Arrived([start EXCEPT !.value = to, !.known = TRUE],
                  IF jump THEN JUMP_SETTLE ELSE SETTLE, present)
     ELSE [start EXCEPT
             !.move = [from |-> c.value, to |-> to, elapsed |-> 0,
                       duration |-> (time * Least(distance, span)) \div span]]

(* Where a move has got to; the division is C's, towards zero. *)
Between(m) ==
  IF m.to > m.from
  THEN m.from + ((m.to - m.from) * m.elapsed) \div m.duration
  ELSE m.from - ((m.from - m.to) * m.elapsed) \div m.duration

(* Mistake: the pulses stop as soon as the servo is in position. *)
RestsAtOnce(ch) ==
  /\ chan[ch].pulsing /\ ~settings.hold
  /\ UseIn(settings, ch) = "Servo"
Rests(ch) ==
  /\ chan[ch].pulsing /\ ~settings.hold
  /\ UseIn(settings, ch) = "Servo"
  /\ chan[ch].rest >= chan[ch].settle

(* ServoBoards::step(), for one channel. *)
Stepped(ch) ==
  LET c == chan[ch] IN
    IF c.move # Still
    THEN IF c.move.elapsed >= c.move.duration
         THEN Arrived([c EXCEPT !.value = c.move.to], SETTLE, board.present)
         ELSE [c EXCEPT !.value = Between(c.move)]
    ELSE IF Rests(ch) THEN [c EXCEPT !.pulsing = FALSE] ELSE c

-----------------------------------------------------------------------------
(* The board.  What a step of the driver makes of it is a set of outcomes,
   records of the channels, the driver's state and the chip. *)

(* At most FULL, as ServoBoards::pwm() makes it. *)
Pwm(c) == IF c.pulsing THEN Least(c.value, FULL) ELSE Off
Wanted(b) == [ch \in Channel |-> Pwm(b.chan[ch])]

Lost(b) == [b EXCEPT !.board.present = FALSE, !.board.sinceCheck = 0]

(* A transfer of the channels whose width has changed.  A chip that is asleep
   has lost its settings and takes none; a transfer that fails may have done
   its work. *)
Sent(b) ==
  LET changed == {ch \in Channel : Wanted(b)[ch] # b.board.written[ch]} IN
    [b EXCEPT !.board.written = Wanted(b),
              !.chip.out = IF b.chip.awake
                           THEN [ch \in Channel |-> IF ch \in changed
                                                    THEN Wanted(b)[ch] ELSE @[ch]]
                           ELSE @]
Transfers(b) ==
  {Sent(b)}
    \cup IF reliable THEN {} ELSE {Lost(b), Lost([b EXCEPT !.chip = Sent(b).chip])}

(* ServoBoards::flush() *)
Flushes(b) ==
  IF ~b.board.present \/ Wanted(b) = b.board.written THEN {b} ELSE Transfers(b)

(* A servo at rest may be anywhere once its board has been away. *)
Swinging(ch, c) ==
  IF UseIn(settings', ch) = "Servo" /\ c.known /\ c.move = Still
  THEN [c EXCEPT !.pulsing = TRUE, !.rest = 0, !.settle = JUMP_SETTLE]
  ELSE c

(* Mistake: what was written before the board was set up is taken as sent. *)
RestartedAsWritten(b) ==
  [b EXCEPT !.board.present = TRUE, !.chip.awake = TRUE,
            !.chan = [ch \in Channel |-> Swinging(ch, @[ch])]]
(* ServoBoards::init() once the chip runs, and found() *)
Restarted(b) ==
  [b EXCEPT !.board.present = TRUE,
            !.board.written = [ch \in Channel |-> NotWritten],
            !.chip.awake = TRUE,
            !.chan = [ch \in Channel |-> Swinging(ch, @[ch])]]
Inits(b) ==
  Transfers(Restarted(b))
    \cup IF reliable THEN {}
         ELSE {Lost([b EXCEPT !.chip.awake = a]) : a \in BOOLEAN}

(* ServoBoards::check() *)
Checks(b) ==
  LET checked == [b EXCEPT !.board.sinceCheck = 0] IN
    (IF b.board.present /\ b.chip.awake THEN {checked} ELSE Inits(checked))
      \cup IF reliable THEN {} ELSE {Lost(checked)}

Becomes(b) == board' = b.board /\ chip' = b.chip

-----------------------------------------------------------------------------
(* ServoBoards::configure(), for a channel *)

SameKind(s, ch) ==
  LET a == UseIn(settings, ch)
      b == UseIn(s, ch)
  IN (a = "Servo") = (b = "Servo") /\ (a = "Light") = (b = "Light")

Reset(c) ==
  [c EXCEPT !.move = Still, !.arrived = FALSE, !.known = FALSE,
            !.target = "None", !.pulsing = FALSE]

PoweredOn(s, ch, present) ==
  LET p == s.channel[ch].powerOn
      c == Reset(chan[ch])
  IN IF UseIn(s, ch) = "Unused" \/ p = "Leave" THEN c
     ELSE MovedTo(s, ch, [c EXCEPT !.target = p], Goal(s, ch, p), FALSE, present)

(* Where a channel is going, or is. *)
Bound(c) == IF c.move # Still THEN c.move.to ELSE c.value

(* Mistake: a move under way goes on to where the position was. *)
RepositionedAtRest(s, ch, present) ==
  LET c == chan[ch] IN
    IF c.target # "None" /\ c.move = Still /\ Goal(s, ch, c.target) # Bound(c)
    THEN MovedTo(s, ch, c, Goal(s, ch, c.target), FALSE, present)
    ELSE c
(* The same use, with new positions. *)
Repositioned(s, ch, present) ==
  LET c == chan[ch] IN
    IF c.target # "None" /\ Goal(s, ch, c.target) # Bound(c)
    THEN MovedTo(s, ch, c, Goal(s, ch, c.target),
                 c.move # Still /\ c.announce, present)
    ELSE c

Configured(s, ch, present) ==
  LET c == IF SameKind(s, ch) THEN Repositioned(s, ch, present)
           ELSE PoweredOn(s, ch, present)
  IN IF UseIn(s, ch) = "Servo" /\ s.hold /\ c.known
     THEN [c EXCEPT !.pulsing = TRUE] ELSE c

(* Commands that the load leaves to be answered: an arrival that waits for the
   next poll is forgotten if the position has changed. *)
StillOwed(s) ==
  {ch \in owed : /\ SameKind(s, ch)
                 /\ \/ chan[ch].move # Still
                    \/ Goal(s, ch, chan[ch].target) = chan[ch].value}

(* Another address is another board. *)
Configure(s) ==
  /\ events < MaxEvents
  /\ events' = events + 1
  /\ settings' = s
  /\ LET same == s.address = settings.address /\ s.fitted = settings.fitted
         present == board.present /\ same
         c == [ch \in Channel |-> Configured(s, ch, present)]
     IN \E k \in IF s.address = settings.address THEN {chip} ELSE Chip :
          LET b == [chan |-> c, chip |-> k,
                    board |-> [board EXCEPT !.present = present]]
          IN \E b1 \in IF s.fitted THEN Checks(b) ELSE {b} :
               /\ Becomes(b1)
               /\ chan' = b1.chan
               /\ owed' = IF b1.board.present /\ present THEN StillOwed(s) ELSE {}
               /\ shaft' = IF s.address = settings.address THEN shaft
                           ELSE [ch \in Channel |-> Unpulsed]
  /\ polled' = FALSE
  /\ UNCHANGED <<reliable, frameDue>>

(* ServoBoards::set() *)
Set(ch, position) ==
  /\ events < MaxEvents
  /\ events' = events + 1
  /\ UseIn(settings, ch) # "Unused"
  /\ chan' = [chan EXCEPT ![ch] =
                MovedTo(settings, ch, [@ EXCEPT !.target = position],
                        Goal(settings, ch, position), TRUE, board.present)]
  /\ owed' = IF board.present /\ UseIn(settings, ch) = "Servo"
             THEN owed \cup {ch} ELSE owed \ {ch}
  /\ polled' = FALSE
  /\ UNCHANGED <<settings, board, chip, reliable, frameDue, shaft>>

(* ServoBoards::poll(), and FemtoController::poll_servo_boards(), which takes
   the arrivals. *)
Poll ==
  /\ ~polled
  /\ polled' = TRUE
  /\ frameDue' = FALSE
  /\ UNCHANGED settings
  /\ LET stepped == [chan |-> [ch \in Channel |-> IF settings.fitted /\ frameDue
                                                  THEN Stepped(ch) ELSE chan[ch]],
                     board |-> board, chip |-> chip]
     IN \E b1 \in Flushes(stepped) :
        \E b2 \in IF settings.fitted /\ b1.board.sinceCheck >= CHECK
                  THEN Checks(b1) ELSE {b1} :
          /\ Becomes(b2)
          /\ chan' = [ch \in Channel |-> [b2.chan[ch] EXCEPT !.arrived = FALSE]]
          /\ owed' = IF b2.board.present
                     THEN {ch \in owed : ~b2.chan[ch].arrived} ELSE {}
  /\ UNCHANGED <<reliable, events, shaft>>

-----------------------------------------------------------------------------
(* The surroundings *)

PowerCut ==
  /\ events < MaxEvents
  /\ events' = events + 1
  /\ chip' = [awake |-> FALSE, out |-> [ch \in Channel |-> Off]]
  /\ shaft' = [ch \in Channel |-> Unpulsed]
  /\ UNCHANGED <<settings, chan, board, reliable, frameDue, polled, owed>>

Line ==
  /\ reliable' = ~reliable
  /\ UNCHANGED <<settings, chan, board, chip, frameDue, polled, events, owed,
                 shaft>>

Older(n, most) == IF n < most THEN n + 1 ELSE n

Aged(c) ==
  LET m == c.move IN
    [c EXCEPT !.rest = Older(c.rest, JUMP_SETTLE),
              !.move = IF m = Still THEN Still
                       ELSE [m EXCEPT !.elapsed = Older(m.elapsed, m.duration)]]

Pulsed(ch) ==
  LET p == shaft[ch]
      w == chip.out[ch]
  IN IF chip.awake /\ w # Off
     THEN [width |-> w,
           ticks |-> IF w = p.width THEN Older(p.ticks, SETTLE) ELSE Least(1, SETTLE)]
     ELSE p

(* FRAME_MS are longer than the time between two polls. *)
Tick ==
  /\ polled
  /\ polled' = FALSE
  /\ frameDue' = TRUE
  /\ chan' = [ch \in Channel |-> Aged(chan[ch])]
  /\ board' = [board EXCEPT !.sinceCheck = Older(@, CHECK)]
  /\ shaft' = [ch \in Channel |-> Pulsed(ch)]
  /\ UNCHANGED <<settings, chip, reliable, events, owed>>

Next ==
  \/ \E s \in Settings : Configure(s)
  \/ \E ch \in Channel, p \in Position : Set(ch, p)
  \/ Poll
  \/ PowerCut
  \/ Line
  \/ Tick

Spec == Init /\ [][Next]_vars
FairSpec == Spec /\ WF_vars(Poll) /\ SF_vars(Tick)

-----------------------------------------------------------------------------
(* What the driver believes to have sent is what a board that answers gives:
   through transfers that failed half way, boards that went away and loads of
   the configuration (ServoBoards::flush, written). *)
SentAsWanted ==
  polled /\ board.present /\ chip.awake
  => \A ch \in Channel : chip.out[ch] = Pwm(chan[ch])

(* A servo's pulses stop only after it has been given the width it is at for
   the settling time, power cuts that the driver has not seen excepted
   (ServoBoards::step). *)
RestsSettled ==
  [][\A ch \in Channel :
       /\ chan[ch].pulsing /\ ~chan'[ch].pulsing
       /\ settings' = settings
       /\ board'.present /\ chip'.awake
       => shaft[ch].width = chan[ch].value /\ shaft[ch].ticks >= SETTLE]_vars

(* "True once when a servo reaches the position it was sent to"
   (ServoBoards.h): when an arrival is reported, the board gives the servo the
   position of the last command. *)
ArrivalIsReal ==
  [][\A ch \in owed \ owed' :
       Poll /\ board'.present /\ chip'.awake
       => chip'.out[ch] = Goal(settings, ch, chan'[ch].target)]_vars

(* Every command of a servo is answered by an arrival, unless its board is
   lost or the configuration changes under it. *)
CommandsAnswered == \A ch \in Channel : ch \in owed ~> ch \notin owed

(* Once the bus works, every servo comes to be where it was last sent, and to
   rest there without pulses unless it is to be held, whatever failed, was lost
   or was changed before. *)
InPlace(ch) ==
  LET goal == Goal(settings, ch, chan[ch].target) IN
    /\ chip.awake
    /\ UseIn(settings, ch) = "Servo" =>
         /\ shaft[ch].width = goal /\ shaft[ch].ticks = SETTLE
         /\ chip.out[ch] = IF settings.hold THEN goal ELSE Off
    /\ UseIn(settings, ch) = "Light" => chip.out[ch] = goal
ServosGetThere ==
  <>[]reliable
  => <>[](\A ch \in Channel :
            UseIn(settings, ch) # "Unused" /\ chan[ch].target # "None"
            => InPlace(ch))

=============================================================================
