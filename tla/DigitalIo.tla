----------------------------- MODULE DigitalIo -----------------------------
(***************************************************************************)
(* The digital inputs and outputs of the node: the pins of its own port    *)
(* expander (IoPins, Expander) and the lines of the I/O boards on the      *)
(* Qwiic connector (IoBoards), both of them banks of module PinBank, as    *)
(* FemtoController loads, switches and polls them.  Every handler and      *)
(* every poll holds the hardware lock, so each is one action; within one,  *)
(* any transfer on the I2C bus may fail.                                   *)
(*                                                                         *)
(* A tick is the time between two polls of the hardware thread, 5 ms,      *)
(* which is also as often as the pins are read.  Times are kept as ages.   *)
(***************************************************************************)
EXTENDS Integers, PinBank

CONSTANTS
  NumBoards,   \* NUM_XIO_BOARDS
  Low, High,   \* the addresses from 0x21 to 0x27, and from 0x38 to 0x3F
  OnBoard,     \* 0x20, the node's own expander
  Chip8,       \* the lines of a chip with eight
  Settings,    \* what the configuration file may say
  POLL,        \* POLL_MS of IoBoards.cpp, in ticks
  CHECK,       \* CHECK_MS
  MaxChanges   \* a bound on the loads of the configuration, the boards
               \* plugged and unplugged and the changes of the noise

Board == 1..NumBoards
Pins == 0            \* stands for the pins where a board may stand
Type == {"None", "MCP23017", "PCF8574", "TCA9534"}
Address == Low \cup High \cup {OnBoard}
BoardSetting == [type : Type, address : Address, lines : [Line -> PinSetting]]
Setting == [pins : [Line -> PinSetting], boards : [Board -> BoardSetting]]

ASSUME IoAssumption ==
  /\ NumBoards \in Nat \ {0}
  /\ Settings \subseteq Setting
  /\ Chip8 \subseteq Line
  /\ POLL \in Nat /\ CHECK \in Nat \ {0} /\ MaxChanges \in Nat

VARIABLES
  pins,       \* the bank of IoPins
  board,      \* boards_ of IoBoards, each with its bank
  nextCheck, nextPoll,
  chip,       \* external: the registers of the expander and of each board
  plugged,    \* external: which boards are there
  noisy,      \* external: any transfer may fail
  high,       \* external: the inputs that are high, of the pins and boards
  polled,     \* the hardware thread has polled since the last tick
  marked,     \* inputs whose event slot the last poll marked
  changes,    \* the loads, and changes of plugged and noisy, there have been
  agreed      \* history: the age of the last reading that agreed with the
              \* state of an input

vars == <<pins, board, nextCheck, nextPoll, chip, plugged, noisy, high, polled,
          marked, changes, agreed>>

-----------------------------------------------------------------------------
(* Types *)

(* The latch, the lines that are inputs, and whether the chip has been set up
   in full since it got its power (history). *)
Chip == [latch : SUBSET Line, inputs : SUBSET Line, setUp : BOOLEAN]
PoweredUp == [latch |-> Line, inputs |-> Line, setUp |-> FALSE]

BoardState ==
  [type : Type, address : Address, fitted : BOOLEAN, present : BOOLEAN,
   dirty : BOOLEAN, sinceCheck : 0..CHECK, sincePoll : 0..POLL, bank : Bank]

TypeOK ==
  /\ pins \in Bank
  /\ board \in [Board -> BoardState]
  /\ nextCheck \in Board /\ nextPoll \in Board
  /\ chip \in [Board \cup {Pins} -> Chip]
  /\ plugged \subseteq Board
  /\ noisy \in BOOLEAN /\ polled \in BOOLEAN
  /\ high \in [Board \cup {Pins} -> SUBSET Line]
  /\ marked \subseteq (Board \cup {Pins}) \X Line
  /\ changes \in 0..MaxChanges
  /\ agreed \in [Board \cup {Pins} -> [Line -> 0..MaxDebounce]]

(* As the constructors and Expander::begin() leave it. *)
Init ==
  /\ pins = NewBank
  /\ board = [b \in Board |->
       [type |-> "None", address |-> OnBoard, fitted |-> FALSE,
        present |-> FALSE, dirty |-> FALSE, sinceCheck |-> 0, sincePoll |-> 0,
        bank |-> NewBank]]
  /\ nextCheck = 1 /\ nextPoll = 1
  /\ chip = [w \in Board \cup {Pins} |-> PoweredUp]
  /\ plugged \in SUBSET Board
  /\ noisy \in BOOLEAN
  /\ high = [w \in Board \cup {Pins} |-> Line]
  /\ polled = FALSE
  /\ marked = {}
  /\ changes = 0
  /\ agreed = [w \in Board \cup {Pins} |-> [l \in Line |-> 0]]

-----------------------------------------------------------------------------
Change == changes < MaxChanges /\ changes' = changes + 1

-----------------------------------------------------------------------------
(* One board.  What a step of the driver makes of it is a set of outcomes,
   records of the driver's state and the chip. *)

Of(b) == [board |-> board[b], chip |-> chip[b]]
Succeeds(b) == b \in plugged
Fails(b) == b \notin plugged \/ noisy

(* The PCF8574 has no direction: a latch that is high makes an input. *)
WithLatch(s) ==
  [s EXCEPT !.chip.latch = Latch(s.board.bank),
            !.chip.inputs = IF s.board.type = "PCF8574"
                            THEN Latch(s.board.bank) ELSE @]
WithDirections(s) ==
  [s EXCEPT !.chip.inputs = IF s.board.type = "PCF8574"
                            THEN @ ELSE InputMask(s.board.bank)]

Found(s) == [s EXCEPT !.board.present = TRUE]
Lost(s) == [s EXCEPT !.board.present = FALSE, !.board.sinceCheck = 0]

Seeded(s, b, valid) ==
  [s EXCEPT !.board.bank = Started(s.board.bank, high[b], valid),
            !.board.sincePoll = 0]

(* Mistake: the directions are written before the latch. *)
CutShortAfterDirections(s, b) ==
  {s} \cup IF b \in plugged THEN {WithDirections(s)} ELSE {}
(* The chip after transfers of which the last one failed. *)
CutShort(s, b) == {s} \cup IF b \in plugged THEN {WithLatch(s)} ELSE {}

Written(s) ==
  [WithDirections(WithLatch(s)) EXCEPT !.board.dirty = FALSE,
                                       !.chip.setUp = TRUE]

(* IoBoards::setup(): latch, pull-ups, polarity and directions, as far as the
   chip has them, and with seed a reading.  The outcomes in which it succeeds,
   and those in which it does not. *)
SetUps(s, b, seed) ==
  IF ~Succeeds(b) THEN {}
  ELSE {IF seed THEN Seeded(Written(s), b, TRUE) ELSE Written(s)}
FailedSetUps(s, b, seed) ==
  IF ~Fails(b) THEN {}
  ELSE IF seed
       THEN {Seeded(t, b, FALSE) :
               t \in CutShort(s, b) \cup IF b \in plugged THEN {Written(s)} ELSE {}}
       ELSE CutShort(s, b)

(* IoBoards::check() *)
Checks(s, b, seed) ==
  LET now == [s EXCEPT !.board.sinceCheck = 0] IN
    IF s.board.present
    THEN SetUps(now, b, seed) \cup {Lost(t) : t \in FailedSetUps(now, b, seed)}
    ELSE {Found(t) : t \in SetUps(now, b, TRUE)}
           \cup (IF Fails(b) THEN {Lost(now)} ELSE {})           \* the probe
           \cup (IF Succeeds(b)
                 THEN {Lost(t) : t \in FailedSetUps(now, b, TRUE)} ELSE {})

(* Mistake: a latch that could not be written is not written again. *)
LatchWritesForgetting(s, b) ==
  IF ~(s.board.present /\ s.board.dirty) THEN {s}
  ELSE LET clean == [s EXCEPT !.board.dirty = FALSE] IN
    (IF Succeeds(b) THEN {WithLatch(clean)} ELSE {})
      \cup (IF Fails(b) THEN {clean} ELSE {})
(* The first loop of IoBoards::poll(), for a board. *)
LatchWrites(s, b) ==
  IF ~(s.board.present /\ s.board.dirty) THEN {s}
  ELSE (IF Succeeds(b)
        THEN {WithLatch([s EXCEPT !.board.dirty = FALSE])} ELSE {})
         \cup (IF Fails(b) THEN {Lost(t) : t \in CutShort(s, b)} ELSE {})

(* The last loop, for the board whose turn it is. *)
Reads(s, b) ==
  LET now == [s EXCEPT !.board.sincePoll = 0] IN
    (IF Succeeds(b)
     THEN {[now EXCEPT !.board.bank = Sampled(@, high[b])]} ELSE {})
      \cup (IF Fails(b) THEN {Lost(now)} ELSE {})

-----------------------------------------------------------------------------
(* The round-robins of IoBoards::poll(): the first that is ready, from next. *)
Turn(next, ready) ==
  CHOOSE b \in ready :
    \A c \in ready : (b - next) % NumBoards <= (c - next) % NumBoards
(* Mistake: the first of the boards is always the first. *)
AfterNone(b) == 1
After(b) == (b % NumBoards) + 1

Due(s) == {b \in Board : s[b].board.fitted /\ s[b].board.sinceCheck >= CHECK}
Ready(s) ==
  {b \in Board : /\ s[b].board.present
                 /\ InputsOf(s[b].board.bank.pins) # {}
                 /\ s[b].board.sincePoll >= POLL}

(* What the boards become when each b becomes one of outcomes[b]. *)
Choices(outcomes) ==
  {s \in [Board -> UNION {outcomes[b] : b \in Board}] :
     \A b \in Board : s[b] \in outcomes[b]}

(* IoPins::poll() and FemtoController::poll_pins(): the pins that change, and
   whether they have been read. *)
PinsPolled ==
  {[read |-> TRUE, bank |-> Sampled(pins, high[Pins])]}
    \cup (IF noisy THEN {[read |-> FALSE, bank |-> pins]} ELSE {})

(* The age of the last agreeing reading, of a bank that was read, was left
   alone, or was set up anew. *)
Agreeing(w, bank) ==
  [l \in Line |-> IF (l \in Level(bank, high[w])) = (l \in bank.active)
                  THEN 0 ELSE agreed[w][l]]
AgreedSince(b, s, read) ==
  IF ~(board[b].present /\ s[b].board.present) THEN [l \in Line |-> 0]
  ELSE IF read THEN Agreeing(b, s[b].board.bank) ELSE agreed[b]

(* The transitions of every line are taken as they come. *)
Polled(p, s, read) ==
  /\ pins' = Taken(p.bank)
  /\ board' = [b \in Board |-> [s[b].board EXCEPT !.bank = Taken(s[b].board.bank)]]
  /\ chip' = [w \in Board \cup {Pins} |-> IF w \in Board THEN s[w].chip ELSE chip[w]]
  /\ marked' = {<<Pins, l>> : l \in p.bank.transition}
                 \cup {m \in Board \X Line : m[2] \in s[m[1]].board.bank.transition}
  /\ agreed' = [w \in Board \cup {Pins} |->
                  IF w \in Board THEN AgreedSince(w, s, w \in read)
                  ELSE IF p.read THEN Agreeing(w, p.bank) ELSE agreed[w]]

(* FemtoController::poll_pins() and poll_io_boards(), with IoBoards::poll():
   latches, at most one check, at most one reading. *)
Poll ==
  /\ ~polled
  /\ polled' = TRUE
  /\ \E p \in PinsPolled, s1 \in Choices([b \in Board |-> LatchWrites(Of(b), b)]) :
       LET checks == Due(s1)
           c == Turn(nextCheck, checks)
       IN \E s2 \in IF checks = {} THEN {s1}
                    ELSE {[s1 EXCEPT ![c] = t] : t \in Checks(s1[c], c, FALSE)} :
            LET reads == Ready(s2)
                r == Turn(nextPoll, reads)
            IN \E s3 \in IF reads = {} THEN {s2}
                         ELSE {[s2 EXCEPT ![r] = t] : t \in Reads(s2[r], r)} :
                 /\ Polled(p, s3, IF reads = {} THEN {} ELSE {r})
                 /\ nextCheck' = IF checks = {} THEN nextCheck ELSE After(c)
                 /\ nextPoll' = IF reads = {} THEN nextPoll ELSE After(r)
  /\ UNCHANGED <<plugged, noisy, high, changes>>

-----------------------------------------------------------------------------
(* Commands: FemtoController::drive() *)

(* IoPins::setOutput(): the latch is written once, whatever comes of it. *)
SetPin(l, on) ==
  /\ pins.pins[l].mode = "Output"
  /\ pins' = Switched(pins, l, on)
  /\ \E written \in IF Latch(pins') = Latch(pins) THEN {FALSE}
                      ELSE IF noisy THEN BOOLEAN ELSE {TRUE} :
       chip' = [chip EXCEPT
                  ![Pins].latch = IF written THEN Latch(pins') ELSE @,
                  ![Pins].setUp = @ /\ (written \/ Latch(pins') = Latch(pins))]
  /\ UNCHANGED <<board, nextCheck, nextPoll, plugged, noisy, high, polled,
                 marked, changes, agreed>>

(* IoBoards::setOutput(): the next poll writes a latch that changes. *)
SetLine(b, l, on) ==
  /\ board[b].fitted
  /\ board[b].bank.pins[l].mode = "Output"
  /\ LET bank == Switched(board[b].bank, l, on) IN
       board' = [board EXCEPT
                   ![b].bank = bank,
                   ![b].dirty = @ \/ Latch(bank) # Latch(board[b].bank)]
  /\ UNCHANGED <<pins, nextCheck, nextPoll, chip, plugged, noisy, high, polled,
                 marked, changes, agreed>>

-----------------------------------------------------------------------------
(* A load of the configuration: FemtoController::apply_configuration() *)

(* ioBoardAddressValid() *)
Valid(type, address) ==
  \/ type = "MCP23017" /\ address \in Low
  \/ type \in {"PCF8574", "TCA9534"} /\ address \in Low \cup High

(* ioBoardLines(), of a board in use. *)
LinesOf(type) ==
  IF type = "MCP23017" THEN Line
  ELSE IF type \in {"PCF8574", "TCA9534"} THEN Chip8 ELSE {}

(* The boards that are used: an earlier one that is has its address. *)
Fitted(s) ==
  LET fits[b \in Board] ==
        /\ Valid(s[b].type, s[b].address)
        /\ \A o \in 1..b - 1 : fits[o] => s[o].address # s[b].address
  IN {b \in Board : fits[b]}

SameBoard(b, s) == s[b].type = board[b].type /\ s[b].address = board[b].address

(* IoBoards::configure(), for a board, before its check.  At another address
   there is another chip, in whatever state. *)
LoadedBoard(b, s) ==
  LET fitted == b \in Fitted(s)
      lines == [l \in Line |-> IF fitted /\ l \in LinesOf(s[b].type)
                               THEN s[b].lines[l] ELSE Unused]
  IN [board[b] EXCEPT !.type = s[b].type, !.address = s[b].address,
                      !.fitted = fitted,
                      !.present = @ /\ SameBoard(b, s) /\ fitted,
                      !.dirty = FALSE,
                      !.bank = Loaded(@, lines)]
Elsewhere(type) ==
  {PoweredUp, [latch |-> {}, inputs |-> IF type = "PCF8574" THEN {} ELSE Line,
               setUp |-> FALSE]}
ChipAt(b, s) ==
  IF SameBoard(b, s) THEN {chip[b]}
  ELSE IF b \in Fitted(s) THEN Elsewhere(s[b].type) ELSE {PoweredUp}
LoadedBoards(b, s) ==
  UNION {LET t == [board |-> LoadedBoard(b, s), chip |-> k] IN
           IF b \in Fitted(s) THEN Checks(t, b, TRUE) ELSE {t} :
         k \in ChipAt(b, s)}

(* IoPins::configure(): latch before directions, none of the writes checked. *)
MayFail == IF noisy THEN BOOLEAN ELSE {TRUE}
LoadedPins(lines) ==
  LET bank == Loaded(pins, lines) IN
    {[bank |-> Started(bank, high[Pins], read),
      chip |-> [latch |-> IF latched THEN Latch(bank) ELSE chip[Pins].latch,
                inputs |-> IF directed THEN InputMask(bank)
                           ELSE chip[Pins].inputs,
                setUp |-> latched /\ directed]] :
       latched \in MayFail, directed \in MayFail, read \in MayFail}

(* A line that is no input is pulled up, or not read. *)
ApplyConfiguration(s) ==
  /\ Change
  /\ \E p \in LoadedPins(s.pins),
        t \in Choices([b \in Board |-> LoadedBoards(b, s.boards)]) :
       /\ pins' = p.bank
       /\ board' = [b \in Board |-> t[b].board]
       /\ chip' = [w \in Board \cup {Pins} |-> IF w \in Board THEN t[w].chip
                                                ELSE p.chip]
  /\ agreed' = [w \in Board \cup {Pins} |-> [l \in Line |-> 0]]
  /\ high' = [w \in Board \cup {Pins} |->
       LET bank == IF w = Pins THEN pins' ELSE board'[w].bank IN
         high[w] \cup (Line \ InputsOf(bank.pins))]
  /\ UNCHANGED <<nextCheck, nextPoll, plugged, noisy, polled, marked>>

-----------------------------------------------------------------------------
(* The surroundings *)

(* A board is plugged in, or loses its power for a moment. *)
Plug(b) ==
  /\ Change
  /\ plugged' = plugged \cup {b}
  /\ chip' = [chip EXCEPT ![b] = PoweredUp]
  /\ UNCHANGED <<pins, board, nextCheck, nextPoll, noisy, high, polled, marked,
                 agreed>>

Unplug(b) ==
  /\ Change
  /\ plugged' = plugged \ {b}
  /\ UNCHANGED <<pins, board, nextCheck, nextPoll, chip, noisy, high, polled,
                 marked, agreed>>

Noise ==
  /\ Change
  /\ noisy' = ~noisy
  /\ UNCHANGED <<pins, board, nextCheck, nextPoll, chip, plugged, high, polled,
                 marked, agreed>>

BankOf(w) == IF w = Pins THEN pins ELSE board[w].bank

Input(w, l) ==
  /\ l \in InputsOf(BankOf(w).pins)
  /\ high' = [high EXCEPT ![w] = Apart(@, {l})]
  /\ UNCHANGED <<pins, board, nextCheck, nextPoll, chip, plugged, noisy, polled,
                 marked, changes, agreed>>

Older(age, most) == IF age < most THEN age + 1 ELSE age

Tick ==
  /\ polled
  /\ polled' = FALSE
  /\ marked' = {}
  /\ pins' = Aged(pins)
  /\ board' = [b \in Board |->
       [board[b] EXCEPT
          !.sinceCheck = IF board[b].fitted THEN Older(@, CHECK) ELSE @,
          !.sincePoll = IF board[b].present THEN Older(@, POLL) ELSE @,
          !.bank = Aged(@)]]
  /\ agreed' = [w \in Board \cup {Pins} |-> [l \in Line |->
       Older(agreed[w][l], BankOf(w).pins[l].debounce)]]
  /\ UNCHANGED <<nextCheck, nextPoll, chip, plugged, noisy, high, changes>>

Running == Poll \/ Tick

Next ==
  \/ Running
  \/ \E l \in Line, on \in BOOLEAN :
       SetPin(l, on) \/ \E b \in Board : SetLine(b, l, on)
  \/ \E s \in Settings : ApplyConfiguration(s)
  \/ \E b \in Board : Plug(b) \/ Unplug(b)
  \/ Noise
  \/ \E w \in Board \cup {Pins}, l \in Line : Input(w, l)

Spec == Init /\ [][Next]_vars
(* The hardware thread goes on, and so does time: Poll and Tick, of which one
   is always enabled, are the steps that change polled. *)
FairSpec == Spec /\ WF_polled(polled' = ~polled)

-----------------------------------------------------------------------------
(* A board that answers has the outputs it was last commanded, and its lines
   the directions that were configured, unless a switched line waits for the
   next poll or the board has lost its power since it was set up; through
   transfers that fail half way, boards that come and go, and loads that
   change the chip or the lines (IoBoards, dirty and present).  The pins have
   them as long as no transfer to them has failed. *)
HasDirections(k, bank, type) ==
  k.inputs = IF type = "PCF8574" THEN Latch(bank) ELSE InputMask(bank)
ChipsAsCommanded ==
  /\ \A b \in Board :
       board[b].present /\ ~board[b].dirty /\ chip[b].setUp
       => /\ chip[b].latch = Latch(board[b].bank)
          /\ HasDirections(chip[b], board[b].bank, board[b].type)
  /\ chip[Pins].setUp
     => chip[Pins].latch = Latch(pins) /\ HasDirections(chip[Pins], pins, "None")

(* "Latch before direction ... so a line that becomes an output starts in the
   right state" (IoBoards.cpp, setup), whichever transfer fails and whatever
   the chip held; and so do the pins when none fails (IoPins.cpp). *)
StartsRight(w, bank) ==
  \A l \in chip[w].inputs \ chip'[w].inputs :
    l \in chip'[w].latch <=> l \in Latch(bank)
OutputsStartRight ==
  [][/\ \A b \in Board :
          /\ board'[b].type = board[b].type
          /\ board'[b].address = board[b].address
          => StartsRight(b, board'[b].bank)
     /\ ~noisy => StartsRight(Pins, pins')]_vars

(* What the node says of an input: FemtoController::state_of(). *)
StateOf(w, l) ==
  IF w # Pins /\ ~board[w].present THEN "Unknown"
  ELSE IF l \in BankOf(w).active THEN "Active" ELSE "Inactive"

(* An input changes only when every reading of its debounce time has differed
   from what it was, and then its slot is marked; a bounce, a board that is
   lost and found, and a reading that fails change nothing.  Only a board that
   is set up anew, and a load of the configuration, seed an input silently
   (IoPins.cpp, sample; IoBoards.cpp, setup). *)
InputsDebounced ==
  [][Poll => \A w \in Board \cup {Pins}, l \in Line :
       LET differs == {StateOf(w, l), StateOf(w, l)'} = {"Active", "Inactive"} IN
         /\ differs => /\ agreed[w][l] >= BankOf(w).pins[l].debounce
                       /\ <<w, l>> \in marked'
         /\ <<w, l>> \in marked' => differs]_vars

(* Once the bus works, every board that is there is found, its latch is
   written and its inputs are read again and again, however the lines are
   switched and the inputs change: the turns of checks and readings pass no
   board over for ever (IoBoards.cpp, poll, check and lost). *)
BoardsServed ==
  \A b \in Board :
    /\ []<>(~noisy /\ b \in plugged /\ board[b].fitted
            => board[b].present /\ ~board[b].dirty)
    /\ []<>(~noisy /\ b \in plugged /\ InputsOf(board[b].bank.pins) # {}
            => board[b].sincePoll = 0)

=============================================================================
