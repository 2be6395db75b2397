--------------------------- MODULE DigitalIoProofs ---------------------------
(***************************************************************************)
(* Proofs about DigitalIo, for any lines, boards, addresses and settings.  *)
(***************************************************************************)
EXTENDS DigitalIo, WellFoundedInduction, TLAPS

USE BankAssumption, IoAssumption

Somewhere == Board \cup {Pins}

(* Of a board, with what its chip holds. *)
Outcome == [board : BoardState, chip : Chip]

(* A board that answers, and that has had no loss of power since it was set up,
   has the directions that were configured; and its latch is what it should be
   unless it waits to be written. *)
Right(s) ==
  s.board.present /\ s.chip.setUp =>
    /\ s.board.type # "PCF8574" => s.chip.inputs = InputMask(s.board.bank)
    /\ ~s.board.dirty =>
         /\ s.chip.latch = Latch(s.board.bank)
         /\ s.board.type = "PCF8574" => s.chip.inputs = Latch(s.board.bank)
PinsRight ==
  chip[Pins].setUp =>
    chip[Pins].latch = Latch(pins) /\ chip[Pins].inputs = InputMask(pins)

(* No transition is left over, and an input that has been seen to differ from
   its state has differed ever since the code began to wait. *)
Watched(w) == w = Pins \/ board[w].present
Waits(bank, l) == (l \in bank.pending) # (l \in bank.active)
WaitsKnown(w) ==
  /\ BankOf(w).transition = {}
  /\ Watched(w) => \A l \in InputsOf(BankOf(w).pins) :
       Waits(BankOf(w), l) => BankOf(w).since[l] <= agreed[w][l]

IoInv ==
  /\ TypeOK
  /\ \A b \in Board : Right(Of(b))
  /\ PinsRight
  /\ \A w \in Somewhere : WaitsKnown(w)

-----------------------------------------------------------------------------
(* A bank *)

SameLines(bank, other) == other.pins = bank.pins /\ other.on = bank.on

LEMMA SameLinesSameMasks ==
  ASSUME NEW bank, NEW other, SameLines(bank, other)
  PROVE  /\ Latch(other) = Latch(bank) /\ InputMask(other) = InputMask(bank)
         /\ \A high_ : Level(other, high_) = Level(bank, high_)
BY DEF SameLines, Latch, InputMask, Level

LEMMA StartedIs ==
  ASSUME NEW bank \in Bank, NEW levels, NEW valid \in BOOLEAN
  PROVE  /\ Started(bank, levels, valid) \in Bank
         /\ SameLines(bank, Started(bank, levels, valid))
         /\ Started(bank, levels, valid).transition = {}
         /\ Started(bank, levels, valid).pending = Started(bank, levels, valid).active
         /\ valid => Started(bank, levels, valid).active = Level(bank, levels)
         /\ \A l \in Line : Started(bank, levels, valid).since[l] = 0
<1> DEFINE level == IF valid THEN Level(bank, levels) ELSE {}
           since == [l \in Line |-> 0]
<1>1. level \subseteq Line /\ since \in [Line -> 0..MaxDebounce]
  BY DEF Level, InputsOf
<1>2. Started(bank, levels, valid) =
        [bank EXCEPT !.active = level, !.pending = level, !.transition = {},
                     !.since = since]
  BY DEF Started
<1>3. valid => level = Level(bank, levels)
  OBVIOUS
<1>4. \A l \in Line : since[l] = 0
  OBVIOUS
<1> HIDE DEF level, since
<1> QED BY <1>1, <1>2, <1>3, <1>4 DEF Bank, SameLines

LEMMA SampledIs ==
  ASSUME NEW bank \in Bank, NEW levels
  PROVE  /\ Sampled(bank, levels) \in Bank
         /\ SameLines(bank, Sampled(bank, levels))
<1> DEFINE level == Level(bank, levels)
           again == WaitsAgain(bank, level)
           since == [l \in Line |-> IF l \in again THEN 0 ELSE bank.since[l]]
           held == {l \in InputsOf(bank.pins) :
                      /\ (l \in level) # (l \in bank.active)
                      /\ since[l] >= bank.pins[l].debounce}
<1>1. /\ level \subseteq Line /\ held \subseteq Line
      /\ since \in [Line -> 0..MaxDebounce]
  <2>1. level \subseteq Line /\ held \subseteq Line
    BY DEF Level, InputsOf
  <2>2. bank.since \in [Line -> 0..MaxDebounce] /\ 0 \in 0..MaxDebounce
    BY DEF Bank
  <2> HIDE DEF level, again
  <2>3. since \in [Line -> 0..MaxDebounce]
    BY <2>2
  <2> QED BY <2>1, <2>3
<1>2. Sampled(bank, levels) =
        [bank EXCEPT !.since = since,
                     !.pending = (bank.pending \ again) \cup (level \cap again),
                     !.active = Apart(bank.active, held),
                     !.transition = bank.transition \cup held]
  BY DEF Sampled, Bank
<1>3. /\ Apart(bank.active, held) \subseteq Line
      /\ (bank.pending \ again) \cup (level \cap again) \subseteq Line
      /\ bank.transition \cup held \subseteq Line
  <2> HIDE DEF level, again, since, held
  <2> QED BY <1>1 DEF Apart, Bank
<1> DEFINE pending == (bank.pending \ again) \cup (level \cap again)
           active == Apart(bank.active, held)
           transition == bank.transition \cup held
<1>4. pending \subseteq Line /\ active \subseteq Line /\ transition \subseteq Line
  BY <1>3
<1>5. Sampled(bank, levels) = [bank EXCEPT !.since = since, !.pending = pending,
                                           !.active = active, !.transition = transition]
  BY <1>2
<1> HIDE DEF level, again, since, held, pending, active, transition
<1> QED BY <1>1, <1>4, <1>5 DEF Bank, SameLines

(* An input changes, and has a transition, when it has been seen to differ for
   its debounce time; one that goes on waiting differs from its state. *)
LEMMA SampledDebounces ==
  ASSUME NEW bank \in Bank, NEW levels, bank.transition = {}, NEW l \in Line
  PROVE  LET s == Sampled(bank, levels) IN
         /\ l \in s.transition <=> ((l \in s.active) # (l \in bank.active))
         /\ l \in s.transition =>
              \/ bank.pins[l].debounce = 0
              \/ /\ l \in InputsOf(bank.pins) /\ Waits(bank, l)
                 /\ bank.since[l] >= bank.pins[l].debounce
         /\ l \in InputsOf(bank.pins) /\ Waits(s, l) =>
              \/ s.since[l] = 0
              \/ /\ Waits(bank, l) /\ s.since[l] = bank.since[l]
                 /\ (l \in Level(bank, levels)) # (l \in s.active)
<1> DEFINE level == Level(bank, levels)
           again == WaitsAgain(bank, level)
           since == [k \in Line |-> IF k \in again THEN 0 ELSE bank.since[k]]
           held == {k \in InputsOf(bank.pins) :
                      /\ (k \in level) # (k \in bank.active)
                      /\ since[k] >= bank.pins[k].debounce}
           s == Sampled(bank, levels)
<1>1. /\ s.since = since
      /\ s.pending = (bank.pending \ again) \cup (level \cap again)
      /\ s.active = Apart(bank.active, held)
      /\ s.transition = held
  BY DEF Sampled, Bank
<1>2. bank.since[l] \in Nat /\ bank.pins[l].debounce \in Nat
  BY DEF Bank, PinSetting
<1>3. since[l] = IF l \in again THEN 0 ELSE bank.since[l]
  OBVIOUS
<1>4. l \in again <=> /\ l \in InputsOf(bank.pins)
                      /\ \/ (l \in level) = (l \in bank.active)
                         \/ (l \in level) # (l \in bank.pending)
  BY DEF WaitsAgain
<1>5. l \in held <=> /\ l \in InputsOf(bank.pins)
                     /\ (l \in level) # (l \in bank.active)
                     /\ since[l] >= bank.pins[l].debounce
  OBVIOUS
<1>6. /\ l \in s.active <=> ((l \in bank.active) # (l \in held))
      /\ l \in s.pending <=> IF l \in again THEN l \in level ELSE l \in bank.pending
  <2>1. /\ s.active = (bank.active \ held) \cup (held \ bank.active)
        /\ s.pending = (bank.pending \ again) \cup (level \cap again)
    BY <1>1 DEF Apart
  <2> HIDE DEF level, again, since, held, s
  <2> QED BY <2>1
<1> HIDE DEF level, again, since, held, s
<1>7. l \in s.transition <=> ((l \in s.active) # (l \in bank.active))
  BY <1>1, <1>6
<1>8. l \in s.transition =>
         \/ bank.pins[l].debounce = 0
         \/ /\ l \in InputsOf(bank.pins) /\ Waits(bank, l)
            /\ bank.since[l] >= bank.pins[l].debounce
  BY <1>1, <1>2, <1>3, <1>4, <1>5 DEF Waits
<1>9. l \in InputsOf(bank.pins) /\ Waits(s, l) =>
         \/ s.since[l] = 0
         \/ /\ Waits(bank, l) /\ s.since[l] = bank.since[l]
            /\ (l \in level) # (l \in s.active)
  BY <1>1, <1>3, <1>4, <1>5, <1>6 DEF Waits
<1> QED BY <1>7, <1>8, <1>9 DEF s, level

LEMMA TakenIs ==
  ASSUME NEW bank \in Bank
  PROVE  /\ Taken(bank) \in Bank /\ SameLines(bank, Taken(bank))
         /\ Taken(bank).transition = {} /\ Taken(bank).active = bank.active
         /\ Taken(bank).pending = bank.pending /\ Taken(bank).since = bank.since
BY DEF Taken, Bank, SameLines

LEMMA AgedIs ==
  ASSUME NEW bank \in Bank
  PROVE  /\ Aged(bank) \in Bank /\ SameLines(bank, Aged(bank))
         /\ Aged(bank).transition = bank.transition /\ Aged(bank).active = bank.active
         /\ Aged(bank).pending = bank.pending
         /\ \A l \in Line : Aged(bank).since[l] =
              IF bank.since[l] < bank.pins[l].debounce
              THEN bank.since[l] + 1 ELSE bank.since[l]
<1> DEFINE since == [l \in Line |-> IF bank.since[l] < bank.pins[l].debounce
                                    THEN bank.since[l] + 1 ELSE bank.since[l]]
<1>1. since \in [Line -> 0..MaxDebounce]
  BY DEF Bank, PinSetting
<1>2. Aged(bank) = [bank EXCEPT !.since = since]
  BY DEF Aged
<1> HIDE DEF since
<1>3. /\ Aged(bank) \in Bank /\ SameLines(bank, Aged(bank))
      /\ Aged(bank).transition = bank.transition /\ Aged(bank).active = bank.active
      /\ Aged(bank).pending = bank.pending /\ Aged(bank).since = since
  BY <1>1, <1>2 DEF Bank, SameLines
<1> QED BY <1>3 DEF since

LEMMA SwitchedIs ==
  ASSUME NEW bank \in Bank, NEW l \in Line, NEW on \in BOOLEAN
  PROVE  /\ Switched(bank, l, on) \in Bank
         /\ Switched(bank, l, on) =
              [bank EXCEPT !.on = Switched(bank, l, on).on]
         /\ InputMask(Switched(bank, l, on)) = InputMask(bank)
<1> DEFINE set == IF on THEN bank.on \cup {l} ELSE bank.on \ {l}
<1>1. set \subseteq Line
  BY DEF Bank
<1>2. Switched(bank, l, on) = [bank EXCEPT !.on = set]
  BY DEF Switched, Bank
<1> HIDE DEF set
<1> QED BY <1>1, <1>2 DEF Bank, InputMask

LEMMA LoadedIs ==
  ASSUME NEW bank \in Bank, NEW lines \in [Line -> PinSetting]
  PROVE  /\ Loaded(bank, lines) \in Bank
         /\ Loaded(bank, lines).transition = {} /\ Loaded(bank, lines).pins = lines
BY DEF Loaded, Bank

-----------------------------------------------------------------------------
(* The steps of the driver of a board *)

(* A step keeps what the board is and what was commanded; and a chip that it
   writes has the latch that was commanded. *)
Keeps(s, t) ==
  /\ t \in Outcome
  /\ t.board.type = s.board.type /\ t.board.address = s.board.address
  /\ t.board.fitted = s.board.fitted
  /\ SameLines(s.board.bank, t.board.bank)
  /\ t.chip = s.chip \/ t.chip.latch = Latch(s.board.bank)

(* What the steps change of a board is of its type. *)
LEMMA BoardSteps ==
  ASSUME NEW x \in BoardState
  PROVE  /\ [x EXCEPT !.present = FALSE, !.sinceCheck = 0] \in BoardState
         /\ [x EXCEPT !.present = TRUE] \in BoardState
         /\ [x EXCEPT !.dirty = FALSE] \in BoardState
         /\ [x EXCEPT !.sinceCheck = 0] \in BoardState
         /\ [x EXCEPT !.sincePoll = 0] \in BoardState
         /\ \A bank \in Bank :
              /\ [x EXCEPT !.bank = bank, !.sincePoll = 0] \in BoardState
              /\ [x EXCEPT !.bank = bank] \in BoardState
<1>1. 0 \in 0..CHECK /\ 0 \in 0..POLL
  OBVIOUS
<1> QED BY <1>1 DEF BoardState

LEMMA OutcomeParts ==
  /\ \A s \in Outcome : s.board \in BoardState /\ s.chip \in Chip
  /\ \A x \in BoardState : x.bank \in Bank
BY DEF Outcome, BoardState

LEMMA KeepsOn ==
  ASSUME NEW s, NEW t, NEW u, Keeps(s, t), Keeps(t, u)
  PROVE  Keeps(s, u)
<1>1. Latch(t.board.bank) = Latch(s.board.bank)
  BY SameLinesSameMasks DEF Keeps
<1> QED BY <1>1 DEF Keeps, SameLines

LEMMA WithLatchIs ==
  ASSUME NEW s \in Outcome
  PROVE  /\ WithLatch(s) \in Outcome /\ WithLatch(s).board = s.board
         /\ WithLatch(s).chip.latch = Latch(s.board.bank)
         /\ WithLatch(s).chip.setUp = s.chip.setUp
         /\ WithLatch(s).chip.inputs = IF s.board.type = "PCF8574"
                                       THEN Latch(s.board.bank) ELSE s.chip.inputs
<1>1. Latch(s.board.bank) \subseteq Line
  BY DEF Latch
<1> QED BY <1>1 DEF WithLatch, Outcome, Chip

LEMMA WrittenIs ==
  ASSUME NEW s \in Outcome
  PROVE  /\ Written(s) \in Outcome /\ Written(s).board = [s.board EXCEPT !.dirty = FALSE]
         /\ Written(s).chip.latch = Latch(s.board.bank)
         /\ Written(s).chip.inputs = IF s.board.type = "PCF8574"
                                     THEN Latch(s.board.bank) ELSE InputMask(s.board.bank)
<1> DEFINE t == WithLatch(s)
<1>1. /\ t \in Outcome /\ t.board = s.board /\ t.chip.latch = Latch(s.board.bank)
      /\ t.chip.inputs = IF s.board.type = "PCF8574"
                         THEN Latch(s.board.bank) ELSE s.chip.inputs
  BY WithLatchIs
<1> HIDE DEF t
<1> DEFINE u == WithDirections(t)
<1>2. /\ u \in Outcome /\ u.board = s.board /\ u.chip.latch = t.chip.latch
      /\ u.chip.inputs = IF s.board.type = "PCF8574"
                         THEN t.chip.inputs ELSE InputMask(s.board.bank)
  <2>1. InputMask(t.board.bank) \subseteq Line
    BY DEF InputMask
  <2> QED BY <1>1, <2>1 DEF WithDirections, Outcome, Chip
<1> HIDE DEF u
<1>3. Written(s) = [u EXCEPT !.board.dirty = FALSE, !.chip.setUp = TRUE]
  BY DEF Written, u, t
<1>4. [u.board EXCEPT !.dirty = FALSE] \in BoardState
  BY <1>2, OutcomeParts, BoardSteps
<1>5. /\ [u.chip EXCEPT !.setUp = TRUE] \in Chip
      /\ [u.chip EXCEPT !.setUp = TRUE].latch = u.chip.latch
      /\ [u.chip EXCEPT !.setUp = TRUE].inputs = u.chip.inputs
  BY <1>2 DEF Outcome, Chip
<1>6. /\ Written(s) \in Outcome
      /\ Written(s).board = [u.board EXCEPT !.dirty = FALSE]
      /\ Written(s).chip = [u.chip EXCEPT !.setUp = TRUE]
  BY <1>2, <1>3, <1>4, <1>5 DEF Outcome
<1> QED BY <1>1, <1>2, <1>5, <1>6

LEMMA LostIs ==
  ASSUME NEW s \in Outcome
  PROVE  /\ Lost(s) \in Outcome /\ Lost(s).chip = s.chip
         /\ Lost(s).board = [s.board EXCEPT !.present = FALSE, !.sinceCheck = 0]
<1>1. [s.board EXCEPT !.present = FALSE, !.sinceCheck = 0] \in BoardState
  BY OutcomeParts, BoardSteps
<1> QED BY <1>1 DEF Lost, Outcome

LEMMA SeededIs ==
  ASSUME NEW s \in Outcome, NEW b, NEW valid \in BOOLEAN
  PROVE  /\ Seeded(s, b, valid) \in Outcome /\ Seeded(s, b, valid).chip = s.chip
         /\ Seeded(s, b, valid).board =
              [s.board EXCEPT !.bank = Started(s.board.bank, high[b], valid),
                              !.sincePoll = 0]
<1>1. Started(s.board.bank, high[b], valid) \in Bank
  BY StartedIs DEF Outcome, BoardState
<1>2. [s.board EXCEPT !.bank = Started(s.board.bank, high[b], valid),
                      !.sincePoll = 0] \in BoardState
  BY <1>1, OutcomeParts, BoardSteps
<1> QED BY <1>2 DEF Seeded, Outcome

(* A latch that is cut short is written or is not. *)
LEMMA CutShortIs ==
  ASSUME NEW s \in Outcome, NEW b, NEW t \in CutShort(s, b)
  PROVE  Keeps(s, t) /\ t.board = s.board
<1>1. t = s \/ t = WithLatch(s)
  BY DEF CutShort
<1> QED BY <1>1, WithLatchIs DEF Keeps, SameLines

(* A board's inputs as they begin anew. *)
Anew(bank, b) == Started(bank, high[b], TRUE)

LEMMA AnewIs ==
  ASSUME NEW bank \in Bank, NEW b
  PROVE  /\ Anew(bank, b) \in Bank /\ SameLines(bank, Anew(bank, b))
         /\ Anew(bank, b).transition = {} /\ Anew(bank, b).pending = Anew(bank, b).active
BY StartedIs DEF Anew

(* A board that is set up is as it should be, and its inputs are as they were
   or begin anew. *)
LEMMA SetUpsDo ==
  ASSUME NEW s \in Outcome, NEW b, NEW seed \in BOOLEAN, NEW t \in SetUps(s, b, seed)
  PROVE  /\ Keeps(s, t) /\ Right(t) /\ t.board.present = s.board.present
         /\ seed => t.board.bank = Anew(s.board.bank, b)
         /\ ~seed => t.board.bank = s.board.bank
         /\ t.chip.latch = Latch(t.board.bank) /\ ~t.board.dirty
<1> DEFINE w == Written(s)
<1>1. /\ w \in Outcome /\ w.board = [s.board EXCEPT !.dirty = FALSE]
      /\ w.chip.latch = Latch(s.board.bank)
      /\ w.chip.inputs = IF s.board.type = "PCF8574"
                         THEN Latch(s.board.bank) ELSE InputMask(s.board.bank)
  BY WrittenIs
<1>2. t = IF seed THEN Seeded(w, b, TRUE) ELSE w
  BY DEF SetUps
<1> HIDE DEF w
<1>3. CASE ~seed
  BY <1>1, <1>2, <1>3 DEF Keeps, SameLines, Right, Outcome, BoardState
<1>4. CASE seed
  <2>1. /\ t \in Outcome /\ t.chip = w.chip
        /\ t.board = [w.board EXCEPT !.bank = Anew(w.board.bank, b),
                                     !.sincePoll = 0]
    BY <1>1, <1>2, <1>4, SeededIs DEF Anew
  <2>2. w.board.bank = s.board.bank /\ s.board.bank \in Bank
    BY <1>1 DEF Outcome, BoardState
  <2>3. SameLines(s.board.bank, Anew(s.board.bank, b))
    BY <2>2, AnewIs
  <2>4. t.board.bank = Anew(s.board.bank, b)
    BY <1>1, <2>1, <2>2 DEF Outcome, BoardState
  <2>5. /\ Latch(t.board.bank) = Latch(s.board.bank)
        /\ InputMask(t.board.bank) = InputMask(s.board.bank)
    BY <2>3, <2>4, SameLinesSameMasks
  <2>6. /\ t.board.type = s.board.type /\ t.board.address = s.board.address
        /\ t.board.fitted = s.board.fitted /\ ~t.board.dirty
        /\ t.board.present = s.board.present
    BY <1>1, <2>1 DEF Outcome, BoardState
  <2> QED BY <1>1, <1>4, <2>1, <2>3, <2>4, <2>5, <2>6 DEF Keeps, Right
<1> QED BY <1>3, <1>4

LEMMA SetUpsSeeded ==
  ASSUME NEW s \in Outcome, NEW b, NEW t \in SetUps(s, b, TRUE)
  PROVE  /\ Keeps(s, t) /\ Right(t) /\ t.board.present = s.board.present
         /\ t.board.bank = Anew(s.board.bank, b)
         /\ t.chip.latch = Latch(t.board.bank) /\ ~t.board.dirty
<1> DEFINE seed == TRUE
<1>1. seed \in BOOLEAN /\ (seed <=> TRUE) /\ t \in SetUps(s, b, seed)
  OBVIOUS
<1> HIDE DEF seed
<1> QED BY <1>1, SetUpsDo, ZenonT(60)

LEMMA SetUpsOnly ==
  ASSUME NEW s \in Outcome, NEW b, NEW t \in SetUps(s, b, FALSE)
  PROVE  /\ Keeps(s, t) /\ Right(t) /\ t.board.present = s.board.present
         /\ t.board.bank = s.board.bank
         /\ t.chip.latch = Latch(t.board.bank) /\ ~t.board.dirty
<1> DEFINE seed == FALSE
<1>1. seed \in BOOLEAN /\ (seed <=> FALSE) /\ t \in SetUps(s, b, seed)
  OBVIOUS
<1> HIDE DEF seed
<1> QED BY <1>1, SetUpsDo, ZenonT(60)

LEMMA FailedSetUpsDo ==
  ASSUME NEW s \in Outcome, NEW b, NEW seed \in BOOLEAN, NEW t \in FailedSetUps(s, b, seed)
  PROVE  /\ Keeps(s, t)
         /\ s.board.bank.transition = {} => t.board.bank.transition = {}
<1>1. PICK u \in CutShort(s, b) \cup {Written(s)} :
        t = u \/ t = Seeded(u, b, FALSE)
  BY DEF FailedSetUps
<1>2. Keeps(s, u) /\ u.board.bank = s.board.bank /\ u \in Outcome
  <2>1. CASE u \in CutShort(s, b)
    BY <2>1, CutShortIs DEF Keeps
  <2>2. CASE u = Written(s)
    <3>1. /\ u \in Outcome /\ u.board = [s.board EXCEPT !.dirty = FALSE]
          /\ u.chip.latch = Latch(s.board.bank)
      BY <2>2, WrittenIs
    <3> QED BY <3>1 DEF Keeps, SameLines, Outcome, BoardState
  <2> QED BY <2>1, <2>2
<1>3. CASE t = Seeded(u, b, FALSE)
  <2>1. /\ t \in Outcome /\ t.chip = u.chip
        /\ t.board = [u.board EXCEPT !.bank = Started(u.board.bank, high[b], FALSE),
                                     !.sincePoll = 0]
    BY <1>2, <1>3, SeededIs
  <2>2. t.board.bank = Started(s.board.bank, high[b], FALSE) /\ s.board.bank \in Bank
    BY <1>2, <2>1 DEF Outcome, BoardState
  <2>3. SameLines(s.board.bank, t.board.bank) /\ t.board.bank.transition = {}
    BY <2>2, StartedIs
  <2>4. /\ t.board.type = u.board.type /\ t.board.address = u.board.address
        /\ t.board.fitted = u.board.fitted
    BY <1>2, <2>1 DEF Outcome, BoardState
  <2> QED BY <1>2, <2>1, <2>3, <2>4 DEF Keeps
<1> QED BY <1>1, <1>2, <1>3

LEMMA LostDo ==
  ASSUME NEW s \in Outcome, NEW t, Keeps(s, t)
  PROVE  /\ Keeps(s, Lost(t)) /\ Right(Lost(t)) /\ ~Lost(t).board.present
         /\ Lost(t).board.bank = t.board.bank /\ Lost(t).board.sinceCheck = 0
<1>1. /\ t \in Outcome /\ Lost(t) \in Outcome /\ Lost(t).chip = t.chip
      /\ Lost(t).board = [t.board EXCEPT !.present = FALSE, !.sinceCheck = 0]
  BY LostIs DEF Keeps
<1>2. /\ Lost(t).board.type = t.board.type /\ Lost(t).board.address = t.board.address
      /\ Lost(t).board.fitted = t.board.fitted /\ Lost(t).board.bank = t.board.bank
      /\ ~Lost(t).board.present /\ Lost(t).board.sinceCheck = 0
  BY <1>1 DEF Outcome, BoardState
<1> QED BY <1>1, <1>2 DEF Keeps, Right

(* A check leaves a board that answers as it should be.  It reads the inputs of
   one that did not, or when it is asked to. *)
LEMMA ChecksDo ==
  ASSUME NEW s \in Outcome, NEW b, NEW seed \in BOOLEAN, NEW t \in Checks(s, b, seed)
  PROVE  /\ Keeps(s, t) /\ Right(t)
         /\ t.board.present /\ s.board.present /\ ~seed =>
              t.board.bank = s.board.bank
         /\ t.board.present /\ (seed \/ ~s.board.present) =>
              t.board.bank = Anew(s.board.bank, b)
         /\ ~t.board.present /\ s.board.bank.transition = {} =>
              t.board.bank.transition = {}
         /\ t.board.present => t.chip.latch = Latch(t.board.bank) /\ ~t.board.dirty
<1> DEFINE now == [s EXCEPT !.board.sinceCheck = 0]
<1>1. /\ now \in Outcome /\ now.chip = s.chip
      /\ now.board = [s.board EXCEPT !.sinceCheck = 0]
  <2>1. [s.board EXCEPT !.sinceCheck = 0] \in BoardState
    BY OutcomeParts, BoardSteps
  <2> QED BY <2>1 DEF Outcome
<1>2. /\ now.board.present = s.board.present /\ now.board.bank = s.board.bank
      /\ now.board.type = s.board.type /\ now.board.address = s.board.address
      /\ now.board.fitted = s.board.fitted
  BY <1>1 DEF Outcome, BoardState
<1>3. Keeps(s, now)
  BY <1>1, <1>2 DEF Keeps, SameLines
<1>4. \/ s.board.present /\ t \in SetUps(now, b, seed)
      \/ /\ ~s.board.present
         /\ \E u \in SetUps(now, b, TRUE) : t = Found(u)
      \/ t = Lost(now)
      \/ \E q \in BOOLEAN : \E u \in FailedSetUps(now, b, q) : t = Lost(u)
  BY DEF Checks
<1> HIDE DEF now
<1>5. CASE s.board.present /\ t \in SetUps(now, b, seed)
  <2>1. CASE seed
    <3>1. t \in SetUps(now, b, TRUE) /\ seed = TRUE
      BY <1>5, <2>1
    <3>2. /\ Keeps(now, t) /\ Right(t) /\ t.board.present = now.board.present
          /\ t.board.bank = Anew(now.board.bank, b)
          /\ t.chip.latch = Latch(t.board.bank) /\ ~t.board.dirty
      BY <1>1, <3>1, SetUpsSeeded
    <3>3. Keeps(s, t)
      BY <1>3, <3>2, KeepsOn
    <3>4. s.board.present /\ t.board.present
      BY <1>2, <1>5, <3>2
    <3> QED BY <1>2, <2>1, <3>2, <3>3, <3>4
  <2>2. CASE ~seed
    <3>1. t \in SetUps(now, b, FALSE)
      BY <1>5, <2>2
    <3>2. /\ Keeps(now, t) /\ Right(t) /\ t.board.present = now.board.present
          /\ t.board.bank = now.board.bank
          /\ t.chip.latch = Latch(t.board.bank) /\ ~t.board.dirty
      BY <1>1, <3>1, SetUpsOnly
    <3>3. Keeps(s, t)
      BY <1>3, <3>2, KeepsOn
    <3>4. s.board.present /\ t.board.present
      BY <1>2, <1>5, <3>2
    <3> QED BY <1>2, <2>2, <3>2, <3>3, <3>4
  <2> QED BY <2>1, <2>2
<1>6. ASSUME ~s.board.present, NEW u \in SetUps(now, b, TRUE), t = Found(u)
      PROVE  /\ Keeps(s, t) /\ Right(t)
             /\ t.board.bank = Anew(s.board.bank, b) /\ t.board.present
             /\ t.chip.latch = Latch(t.board.bank) /\ ~t.board.dirty
  <2>1. /\ Keeps(now, u)
        /\ u.board.bank = Anew(now.board.bank, b)
        /\ u.chip.latch = Latch(u.board.bank) /\ ~u.board.dirty
    BY <1>1, <1>6, SetUpsSeeded
  <2>2. /\ u.chip.inputs = IF u.board.type = "PCF8574"
                           THEN Latch(u.board.bank) ELSE InputMask(u.board.bank)
    <3> DEFINE w == Written(now)
    <3>1. /\ w \in Outcome /\ w.board = [now.board EXCEPT !.dirty = FALSE]
          /\ w.chip.inputs = IF now.board.type = "PCF8574"
                             THEN Latch(now.board.bank) ELSE InputMask(now.board.bank)
      BY <1>1, WrittenIs
    <3>2. u = Seeded(w, b, TRUE)
      BY <1>6 DEF SetUps
    <3> HIDE DEF w
    <3>3. u.chip = w.chip
      BY <3>1, <3>2, SeededIs
    <3>4. /\ Latch(u.board.bank) = Latch(now.board.bank)
          /\ InputMask(u.board.bank) = InputMask(now.board.bank)
      BY <2>1, SameLinesSameMasks DEF Keeps
    <3> QED BY <2>1, <3>1, <3>3, <3>4 DEF Keeps
  <2>3. u \in Outcome /\ [u.board EXCEPT !.present = TRUE] \in BoardState
    BY <2>1, OutcomeParts, BoardSteps DEF Keeps
  <2>4. /\ t \in Outcome /\ t.chip = u.chip
        /\ t.board = [u.board EXCEPT !.present = TRUE]
    BY <1>6, <2>3 DEF Found, Outcome
  <2>5. /\ t.board.bank = u.board.bank /\ t.board.type = u.board.type
        /\ t.board.address = u.board.address /\ t.board.fitted = u.board.fitted
        /\ t.board.present /\ ~t.board.dirty
    BY <2>1, <2>3, <2>4 DEF Outcome, BoardState
  <2>6. Keeps(u, t)
    BY <2>4, <2>5 DEF Keeps, SameLines
  <2>7. Right(t)
    BY <2>1, <2>2, <2>4, <2>5 DEF Right
  <2> QED BY <1>2, <1>3, <2>1, <2>4, <2>5, <2>6, <2>7, KeepsOn
<1>7. CASE t = Lost(now)
  BY <1>2, <1>3, <1>7, LostDo
<1>8. ASSUME NEW q \in BOOLEAN, NEW u \in FailedSetUps(now, b, q), t = Lost(u)
      PROVE  /\ Keeps(s, t) /\ Right(t) /\ ~t.board.present
             /\ s.board.bank.transition = {} => t.board.bank.transition = {}
  <2>1. Keeps(now, u) /\ (now.board.bank.transition = {} => u.board.bank.transition = {})
    BY <1>1, FailedSetUpsDo
  <2>2. Keeps(s, u)
    BY <1>3, <2>1, KeepsOn
  <2> QED BY <1>2, <1>8, <2>1, <2>2, LostDo
<1> QED BY <1>4, <1>5, <1>6, <1>7, <1>8

LEMMA ChecksAnew ==
  ASSUME NEW s \in Outcome, NEW b, NEW t \in Checks(s, b, TRUE)
  PROVE  /\ Keeps(s, t) /\ Right(t)
         /\ t.board.present => t.board.bank = Anew(s.board.bank, b)
         /\ ~t.board.present /\ s.board.bank.transition = {} =>
              t.board.bank.transition = {}
<1> DEFINE seed == TRUE
<1>1. seed \in BOOLEAN /\ (seed <=> TRUE) /\ t \in Checks(s, b, seed)
  OBVIOUS
<1> HIDE DEF seed
<1>2. /\ Keeps(s, t) /\ Right(t)
      /\ t.board.present /\ (seed \/ ~s.board.present) =>
           t.board.bank = Anew(s.board.bank, b)
      /\ ~t.board.present /\ s.board.bank.transition = {} =>
           t.board.bank.transition = {}
  BY <1>1, ChecksDo, ZenonT(60)
<1> QED BY <1>1, <1>2

LEMMA LatchWritesDo ==
  ASSUME NEW s \in Outcome, Right(s), NEW b, NEW t \in LatchWrites(s, b)
  PROVE  /\ Keeps(s, t) /\ Right(t) /\ t.board.bank = s.board.bank
         /\ \/ t.board.present = s.board.present
            \/ ~t.board.present /\ t.board.sinceCheck = 0
<1>1. CASE ~(s.board.present /\ s.board.dirty)
  BY <1>1 DEF LatchWrites, Keeps, SameLines
<1> SUFFICES ASSUME s.board.present, s.board.dirty
             PROVE  /\ Keeps(s, t) /\ Right(t) /\ t.board.bank = s.board.bank
                    /\ \/ t.board.present
                       \/ ~t.board.present /\ t.board.sinceCheck = 0
  BY <1>1
<1> DEFINE clean == [s EXCEPT !.board.dirty = FALSE]
<1>2. \/ t = WithLatch(clean)
      \/ \E u \in CutShort(s, b) : t = Lost(u)
  BY DEF LatchWrites
<1>3. /\ clean \in Outcome /\ clean.chip = s.chip
      /\ clean.board = [s.board EXCEPT !.dirty = FALSE]
  <2>1. [s.board EXCEPT !.dirty = FALSE] \in BoardState
    BY OutcomeParts, BoardSteps
  <2> QED BY <2>1 DEF Outcome
<1> HIDE DEF clean
<1>4. CASE t = WithLatch(clean)
  <2>1. /\ t \in Outcome /\ t.board = clean.board
        /\ t.chip.latch = Latch(clean.board.bank)
        /\ t.chip.setUp = clean.chip.setUp
        /\ t.chip.inputs = IF clean.board.type = "PCF8574"
                           THEN Latch(clean.board.bank) ELSE clean.chip.inputs
    BY <1>3, <1>4, WithLatchIs
  <2>2. /\ t.board.bank = s.board.bank /\ t.board.type = s.board.type
        /\ t.board.address = s.board.address /\ t.board.fitted = s.board.fitted
        /\ t.board.present /\ ~t.board.dirty
    BY <1>3, <2>1 DEF Outcome, BoardState
  <2> QED BY <1>3, <2>1, <2>2 DEF Keeps, SameLines, Right
<1>5. ASSUME NEW u \in CutShort(s, b), t = Lost(u)
      PROVE  /\ Keeps(s, t) /\ Right(t) /\ t.board.bank = s.board.bank
             /\ ~t.board.present /\ t.board.sinceCheck = 0
  BY <1>5, CutShortIs, LostDo
<1> QED BY <1>2, <1>4, <1>5

LEMMA ReadsDo ==
  ASSUME NEW s \in Outcome, Right(s), s.board.present, NEW b, NEW t \in Reads(s, b)
  PROVE  /\ Keeps(s, t) /\ Right(t)
         /\ t.board.bank = IF t.board.present THEN Sampled(s.board.bank, high[b])
                           ELSE s.board.bank
<1> DEFINE now == [s EXCEPT !.board.sincePoll = 0]
<1>1. /\ now \in Outcome /\ now.chip = s.chip
      /\ now.board = [s.board EXCEPT !.sincePoll = 0]
  <2>1. [s.board EXCEPT !.sincePoll = 0] \in BoardState
    BY OutcomeParts, BoardSteps
  <2> QED BY <2>1 DEF Outcome
<1>2. /\ now.board.present /\ now.board.bank = s.board.bank
      /\ now.board.type = s.board.type /\ now.board.address = s.board.address
      /\ now.board.fitted = s.board.fitted /\ now.board.dirty = s.board.dirty
  BY <1>1 DEF Outcome, BoardState
<1>3. Keeps(s, now)
  BY <1>1, <1>2 DEF Keeps, SameLines
<1>4. t = [now EXCEPT !.board.bank = Sampled(now.board.bank, high[b])] \/ t = Lost(now)
  BY <1>1 DEF Reads, Outcome
<1> HIDE DEF now
<1>5. CASE t = [now EXCEPT !.board.bank = Sampled(now.board.bank, high[b])]
  <2> DEFINE bank == Sampled(now.board.bank, high[b])
  <2>1. bank \in Bank /\ SameLines(now.board.bank, bank)
    BY <1>1, OutcomeParts, SampledIs
  <2> HIDE DEF bank
  <2>2. [now.board EXCEPT !.bank = bank] \in BoardState
    BY <1>1, <2>1, OutcomeParts, BoardSteps
  <2>3. /\ t \in Outcome /\ t.chip = now.chip
        /\ t.board = [now.board EXCEPT !.bank = bank]
    BY <1>1, <1>5, <2>2 DEF Outcome, bank
  <2>4. /\ t.board.bank = bank /\ t.board.present
        /\ t.board.type = s.board.type /\ t.board.address = s.board.address
        /\ t.board.fitted = s.board.fitted /\ t.board.dirty = s.board.dirty
    BY <1>1, <1>2, <2>3 DEF Outcome, BoardState
  <2>5. /\ SameLines(s.board.bank, bank)
        /\ Latch(bank) = Latch(s.board.bank) /\ InputMask(bank) = InputMask(s.board.bank)
    BY <1>2, <2>1, SameLinesSameMasks
  <2>6. Keeps(s, t) /\ Right(t)
    BY <1>1, <2>3, <2>4, <2>5 DEF Keeps, Right
  <2> QED BY <1>2, <2>4, <2>6 DEF bank
<1>6. CASE t = Lost(now)
  BY <1>2, <1>3, <1>6, LostDo
<1> QED BY <1>4, <1>5, <1>6

-----------------------------------------------------------------------------
(* A poll *)

LEMMA LeastNatural ==
  ASSUME NEW T, T \subseteq Nat, T # {}
  PROVE  \E x \in T : \A y \in T : x <= y
<1> DEFINE R == {p \in Nat \X Nat : p[1] < p[2]}
<1>1. IsWellFoundedOn(R, Nat)
  BY NatLessThanWellFounded DEF OpToRel
<1> HIDE DEF R
<1>2. PICK x \in T : \A y \in T : ~(<<y, x>> \in R)
  BY <1>1, WFMin
<1>3. ASSUME NEW y \in T
      PROVE  x <= y
  <2>1. x \in Nat /\ y \in Nat /\ ~(<<y, x>> \in R)
    BY <1>2
  <2> QED BY <2>1 DEF R
<1> QED BY <1>3

(* The turn goes to a board that is ready, if there is one. *)
LEMMA TurnIsReady ==
  ASSUME NEW next \in Board, NEW ready, ready \subseteq Board, ready # {}
  PROVE  /\ Turn(next, ready) \in ready
         /\ After(Turn(next, ready)) \in Board
<1> DEFINE far(b) == (b - next) % NumBoards
           T == {far(b) : b \in ready}
<1>1. \A b \in Board : far(b) \in Nat
  BY DEF Board
<1>2. T \subseteq Nat /\ T # {}
  BY <1>1
<1>3. \E x \in T : \A y \in T : x <= y
  BY <1>2, LeastNatural
<1>4. \E b \in ready : \A c \in ready : far(b) <= far(c)
  BY <1>3
<1>5. Turn(next, ready) \in ready
  BY <1>4 DEF Turn
<1>6. ASSUME NEW b \in Board
      PROVE  After(b) \in Board
  <2>1. b % NumBoards \in 0..NumBoards - 1
    BY DEF Board
  <2> DEFINE m == b % NumBoards
  <2>2. m \in 0..NumBoards - 1 /\ After(b) = m + 1
    BY <2>1 DEF After
  <2> HIDE DEF m
  <2> QED BY <2>2 DEF Board
<1> QED BY <1>5, <1>6

(* What a poll makes of a board: of one that answered before and after, the
   inputs are read or left alone; of one that is found, they begin anew. *)
AfterPoll(b, s, read) ==
  /\ Keeps(Of(b), s) /\ Right(s)
  /\ \/ /\ board[b].present /\ s.board.present /\ ~read
        /\ s.board.bank = board[b].bank
     \/ /\ board[b].present /\ s.board.present /\ read
        /\ s.board.bank = Sampled(board[b].bank, high[b])
     \/ /\ ~(board[b].present /\ s.board.present)
        /\ s.board.bank.transition = {}
        /\ s.board.present =>
             \A l \in InputsOf(s.board.bank.pins) : ~Waits(s.board.bank, l)

LEMMA OfBoard ==
  ASSUME IoInv, NEW b \in Board
  PROVE  /\ Of(b) \in Outcome /\ Right(Of(b))
         /\ Of(b).board = board[b] /\ Of(b).chip = chip[b]
         /\ board[b].bank \in Bank /\ board[b].bank.transition = {}
<1>1. board[b] \in BoardState /\ chip[b] \in Chip
  BY DEF IoInv, TypeOK
<1>2. BankOf(b).transition = {} /\ BankOf(b) = board[b].bank
  BY DEF IoInv, WaitsKnown, Somewhere, BankOf, Board, Pins
<1> QED BY <1>1, <1>2, OutcomeParts DEF IoInv, Of, Outcome

(* An input that was read now, again, has the level it had. *)
LEMMA SeededReadAgain ==
  ASSUME NEW bank \in Bank, NEW levels, NEW start, start = Started(bank, levels, TRUE)
  PROVE  /\ Sampled(start, levels).transition = {}
         /\ \A l \in Line : ~Waits(Sampled(start, levels), l)
<1> DEFINE s == Sampled(start, levels)
<1>1. /\ start \in Bank /\ SameLines(bank, start) /\ start.transition = {}
      /\ start.pending = start.active /\ start.active = Level(bank, levels)
      /\ \A l \in Line : start.since[l] = 0
  BY StartedIs
<1>2. Level(start, levels) = start.active
  BY <1>1, SameLinesSameMasks
<1>3. s \in Bank /\ s.transition \subseteq Line
  BY <1>1, SampledIs DEF Bank
<1>4. ASSUME NEW l \in Line
      PROVE  l \notin s.transition /\ ~Waits(s, l)
  <2> DEFINE level == Level(start, levels)
             again == WaitsAgain(start, level)
             since == [k \in Line |-> IF k \in again THEN 0 ELSE start.since[k]]
             held == {k \in InputsOf(start.pins) :
                        /\ (k \in level) # (k \in start.active)
                        /\ since[k] >= start.pins[k].debounce}
  <2>1. /\ s.pending = (start.pending \ again) \cup (level \cap again)
        /\ s.active = Apart(start.active, held)
        /\ s.transition = start.transition \cup held
    BY <1>1 DEF Sampled, Bank
  <2>2. held = {}
    BY <1>2
  <2>3. s.active = start.active
    BY <2>1, <2>2 DEF Apart
  <2>4. s.pending = start.active
    <3>1. level = start.active /\ start.pending = start.active
      BY <1>1, <1>2
    <3> HIDE DEF level, again, s, held
    <3> QED BY <2>1, <3>1
  <2> HIDE DEF level, again, since, held, s
  <2> QED BY <1>1, <2>1, <2>2, <2>3, <2>4 DEF Waits
<1> QED BY <1>3, <1>4

LEMMA BoardPolled ==
  ASSUME IoInv, NEW b \in Board, NEW read \in BOOLEAN,
         NEW s1 \in LatchWrites(Of(b), b),
         NEW s2, s2 = s1 \/ (s2 \in Checks(s1, b, FALSE) /\ s1.board.sinceCheck >= CHECK),
         NEW s3, ~read => s3 = s2, read => s3 \in Reads(s2, b) /\ s2.board.present
  PROVE  AfterPoll(b, s3, read)
<1>1. /\ Of(b) \in Outcome /\ Right(Of(b)) /\ Of(b).board = board[b]
      /\ board[b].bank \in Bank /\ board[b].bank.transition = {}
  BY OfBoard
<1>2. /\ Keeps(Of(b), s1) /\ Right(s1) /\ s1.board.bank = board[b].bank
      /\ \/ s1.board.present = board[b].present
         \/ ~s1.board.present /\ s1.board.sinceCheck = 0
  BY <1>1, LatchWritesDo
<1>3. s1 \in Outcome
  BY <1>2 DEF Keeps
<1> DEFINE start == Anew(board[b].bank, b)
<1>4. /\ start \in Bank /\ start.transition = {} /\ SameLines(board[b].bank, start)
      /\ \A l : ~Waits(start, l)
  BY <1>1, AnewIs DEF Waits
<1>5. /\ Keeps(Of(b), s2) /\ Right(s2)
      /\ \/ /\ board[b].present /\ s2.board.present
            /\ s2.board.bank = board[b].bank
         \/ /\ ~board[b].present /\ s2.board.present
            /\ s2.board.bank = start
         \/ ~s2.board.present /\ s2.board.bank.transition = {}
  <2>1. CASE s2 = s1
    <3>1. \/ board[b].present /\ s1.board.present
          \/ ~s1.board.present
      BY <1>2
    <3> QED BY <1>1, <1>2, <2>1, <3>1
  <2>2. CASE s2 \in Checks(s1, b, FALSE) /\ s1.board.sinceCheck >= CHECK
    <3>1. /\ Keeps(s1, s2) /\ Right(s2)
          /\ s2.board.present =>
               s2.board.bank = IF s1.board.present THEN s1.board.bank
                               ELSE Anew(s1.board.bank, b)
          /\ ~s2.board.present /\ s1.board.bank.transition = {} =>
               s2.board.bank.transition = {}
      <4> DEFINE seed == FALSE
      <4>1. seed \in BOOLEAN /\ ~seed /\ s2 \in Checks(s1, b, seed)
        BY <2>2
      <4> HIDE DEF seed
      <4> QED BY <1>3, <4>1, ChecksDo
    <3>2. s1.board.present = board[b].present
      BY <1>2, <2>2
    <3>3. Keeps(Of(b), s2)
      BY <1>2, <3>1, KeepsOn
    <3> QED BY <1>1, <1>2, <3>1, <3>2, <3>3
  <2> QED BY <2>1, <2>2
<1> HIDE DEF start
<1>6. CASE ~read
  <2>1. s3 = s2
    BY <1>6
  <2> QED BY <1>4, <1>5, <1>6, <2>1 DEF AfterPoll
<1>7. CASE read
  <2>1. /\ s2 \in Outcome /\ s2.board.present /\ s3 \in Reads(s2, b)
    BY <1>5, <1>7 DEF Keeps
  <2>2. /\ Keeps(s2, s3) /\ Right(s3)
        /\ s3.board.bank = IF s3.board.present THEN Sampled(s2.board.bank, high[b])
                           ELSE s2.board.bank
    BY <1>5, <2>1, ReadsDo
  <2>3. Keeps(Of(b), s3)
    BY <1>5, <2>2, KeepsOn
  <2>4. CASE board[b].present
    BY <1>1, <1>5, <1>7, <2>1, <2>2, <2>3, <2>4 DEF AfterPoll
  <2>5. CASE ~board[b].present
    <3>1. s2.board.bank = start
      BY <1>5, <2>1, <2>5
    <3>2. /\ Sampled(start, high[b]).transition = {}
          /\ \A l \in Line : ~Waits(Sampled(start, high[b]), l)
      BY <1>1, SeededReadAgain DEF start, Anew
    <3>3. InputsOf(s3.board.bank.pins) \subseteq Line
      BY DEF InputsOf
    <3> QED BY <1>4, <2>2, <2>3, <2>5, <3>1, <3>2, <3>3 DEF AfterPoll
  <2> QED BY <2>4, <2>5
<1> QED BY <1>6, <1>7

LEMMA PollDoes ==
  ASSUME IoInv, Poll
  PROVE  \E p, s, read :
           /\ p \in PinsPolled /\ Polled(p, s, read)
           /\ \A b \in Board : AfterPoll(b, s[b], b \in read)
           /\ nextCheck' \in Board /\ nextPoll' \in Board
<1> DEFINE checks(s) == Due(s)
           c(s) == Turn(nextCheck, checks(s))
           reads(s) == Ready(s)
           r(s) == Turn(nextPoll, reads(s))
           latches == [b \in Board |-> LatchWrites(Of(b), b)]
<1>1. PICK p \in PinsPolled, s1 \in Choices(latches) :
        \E s2 \in IF checks(s1) = {} THEN {s1}
                  ELSE {[s1 EXCEPT ![c(s1)] = t] : t \in Checks(s1[c(s1)], c(s1), FALSE)} :
          \E s3 \in IF reads(s2) = {} THEN {s2}
                    ELSE {[s2 EXCEPT ![r(s2)] = t] : t \in Reads(s2[r(s2)], r(s2))} :
            /\ Polled(p, s3, IF reads(s2) = {} THEN {} ELSE {r(s2)})
            /\ nextCheck' = IF checks(s1) = {} THEN nextCheck ELSE After(c(s1))
            /\ nextPoll' = IF reads(s2) = {} THEN nextPoll ELSE After(r(s2))
  BY DEF Poll
<1>2. PICK s2 \in IF checks(s1) = {} THEN {s1}
                  ELSE {[s1 EXCEPT ![c(s1)] = t] : t \in Checks(s1[c(s1)], c(s1), FALSE)} :
        \E s3 \in IF reads(s2) = {} THEN {s2}
                  ELSE {[s2 EXCEPT ![r(s2)] = t] : t \in Reads(s2[r(s2)], r(s2))} :
          /\ Polled(p, s3, IF reads(s2) = {} THEN {} ELSE {r(s2)})
          /\ nextCheck' = IF checks(s1) = {} THEN nextCheck ELSE After(c(s1))
          /\ nextPoll' = IF reads(s2) = {} THEN nextPoll ELSE After(r(s2))
  BY <1>1
<1>3. PICK s3 \in IF reads(s2) = {} THEN {s2}
                  ELSE {[s2 EXCEPT ![r(s2)] = t] : t \in Reads(s2[r(s2)], r(s2))} :
        /\ Polled(p, s3, IF reads(s2) = {} THEN {} ELSE {r(s2)})
        /\ nextCheck' = IF checks(s1) = {} THEN nextCheck ELSE After(c(s1))
        /\ nextPoll' = IF reads(s2) = {} THEN nextPoll ELSE After(r(s2))
  BY <1>2
<1>4. /\ DOMAIN s1 = Board
      /\ \A b \in Board : s1[b] \in LatchWrites(Of(b), b)
  BY DEF Choices
<1>5. nextCheck \in Board /\ nextPoll \in Board
  BY DEF IoInv, TypeOK
<1>6. /\ checks(s1) \subseteq Board
      /\ \A b \in checks(s1) : s1[b].board.sinceCheck >= CHECK
  BY DEF Due
<1>7. /\ reads(s2) \subseteq Board
      /\ \A b \in reads(s2) : s2[b].board.present
  BY DEF Ready
<1> DEFINE cs == checks(s1)
           rs == reads(s2)
<1>8. /\ cs # {} => c(s1) \in cs /\ After(c(s1)) \in Board
      /\ rs # {} => r(s2) \in rs /\ After(r(s2)) \in Board
  BY <1>5, <1>6, <1>7, TurnIsReady
<1>9. nextCheck' \in Board /\ nextPoll' \in Board
  BY <1>3, <1>5, <1>8
<1> DEFINE read == IF rs = {} THEN {} ELSE {r(s2)}
<1>10. ASSUME NEW b \in Board
       PROVE  AfterPoll(b, s3[b], b \in read)
  <2> DEFINE x == c(s1)
             y == r(s2)
  <2>1. /\ DOMAIN s2 = Board
        /\ s2[b] = s1[b] \/ (s2[b] \in Checks(s1[b], b, FALSE) /\ s1[b].board.sinceCheck >= CHECK)
    <3>1. CASE cs = {}
      BY <1>4, <3>1
    <3>2. CASE cs # {}
      <4>1. x \in cs /\ x \in Board
        BY <1>6, <1>8, <3>2
      <4>2. PICK t \in Checks(s1[x], x, FALSE) : s2 = [s1 EXCEPT ![x] = t]
        BY <3>2
      <4> HIDE DEF x, cs
      <4>3. s2[b] = IF b = x THEN t ELSE s1[b]
        BY <1>4, <4>2
      <4>4. s1[x].board.sinceCheck >= CHECK
        BY <1>6, <4>1 DEF cs
      <4> QED BY <1>4, <4>1, <4>2, <4>3, <4>4
    <3> QED BY <3>1, <3>2
  <2>2. /\ b \notin read => s3[b] = s2[b]
        /\ b \in read => s3[b] \in Reads(s2[b], b) /\ s2[b].board.present
    <3>1. CASE rs = {}
      BY <3>1
    <3>2. CASE rs # {}
      <4>1. y \in rs /\ y \in Board
        BY <1>7, <1>8, <3>2
      <4>2. PICK t \in Reads(s2[y], y) : s3 = [s2 EXCEPT ![y] = t]
        BY <3>2
      <4>3. read = {y} /\ s2[y].board.present
        BY <1>7, <3>2, <4>1
      <4> HIDE DEF y, rs, read
      <4>4. s3[b] = IF b = y THEN t ELSE s2[b]
        BY <2>1, <4>2
      <4> QED BY <4>2, <4>3, <4>4
    <3> QED BY <3>1, <3>2
  <2>3. s1[b] \in LatchWrites(Of(b), b)
    BY <1>4
  <2> DEFINE here == b \in read
  <2>4. here \in BOOLEAN /\ (~here => s3[b] = s2[b])
        /\ (here => s3[b] \in Reads(s2[b], b) /\ s2[b].board.present)
    BY <2>2
  <2> HIDE DEF here
  <2>5. AfterPoll(b, s3[b], here)
    BY <2>1, <2>3, <2>4, BoardPolled
  <2> QED BY <2>5 DEF here
<1>11. Polled(p, s3, read)
  BY <1>3
<1> HIDE DEF read
<1> QED BY <1>9, <1>10, <1>11

(* What a poll makes of the driver's state, board by board. *)
LEMMA PollMakes ==
  ASSUME IoInv, NEW p, NEW s, NEW read, Polled(p, s, read), NEW b \in Board,
         AfterPoll(b, s[b], b \in read)
  PROVE  /\ board'[b] = [s[b].board EXCEPT !.bank = Taken(s[b].board.bank)]
         /\ board'[b] \in BoardState /\ (board'[b].present <=> s[b].board.present)
         /\ board'[b].bank = Taken(s[b].board.bank) /\ s[b].board.bank \in Bank
         /\ chip'[b] = s[b].chip /\ chip'[b] \in Chip
         /\ Keeps(Of(b), s[b]) /\ Right(s[b]) /\ Right([board |-> board'[b], chip |-> chip'[b]])
         /\ Latch(board'[b].bank) = Latch(board[b].bank)
<1>1. /\ s[b] \in Outcome /\ Right(s[b]) /\ Keeps(Of(b), s[b])
      /\ Of(b).board = board[b]
  BY OfBoard DEF AfterPoll, Keeps
<1>2. s[b].board \in BoardState /\ s[b].board.bank \in Bank /\ s[b].chip \in Chip
  BY <1>1, OutcomeParts
<1> DEFINE bank == Taken(s[b].board.bank)
<1>3. /\ bank \in Bank /\ SameLines(s[b].board.bank, bank)
      /\ Latch(bank) = Latch(s[b].board.bank)
      /\ InputMask(bank) = InputMask(s[b].board.bank)
  BY <1>2, TakenIs, SameLinesSameMasks
<1>4. /\ board'[b] = [s[b].board EXCEPT !.bank = bank] /\ chip'[b] = s[b].chip
  BY DEF Polled
<1> HIDE DEF bank
<1>5. /\ board'[b] \in BoardState /\ board'[b].bank = bank
      /\ (board'[b].present <=> s[b].board.present) /\ board'[b].type = s[b].board.type
      /\ board'[b].dirty = s[b].board.dirty
  <2>1. board'[b] \in BoardState
    BY <1>2, <1>3, <1>4, BoardSteps
  <2> QED BY <1>2, <1>4, <2>1 DEF BoardState
<1>6. Right([board |-> board'[b], chip |-> chip'[b]])
  BY <1>1, <1>3, <1>4, <1>5 DEF Right
<1>7. Latch(bank) = Latch(board[b].bank)
  BY <1>1, <1>3, SameLinesSameMasks DEF Keeps
<1> QED BY <1>1, <1>2, <1>4, <1>5, <1>6, <1>7 DEF bank

LEMMA PollTakes ==
  ASSUME NEW p, NEW s, NEW read, Polled(p, s, read), NEW b \in Board,
         s[b].board \in BoardState
  PROVE  board'[b].bank = Taken(s[b].board.bank)
<1> DEFINE bank == Taken(s[b].board.bank)
<1>1. board'[b] = [s[b].board EXCEPT !.bank = bank]
  BY DEF Polled
<1> HIDE DEF bank
<1>2. board'[b].bank = bank
  BY <1>1 DEF BoardState
<1> QED BY <1>2 DEF bank

LEMMA PinsPolledAre ==
  ASSUME IoInv, NEW p \in PinsPolled, NEW s, NEW read, Polled(p, s, read)
  PROVE  /\ p.bank \in Bank /\ pins' = Taken(p.bank) /\ pins' \in Bank
         /\ SameLines(pins, pins') /\ chip'[Pins] = chip[Pins]
         /\ \/ p.read /\ p.bank = Sampled(pins, high[Pins])
            \/ ~p.read /\ p.bank = pins
<1>1. pins \in Bank
  BY DEF IoInv, TypeOK
<1>2. \/ p.read /\ p.bank = Sampled(pins, high[Pins])
      \/ ~p.read /\ p.bank = pins
  BY DEF PinsPolled
<1>3. p.bank \in Bank /\ SameLines(pins, p.bank)
  BY <1>1, <1>2, SampledIs DEF SameLines
<1>4. Pins \notin Board
  BY DEF Pins, Board
<1> QED BY <1>2, <1>3, <1>4, TakenIs DEF Polled, SameLines

(* The age of the last reading that agreed, after a poll. *)
LEMMA AgeAfterPoll ==
  ASSUME IoInv, NEW w \in Somewhere, NEW bank, NEW l \in Line
  PROVE  Agreeing(w, bank)[l] = IF (l \in Level(bank, high[w])) = (l \in bank.active)
                                THEN 0 ELSE agreed[w][l]
BY DEF Agreeing

(* What is waiting after a bank was read was waiting before, or waits anew. *)
LEMMA ReadKeepsWaits ==
  ASSUME IoInv, NEW w \in Somewhere, WaitsKnown(w), Watched(w), NEW bank \in Bank,
         bank = BankOf(w), NEW l \in InputsOf(bank.pins),
         Waits(Sampled(bank, high[w]), l)
  PROVE  Sampled(bank, high[w]).since[l] <= Agreeing(w, Sampled(bank, high[w]))[l]
<1> DEFINE s == Sampled(bank, high[w])
<1>1. l \in Line
  BY DEF InputsOf
<1>2. /\ bank.transition = {}
      /\ Waits(bank, l) => bank.since[l] <= agreed[w][l]
  BY DEF WaitsKnown
<1>3. s \in Bank /\ SameLines(bank, s)
  BY SampledIs
<1>4. \/ s.since[l] = 0
      \/ /\ Waits(bank, l) /\ s.since[l] = bank.since[l]
         /\ (l \in Level(bank, high[w])) # (l \in s.active)
  BY <1>1, <1>2, SampledDebounces
<1>5. Level(s, high[w]) = Level(bank, high[w])
  BY <1>3, SameLinesSameMasks
<1>6. Agreeing(w, s)[l] = IF (l \in Level(s, high[w])) = (l \in s.active)
                          THEN 0 ELSE agreed[w][l]
  BY <1>1, AgeAfterPoll
<1>7. agreed[w][l] \in Nat
  BY <1>1 DEF IoInv, TypeOK, Somewhere
<1> HIDE DEF s
<1>8. s.since[l] <= Agreeing(w, s)[l]
  <2>1. CASE s.since[l] = 0
    BY <1>6, <1>7, <2>1
  <2>2. CASE /\ Waits(bank, l) /\ s.since[l] = bank.since[l]
             /\ (l \in Level(bank, high[w])) # (l \in s.active)
    BY <1>2, <1>5, <1>6, <2>2
  <2> QED BY <1>4, <2>1, <2>2
<1> QED BY <1>8 DEF s

LEMMA PollKeeps ==
  ASSUME IoInv, Poll
  PROVE  IoInv'
<1>1. PICK p, s, read :
        /\ p \in PinsPolled /\ Polled(p, s, read)
        /\ \A b \in Board : AfterPoll(b, s[b], b \in read)
        /\ nextCheck' \in Board /\ nextPoll' \in Board
  BY PollDoes
<1>2. UNCHANGED <<plugged, noisy, high, changes>> /\ polled' = TRUE
  BY DEF Poll
<1>3. /\ p.bank \in Bank /\ pins' = Taken(p.bank) /\ pins' \in Bank
      /\ SameLines(pins, pins') /\ chip'[Pins] = chip[Pins]
      /\ \/ p.read /\ p.bank = Sampled(pins, high[Pins])
         \/ ~p.read /\ p.bank = pins
  BY <1>1, PinsPolledAre
<1>4. ASSUME NEW b \in Board
      PROVE  /\ board'[b] \in BoardState /\ (board'[b].present <=> s[b].board.present)
             /\ board'[b].bank = Taken(s[b].board.bank) /\ s[b].board.bank \in Bank
             /\ chip'[b] \in Chip /\ Keeps(Of(b), s[b])
             /\ Right([board |-> board'[b], chip |-> chip'[b]])
  <2>1. AfterPoll(b, s[b], b \in read) /\ Polled(p, s, read)
    BY <1>1
  <2>2. board'[b] \in BoardState /\ chip'[b] \in Chip /\ Keeps(Of(b), s[b])
    BY <2>1, PollMakes
  <2>3. Right([board |-> board'[b], chip |-> chip'[b]])
    BY <2>1, PollMakes
  <2>4. (board'[b].present <=> s[b].board.present) /\ s[b].board.bank \in Bank
    BY <2>1, PollMakes
  <2>5. board'[b].bank = Taken(s[b].board.bank)
    <3>1. s[b].board \in BoardState
      <4>1. s[b] \in Outcome
        BY <2>2 DEF Keeps
      <4> QED BY <4>1, OutcomeParts
    <3> QED BY <2>1, <3>1, PollTakes
  <2> QED BY <2>2, <2>3, <2>4, <2>5
<1>5. /\ DOMAIN board' = Board /\ DOMAIN chip' = Somewhere /\ DOMAIN agreed' = Somewhere
      /\ board' = [b \in Board |-> board'[b]] /\ chip' = [w \in Somewhere |-> chip'[w]]
      /\ agreed' = [w \in Somewhere |-> agreed'[w]]
  BY <1>1 DEF Polled, Somewhere
<1>6. \A w \in Somewhere : agreed'[w] \in [Line -> 0..MaxDebounce]
  <2>1. \A w \in Somewhere : agreed[w] \in [Line -> 0..MaxDebounce]
    BY DEF IoInv, TypeOK, Somewhere
  <2>2. ASSUME NEW w \in Somewhere, NEW bank
        PROVE  Agreeing(w, bank) \in [Line -> 0..MaxDebounce]
    BY <2>1 DEF Agreeing
  <2>3. ASSUME NEW b \in Board
        PROVE  AgreedSince(b, s, b \in read) \in [Line -> 0..MaxDebounce]
    BY <2>1, <2>2 DEF AgreedSince, Somewhere
  <2> QED BY <1>1, <2>1, <2>2, <2>3 DEF Polled, Somewhere
<1>7. marked' \subseteq Somewhere \X Line
  <2>1. p.bank.transition \subseteq Line
    BY <1>3 DEF Bank
  <2> QED BY <1>1, <2>1 DEF Polled, Somewhere
<1>8. TypeOK'
  <2>1. chip'[Pins] \in Chip
    BY <1>3 DEF IoInv, TypeOK
  <2>2. board' \in [Board -> BoardState] /\ chip' \in [Somewhere -> Chip]
        /\ agreed' \in [Somewhere -> [Line -> 0..MaxDebounce]]
    BY <1>4, <1>5, <1>6, <2>1 DEF Somewhere
  <2> QED BY <1>1, <1>2, <1>3, <1>7, <2>2 DEF IoInv, TypeOK, Somewhere
<1>9. \A b \in Board : Right(Of(b))'
  BY <1>4 DEF Of
<1>10. PinsRight'
  <2>1. Latch(pins') = Latch(pins) /\ InputMask(pins') = InputMask(pins)
    BY <1>3, SameLinesSameMasks
  <2> QED BY <1>3, <2>1 DEF IoInv, PinsRight
<1>11. \A w \in Somewhere : WaitsKnown(w)'
  <2>1. WaitsKnown(Pins)'
    <3>1. /\ BankOf(Pins) = pins /\ BankOf(Pins)' = pins' /\ Watched(Pins)
          /\ Pins \in Somewhere /\ WaitsKnown(Pins)
      BY DEF BankOf, Watched, IoInv, Somewhere
    <3>2. /\ pins'.transition = {} /\ pins'.active = p.bank.active
          /\ pins'.pending = p.bank.pending /\ pins'.since = p.bank.since
          /\ pins'.pins = pins.pins
      BY <1>3, TakenIs DEF SameLines
    <3>3. agreed'[Pins] = IF p.read THEN Agreeing(Pins, p.bank) ELSE agreed[Pins]
      BY <1>1 DEF Polled, Board, Pins
    <3>4. ASSUME NEW l \in InputsOf(pins.pins), Waits(p.bank, l)
          PROVE  p.bank.since[l] <= agreed'[Pins][l]
      <4>1. CASE p.read /\ p.bank = Sampled(pins, high[Pins])
        <5>1. pins \in Bank
          BY DEF IoInv, TypeOK
        <5> QED BY <3>1, <3>3, <3>4, <4>1, <5>1, ReadKeepsWaits
      <4>2. CASE ~p.read /\ p.bank = pins
        BY <3>1, <3>3, <3>4, <4>2 DEF WaitsKnown
      <4> QED BY <1>3, <4>1, <4>2
    <3> QED BY <3>1, <3>2, <3>4 DEF WaitsKnown, Waits
  <2>2. ASSUME NEW b \in Board
        PROVE  WaitsKnown(b)'
    <3> DEFINE bank == s[b].board.bank
    <3>1. /\ BankOf(b) = board[b].bank /\ BankOf(b)' = Taken(bank) /\ bank \in Bank
          /\ (Watched(b) <=> board[b].present) /\ (Watched(b)' <=> s[b].board.present)
          /\ b \in Somewhere /\ WaitsKnown(b) /\ board[b].bank \in Bank
      <4>1. b # Pins
        BY DEF Board, Pins
      <4> QED BY <1>4, <4>1, OfBoard DEF BankOf, Watched, IoInv, Somewhere
    <3>2. /\ Taken(bank).transition = {} /\ Taken(bank).active = bank.active
          /\ Taken(bank).pending = bank.pending /\ Taken(bank).since = bank.since
          /\ Taken(bank).pins = bank.pins /\ bank.pins = board[b].bank.pins
      BY <1>4, <3>1, OfBoard, TakenIs DEF SameLines, Keeps
    <3>3. agreed'[b] = AgreedSince(b, s, b \in read)
      BY <1>1 DEF Polled
    <3>4. ASSUME NEW l \in InputsOf(bank.pins), Waits(bank, l), s[b].board.present
          PROVE  bank.since[l] <= agreed'[b][l]
      <4>1. CASE /\ board[b].present /\ s[b].board.present /\ ~(b \in read)
                 /\ bank = board[b].bank
        <5>1. agreed'[b] = agreed[b]
          BY <3>3, <4>1 DEF AgreedSince
        <5> QED BY <3>1, <3>4, <4>1, <5>1 DEF WaitsKnown
      <4>2. CASE /\ board[b].present /\ s[b].board.present /\ b \in read
                 /\ bank = Sampled(board[b].bank, high[b])
        <5>1. agreed'[b] = Agreeing(b, bank)
          BY <3>3, <4>2 DEF AgreedSince
        <5> QED BY <3>1, <3>2, <3>4, <4>2, <5>1, ReadKeepsWaits
      <4>3. CASE s[b].board.present => ~Waits(bank, l)
        BY <3>4, <4>3
      <4> QED BY <1>1, <4>1, <4>2, <4>3 DEF AfterPoll
    <3> HIDE DEF bank
    <3> QED BY <3>1, <3>2, <3>4 DEF WaitsKnown, Waits
  <2> QED BY <2>1, <2>2 DEF Somewhere
<1> QED BY <1>8, <1>9, <1>10, <1>11 DEF IoInv

-----------------------------------------------------------------------------
(* The other steps *)

(* A board, or the pins, that a step does not touch. *)
LEMMA BoardStays ==
  ASSUME IoInv, NEW b \in Board, board'[b] = board[b], chip'[b] = chip[b],
         agreed'[b] = agreed[b]
  PROVE  Right(Of(b))' /\ WaitsKnown(b)'
<1>1. Right(Of(b)) /\ WaitsKnown(b) /\ b # Pins
  BY DEF IoInv, Somewhere, Board, Pins
<1> QED BY <1>1 DEF Of, Right, WaitsKnown, BankOf, Watched

LEMMA PinsStay ==
  ASSUME IoInv, pins' = pins, chip'[Pins] = chip[Pins], agreed'[Pins] = agreed[Pins]
  PROVE  PinsRight' /\ WaitsKnown(Pins)'
<1>1. PinsRight /\ WaitsKnown(Pins)
  BY DEF IoInv, Somewhere
<1> QED BY <1>1 DEF PinsRight, WaitsKnown, BankOf, Watched

LEMMA SetPinKeeps ==
  ASSUME IoInv, NEW l \in Line, NEW on \in BOOLEAN, SetPin(l, on)
  PROVE  IoInv'
<1>1. UNCHANGED <<board, nextCheck, nextPoll, plugged, noisy, high, polled, marked,
                  changes, agreed>>
  BY DEF SetPin
<1>2. PICK written \in BOOLEAN :
        /\ Latch(pins') = Latch(pins) => ~written
        /\ chip' = [chip EXCEPT
             ![Pins].latch = IF written THEN Latch(pins') ELSE @,
             ![Pins].setUp = @ /\ (written \/ Latch(pins') = Latch(pins))]
  BY DEF SetPin
<1>3. pins \in Bank /\ chip \in [Somewhere -> Chip] /\ chip[Pins] \in Chip
  BY DEF IoInv, TypeOK, Somewhere
<1>4. /\ pins' \in Bank /\ pins' = [pins EXCEPT !.on = pins'.on]
      /\ InputMask(pins') = InputMask(pins)
  BY <1>3, SwitchedIs DEF SetPin
<1>5. /\ pins'.pins = pins.pins /\ pins'.active = pins.active
      /\ pins'.pending = pins.pending /\ pins'.since = pins.since
      /\ pins'.transition = pins.transition
  <2> DEFINE now == pins'.on
  <2>1. pins' = [pins EXCEPT !.on = now]
    BY <1>4
  <2> HIDE DEF now
  <2> QED BY <1>3, <2>1 DEF Bank
<1> DEFINE latch == IF written THEN Latch(pins') ELSE chip[Pins].latch
           setUp == chip[Pins].setUp /\ (written \/ Latch(pins') = Latch(pins))
<1>6. latch \subseteq Line /\ setUp \in BOOLEAN
  BY <1>3 DEF Latch, Chip
<1>7. chip' = [chip EXCEPT ![Pins].latch = latch, ![Pins].setUp = setUp]
  BY <1>2
<1>8. /\ setUp => chip[Pins].setUp
      /\ setUp /\ ~written => Latch(pins') = Latch(pins)
      /\ written => latch = Latch(pins')
      /\ ~written => latch = chip[Pins].latch
  OBVIOUS
<1> HIDE DEF latch, setUp
<1>9. /\ chip' \in [Somewhere -> Chip] /\ \A b \in Board : chip'[b] = chip[b]
      /\ chip'[Pins].latch = latch /\ chip'[Pins].setUp = setUp
      /\ chip'[Pins].inputs = chip[Pins].inputs
  <2>1. Pins \in Somewhere /\ Pins \notin Board
    BY DEF Somewhere, Pins, Board
  <2> QED BY <1>3, <1>6, <1>7, <2>1 DEF Chip, Somewhere
<1>10. TypeOK'
  BY <1>1, <1>4, <1>9 DEF IoInv, TypeOK, Somewhere
<1>11. \A b \in Board : Right(Of(b))' /\ WaitsKnown(b)'
  BY <1>1, <1>9, BoardStays
<1>12. PinsRight'
  BY <1>4, <1>8, <1>9 DEF IoInv, PinsRight
<1>13. WaitsKnown(Pins)'
  <2>1. WaitsKnown(Pins)
    BY DEF IoInv, Somewhere
  <2> QED BY <1>1, <1>5, <2>1 DEF WaitsKnown, BankOf, Watched, Waits
<1> QED BY <1>10, <1>11, <1>12, <1>13 DEF IoInv, Somewhere

LEMMA SetLineKeeps ==
  ASSUME IoInv, NEW b \in Board, NEW l \in Line, NEW on \in BOOLEAN, SetLine(b, l, on)
  PROVE  IoInv'
<1> DEFINE bank == Switched(board[b].bank, l, on)
           dirty == board[b].dirty \/ Latch(bank) # Latch(board[b].bank)
<1>1. UNCHANGED <<pins, nextCheck, nextPoll, chip, plugged, noisy, high, polled,
                  marked, changes, agreed>>
  BY DEF SetLine
<1>2. board' = [board EXCEPT ![b].bank = bank, ![b].dirty = dirty]
  BY DEF SetLine
<1>3. /\ board \in [Board -> BoardState] /\ board[b] \in BoardState
      /\ board[b].bank \in Bank
  BY DEF IoInv, TypeOK, BoardState
<1>4. /\ bank \in Bank /\ bank = [board[b].bank EXCEPT !.on = bank.on]
      /\ InputMask(bank) = InputMask(board[b].bank)
  BY <1>3, SwitchedIs
<1>5. /\ dirty \in BOOLEAN /\ (~dirty => ~board[b].dirty /\ Latch(bank) = Latch(board[b].bank))
  BY <1>3 DEF BoardState
<1> HIDE DEF bank, dirty
<1>6. /\ bank.pins = board[b].bank.pins /\ bank.active = board[b].bank.active
      /\ bank.pending = board[b].bank.pending /\ bank.since = board[b].bank.since
      /\ bank.transition = board[b].bank.transition
  <2> DEFINE now == bank.on
  <2>1. bank = [board[b].bank EXCEPT !.on = now]
    BY <1>4
  <2> HIDE DEF now
  <2> QED BY <1>3, <2>1 DEF Bank
<1>7. /\ board' \in [Board -> BoardState] /\ \A c \in Board \ {b} : board'[c] = board[c]
      /\ board'[b].bank = bank /\ board'[b].dirty = dirty
      /\ board'[b].type = board[b].type /\ board'[b].present = board[b].present
  <2> DEFINE new == [board[b] EXCEPT !.bank = bank, !.dirty = dirty]
  <2>1. /\ new \in BoardState /\ new.bank = bank /\ new.dirty = dirty
        /\ new.type = board[b].type /\ new.present = board[b].present
    BY <1>3, <1>4, <1>5 DEF BoardState
  <2>2. board' = [board EXCEPT ![b] = new]
    BY <1>2, <1>3
  <2> HIDE DEF new
  <2> QED BY <1>3, <2>1, <2>2
<1>8. TypeOK'
  BY <1>1, <1>7 DEF IoInv, TypeOK
<1>9. \A c \in Board \ {b} : Right(Of(c))' /\ WaitsKnown(c)'
  BY <1>1, <1>7, BoardStays
<1>10. Right(Of(b))'
  <2>1. Right([board |-> board[b], chip |-> chip[b]])
    BY DEF IoInv, Of
  <2> QED BY <1>1, <1>4, <1>5, <1>7, <2>1 DEF Of, Right
<1>11. WaitsKnown(b)'
  <2>1. WaitsKnown(b) /\ b # Pins
    BY DEF IoInv, Somewhere, Board, Pins
  <2> QED BY <1>1, <1>6, <1>7, <2>1 DEF WaitsKnown, BankOf, Watched, Waits
<1>12. PinsRight' /\ WaitsKnown(Pins)'
  BY <1>1, PinsStay
<1> QED BY <1>8, <1>9, <1>10, <1>11, <1>12 DEF IoInv, Somewhere

(* A board that has lost its power is to be set up again. *)
LEMMA PlugKeeps ==
  ASSUME IoInv, NEW b \in Board, Plug(b)
  PROVE  IoInv'
<1>1. /\ UNCHANGED <<pins, board, nextCheck, nextPoll, noisy, high, polled, marked, agreed>>
      /\ plugged' = plugged \cup {b} /\ chip' = [chip EXCEPT ![b] = PoweredUp]
      /\ changes' \in 0..MaxChanges
  BY DEF Plug, Change, IoInv, TypeOK
<1>2. PoweredUp \in Chip /\ ~PoweredUp.setUp
  BY DEF PoweredUp, Chip
<1>3. /\ chip' \in [Somewhere -> Chip] /\ ~chip'[b].setUp
      /\ \A w \in Somewhere \ {b} : chip'[w] = chip[w]
  BY <1>1, <1>2 DEF IoInv, TypeOK, Somewhere
<1>4. Pins # b
  BY DEF Pins, Board
<1>5. TypeOK'
  BY <1>1, <1>3 DEF IoInv, TypeOK, Somewhere
<1>6. \A c \in Board : Right(Of(c))'
  <2>1. Right(Of(b))'
    BY <1>3 DEF Right, Of
  <2>2. ASSUME NEW c \in Board \ {b}
        PROVE  Right(Of(c))'
    BY <1>1, <1>3, BoardStays DEF Somewhere
  <2> QED BY <2>1, <2>2
<1>7. PinsRight'
  BY <1>1, <1>3, <1>4 DEF IoInv, PinsRight, Somewhere
<1>8. \A w \in Somewhere : WaitsKnown(w)'
  BY <1>1 DEF IoInv, WaitsKnown, BankOf, Watched
<1> QED BY <1>5, <1>6, <1>7, <1>8 DEF IoInv

(* What the surroundings do that touches neither the driver nor the chips. *)
LEMMA SurroundingsKeep ==
  ASSUME IoInv, UNCHANGED <<pins, board, nextCheck, nextPoll, chip, polled, marked, agreed>>,
         plugged' \subseteq Board, noisy' \in BOOLEAN,
         high' \in [Somewhere -> SUBSET Line], changes' \in 0..MaxChanges
  PROVE  IoInv'
<1>1. TypeOK'
  BY DEF IoInv, TypeOK, Somewhere
<1>2. \A b \in Board : Right(Of(b))'
  BY DEF IoInv, Right, Of
<1>3. PinsRight' /\ \A w \in Somewhere : WaitsKnown(w)'
  BY DEF IoInv, PinsRight, WaitsKnown, BankOf, Watched
<1> QED BY <1>1, <1>2, <1>3 DEF IoInv

LEMMA UnplugKeeps ==
  ASSUME IoInv, NEW b \in Board, Unplug(b)
  PROVE  IoInv'
BY SurroundingsKeep DEF Unplug, Change, IoInv, TypeOK, Somewhere

LEMMA NoiseKeeps ==
  ASSUME IoInv, Noise
  PROVE  IoInv'
BY SurroundingsKeep DEF Noise, Change, IoInv, TypeOK, Somewhere

LEMMA InputKeeps ==
  ASSUME IoInv, NEW w \in Somewhere, NEW l \in Line, Input(w, l)
  PROVE  IoInv'
<1>1. high' \in [Somewhere -> SUBSET Line]
  BY DEF Input, Apart, IoInv, TypeOK, Somewhere
<1> QED BY <1>1, SurroundingsKeep DEF Input, IoInv, TypeOK

LEMMA StutterKeeps ==
  ASSUME IoInv, UNCHANGED vars
  PROVE  IoInv'
BY SurroundingsKeep DEF vars, IoInv, TypeOK, Somewhere

(* Time passes for the agreement of an input as it does for the wait. *)
LEMMA TickKeeps ==
  ASSUME IoInv, Tick
  PROVE  IoInv'
<1> DEFINE new(b) ==
      [board[b] EXCEPT
         !.sinceCheck = IF board[b].fitted THEN Older(@, CHECK) ELSE @,
         !.sincePoll = IF board[b].present THEN Older(@, POLL) ELSE @,
         !.bank = Aged(@)]
<1>1. /\ UNCHANGED <<nextCheck, nextPoll, chip, plugged, noisy, high, changes>>
      /\ polled' = FALSE /\ marked' = {} /\ pins' = Aged(pins)
      /\ board' = [b \in Board |-> new(b)]
      /\ agreed' = [w \in Somewhere |-> [l \in Line |->
           Older(agreed[w][l], BankOf(w).pins[l].debounce)]]
  BY DEF Tick, Somewhere
<1>2. pins \in Bank /\ \A b \in Board : board[b] \in BoardState /\ board[b].bank \in Bank
  BY DEF IoInv, TypeOK, BoardState
<1>3. ASSUME NEW b \in Board
      PROVE  /\ board'[b] \in BoardState /\ board'[b].bank = Aged(board[b].bank)
             /\ (board'[b].present <=> board[b].present)
             /\ (board'[b].dirty <=> board[b].dirty)
             /\ board'[b].type = board[b].type
  <2> DEFINE check == IF board[b].fitted THEN Older(board[b].sinceCheck, CHECK)
                      ELSE board[b].sinceCheck
             poll == IF board[b].present THEN Older(board[b].sincePoll, POLL)
                     ELSE board[b].sincePoll
             bank == Aged(board[b].bank)
             x == board[b]
  <2>1. check \in 0..CHECK /\ poll \in 0..POLL /\ bank \in Bank
    <3>1. x.sinceCheck \in 0..CHECK /\ x.sincePoll \in 0..POLL /\ x.bank \in Bank
      BY <1>2 DEF BoardState
    <3> HIDE DEF x
    <3> QED BY <3>1, AgedIs DEF Older, x
  <2>2. board'[b] = [x EXCEPT !.sinceCheck = check, !.sincePoll = poll, !.bank = bank]
    BY <1>1
  <2>3. x \in BoardState
    BY <1>2
  <2> HIDE DEF check, poll, bank, x
  <2>4. /\ board'[b] \in BoardState /\ board'[b].bank = bank
        /\ board'[b].present = x.present /\ board'[b].dirty = x.dirty
        /\ board'[b].type = x.type
    BY <2>1, <2>2, <2>3 DEF BoardState
  <2> QED BY <2>4 DEF bank, x
<1>4. \A w \in Somewhere :
        /\ BankOf(w) \in Bank /\ BankOf(w)' = Aged(BankOf(w))
        /\ (Watched(w)' <=> Watched(w))
  <2>1. Pins \notin Board
    BY DEF Pins, Board
  <2> QED BY <1>1, <1>2, <1>3, <2>1 DEF BankOf, Watched, Somewhere
<1>5. \A w \in Somewhere : agreed[w] \in [Line -> 0..MaxDebounce]
  BY DEF IoInv, TypeOK, Somewhere
<1>6. ASSUME NEW w \in Somewhere, NEW l \in Line
      PROVE  /\ agreed'[w][l] = Older(agreed[w][l], BankOf(w).pins[l].debounce)
             /\ agreed'[w][l] \in 0..MaxDebounce
  <2>1. BankOf(w).pins[l].debounce \in 0..MaxDebounce
    BY <1>4 DEF Bank, PinSetting
  <2>2. agreed[w][l] \in 0..MaxDebounce
    BY <1>5
  <2>3. agreed'[w][l] = Older(agreed[w][l], BankOf(w).pins[l].debounce)
    BY <1>1
  <2> DEFINE most == BankOf(w).pins[l].debounce
             age == agreed[w][l]
  <2>4. most \in 0..MaxDebounce /\ age \in 0..MaxDebounce
    BY <2>1, <2>2
  <2> HIDE DEF most, age
  <2>5. Older(age, most) \in 0..MaxDebounce
    BY <2>4 DEF Older
  <2> QED BY <2>3, <2>5 DEF most, age
<1>7. TypeOK'
  <2>1. pins' \in Bank
    BY <1>1, <1>2, AgedIs
  <2>2. board' \in [Board -> BoardState]
    BY <1>1, <1>3
  <2>3. agreed' \in [Somewhere -> [Line -> 0..MaxDebounce]]
    <3>1. ASSUME NEW w \in Somewhere
          PROVE  agreed'[w] \in [Line -> 0..MaxDebounce]
      <4>1. agreed'[w] = [l \in Line |->
                            Older(agreed[w][l], BankOf(w).pins[l].debounce)]
        BY <1>1
      <4> QED BY <1>6, <4>1
    <3> QED BY <1>1, <3>1
  <2> QED BY <1>1, <2>1, <2>2, <2>3 DEF IoInv, TypeOK, Somewhere
<1>8. ASSUME NEW b \in Board
      PROVE  Right(Of(b))'
  <2>1. /\ Latch(board'[b].bank) = Latch(board[b].bank)
        /\ InputMask(board'[b].bank) = InputMask(board[b].bank)
    BY <1>2, <1>3, AgedIs, SameLinesSameMasks
  <2>2. Right([board |-> board[b], chip |-> chip[b]])
    BY DEF IoInv, Of
  <2> QED BY <1>1, <1>3, <2>1, <2>2 DEF Of, Right
<1>9. PinsRight'
  <2>1. Latch(pins') = Latch(pins) /\ InputMask(pins') = InputMask(pins)
    BY <1>1, <1>2, AgedIs, SameLinesSameMasks
  <2> QED BY <1>1, <2>1 DEF IoInv, PinsRight
<1>10. ASSUME NEW w \in Somewhere
       PROVE  WaitsKnown(w)'
  <2> DEFINE bank == BankOf(w)
             aged == Aged(bank)
  <2>1. bank \in Bank /\ BankOf(w)' = aged /\ WaitsKnown(w)
    BY <1>4 DEF IoInv
  <2>2. /\ aged.transition = bank.transition /\ aged.active = bank.active
        /\ aged.pending = bank.pending /\ aged.pins = bank.pins
        /\ \A l \in Line : aged.since[l] = IF bank.since[l] < bank.pins[l].debounce
                                           THEN bank.since[l] + 1 ELSE bank.since[l]
    BY <2>1, AgedIs DEF SameLines
  <2>3. ASSUME NEW l \in InputsOf(bank.pins), Watched(w), Waits(aged, l)
        PROVE  aged.since[l] <= agreed'[w][l]
    <3>1. l \in Line
      BY DEF InputsOf
    <3>2. bank.since[l] <= agreed[w][l]
      BY <2>1, <2>2, <2>3 DEF WaitsKnown, Waits
    <3>3. /\ bank.since[l] \in Nat /\ bank.pins[l].debounce \in Nat /\ agreed[w][l] \in Nat
      BY <1>5, <2>1, <3>1 DEF Bank, PinSetting
    <3>4. agreed'[w][l] = Older(agreed[w][l], bank.pins[l].debounce)
      BY <1>6, <3>1
    <3> HIDE DEF aged, bank
    <3> QED BY <2>2, <3>1, <3>2, <3>3, <3>4 DEF Older
  <2> HIDE DEF aged
  <2> QED BY <1>4, <2>1, <2>2, <2>3 DEF WaitsKnown
<1> QED BY <1>7, <1>8, <1>9, <1>10 DEF IoInv

(* A board, when a configuration is loaded.  Its inputs begin anew if it
   answers, and its chip has been set up for what it is to be. *)
LEMMA BoardLoaded ==
  ASSUME IoInv, NEW s \in Settings, NEW b \in Board, NEW t \in LoadedBoards(b, s.boards)
  PROVE  /\ t \in Outcome /\ Right(t) /\ t.board.bank.transition = {}
         /\ t.board.present => \A l : ~Waits(t.board.bank, l)
         /\ t.board.type = s.boards[b].type /\ t.board.address = s.boards[b].address
         /\ SameBoard(b, s.boards) =>
              t.chip = chip[b] \/ t.chip.latch = Latch(t.board.bank)
<1> DEFINE x == LoadedBoard(b, s.boards)
<1>1. PICK k \in ChipAt(b, s.boards) :
        t \in IF b \in Fitted(s.boards) THEN Checks([board |-> x, chip |-> k], b, TRUE)
              ELSE {[board |-> x, chip |-> k]}
  BY DEF LoadedBoards
<1>2. s.boards[b] \in BoardSetting
  BY DEF Setting
<1>3. board[b] \in BoardState /\ chip[b] \in Chip
  BY DEF IoInv, TypeOK
<1>4. k \in Chip /\ (SameBoard(b, s.boards) => k = chip[b])
  <2>1. k \in {chip[b]} \cup Elsewhere(s.boards[b].type) \cup {PoweredUp}
    BY DEF ChipAt
  <2>2. SameBoard(b, s.boards) => k = chip[b]
    BY DEF ChipAt
  <2>3. PoweredUp \in Chip /\ Elsewhere(s.boards[b].type) \subseteq Chip
    BY DEF Elsewhere, PoweredUp, Chip
  <2> QED BY <1>3, <2>1, <2>2, <2>3
<1> DEFINE fitted == b \in Fitted(s.boards)
           lines == [l \in Line |-> IF fitted /\ l \in LinesOf(s.boards[b].type)
                                    THEN s.boards[b].lines[l] ELSE Unused]
           present == board[b].present /\ SameBoard(b, s.boards) /\ fitted
           bank == Loaded(board[b].bank, lines)
<1>5. lines \in [Line -> PinSetting]
  <2>1. Unused \in PinSetting
    BY DEF Unused, PinSetting, Mode
  <2> QED BY <1>2, <2>1 DEF BoardSetting
<1>6. board[b].bank \in Bank
  BY <1>3, OutcomeParts
<1> HIDE DEF lines
<1>7. bank \in Bank /\ bank.transition = {}
  BY <1>5, <1>6, LoadedIs
<1>8. fitted \in BOOLEAN /\ present \in BOOLEAN /\ (present => fitted)
  BY <1>3 DEF BoardState
<1>9. x = [board[b] EXCEPT !.type = s.boards[b].type, !.address = s.boards[b].address,
                           !.fitted = fitted, !.present = present, !.dirty = FALSE,
                           !.bank = bank]
  BY DEF LoadedBoard, lines
<1> HIDE DEF fitted, present, bank, x
<1>10. /\ x \in BoardState /\ x.bank = bank /\ x.present = present
       /\ x.type = s.boards[b].type /\ x.address = s.boards[b].address
  BY <1>2, <1>3, <1>7, <1>8, <1>9 DEF BoardState, BoardSetting
<1> DEFINE o == [board |-> x, chip |-> k]
<1>11. o \in Outcome /\ o.board = x /\ o.chip = k
  BY <1>4, <1>10 DEF Outcome
<1>12. CASE ~fitted
  <2>1. t = o
    BY <1>1, <1>12 DEF fitted
  <2>2. ~x.present
    BY <1>8, <1>10, <1>12
  <2> HIDE DEF o
  <2> QED BY <1>4, <1>7, <1>10, <1>11, <2>1, <2>2 DEF Right
<1>13. CASE fitted
  <2>1. t \in Checks(o, b, TRUE)
    BY <1>1, <1>13 DEF fitted
  <2> HIDE DEF o
  <2>2. /\ Keeps(o, t) /\ Right(t)
        /\ t.board.present => t.board.bank = Anew(bank, b)
        /\ ~t.board.present => t.board.bank.transition = {}
    <3>1. /\ Keeps(o, t) /\ Right(t)
          /\ t.board.present => t.board.bank = Anew(o.board.bank, b)
          /\ ~t.board.present /\ o.board.bank.transition = {} =>
               t.board.bank.transition = {}
      BY <1>11, <2>1, ChecksAnew
    <3>3. o.board.bank = bank
      BY <1>10, <1>11
    <3> QED BY <1>7, <3>1, <3>3
  <2>3. /\ t \in Outcome /\ t.board.type = x.type /\ t.board.address = x.address
        /\ t.chip = k \/ t.chip.latch = Latch(t.board.bank)
    BY <1>11, <2>2, SameLinesSameMasks DEF Keeps
  <2>4. t.board.present => /\ t.board.bank.transition = {}
                           /\ t.board.bank.pending = t.board.bank.active
    <3>1. /\ Anew(bank, b).transition = {}
          /\ Anew(bank, b).pending = Anew(bank, b).active
      BY <1>7, AnewIs
    <3> QED BY <2>2, <3>1
  <2> QED BY <1>4, <1>10, <2>2, <2>3, <2>4 DEF Waits
<1> QED BY <1>12, <1>13

LEMMA PinsLoaded ==
  ASSUME IoInv, NEW s \in Settings, NEW p \in LoadedPins(s.pins)
  PROVE  /\ p.bank \in Bank /\ p.bank.transition = {} /\ p.chip \in Chip
         /\ \A l : ~Waits(p.bank, l)
         /\ p.chip.setUp => p.chip.latch = Latch(p.bank) /\ p.chip.inputs = InputMask(p.bank)
         /\ ~noisy => p.chip.latch = Latch(p.bank)
<1> DEFINE bank == Loaded(pins, s.pins)
<1>1. PICK latched \in MayFail, directed \in MayFail, read \in MayFail :
        p = [bank |-> Started(bank, high[Pins], read),
             chip |-> [latch |-> IF latched THEN Latch(bank) ELSE chip[Pins].latch,
                       inputs |-> IF directed THEN InputMask(bank) ELSE chip[Pins].inputs,
                       setUp |-> latched /\ directed]]
  BY DEF LoadedPins
<1>2. bank \in Bank
  <2>1. s.pins \in [Line -> PinSetting] /\ pins \in Bank
    BY DEF Setting, IoInv, TypeOK
  <2> QED BY <2>1, LoadedIs
<1>3. chip[Pins] \in Chip
  BY DEF IoInv, TypeOK
<1>4. /\ latched \in BOOLEAN /\ directed \in BOOLEAN /\ read \in BOOLEAN
      /\ ~noisy => latched
  BY DEF MayFail
<1> HIDE DEF bank
<1> DEFINE start == Started(bank, high[Pins], read)
<1>5. /\ start \in Bank /\ start.transition = {} /\ start.pending = start.active
      /\ Latch(start) = Latch(bank) /\ InputMask(start) = InputMask(bank)
  BY <1>2, <1>4, StartedIs, SameLinesSameMasks
<1>6. Latch(bank) \subseteq Line /\ InputMask(bank) \subseteq Line
  BY DEF Latch, InputMask
<1> HIDE DEF start
<1> DEFINE k == [latch |-> IF latched THEN Latch(bank) ELSE chip[Pins].latch,
                 inputs |-> IF directed THEN InputMask(bank) ELSE chip[Pins].inputs,
                 setUp |-> latched /\ directed]
<1>7. p.bank = start /\ p.chip = k
  BY <1>1 DEF start
<1>8. /\ k \in Chip
      /\ k.setUp => k.latch = Latch(bank) /\ k.inputs = InputMask(bank)
      /\ latched => k.latch = Latch(bank)
  BY <1>3, <1>4, <1>6 DEF Chip
<1> HIDE DEF k
<1> QED BY <1>4, <1>5, <1>7, <1>8 DEF Waits

LEMMA ApplyConfigurationKeeps ==
  ASSUME IoInv, NEW s \in Settings, ApplyConfiguration(s)
  PROVE  IoInv'
<1>1. PICK p \in LoadedPins(s.pins),
           t \in Choices([b \in Board |-> LoadedBoards(b, s.boards)]) :
        /\ pins' = p.bank
        /\ board' = [b \in Board |-> t[b].board]
        /\ chip' = [w \in Somewhere |-> IF w \in Board THEN t[w].chip ELSE p.chip]
  BY DEF ApplyConfiguration, Somewhere
<1>2. /\ agreed' = [w \in Somewhere |-> [l \in Line |-> 0]]
      /\ UNCHANGED <<nextCheck, nextPoll, plugged, noisy, polled, marked>>
      /\ changes' \in 0..MaxChanges
  BY DEF ApplyConfiguration, Change, IoInv, TypeOK, Somewhere
<1>3. high' \in [Somewhere -> SUBSET Line]
  BY DEF ApplyConfiguration, IoInv, TypeOK, Somewhere
<1>4. ASSUME NEW b \in Board
      PROVE  /\ board'[b] \in BoardState /\ chip'[b] \in Chip
             /\ Right([board |-> board'[b], chip |-> chip'[b]])
             /\ board'[b].bank.transition = {}
             /\ board'[b].present => \A l : ~Waits(board'[b].bank, l)
  <2>1. t[b] \in LoadedBoards(b, s.boards)
    BY DEF Choices
  <2>2. board'[b] = t[b].board /\ chip'[b] = t[b].chip
    BY <1>1 DEF Somewhere
  <2>3. /\ t[b] \in Outcome /\ Right(t[b]) /\ t[b].board.bank.transition = {}
        /\ t[b].board.present => \A l : ~Waits(t[b].board.bank, l)
    BY <2>1, BoardLoaded
  <2> QED BY <2>2, <2>3, OutcomeParts DEF Right
<1>5. /\ pins' \in Bank /\ pins'.transition = {} /\ chip'[Pins] \in Chip
      /\ \A l : ~Waits(pins', l)
      /\ PinsRight'
  <2>1. chip'[Pins] = p.chip
    BY <1>1 DEF Somewhere, Pins, Board
  <2> QED BY <1>1, <2>1, PinsLoaded DEF PinsRight
<1>6. TypeOK'
  <2>1. board' \in [Board -> BoardState]
    BY <1>1, <1>4
  <2>2. chip' \in [Somewhere -> Chip]
    BY <1>1, <1>4, <1>5 DEF Somewhere
  <2>3. agreed' \in [Somewhere -> [Line -> 0..MaxDebounce]]
    BY <1>2
  <2> QED BY <1>2, <1>3, <1>5, <2>1, <2>2, <2>3 DEF IoInv, TypeOK, Somewhere
<1>7. \A b \in Board : Right(Of(b))'
  BY <1>4 DEF Of
<1>8. \A w \in Somewhere : WaitsKnown(w)'
  <2>1. WaitsKnown(Pins)'
    BY <1>5 DEF WaitsKnown, BankOf
  <2>2. ASSUME NEW b \in Board
        PROVE  WaitsKnown(b)'
    <3>1. b # Pins
      BY DEF Board, Pins
    <3> QED BY <1>4, <3>1 DEF WaitsKnown, BankOf, Watched
  <2> QED BY <2>1, <2>2 DEF Somewhere
<1> QED BY <1>5, <1>6, <1>7, <1>8 DEF IoInv

LEMMA InitKeeps == Init => IoInv
<1> SUFFICES ASSUME Init
             PROVE  IoInv
  OBVIOUS
<1> DEFINE new == [type |-> "None", address |-> OnBoard, fitted |-> FALSE,
                   present |-> FALSE, dirty |-> FALSE, sinceCheck |-> 0, sincePoll |-> 0,
                   bank |-> NewBank]
<1>1. NewBank \in Bank /\ NewBank.transition = {} /\ \A l : ~Waits(NewBank, l)
  <2>1. Unused \in PinSetting
    BY DEF Unused, PinSetting, Mode
  <2> QED BY <2>1 DEF NewBank, Bank, Waits
<1>2. PoweredUp \in Chip /\ ~PoweredUp.setUp
  BY DEF PoweredUp, Chip
<1>3. new \in BoardState /\ ~new.present /\ new.bank = NewBank
  BY <1>1 DEF BoardState, Type, Address
<1> HIDE DEF new
<1>4. /\ pins = NewBank /\ board = [b \in Board |-> new]
      /\ nextCheck = 1 /\ nextPoll = 1
      /\ chip = [w \in Somewhere |-> PoweredUp]
      /\ plugged \subseteq Board /\ noisy \in BOOLEAN /\ polled = FALSE
      /\ high = [w \in Somewhere |-> Line] /\ marked = {} /\ changes = 0
      /\ agreed = [w \in Somewhere |-> [l \in Line |-> 0]]
  BY DEF Init, new, Somewhere
<1>5. TypeOK
  <2>1. 1 \in Board
    BY DEF Board
  <2>2. /\ board \in [Board -> BoardState] /\ chip \in [Somewhere -> Chip]
        /\ high \in [Somewhere -> SUBSET Line]
        /\ agreed \in [Somewhere -> [Line -> 0..MaxDebounce]]
    BY <1>2, <1>3, <1>4
  <2>3. 0 \in 0..MaxChanges
    OBVIOUS
  <2> QED BY <1>1, <1>4, <2>1, <2>2, <2>3 DEF TypeOK, Somewhere
<1>6. \A b \in Board : Right(Of(b))
  BY <1>3, <1>4 DEF Right, Of
<1>7. PinsRight
  BY <1>2, <1>4 DEF PinsRight, Somewhere
<1>8. \A w \in Somewhere : WaitsKnown(w)
  BY <1>1, <1>3, <1>4 DEF WaitsKnown, BankOf, Somewhere
<1> QED BY <1>5, <1>6, <1>7, <1>8 DEF IoInv

LEMMA NextKeeps == IoInv /\ [Next]_vars => IoInv'
<1> SUFFICES ASSUME IoInv, [Next]_vars
             PROVE  IoInv'
  OBVIOUS
<1>1. CASE Running
  BY <1>1, PollKeeps, TickKeeps DEF Running
<1>2. CASE \E l \in Line, on \in BOOLEAN :
             SetPin(l, on) \/ \E b \in Board : SetLine(b, l, on)
  BY <1>2, SetPinKeeps, SetLineKeeps
<1>3. CASE \E s \in Settings : ApplyConfiguration(s)
  BY <1>3, ApplyConfigurationKeeps
<1>4. CASE \E b \in Board : Plug(b) \/ Unplug(b)
  BY <1>4, PlugKeeps, UnplugKeeps
<1>5. CASE Noise \/ \E w \in Somewhere, l \in Line : Input(w, l)
  BY <1>5, NoiseKeeps, InputKeeps
<1>6. CASE UNCHANGED vars
  BY <1>6, StutterKeeps
<1> QED BY <1>1, <1>2, <1>3, <1>4, <1>5, <1>6 DEF Next, Somewhere

(* The invariant that the other theorems are read off. *)
THEOREM IoSafe == Spec => []IoInv
BY InitKeeps, NextKeeps, PTL DEF Spec

(* What the banks, boards and chips hold is of its type: the masks are lines
   of the largest chip, the turns are boards there are (IoBoards::poll). *)
THEOREM IoTypeOK == Spec => []TypeOK
<1>1. IoInv => TypeOK
  BY DEF IoInv
<1> QED BY <1>1, IoSafe, PTL

(* A board that answers has the outputs it was last commanded and the
   directions that were configured, unless a switched line waits for the next
   poll or the board lost its power since; the pins, as long as no transfer to
   them has failed (IoBoards, dirty and present). *)
THEOREM BoardsAsCommanded == Spec => []ChipsAsCommanded
<1>1. IoInv => ChipsAsCommanded
  <2> SUFFICES ASSUME IoInv
               PROVE  ChipsAsCommanded
    OBVIOUS
  <2>1. ASSUME NEW b \in Board, board[b].present, ~board[b].dirty, chip[b].setUp
        PROVE  /\ chip[b].latch = Latch(board[b].bank)
               /\ HasDirections(chip[b], board[b].bank, board[b].type)
    BY <2>1 DEF IoInv, Right, Of, HasDirections
  <2>2. chip[Pins].setUp => /\ chip[Pins].latch = Latch(pins)
                            /\ HasDirections(chip[Pins], pins, "None")
    BY DEF IoInv, PinsRight, HasDirections
  <2> QED BY <2>1, <2>2 DEF ChipsAsCommanded
<1> QED BY <1>1, IoSafe, PTL

-----------------------------------------------------------------------------
(* Lines that become outputs *)

BoardStartsRight(b) ==
  board'[b].type = board[b].type /\ board'[b].address = board[b].address
  => StartsRight(b, board'[b].bank)

LEMMA NoNewOutputs ==
  ASSUME NEW w, NEW bank, \/ chip'[w].inputs = chip[w].inputs
                          \/ chip'[w].latch = Latch(bank)
  PROVE  StartsRight(w, bank)
BY DEF StartsRight

LEMMA PollStartsRight ==
  ASSUME IoInv, Poll
  PROVE  (\A b \in Board : BoardStartsRight(b)) /\ StartsRight(Pins, pins')
<1>1. PICK p, s, read :
        /\ p \in PinsPolled /\ Polled(p, s, read)
        /\ \A b \in Board : AfterPoll(b, s[b], b \in read)
  BY PollDoes
<1>2. ASSUME NEW b \in Board
      PROVE  BoardStartsRight(b)
  <2>1. /\ chip'[b] = s[b].chip /\ Keeps(Of(b), s[b])
        /\ Latch(board'[b].bank) = Latch(board[b].bank)
    <3>1. AfterPoll(b, s[b], b \in read) /\ Polled(p, s, read)
      BY <1>1
    <3>2. chip'[b] = s[b].chip
      BY <3>1 DEF Polled, Somewhere
    <3>3. Keeps(Of(b), s[b])
      BY <3>1 DEF AfterPoll
    <3>4. Latch(board'[b].bank) = Latch(board[b].bank)
      <4>1. s[b].board \in BoardState /\ s[b].board.bank \in Bank
        BY <3>3, OutcomeParts DEF Keeps
      <4>2. board'[b].bank = Taken(s[b].board.bank)
        BY <3>1, <4>1, PollTakes
      <4>3. SameLines(s[b].board.bank, board'[b].bank) /\ SameLines(board[b].bank, s[b].board.bank)
        BY <3>3, <4>1, <4>2, TakenIs, OfBoard DEF Keeps
      <4> QED BY <4>3, SameLinesSameMasks
    <3> QED BY <3>2, <3>3, <3>4
  <2>2. chip'[b] = chip[b] \/ chip'[b].latch = Latch(board'[b].bank)
    BY <2>1, OfBoard DEF Keeps
  <2> QED BY <2>2, NoNewOutputs DEF BoardStartsRight
<1>3. chip'[Pins] = chip[Pins]
  BY <1>1, PinsPolledAre
<1> QED BY <1>2, <1>3, NoNewOutputs

LEMMA ApplyConfigurationStartsRight ==
  ASSUME IoInv, NEW s \in Settings, ApplyConfiguration(s)
  PROVE  (\A b \in Board : BoardStartsRight(b)) /\ (~noisy => StartsRight(Pins, pins'))
<1>1. PICK p \in LoadedPins(s.pins),
           t \in Choices([b \in Board |-> LoadedBoards(b, s.boards)]) :
        /\ pins' = p.bank
        /\ board' = [b \in Board |-> t[b].board]
        /\ chip' = [w \in Somewhere |-> IF w \in Board THEN t[w].chip ELSE p.chip]
  BY DEF ApplyConfiguration, Somewhere
<1>2. ASSUME NEW b \in Board
      PROVE  BoardStartsRight(b)
  <2>1. t[b] \in LoadedBoards(b, s.boards)
    BY DEF Choices
  <2>2. board'[b] = t[b].board /\ chip'[b] = t[b].chip
    BY <1>1 DEF Somewhere
  <2>3. /\ t[b].board.type = s.boards[b].type /\ t[b].board.address = s.boards[b].address
        /\ SameBoard(b, s.boards) =>
             t[b].chip = chip[b] \/ t[b].chip.latch = Latch(t[b].board.bank)
    BY <2>1, BoardLoaded
  <2>4. board'[b].type = board[b].type /\ board'[b].address = board[b].address
        => chip'[b] = chip[b] \/ chip'[b].latch = Latch(board'[b].bank)
    BY <2>2, <2>3 DEF SameBoard
  <2> QED BY <2>4, NoNewOutputs DEF BoardStartsRight
<1>3. chip'[Pins] = p.chip
  BY <1>1 DEF Somewhere, Pins, Board
<1>4. ~noisy => chip'[Pins].latch = Latch(pins')
  BY <1>1, <1>3, PinsLoaded
<1> QED BY <1>2, <1>4, NoNewOutputs

(* "Latch before direction": a line that becomes an output starts as it was
   commanded, whichever transfer fails and whatever the chip held (IoBoards.cpp,
   setup); so do the pins when none fails (IoPins.cpp). *)
THEOREM LatchBeforeDirection == Spec => OutputsStartRight
<1>1. IoInv /\ [Next]_vars
      => [/\ \A b \in Board :
               /\ board'[b].type = board[b].type
               /\ board'[b].address = board[b].address
               => StartsRight(b, board'[b].bank)
          /\ ~noisy => StartsRight(Pins, pins')]_vars
  <2> SUFFICES ASSUME IoInv, Next
               PROVE  /\ \A b \in Board : BoardStartsRight(b)
                      /\ ~noisy => StartsRight(Pins, pins')
    BY DEF BoardStartsRight
  <2>1. CASE chip' = chip
    BY <2>1, NoNewOutputs DEF BoardStartsRight
  <2>2. CASE Poll
    BY <2>2, PollStartsRight
  <2>3. ASSUME NEW l \in Line, NEW on \in BOOLEAN, SetPin(l, on)
        PROVE  \A w \in Somewhere : chip'[w].inputs = chip[w].inputs
    <3>1. chip \in [Somewhere -> Chip]
      BY DEF IoInv, TypeOK, Somewhere
    <3>2. \E latch, setUp : chip' = [chip EXCEPT ![Pins].latch = latch,
                                                 ![Pins].setUp = setUp]
      BY <2>3 DEF SetPin
    <3> QED BY <3>1, <3>2 DEF Chip
  <2>4. ASSUME NEW s \in Settings, ApplyConfiguration(s)
        PROVE  /\ \A b \in Board : BoardStartsRight(b)
               /\ ~noisy => StartsRight(Pins, pins')
    BY <2>4, ApplyConfigurationStartsRight
  <2>5. ASSUME NEW b \in Board, Plug(b)
        PROVE  \A w \in Somewhere : StartsRight(w, IF w = Pins THEN pins' ELSE board'[w].bank)
    <3>1. chip \in [Somewhere -> Chip] /\ b \in Somewhere
      BY DEF IoInv, TypeOK, Somewhere
    <3>2. chip' = [chip EXCEPT ![b] = PoweredUp]
      BY <2>5 DEF Plug
    <3>3. \A w \in Somewhere : chip[w].inputs \ chip'[w].inputs = {}
      BY <3>1, <3>2 DEF Chip, PoweredUp
    <3> QED BY <3>3 DEF StartsRight
  <2>6. Pins \in Somewhere /\ \A b \in Board : b \in Somewhere /\ b # Pins
    BY DEF Somewhere, Pins, Board
  <2>7. CASE \E l \in Line, on \in BOOLEAN : SetPin(l, on)
    BY <2>3, <2>6, <2>7, NoNewOutputs DEF BoardStartsRight
  <2>8. CASE \E b \in Board : Plug(b)
    BY <2>5, <2>6, <2>8 DEF BoardStartsRight
  <2>9. CASE \/ Tick \/ Noise \/ \E l \in Line, on \in BOOLEAN, b \in Board : SetLine(b, l, on)
             \/ \E b \in Board : Unplug(b)
             \/ \E w \in Somewhere, l \in Line : Input(w, l)
    BY <2>1, <2>9 DEF Tick, Noise, SetLine, Unplug, Input
  <2> QED BY <2>2, <2>4, <2>7, <2>8, <2>9 DEF Next, Running, Somewhere
<1> QED BY <1>1, IoSafe, PTL DEF Spec, OutputsStartRight

-----------------------------------------------------------------------------
(* Inputs that change *)

(* A bank that a poll has read, where a line was watched before and after. *)
LEMMA ReadChanges ==
  ASSUME IoInv, NEW w \in Somewhere, WaitsKnown(w), Watched(w), NEW bank \in Bank,
         bank = BankOf(w), NEW l \in Line
  PROVE  LET s == Sampled(bank, high[w]) IN
         /\ l \in s.transition <=> ((l \in s.active) # (l \in bank.active))
         /\ l \in s.transition => agreed[w][l] >= bank.pins[l].debounce
<1> DEFINE s == Sampled(bank, high[w])
<1>1. /\ bank.transition = {}
      /\ l \in InputsOf(bank.pins) /\ Waits(bank, l) => bank.since[l] <= agreed[w][l]
  BY DEF WaitsKnown
<1>2. /\ l \in s.transition <=> ((l \in s.active) # (l \in bank.active))
      /\ l \in s.transition =>
           \/ bank.pins[l].debounce = 0
           \/ /\ l \in InputsOf(bank.pins) /\ Waits(bank, l)
              /\ bank.since[l] >= bank.pins[l].debounce
  BY <1>1, SampledDebounces
<1>3. /\ agreed[w][l] \in Nat /\ bank.since[l] \in Nat
      /\ bank.pins[l].debounce \in Nat
  BY DEF IoInv, TypeOK, Somewhere, Bank, PinSetting
<1> HIDE DEF s
<1>4. l \in s.transition => agreed[w][l] >= bank.pins[l].debounce
  BY <1>1, <1>2, <1>3
<1> QED BY <1>2, <1>4 DEF s

LEMMA PollDebounces ==
  ASSUME IoInv, Poll, NEW w \in Somewhere, NEW l \in Line
  PROVE  LET differs == {StateOf(w, l), StateOf(w, l)'} = {"Active", "Inactive"} IN
         /\ differs => /\ agreed[w][l] >= BankOf(w).pins[l].debounce
                       /\ <<w, l>> \in marked'
         /\ <<w, l>> \in marked' => differs
<1>1. PICK p, s, read :
        /\ p \in PinsPolled /\ Polled(p, s, read)
        /\ \A b \in Board : AfterPoll(b, s[b], b \in read)
  BY PollDoes
<1>2. marked' = {<<Pins, k>> : k \in p.bank.transition}
                  \cup {m \in Board \X Line : m[2] \in s[m[1]].board.bank.transition}
  BY <1>1 DEF Polled
<1>3. WaitsKnown(w) /\ Pins \notin Board
  BY DEF IoInv, Pins, Board
<1>4. CASE w = Pins
  <2>1. /\ p.bank \in Bank /\ pins' = Taken(p.bank)
        /\ \/ p.read /\ p.bank = Sampled(pins, high[Pins])
           \/ ~p.read /\ p.bank = pins
    BY <1>1, PinsPolledAre
  <2>2. pins'.active = p.bank.active
    BY <2>1, TakenIs
  <2>3. <<w, l>> \in marked' <=> l \in p.bank.transition
    BY <1>2, <1>3, <1>4
  <2>4. /\ l \in p.bank.transition <=> ((l \in p.bank.active) # (l \in pins.active))
        /\ l \in p.bank.transition => agreed[w][l] >= pins.pins[l].debounce
    <3>1. pins \in Bank /\ pins = BankOf(w) /\ Watched(w) /\ pins.transition = {}
      BY <1>3, <1>4 DEF IoInv, TypeOK, BankOf, Watched, WaitsKnown
    <3>2. CASE p.bank = Sampled(pins, high[Pins])
      BY <1>3, <1>4, <3>1, <3>2, ReadChanges
    <3>3. CASE p.bank = pins
      BY <3>1, <3>3
    <3> QED BY <2>1, <3>2, <3>3
  <2>5. /\ StateOf(w, l) = IF l \in pins.active THEN "Active" ELSE "Inactive"
        /\ StateOf(w, l)' = IF l \in pins'.active THEN "Active" ELSE "Inactive"
        /\ BankOf(w) = pins
    BY <1>4 DEF StateOf, BankOf
  <2> QED BY <2>2, <2>3, <2>4, <2>5
<1>5. CASE w \in Board
  <2> DEFINE bank == s[w].board.bank
             old == board[w].bank
  <2>1. /\ AfterPoll(w, s[w], w \in read) /\ bank \in Bank /\ old \in Bank
        /\ old.transition = {}
        /\ (board'[w].present <=> s[w].board.present) /\ board'[w].bank = Taken(bank)
    <3>1. AfterPoll(w, s[w], w \in read) /\ Polled(p, s, read)
      BY <1>1, <1>5
    <3>2. bank \in Bank /\ (board'[w].present <=> s[w].board.present)
      BY <1>5, <3>1, PollMakes
    <3>3. board'[w].bank = Taken(bank)
      <4>1. s[w] \in Outcome
        BY <3>1 DEF AfterPoll, Keeps
      <4>2. s[w].board \in BoardState
        BY <4>1, OutcomeParts
      <4> QED BY <1>5, <3>1, <4>2, PollTakes
    <3>4. old \in Bank /\ old.transition = {}
      BY <1>5, OfBoard
    <3> QED BY <3>1, <3>2, <3>3, <3>4
  <2>2. board'[w].bank.active = bank.active
    BY <2>1, TakenIs
  <2>3. <<w, l>> \in marked' <=> l \in bank.transition
    BY <1>2, <1>3, <1>5
  <2>4. /\ StateOf(w, l) = IF ~board[w].present THEN "Unknown"
                           ELSE IF l \in old.active THEN "Active" ELSE "Inactive"
        /\ StateOf(w, l)' = IF ~board'[w].present THEN "Unknown"
                            ELSE IF l \in board'[w].bank.active THEN "Active" ELSE "Inactive"
        /\ BankOf(w) = old
    BY <1>3, <1>5 DEF StateOf, BankOf
  <2>5. CASE board[w].present /\ s[w].board.present
    <3>1. Watched(w)
      BY <2>5 DEF Watched
    <3>2. bank = old \/ bank = Sampled(old, high[w])
      BY <2>1, <2>5 DEF AfterPoll
    <3>3. /\ l \in bank.transition <=> ((l \in bank.active) # (l \in old.active))
          /\ l \in bank.transition => agreed[w][l] >= old.pins[l].debounce
      <4>1. CASE bank = Sampled(old, high[w])
        BY <1>3, <2>1, <2>4, <3>1, <4>1, ReadChanges
      <4>2. CASE bank = old
        BY <2>1, <4>2
      <4> QED BY <3>2, <4>1, <4>2
    <3> HIDE DEF bank, old
    <3> QED BY <2>1, <2>2, <2>3, <2>4, <2>5, <3>3
  <2>6. CASE ~(board[w].present /\ s[w].board.present)
    <3>1. l \notin bank.transition
      BY <2>1, <2>6 DEF AfterPoll
    <3>2. StateOf(w, l) = "Unknown" \/ StateOf(w, l)' = "Unknown"
      BY <2>1, <2>4, <2>6
    <3> HIDE DEF bank
    <3> QED BY <2>3, <3>1, <3>2
  <2> QED BY <2>5, <2>6
<1> QED BY <1>4, <1>5 DEF Somewhere

(* An input changes only when every reading of its debounce time has differed
   from what it was, and then its slot is marked, and only then; whatever boards
   are lost and found, and whichever readings fail (PinBank::sample). *)
THEOREM ChangesAreDebounced == Spec => InputsDebounced
<1>1. IoInv /\ [Next]_vars
      => [Poll => \A w \in Board \cup {Pins}, l \in Line :
            LET differs == {StateOf(w, l), StateOf(w, l)'} = {"Active", "Inactive"} IN
              /\ differs => /\ agreed[w][l] >= BankOf(w).pins[l].debounce
                            /\ <<w, l>> \in marked'
              /\ <<w, l>> \in marked' => differs]_vars
  BY PollDebounces DEF Somewhere
<1> QED BY <1>1, IoSafe, PTL DEF Spec, InputsDebounced

=============================================================================
