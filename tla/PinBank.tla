------------------------------ MODULE PinBank ------------------------------
(***************************************************************************)
(* The logic of up to 16 lines, each unused, an input or an output         *)
(* (PinBank in IoPins.cpp), shared by the node's own pins and by every I/O *)
(* board.  A mask of the code is the set of its lines, a level is in the   *)
(* set when it is high.  A time of the code is kept as the age of it.      *)
(***************************************************************************)
EXTENDS Naturals

CONSTANTS
  Line,         \* the lines of the largest chip
  MaxDebounce   \* no debounce time is longer, in polls

ASSUME BankAssumption == MaxDebounce \in Nat

Mode == {"Unused", "Input", "InputPullup", "Output"}
PinSetting == [mode : Mode, invert : BOOLEAN, debounce : 0..MaxDebounce]
Unused == [mode |-> "Unused", invert |-> FALSE, debounce |-> 0]

Bank ==
  [pins : [Line -> PinSetting], on : SUBSET Line,
   active : SUBSET Line, pending : SUBSET Line, transition : SUBSET Line,
   since : [Line -> 0..MaxDebounce]]

NewBank ==
  [pins |-> [l \in Line |-> Unused], on |-> {}, active |-> {}, pending |-> {},
   transition |-> {}, since |-> [l \in Line |-> 0]]

OutputsOf(pins) == {l \in Line : pins[l].mode = "Output"}
InputsOf(pins) == {l \in Line : pins[l].mode \in {"Input", "InputPullup"}}
Inverted(pins) == {l \in Line : pins[l].invert}
Apart(S, T) == (S \ T) \cup (T \ S)

-----------------------------------------------------------------------------
(* PinBank::load() *)
Loaded(bank, pins) ==
  [bank EXCEPT !.pins = pins, !.transition = {},
               !.on = @ \cap OutputsOf(pins) \cap OutputsOf(bank.pins)]

(* PinBank::inputMask(), the lines the chip has as inputs. *)
InputMask(bank) == Line \ OutputsOf(bank.pins)

(* PinBank::latch(): on pulls the line low, unless inverted. *)
Latch(bank) ==
  Line \ (Apart(bank.on, Inverted(bank.pins)) \cap OutputsOf(bank.pins))

(* The inputs that are active by the levels read: low, unless inverted. *)
Level(bank, high) ==
  Apart(Line \ high, Inverted(bank.pins)) \cap InputsOf(bank.pins)

(* PinBank::start() *)
Started(bank, high, valid) ==
  LET level == IF valid THEN Level(bank, high) ELSE {} IN
    [bank EXCEPT !.active = level, !.pending = level, !.transition = {},
                 !.since = [l \in Line |-> 0]]

(* Mistake: a reading that agrees again does not end the wait. *)
WaitsOnce(bank, level) ==
  {l \in InputsOf(bank.pins) :
     /\ (l \in level) # (l \in bank.active)
     /\ (l \in level) # (l \in bank.pending)}
(* The inputs whose pending level, and its time, begin with this reading: it
   agrees with the input's state, or it is the first that differs. *)
WaitsAgain(bank, level) ==
  {l \in InputsOf(bank.pins) :
     \/ (l \in level) = (l \in bank.active)
     \/ (l \in level) # (l \in bank.pending)}

(* PinBank::sample() *)
Sampled(bank, high) ==
  LET level == Level(bank, high)
      again == WaitsAgain(bank, level)
      since == [l \in Line |-> IF l \in again THEN 0 ELSE bank.since[l]]
      held == {l \in InputsOf(bank.pins) :
                 /\ (l \in level) # (l \in bank.active)
                 /\ since[l] >= bank.pins[l].debounce}
  IN [bank EXCEPT !.since = since,
                  !.pending = (@ \ again) \cup (level \cap again),
                  !.active = Apart(@, held),
                  !.transition = @ \cup held]

(* takeTransition(), for every line. *)
Taken(bank) == [bank EXCEPT !.transition = {}]

(* PinBank::set() *)
Switched(bank, l, on) ==
  [bank EXCEPT !.on = IF on THEN @ \cup {l} ELSE @ \ {l}]

(* Time passes; beyond the debounce time no age is of use. *)
Aged(bank) ==
  [bank EXCEPT !.since = [l \in Line |->
     IF bank.since[l] < bank.pins[l].debounce
     THEN bank.since[l] + 1 ELSE bank.since[l]]]

=============================================================================
