--------------------------- MODULE MCServoBoards ---------------------------
(***************************************************************************)
(* Small instances of ServoBoards for TLC: one board with one channel, or  *)
(* its settings for as many channels as the cfg gives it.                  *)
(***************************************************************************)
EXTENDS ServoBoards

CONSTANTS there, elsewhere  \* addresses

All(fitted, address, hold, use, closed, thrown, time, powerOn) ==
  [fitted |-> fitted, address |-> address, hold |-> hold,
   channel |-> [ch \in Channel |->
     [use |-> use, closed |-> closed, thrown |-> thrown, time |-> time,
      powerOn |-> powerOn]]]

(* A servo that moves, one with its thrown position elsewhere, one that jumps
   and is held, and whose first position is unknown, a light, and no board. *)
Moving == All(TRUE, there, FALSE, "Servo", 1, 3, 2, "Closed")
Edited == All(TRUE, there, FALSE, "Servo", 1, 2, 2, "Closed")
Held == All(TRUE, there, TRUE, "Servo", 1, 3, 0, "Leave")
Light == All(TRUE, there, FALSE, "Light", 0, 2, 1, "Thrown")
Unfitted == All(FALSE, there, FALSE, "Servo", 1, 3, 2, "Closed")
OtherBoard == All(TRUE, elsewhere, FALSE, "Servo", 1, 3, 2, "Thrown")

ServoSettings == {Moving, Edited, Held, Light, Unfitted, OtherBoard}

=============================================================================
