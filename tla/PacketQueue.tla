---------------------------- MODULE PacketQueue ----------------------------
(***************************************************************************)
(* What the DCC source promises of the packets handed to queuePacket(): a  *)
(* packet is either dropped whole or goes to the rails in its turn, exactly *)
(* as often as was asked for, and an idle packet fills in when there is     *)
(* none.                                                                    *)
(***************************************************************************)
EXTENDS Naturals, Sequences

CONSTANTS
  Capacity,   \* how many packets can wait
  Idle,       \* the idle packet, sent once at a time
  Packet      \* the packets, each with the repeats asked for

VARIABLES
  waiting,    \* the packets that wait, in order
  onRails,    \* the packet that is being sent
  left        \* how often it has yet to be sent, this time included

queueVars == <<waiting, onRails, left>>

Init ==
  /\ waiting = <<>>
  /\ onRails = Idle
  /\ left = 1

Put ==
  /\ Len(waiting) < Capacity
  /\ waiting' # <<>>
  /\ waiting' = Append(waiting, waiting'[Len(waiting')])
  /\ waiting'[Len(waiting')] \in Packet
  /\ UNCHANGED <<onRails, left>>

SendAgain ==
  /\ left > 1
  /\ left' = left - 1
  /\ UNCHANGED <<waiting, onRails>>

SendNext ==
  /\ left = 1
  /\ waiting # <<>>
  /\ onRails' = Head(waiting)
  /\ waiting' = Tail(waiting)
  /\ left' = onRails'.repeats

SendIdle ==
  /\ left = 1
  /\ waiting = <<>>
  /\ onRails' = Idle
  /\ UNCHANGED <<waiting, left>>

(* Starting the source anew forgets what waited. *)
Restart ==
  /\ waiting' = <<>>
  /\ onRails' = Idle
  /\ left' = 1

Next == Put \/ SendAgain \/ SendNext \/ SendIdle \/ Restart

Spec == Init /\ [][Next]_queueVars

=============================================================================
