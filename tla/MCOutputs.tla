----------------------------- MODULE MCOutputs -----------------------------
(***************************************************************************)
(* Small instances of Outputs for TLC.                                     *)
(***************************************************************************)
EXTENDS Outputs

(* Settings of an output, the fields its use does not read at a default. *)
Block(powerOn, reversed) ==
  [UnusedSetting EXCEPT !.role = "Block", !.powerOn = powerOn,
                        !.dccReversed = reversed]
Turnout(kind, length, atPowerOn) ==
  [UnusedSetting EXCEPT !.role = "Turnout", !.motor = kind,
                        !.pulse = length, !.duty = 128,
                        !.turnoutPowerOn = atPowerOn]

AllSettings ==
  {UnusedSetting, Block("DC", FALSE), Block("DCC", TRUE),
   Turnout("Stall", 0, "Thrown"),
   Turnout("Pulse", 1, "Leave"), Turnout("Pulse", 2, "Closed")}

(* Writes that cover one part, and one that covers three. *)
NoRequest ==
  [c \in Output |-> [mode |-> "Invalid", reverse |-> FALSE, duty |-> 0]]
NoWrite ==
  [parts |-> {}, lease |-> 0, start |-> FALSE, covered |-> {},
   request |-> NoRequest, loco |-> CHOOSE l \in Loco : TRUE,
   speed |-> "stop"]

Reversed == [mode |-> "DC", reverse |-> TRUE, duty |-> 128]

Requests ==
  {[mode |-> "Invalid", reverse |-> FALSE, duty |-> 0],
   [mode |-> "Off", reverse |-> FALSE, duty |-> 0],
   [mode |-> "DC", reverse |-> FALSE, duty |-> 255]}

LeaseWrites ==
  {[NoWrite EXCEPT !.parts = {"lease"}, !.lease = n] : n \in 0..2}
SourceWrites ==
  {[NoWrite EXCEPT !.parts = {"source"}, !.start = b] : b \in BOOLEAN}
OutputWrites ==
  {[NoWrite EXCEPT !.covered = {c}, !.request = [@ EXCEPT ![c] = r]] :
     c \in Output, r \in Requests}
LocoWrites ==
  {[NoWrite EXCEPT !.parts = {"loco"}, !.loco = l, !.speed = v] :
     l \in Loco, v \in {"run", "stop"}}
WholeWrites ==
  {[NoWrite EXCEPT !.parts = {"lease", "source"}, !.lease = 1, !.start = b,
                   !.covered = Output, !.request = [c \in Output |-> r]] :
     b \in BOOLEAN, r \in {Reversed}}

AllWrites ==
  LeaseWrites \cup SourceWrites \cup OutputWrites \cup LocoWrites
    \cup WholeWrites

(* For the runs that find one disagreement each. *)
FewWrites ==
  {[NoWrite EXCEPT !.parts = {"lease"}, !.lease = 1]}
    \cup {[NoWrite EXCEPT !.covered = cs,
                          !.request = [c \in Output |-> Reversed]] :
            cs \in SUBSET Output \ {{}}}
TrainWrites == LeaseWrites \cup SourceWrites \cup LocoWrites

=============================================================================
