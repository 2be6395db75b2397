---------------------------- MODULE BlockReports ----------------------------
(***************************************************************************)
(* A track block from its detector to the events the network gets: the     *)
(* detector of module Occupancy, whose state is the bit of a slot of       *)
(* module EventSlots.  The hardware thread polls the detector and marks    *)
(* the slot under one hold of the hardware lock (poll_occupancy); a load   *)
(* of the configuration, under the same lock, sets both up anew.           *)
(*                                                                         *)
(* Occupancy's transition_ is not here: poll_occupancy() takes it in the   *)
(* poll that sets it, unless the output is no track block, and then the    *)
(* state it leaves behind is Unknown, which is not reported.               *)
(***************************************************************************)
EXTENDS Occupancy

CONSTANT MaxReloads  \* a bound on the loads of the configuration

ASSUME ReloadAssumption == MaxReloads \in Nat

VARIABLES
  wired, marked, sending, told, missed,  \* the slot, as in EventSlots
  reloads                                \* the loads there have been

slotVars == <<wired, marked, sending, told, missed>>
reportVars == <<vars, slotVars, reloads>>

Slot == INSTANCE EventSlots WITH
          bit <- state, Unknown <- "Unknown", Known <- Definite

ReportsTypeOK ==
  /\ TypeOK
  /\ wired \in BOOLEAN /\ marked \in BOOLEAN /\ sending \in BOOLEAN
  /\ told \in BlockState
  /\ missed \in BOOLEAN
  /\ reloads \in 0..MaxReloads

ReportsInit ==
  /\ Init
  /\ Slot!Init
  /\ wired => enabled
  /\ reloads = 0

-----------------------------------------------------------------------------
(* FemtoController::poll_occupancy() *)
PollOccupancy ==
  /\ Poll
  /\ Slot!Changed(state')
  /\ UNCHANGED reloads

Refresh ==
  /\ Slot!Clear \/ Slot!Send
  /\ UNCHANGED <<vars, reloads>>

(* FemtoController::apply_configuration(); an output that is no track block
   has no occupancy events. *)
ApplyConfiguration ==
  /\ reloads < MaxReloads
  /\ reloads' = reloads + 1
  /\ \E block, pulse, events \in BOOLEAN :
       /\ Reload(block, pulse)
       /\ Slot!Rewired(block /\ events)

Surroundings ==
  /\ \/ Power
     \/ FaultLine
     \/ \E d \in {"low", "middle", "high"} : Draw(d)
     \/ Tick
  /\ UNCHANGED <<slotVars, reloads>>

ReportsNext ==
  \/ PollOccupancy
  \/ Refresh
  \/ ApplyConfiguration
  \/ Surroundings

ReportsSpec == ReportsInit /\ [][ReportsNext]_reportVars

(* The hardware thread polls, the refresh loop runs and time passes. *)
FairReportsSpec ==
  /\ ReportsSpec
  /\ WF_reportVars(PollOccupancy)
  /\ WF_reportVars(Refresh)
  /\ WF_reportVars(Tick /\ UNCHANGED <<slotVars, reloads>>)

-----------------------------------------------------------------------------
(* Nothing is lost between the detector and the network, see EventSlots. *)
ToldIsCurrent == Slot!ToldIsCurrent

(* End to end: if a block stays measurable and a train stays in it, or stays
   away, the network comes to be told so, through pulses, power changes and
   the delays, whatever was told before. *)
Steadily(level) ==
  <>[](Measurable /\ wired /\ ~missed /\ draw = level)
TrainsAreReported ==
  /\ Steadily("high") => <>[](told = "Occupied")
  /\ Steadily("low") => <>[](told = "Clear")

=============================================================================
