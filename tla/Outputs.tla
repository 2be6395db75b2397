------------------------------ MODULE Outputs ------------------------------
(***************************************************************************)
(* The driver outputs of the node and everything that may drive one:       *)
(*                                                                         *)
(*   - the events an output consumes (FemtoController::drive),             *)
(*   - the configuration (FemtoController::apply_configuration),           *)
(*   - live control, memory space 0xE0 (LiveControl::write), which also    *)
(*     starts and stops the DCC source on channel A,                       *)
(*   - the hardware poll (FemtoController::poll): driver faults, the end   *)
(*     of a motor pulse, and the lease of live control.                    *)
(*                                                                         *)
(* Every one of them holds the recursive hardware lock for the whole of    *)
(* its work, so each is one action.  The stack's executor runs the first   *)
(* three and the hardware thread the last.                                 *)
(*                                                                         *)
(* Time is counted in ticks.  A tick is longer than the poll period        *)
(* (POLL_MS), so the hardware thread polls at least once after any change  *)
(* and before time moves on; polled records that it has.                   *)
(***************************************************************************)
EXTENDS Naturals

CONSTANTS
  Output,    \* the driver outputs
  ChannelA,  \* the one whose direction line is a GPIO, the only DCC source
  Loco,      \* locomotive addresses
  Settings,  \* what the configuration may hold for one output
  Writes,    \* what a dispatcher may write to space 0xE0
  MaxTicks   \* where the two clocks stop: no pulse or lease is longer

Role == {"Unused", "Block", "Turnout"}
Mode == {"Off", "DC", "DCC"}
Full == 255
Duty == 0..Full

(* What Channels holds for an output: mode_, reverse_ and duty_. *)
Drive == [mode : Mode, reverse : BOOLEAN, duty : Duty]

Off == [mode |-> "Off", reverse |-> FALSE, duty |-> 0]
Dc(reverse, duty) == [mode |-> "DC", reverse |-> reverse, duty |-> duty]
Dcc(reverse) == [mode |-> "DCC", reverse |-> reverse, duty |-> 0]

Setting ==
  [role : Role,
   powerOn : Mode, dccReversed : BOOLEAN,                  \* a block
   motor : {"Stall", "Pulse"}, pulse : 0..MaxTicks,        \* a turnout
   duty : Duty, reverse : BOOLEAN,
   turnoutPowerOn : {"Closed", "Thrown", "Leave"}]

(* A write of space 0xE0: the parts whose bytes it covers and their values. *)
Request == [mode : Mode \cup {"Invalid"}, reverse : BOOLEAN, duty : Duty]
Write ==
  [parts : SUBSET {"lease", "source", "loco"},
   lease : 0..MaxTicks, start : BOOLEAN,
   covered : SUBSET Output, request : [Output -> Request],
   loco : Loco, speed : {"run", "stop"}]

ASSUME OutputsAssumption ==
  /\ ChannelA \in Output
  /\ MaxTicks \in Nat
  /\ Settings \subseteq Setting
  /\ Writes \subseteq Write

VARIABLES
  applied,   \* FemtoController: applied_
  cfg,       \* per output, the settings in force
  hw,        \* per output, what Channels is driving
  reported,  \* per output, channel_[].mode: what the power events report
  motor,     \* per output, Turnouts: position, pulsing and the pulse's age
  fault,     \* per output, the driver's nFAULT line
  latched,   \* per output, faultLatched_
  running,   \* DCCSource: running_
  moving,    \* the locomotives the source's table holds with a speed set
  lease,     \* LiveControl: leaseS_, 0 for none
  silent,    \* ticks since lastWrite_
  set,       \* per output, LiveControl: set_
  locoLive,  \* LiveControl: locoLive_
  polled,    \* the hardware thread has polled since anything changed
  driver,    \* history: who last changed what the output is driven with
  quiet      \* history: the lease has run out and nothing was written since

outputVars == <<cfg, hw, reported, motor, latched, driver>>
liveVars == <<lease, silent, set, locoLive, quiet>>
vars == <<applied, fault, running, moving, polled, outputVars, liveVars>>

Driver == {"none", "event", "config", "turnout", "live", "source",
           "fault", "lease"}
Position == {"Unknown", "Closed", "Thrown"}
Motor == [position : Position, pulsing : BOOLEAN, age : 0..MaxTicks]
IdleMotor == [position |-> "Unknown", pulsing |-> FALSE, age |-> 0]
LiveSetting == [live : BOOLEAN, as : Drive]
UnusedSetting ==
  [role |-> "Unused", powerOn |-> "Off", dccReversed |-> FALSE,
   motor |-> "Stall", pulse |-> 0, duty |-> 0, reverse |-> FALSE,
   turnoutPowerOn |-> "Leave"]

TypeOK ==
  /\ applied \in BOOLEAN
  /\ cfg \in [Output -> Setting]
  /\ hw \in [Output -> Drive]
  /\ reported \in [Output -> Mode]
  /\ motor \in [Output -> Motor]
  /\ fault \in [Output -> BOOLEAN]
  /\ latched \in [Output -> BOOLEAN]
  /\ running \in BOOLEAN
  /\ moving \subseteq Loco
  /\ lease \in 0..MaxTicks
  /\ silent \in 0..MaxTicks
  /\ set \in [Output -> LiveSetting]
  /\ locoLive \in BOOLEAN
  /\ polled \in BOOLEAN
  /\ driver \in [Output -> Driver]
  /\ quiet \in BOOLEAN

Init ==
  /\ applied = FALSE
  /\ cfg = [c \in Output |-> UnusedSetting]
  /\ hw = [c \in Output |-> Off]
  /\ reported = [c \in Output |-> "Off"]
  /\ motor = [c \in Output |-> IdleMotor]
  /\ fault = [c \in Output |-> FALSE]
  /\ latched = [c \in Output |-> FALSE]
  /\ running = FALSE
  /\ moving = {}
  /\ lease = 0
  /\ silent = 0
  /\ set = [c \in Output |-> [live |-> FALSE, as |-> Off]]
  /\ locoLive = FALSE
  /\ polled = FALSE
  /\ driver = [c \in Output |-> "none"]
  /\ quiet = FALSE

-----------------------------------------------------------------------------
(* Turnouts *)

(* Turnouts::drive, under the settings s. *)
MotorDrive(s, position) == Dc((position = "Thrown") # s.reverse, s.duty)

MotorDriven(s, position, m) ==
  IF s.motor = "Pulse"
  THEN [position |-> position, pulsing |-> TRUE, age |-> 0]
  ELSE [position |-> position, pulsing |-> m.pulsing, age |-> m.age]

(* Turnouts::release and the end of a pulse; the age only counts in one. *)
Stopped(m) == [position |-> m.position, pulsing |-> FALSE, age |-> 0]

(* Turnouts::attach, where the output already was a turnout: a stall motor
   in a known position is driven again with the new settings, and a pulse
   motor that is not mid-pulse is switched off. *)
StaysTurnout(c, s) == cfg[c].role = "Turnout" /\ s.role = "Turnout"
DrivenAgain(c, s) ==
  /\ StaysTurnout(c, s)
  /\ s.motor = "Stall"
  /\ motor[c].position # "Unknown"
(* Mistake: a stall motor that becomes a pulse motor is left driven. *)
NeverSwitchedToPulse(c, s) == FALSE
SwitchedToPulse(c, s) ==
  /\ StaysTurnout(c, s)
  /\ s.motor = "Pulse"
  /\ ~motor[c].pulsing

-----------------------------------------------------------------------------
(* The configuration *)

(* Mistake: the power-on state is applied on every load. *)
AlwaysChanged(c, s) == TRUE

RoleChanged(c, s) == ~applied \/ s.role # cfg[c].role

(* FemtoController::apply_channel, the driver half. *)
PowerOnDrive(s) ==
  CASE s.powerOn = "DC"  -> Dc(FALSE, Full)
    [] s.powerOn = "DCC" -> Dcc(s.dccReversed)
    [] s.powerOn = "Off" -> Off

PlacedAtPowerOn(c, s) ==
  RoleChanged(c, s) /\ s.role = "Turnout" /\ s.turnoutPowerOn # "Leave"

ConfiguredDrive(c, s) ==
  CASE DrivenAgain(c, s)     -> MotorDrive(s, motor[c].position)
    [] SwitchedToPulse(c, s) -> Off
    [] PlacedAtPowerOn(c, s) -> MotorDrive(s, s.turnoutPowerOn)
    [] RoleChanged(c, s) /\ s.role = "Block"  -> PowerOnDrive(s)
    [] RoleChanged(c, s) /\ s.role = "Unused" -> Off
    [] OTHER -> hw[c]

(* Mistake: detaching a turnout does not end its pulse. *)
MotorNotForgotten(c, s) ==
  CASE PlacedAtPowerOn(c, s) -> MotorDriven(s, s.turnoutPowerOn, IdleMotor)
    [] DrivenAgain(c, s)     -> Stopped(motor[c])
    [] OTHER -> motor[c]

ConfiguredMotor(c, s) ==
  CASE PlacedAtPowerOn(c, s) -> MotorDriven(s, s.turnoutPowerOn, IdleMotor)
    [] DrivenAgain(c, s)     -> Stopped(motor[c])
    [] StaysTurnout(c, s) /\ ~DrivenAgain(c, s) -> motor[c]
    [] OTHER -> IdleMotor

ConfiguredDriver(c, s) ==
  CASE DrivenAgain(c, s) \/ SwitchedToPulse(c, s) -> "turnout"
    [] PlacedAtPowerOn(c, s) -> "turnout"
    [] RoleChanged(c, s) /\ s.role # "Turnout" -> "config"
    [] OTHER -> driver[c]

(* One load of the configuration: attach or detach each output, then
   apply_channel, which does nothing unless the output's use changed. *)
ApplyConfiguration(s) ==
  /\ applied' = TRUE
  /\ cfg' = s
  /\ hw' = [c \in Output |-> ConfiguredDrive(c, s[c])]
  /\ motor' = [c \in Output |-> ConfiguredMotor(c, s[c])]
  /\ driver' = [c \in Output |-> ConfiguredDriver(c, s[c])]
  /\ reported' = [c \in Output |->
       IF ~RoleChanged(c, s[c]) THEN reported[c]
       ELSE IF s[c].role = "Block" THEN s[c].powerOn ELSE "Off"]
  /\ latched' = [c \in Output |-> latched[c] /\ ~RoleChanged(c, s[c])]
  /\ polled' = FALSE
  /\ UNCHANGED <<fault, running, moving, liveVars>>

-----------------------------------------------------------------------------
(* Consumed events.  An output's events are registered for its use only. *)

BlockCommand(c, d) ==
  /\ applied
  /\ cfg[c].role = "Block"
  /\ hw' = [hw EXCEPT ![c] = d]
  /\ reported' = [reported EXCEPT ![c] = d.mode]
  /\ driver' = [driver EXCEPT ![c] = "event"]
  /\ polled' = FALSE
  /\ UNCHANGED <<applied, cfg, motor, latched, fault, running, moving,
                 liveVars>>

BlockOn(c) == BlockCommand(c, Dc(FALSE, Full))
BlockOff(c) == BlockCommand(c, Off)
BlockDcc(c) == BlockCommand(c, Dcc(cfg[c].dccReversed))

TurnoutCommand(c, position) ==
  /\ applied
  /\ cfg[c].role = "Turnout"
  /\ hw' = [hw EXCEPT ![c] = MotorDrive(cfg[c], position)]
  /\ motor' = [motor EXCEPT ![c] = MotorDriven(cfg[c], position, @)]
  /\ driver' = [driver EXCEPT ![c] = "turnout"]
  /\ polled' = FALSE
  /\ UNCHANGED <<applied, cfg, reported, latched, fault, running, moving,
                 liveVars>>

Throw(c) == TurnoutCommand(c, "Thrown")
Close(c) == TurnoutCommand(c, "Closed")

-----------------------------------------------------------------------------
(* Live control, space 0xE0 *)

Asked(r) ==
  [mode |-> r.mode, reverse |-> r.reverse,
   duty |-> IF r.mode = "DC" THEN r.duty ELSE 0]

(* Byte 20, the DCC source: DCCSource::begin() powers channel A before it asks
   for its hardware timer, and gives up without one; end() switches it off. *)
Starting(w) == "source" \in w.parts /\ w.start /\ ~running
Stopping(w) == "source" \in w.parts /\ ~w.start /\ running
RunningAfter(w, timerFree) ==
  (running /\ ~Stopping(w)) \/ (Starting(w) /\ timerFree)
SourceDrive(w, c) ==
  IF c # ChannelA THEN hw[c]
  ELSE IF Starting(w) THEN Dc(FALSE, Full)
  ELSE IF Stopping(w) THEN Off ELSE hw[c]

(* LiveControl::apply_channel: which outputs of the write it drives, and which
   of those it finds driven differently. *)
Accepted(w, timerFree) ==
  {c \in w.covered :
     /\ cfg[c].role = "Block"
     /\ ~(c = ChannelA /\ RunningAfter(w, timerFree))
     /\ w.request[c].mode # "Invalid"}
(* Mistake: nobody is told what live control drove. *)
NoneAltered(w, timerFree) == {}

Altered(w, timerFree) ==
  {c \in Accepted(w, timerFree) : SourceDrive(w, c) # Asked(w.request[c])}

(* LiveControl::write.  timerFree is whether begin() gets its timer.  The
   parts are taken in the order lease, source, outputs, locomotive. *)
LiveWrite(w, timerFree) ==
  /\ applied
  /\ lease' = IF "lease" \in w.parts THEN w.lease ELSE lease
  /\ running' = RunningAfter(w, timerFree)
  /\ hw' = [c \in Output |->
              IF c \in Accepted(w, timerFree)
              THEN Asked(w.request[c]) ELSE SourceDrive(w, c)]
  /\ reported' = [c \in Output |->
                    IF c \in Altered(w, timerFree)
                    THEN w.request[c].mode ELSE reported[c]]
  /\ set' = [c \in Output |->
               IF c \in Accepted(w, timerFree)
               THEN [live |-> TRUE, as |-> Asked(w.request[c])]
               ELSE IF c = ChannelA /\ Starting(w)
               THEN [live |-> FALSE, as |-> set[c].as] ELSE set[c]]
  /\ driver' = [c \in Output |->
                  IF c \in Altered(w, timerFree) THEN "live"
                  ELSE IF c = ChannelA /\ (Starting(w) \/ Stopping(w))
                  THEN "source" ELSE driver[c]]
  /\ moving' = IF "loco" \notin w.parts THEN moving
               ELSE IF w.speed = "run" THEN moving \cup {w.loco}
               ELSE moving \ {w.loco}
  /\ locoLive' = ("loco" \in w.parts \/ (locoLive /\ ~Stopping(w)))
  /\ silent' = 0
  /\ quiet' = FALSE
  /\ polled' = FALSE
  /\ UNCHANGED <<applied, cfg, motor, latched, fault>>

-----------------------------------------------------------------------------
(* The hardware poll: poll_faults, Turnouts::update and LiveControl::poll, in
   that order, under one hold of the lock. *)

(* Outputs poll_faults() switches off, and then those whose pulse is over. *)
Faulting ==
  {c \in Output : cfg[c].role # "Unused" /\ fault[c] /\ ~latched[c]}
(* Mistake: a pulse is over at its length, not from it on. *)
PulseExactlyOver ==
  {c \in Output \ Faulting :
     motor[c].pulsing /\ motor[c].age = cfg[c].pulse}
PulseOver ==
  {c \in Output \ Faulting :
     motor[c].pulsing /\ motor[c].age >= cfg[c].pulse}

(* Mistake: the lease is only looked after while trains are driven. *)
LeaseOverWithTrains == lease # 0 /\ silent >= lease /\ locoLive
LeaseOver == lease # 0 /\ silent >= lease
(* Mistake: only what is still a block is released. *)
ReleasedBlocks ==
  {c \in Output \ (Faulting \cup PulseOver) :
     /\ cfg[c].role = "Block"
     /\ LeaseOver /\ set[c].live /\ hw[c] = set[c].as /\ hw[c].mode # "Off"}
(* LiveControl::expire() switches off what is still as it was left. *)
Released ==
  {c \in Output \ (Faulting \cup PulseOver) :
     LeaseOver /\ set[c].live /\ hw[c] = set[c].as /\ hw[c].mode # "Off"}

Poll ==
  /\ applied
  /\ hw' = [c \in Output |->
              IF c \in Faulting \cup PulseOver \cup Released
              THEN Off ELSE hw[c]]
  /\ reported' = [c \in Output |->
                    IF c \in Faulting \cup Released
                    THEN "Off" ELSE reported[c]]
  /\ motor' = [c \in Output |->
                 IF c \in Faulting \cup PulseOver
                 THEN Stopped(motor[c]) ELSE motor[c]]
  /\ latched' = [c \in Output |->
                   IF cfg[c].role = "Unused" THEN latched[c] ELSE fault[c]]
  /\ driver' = [c \in Output |->
                  IF c \in Faulting THEN "fault"
                  ELSE IF c \in PulseOver THEN "turnout"
                  ELSE IF c \in Released THEN "lease" ELSE driver[c]]
  /\ set' = [c \in Output |->
               [live |-> set[c].live /\ ~LeaseOver, as |-> set[c].as]]
  /\ moving' = IF LeaseOver /\ locoLive /\ running THEN {} ELSE moving
  /\ locoLive' = (locoLive /\ ~LeaseOver)
  /\ lease' = IF LeaseOver THEN 0 ELSE lease
  /\ quiet' = (quiet \/ LeaseOver)
  /\ polled' = TRUE
  /\ UNCHANGED <<applied, cfg, fault, running, silent>>

(* A driver raises or clears its nFAULT line. *)
FaultLine(c) ==
  /\ fault' = [fault EXCEPT ![c] = ~@]
  /\ polled' = FALSE
  /\ UNCHANGED <<applied, running, moving, outputVars, liveVars>>

Older(n) == IF n < MaxTicks THEN n + 1 ELSE n

Tick ==
  /\ polled
  /\ motor' = [c \in Output |->
                 IF motor[c].pulsing
                 THEN [motor[c] EXCEPT !.age = Older(@)] ELSE motor[c]]
  /\ silent' = IF lease # 0 THEN Older(silent) ELSE silent
  /\ polled' = FALSE
  /\ UNCHANGED <<applied, cfg, hw, reported, fault, latched, running, moving,
                 lease, set, locoLive, driver, quiet>>

Next ==
  \/ \E s \in [Output -> Settings] : ApplyConfiguration(s)
  \/ \E c \in Output : \/ BlockOn(c) \/ BlockOff(c) \/ BlockDcc(c)
                       \/ Throw(c) \/ Close(c)
                       \/ FaultLine(c)
  \/ \E w \in Writes, timerFree \in BOOLEAN : LiveWrite(w, timerFree)
  \/ Poll
  \/ Tick

Spec == Init /\ [][Next]_vars

(* The hardware thread polls for ever (main.cxx's hardware_task), and time
   does not stop however often the others act between two polls. *)
FairSpec == Spec /\ WF_vars(Poll) /\ SF_vars(Tick)
-----------------------------------------------------------------------------
(* Safety *)

(* A pulse motor "is driven for the pulse length, then the output is
   switched off" (Turnouts.h): an output that turnout control left powered
   under a pulse motor is inside a pulse that turnouts_.update() will end,
   through every change of settings, fault and command on the way. *)
PulseMotorNotHeld ==
  \A c \in Output :
    /\ cfg[c].role = "Turnout"
    /\ cfg[c].motor = "Pulse"
    /\ driver[c] = "turnout"
    /\ hw[c] # Off
    => motor[c].pulsing

(* Only a turnout set up with a pulse motor is ever inside a pulse, so
   turnouts_.update() never switches off an output that has since become a
   block, a stall motor or an unused output. *)
PulseIsAPulseMotor ==
  \A c \in Output :
    motor[c].pulsing => cfg[c].role = "Turnout" /\ cfg[c].motor = "Pulse"

(* No pulse outlives its length by more than a poll, whatever the pulse
   length is changed to while it runs. *)
PulseOnTime ==
  polled => \A c \in Output :
              motor[c].pulsing => motor[c].age < cfg[c].pulse

(* The lease runs out on time: once the poll has seen a dispatcher silent for
   as long as its lease, the lease is gone. *)
LeaseOnTime == polled /\ lease # 0 => silent < lease

(* "When nothing writes to this space for that long every output last set
   here is switched off" (LiveControl.hxx): after the lease has run out, no
   output is powered that live control was the last to change, whatever
   events, faults and configuration loads came between. *)
QuietOutputsOff ==
  quiet => \A c \in Output : driver[c] = "live" => hw[c].mode = "Off"

(* The state reported for a block's power events is what the hardware is
   doing (FemtoController::channel_changed), except on channel A once the DCC
   source has taken it over or given it back. *)
ReportedFollowsHardware ==
  \A c \in Output :
    cfg[c].role = "Block" /\ driver[c] # "source" => reported[c] = hw[c].mode

(* An unused output is "driver held off" (Config.h), except channel A as the
   DCC source. *)
UnusedHeldOff ==
  \A c \in Output :
    cfg[c].role = "Unused" /\ driver[c] # "source" => hw[c] = Off

(* "The use did not change, so the output keeps running with its new settings
   rather than being interrupted" (FemtoController::apply_channel): a load of
   the configuration neither touches an output that stays a block nor cuts
   short or restarts the pulse of one that stays a pulse turnout. *)
ReloadDoesNotInterrupt ==
  [][\A c \in Output :
       /\ applied
       /\ cfg # cfg'
       /\ cfg[c].role = cfg'[c].role
       /\ \/ cfg[c].role = "Block"
          \/ motor[c].pulsing /\ cfg'[c].motor = "Pulse"
       => /\ hw'[c] = hw[c]
          /\ motor'[c] = motor[c]
          /\ reported'[c] = reported[c]]_vars

(* Liveness under FairSpec. *)

(* A silence that has begun under a lease ends: the dispatcher writes again or
   the lease runs out. *)
SilenceEnds ==
  silent > 0 /\ lease # 0 ~> silent = 0 \/ lease = 0

(* Every pulse ends or is started anew: no change of settings, fault or write
   can leave a motor driven for good. *)
PulsesEnd ==
  \A c \in Output : motor[c].age > 0 ~> motor[c].age = 0

-----------------------------------------------------------------------------
(* The inductive invariant that the proofs use. *)

(* Until the configuration has been loaded every output is unused. *)
UnusedBeforeConfiguration ==
  ~applied => \A c \in Output : cfg[c].role = "Unused"

(* A pulse always has a position to drive to, turnout control drives turnouts
   only, and an output that is none has no position. *)
TurnoutsHavePositions ==
  \A c \in Output :
    /\ cfg[c].role # "Turnout" => motor[c] = IdleMotor
    /\ motor[c].pulsing => motor[c].position # "Unknown"
    /\ driver[c] = "turnout" => cfg[c].role = "Turnout"

(* What live control was the last to power is still recorded in set_ as it is
   driven now, so the end of the lease will find it. *)
LivePowerIsRecorded ==
  \A c \in Output :
    driver[c] = "live" /\ hw[c].mode # "Off"
    => set[c].live /\ set[c].as = hw[c]

OutputsInv ==
  /\ TypeOK
  /\ UnusedBeforeConfiguration
  /\ TurnoutsHavePositions
  /\ PulseIsAPulseMotor
  /\ PulseMotorNotHeld
  /\ LivePowerIsRecorded
  /\ QuietOutputsOff
  /\ ReportedFollowsHardware
  /\ UnusedHeldOff

-----------------------------------------------------------------------------
(* What the code's comments and documentation say and it does not do; each is
   the one property of a run that TLC finds violated. *)

(* FemtoController.cxx:549, "Leave alone: no signal until the first command":
   an output that becomes a turnout left alone at power-on carries no signal
   before a command has given it a position. *)
LeftAloneHasNoSignal ==
  \A c \in Output :
    cfg[c].role = "Turnout" /\ motor[c].position = "Unknown"
      /\ driver[c] # "source" => hw[c] = Off

(* LiveControl.cxx:232, "A dispatcher that has gone quiet must not leave
   locomotives running." *)
QuietTrainsStopped == quiet /\ running => moving = {}

=============================================================================
