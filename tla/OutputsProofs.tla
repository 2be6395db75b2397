--------------------------- MODULE OutputsProofs ---------------------------
(***************************************************************************)
(* Proofs about Outputs, for every set of outputs, settings and writes.    *)
(***************************************************************************)
EXTENDS Outputs, TLAPS

USE OutputsAssumption

(* Every drive that the operators build is one Channels can hold. *)
LEMMA DriveTypes ==
  /\ Off \in Drive
  /\ \A r \in BOOLEAN, d \in Duty : Dc(r, d) \in Drive
  /\ \A r \in BOOLEAN : Dcc(r) \in Drive
  /\ \A s \in Setting : PowerOnDrive(s) \in Drive
  /\ \A s \in Setting, p \in Position : MotorDrive(s, p) \in Drive
  /\ \A r \in Request : r.mode # "Invalid" => Asked(r) \in Drive
<1> USE DEF Drive, Off, Dc, Dcc, Mode, Duty, Full
<1>1. Off \in Drive
  OBVIOUS
<1>2. \A r \in BOOLEAN, d \in Duty : Dc(r, d) \in Drive
  OBVIOUS
<1>3. \A r \in BOOLEAN : Dcc(r) \in Drive
  OBVIOUS
<1>4. \A s \in Setting : PowerOnDrive(s) \in Drive
  BY DEF PowerOnDrive, Setting
<1>5. \A s \in Setting, p \in Position : MotorDrive(s, p) \in Drive
  BY DEF MotorDrive, Setting, Position
<1>6. \A r \in Request : r.mode # "Invalid" => Asked(r) \in Drive
  BY DEF Request, Asked
<1> QED BY <1>1, <1>2, <1>3, <1>4, <1>5, <1>6

(* So are the motors. *)
LEMMA MotorTypes ==
  /\ IdleMotor \in Motor
  /\ \A m \in Motor : Stopped(m) \in Motor
  /\ \A m \in Motor, s \in Setting, p \in Position :
       MotorDriven(s, p, m) \in Motor
<1> USE DEF Motor, Position
<1>1. IdleMotor \in Motor
  BY DEF IdleMotor
<1>2. \A m \in Motor : Stopped(m) \in Motor
  BY DEF Stopped
<1>3. \A m \in Motor, s \in Setting, p \in Position :
        MotorDriven(s, p, m) \in Motor
  BY DEF MotorDriven
<1> QED BY <1>1, <1>2, <1>3

(* The system starts in a state of its types. *)
LEMMA InitTyped == Init => TypeOK
<1> SUFFICES ASSUME Init
             PROVE  TypeOK
  OBVIOUS
<1>1. UnusedSetting \in Setting
  BY DEF UnusedSetting, Setting, Role, Mode, Duty, Full
<1>2. [live |-> FALSE, as |-> Off] \in LiveSetting
  BY DriveTypes DEF LiveSetting
<1>3. /\ cfg \in [Output -> Setting]
      /\ hw \in [Output -> Drive]
      /\ motor \in [Output -> Motor]
      /\ set \in [Output -> LiveSetting]
  BY <1>1, <1>2, DriveTypes, MotorTypes DEF Init
<1>4. /\ reported \in [Output -> Mode]
      /\ driver \in [Output -> Driver]
  BY DEF Init, Mode, Driver
<1>5. /\ lease \in 0..MaxTicks
      /\ silent \in 0..MaxTicks
  BY DEF Init
<1> QED BY <1>3, <1>4, <1>5 DEF Init, TypeOK

(* A load of the configuration keeps the types. *)
LEMMA ConfigTyped ==
  ASSUME TypeOK, NEW s \in [Output -> Settings], ApplyConfiguration(s)
  PROVE  TypeOK'
<1>1. \A c \in Output : s[c] \in Setting
  OBVIOUS
<1>2. ASSUME NEW c \in Output
      PROVE  ConfiguredDrive(c, s[c]) \in Drive
  BY <1>1, DriveTypes
     DEF TypeOK, ConfiguredDrive, Motor, PlacedAtPowerOn, Setting, Position
<1>3. ASSUME NEW c \in Output
      PROVE  ConfiguredMotor(c, s[c]) \in Motor
  BY <1>1, MotorTypes
     DEF TypeOK, ConfiguredMotor, PlacedAtPowerOn, Setting, Position
<1>4. ASSUME NEW c \in Output
      PROVE  ConfiguredDriver(c, s[c]) \in Driver
  BY DEF TypeOK, ConfiguredDriver, Driver
<1>5. reported' \in [Output -> Mode]
  BY <1>1 DEF TypeOK, ApplyConfiguration, Setting, Mode
<1>6. cfg' \in [Output -> Setting]
  BY <1>1 DEF ApplyConfiguration
<1> QED BY <1>2, <1>3, <1>4, <1>5, <1>6
           DEF TypeOK, ApplyConfiguration, liveVars

(* The invariant, one output at a time. *)
OutputOK(c) ==
  /\ cfg[c].role # "Turnout" => motor[c] = IdleMotor
  /\ motor[c].pulsing => motor[c].position # "Unknown"
  /\ driver[c] = "turnout" => cfg[c].role = "Turnout"
  /\ motor[c].pulsing => cfg[c].role = "Turnout" /\ cfg[c].motor = "Pulse"
  /\ cfg[c].role = "Turnout" /\ cfg[c].motor = "Pulse"
       /\ driver[c] = "turnout" /\ hw[c] # Off => motor[c].pulsing
  /\ driver[c] = "live" /\ hw[c].mode # "Off"
       => set[c].live /\ set[c].as = hw[c]
  /\ quiet /\ driver[c] = "live" => hw[c].mode = "Off"
  /\ cfg[c].role = "Block" /\ driver[c] # "source"
       => reported[c] = hw[c].mode
  /\ cfg[c].role = "Unused" /\ driver[c] # "source" => hw[c] = Off

LEMMA OutputByOutput ==
  OutputsInv <=> /\ TypeOK
                 /\ UnusedBeforeConfiguration
                 /\ \A c \in Output : OutputOK(c)
BY DEF OutputsInv, OutputOK, TurnoutsHavePositions, PulseIsAPulseMotor,
       PulseMotorNotHeld, LivePowerIsRecorded, QuietOutputsOff,
       ReportedFollowsHardware, UnusedHeldOff

LEMMA OutputByOutputNext ==
  OutputsInv' <=> /\ TypeOK'
                  /\ UnusedBeforeConfiguration'
                  /\ \A c \in Output : OutputOK(c)'
BY DEF OutputsInv, OutputOK, TurnoutsHavePositions, PulseIsAPulseMotor,
       PulseMotorNotHeld, LivePowerIsRecorded, QuietOutputsOff,
       ReportedFollowsHardware, UnusedHeldOff

(* A load of the configuration keeps the invariant. *)
LEMMA ConfigKeeps ==
  ASSUME OutputsInv, NEW s \in [Output -> Settings], ApplyConfiguration(s)
  PROVE  OutputsInv'
<1>1. TypeOK'
  BY ConfigTyped DEF OutputsInv
<1>2. UnusedBeforeConfiguration'
  BY DEF UnusedBeforeConfiguration, ApplyConfiguration
<1> SUFFICES ASSUME NEW c \in Output
             PROVE  OutputOK(c)'
  BY <1>1, <1>2, OutputByOutputNext
<1>3. OutputOK(c) /\ (~applied => cfg[c].role = "Unused")
  BY OutputByOutput DEF UnusedBeforeConfiguration
<1>4. /\ cfg'[c] = s[c]
      /\ hw'[c] = ConfiguredDrive(c, s[c])
      /\ motor'[c] = ConfiguredMotor(c, s[c])
      /\ driver'[c] = ConfiguredDriver(c, s[c])
      /\ set'[c] = set[c]
      /\ quiet' = quiet
      /\ reported'[c] = IF ~RoleChanged(c, s[c]) THEN reported[c]
                        ELSE IF s[c].role = "Block"
                        THEN s[c].powerOn ELSE "Off"
  BY DEF ApplyConfiguration, liveVars
<1>5. /\ s[c].role \in {"Unused", "Block", "Turnout"}
      /\ s[c].motor \in {"Stall", "Pulse"}
      /\ s[c].powerOn \in {"Off", "DC", "DCC"}
      /\ s[c].turnoutPowerOn \in {"Closed", "Thrown", "Leave"}
  BY DEF Setting, Role, Mode
<1> USE DEF OutputOK, ConfiguredDrive, ConfiguredMotor, ConfiguredDriver,
            DrivenAgain, SwitchedToPulse, PlacedAtPowerOn
<1>6. CASE StaysTurnout(c, s[c])
  <2> ~RoleChanged(c, s[c])
    BY <1>3, <1>6 DEF StaysTurnout, RoleChanged
  <2>1. CASE DrivenAgain(c, s[c])
    BY <1>3, <1>4, <1>6, <2>1 DEF StaysTurnout, Stopped
  <2>2. CASE SwitchedToPulse(c, s[c])
    BY <1>3, <1>4, <1>6, <2>2 DEF StaysTurnout
  <2>3. CASE ~DrivenAgain(c, s[c]) /\ ~SwitchedToPulse(c, s[c])
    BY <1>3, <1>4, <1>5, <1>6, <2>3 DEF StaysTurnout
  <2> QED BY <2>1, <2>2, <2>3
<1>7. CASE ~StaysTurnout(c, s[c]) /\ ~RoleChanged(c, s[c])
  BY <1>3, <1>4, <1>5, <1>7 DEF StaysTurnout, RoleChanged, IdleMotor
<1>8. CASE ~StaysTurnout(c, s[c]) /\ RoleChanged(c, s[c])
  <2>1. CASE s[c].role = "Block"
    BY <1>3, <1>4, <1>5, <1>8, <2>1
       DEF IdleMotor, PowerOnDrive, Dc, Dcc, Off
  <2>2. CASE s[c].role = "Unused"
    BY <1>3, <1>4, <1>8, <2>2 DEF IdleMotor
  <2>3. CASE s[c].role = "Turnout"
    <3>1. CASE s[c].turnoutPowerOn = "Leave"
      BY <1>3, <1>4, <1>8, <2>3, <3>1 DEF IdleMotor, StaysTurnout
    <3>2. CASE s[c].turnoutPowerOn # "Leave"
      <4>1. /\ motor'[c] = MotorDriven(s[c], s[c].turnoutPowerOn, IdleMotor)
            /\ driver'[c] = "turnout"
            /\ s[c].turnoutPowerOn # "Unknown"
        BY <1>4, <1>5, <1>8, <2>3, <3>2
      <4>2. /\ motor'[c].pulsing <=> s[c].motor = "Pulse"
            /\ motor'[c].position = s[c].turnoutPowerOn
        BY <4>1 DEF MotorDriven, IdleMotor
      <4> QED BY <1>4, <2>3, <4>1, <4>2
    <3> QED BY <3>1, <3>2
  <2> QED BY <1>5, <2>1, <2>2, <2>3
<1> QED BY <1>6, <1>7, <1>8

(* So does a power event of a block, *)
LEMMA BlockKeeps ==
  ASSUME OutputsInv, NEW b \in Output, NEW d \in Drive, BlockCommand(b, d)
  PROVE  OutputsInv'
<1>1. TypeOK'
  BY DEF OutputsInv, TypeOK, BlockCommand, Drive, Driver, liveVars
<1>2. UnusedBeforeConfiguration'
  BY DEF UnusedBeforeConfiguration, BlockCommand
<1> SUFFICES ASSUME NEW c \in Output
             PROVE  OutputOK(c)'
  BY <1>1, <1>2, OutputByOutputNext
<1>3. OutputOK(c)
  BY OutputByOutput
<1>4. CASE c = b
  BY <1>3, <1>4
     DEF OutputOK, OutputsInv, TypeOK, BlockCommand, liveVars
<1>5. CASE c # b
  BY <1>3, <1>5
     DEF OutputOK, OutputsInv, TypeOK, BlockCommand, liveVars
<1> QED BY <1>4, <1>5

(* a turnout command, *)
LEMMA TurnoutKeeps ==
  ASSUME OutputsInv, NEW t \in Output, NEW p \in {"Closed", "Thrown"},
         TurnoutCommand(t, p)
  PROVE  OutputsInv'
<1>1. TypeOK'
  <2>1. /\ MotorDrive(cfg[t], p) \in Drive
        /\ MotorDriven(cfg[t], p, motor[t]) \in Motor
    BY DriveTypes, MotorTypes DEF OutputsInv, TypeOK, Position
  <2> QED BY <2>1 DEF OutputsInv, TypeOK, TurnoutCommand, Driver, liveVars
<1>2. UnusedBeforeConfiguration'
  BY DEF UnusedBeforeConfiguration, TurnoutCommand
<1> SUFFICES ASSUME NEW c \in Output
             PROVE  OutputOK(c)'
  BY <1>1, <1>2, OutputByOutputNext
<1>3. OutputOK(c)
  BY OutputByOutput
<1>4. CASE c = t
  <2>1. /\ motor'[c] = MotorDriven(cfg[c], p, motor[c])
        /\ driver'[c] = "turnout"
        /\ cfg'[c] = cfg[c]
        /\ cfg[c].role = "Turnout"
    BY <1>4 DEF OutputsInv, TypeOK, TurnoutCommand
  <2> QED BY <1>3, <2>1 DEF OutputOK, MotorDriven
<1>5. CASE c # t
  BY <1>3, <1>5
     DEF OutputOK, OutputsInv, TypeOK, TurnoutCommand, liveVars
<1> QED BY <1>4, <1>5

(* a change of a fault line, *)
LEMMA FaultLineKeeps ==
  ASSUME OutputsInv, NEW f \in Output, FaultLine(f)
  PROVE  OutputsInv'
<1>1. TypeOK'
  BY DEF OutputsInv, TypeOK, FaultLine, outputVars, liveVars
<1> QED BY <1>1, OutputByOutput, OutputByOutputNext
           DEF OutputOK, UnusedBeforeConfiguration, FaultLine, outputVars,
               liveVars

(* and the passing of time. *)
LEMMA TickKeeps ==
  ASSUME OutputsInv, Tick
  PROVE  OutputsInv'
<1>1. TypeOK'
  <2>1. /\ motor' \in [Output -> Motor]
        /\ silent' \in 0..MaxTicks
    <3>1. \A m \in Motor : [m EXCEPT !.age = Older(@)] \in Motor
      BY DEF Motor, Older
    <3>2. silent' \in 0..MaxTicks
      BY DEF OutputsInv, TypeOK, Tick, Older
    <3> QED BY <3>1, <3>2 DEF OutputsInv, TypeOK, Tick
  <2> QED BY <2>1 DEF OutputsInv, TypeOK, Tick
<1>2. UnusedBeforeConfiguration'
  BY DEF OutputsInv, UnusedBeforeConfiguration, Tick
<1> SUFFICES ASSUME NEW c \in Output
             PROVE  OutputOK(c)'
  BY <1>1, <1>2, OutputByOutputNext
<1>3. OutputOK(c)
  BY OutputByOutput
<1>4. /\ motor'[c].pulsing = motor[c].pulsing
      /\ motor'[c].position = motor[c].position
  BY DEF OutputsInv, TypeOK, Tick, Motor
<1> QED BY <1>3, <1>4 DEF OutputOK, Tick

(* A write of live control keeps the invariant. *)
LEMMA LiveWriteKeeps ==
  ASSUME OutputsInv, NEW w \in Writes, NEW timerFree \in BOOLEAN,
         LiveWrite(w, timerFree)
  PROVE  OutputsInv'
<1>1. /\ w.covered \subseteq Output
      /\ w.lease \in 0..MaxTicks
      /\ w.loco \in Loco
      /\ \A c \in w.covered : w.request[c] \in Request
  BY DEF Write
<1>2. \A c \in Accepted(w, timerFree) :
        /\ c \in Output
        /\ w.request[c].mode \in Mode
        /\ Asked(w.request[c]) \in Drive
        /\ Asked(w.request[c]).mode = w.request[c].mode
  BY <1>1, DriveTypes DEF Accepted, Request, Asked
<1>3. \A c \in Output : SourceDrive(w, c) \in Drive
  <2>1. FALSE \in BOOLEAN /\ Full \in Duty
    BY DEF Full, Duty
  <2>2. Dc(FALSE, Full) \in Drive /\ Off \in Drive
    BY <2>1, DriveTypes
  <2>3. \A c \in Output : hw[c] \in Drive
    BY DEF OutputsInv, TypeOK
  <2> QED BY <2>2, <2>3 DEF SourceDrive
<1>4. TypeOK'
  <2>1. /\ hw' \in [Output -> Drive]
        /\ reported' \in [Output -> Mode]
    BY <1>2, <1>3 DEF OutputsInv, TypeOK, LiveWrite, Altered
  <2>2. set' \in [Output -> LiveSetting]
    BY <1>2 DEF OutputsInv, TypeOK, LiveWrite, LiveSetting
  <2>3. driver' \in [Output -> Driver]
    BY DEF OutputsInv, TypeOK, LiveWrite, Driver
  <2>4. /\ running' \in BOOLEAN
        /\ moving' \subseteq Loco
        /\ lease' \in 0..MaxTicks
        /\ silent' \in 0..MaxTicks
        /\ locoLive' \in BOOLEAN
    BY <1>1 DEF OutputsInv, TypeOK, LiveWrite, RunningAfter
  <2> QED BY <2>1, <2>2, <2>3, <2>4 DEF OutputsInv, TypeOK, LiveWrite
<1>5. UnusedBeforeConfiguration'
  BY DEF OutputsInv, UnusedBeforeConfiguration, LiveWrite
<1> SUFFICES ASSUME NEW c \in Output
             PROVE  OutputOK(c)'
  BY <1>4, <1>5, OutputByOutputNext
<1>6. OutputOK(c)
  BY OutputByOutput
<1>7. /\ cfg'[c] = cfg[c]
      /\ motor'[c] = motor[c]
      /\ ~quiet'
  BY DEF LiveWrite
<1>8. CASE c \in Accepted(w, timerFree)
  <2>1. /\ hw'[c] = Asked(w.request[c])
        /\ set'[c] = [live |-> TRUE, as |-> Asked(w.request[c])]
        /\ cfg[c].role = "Block"
    BY <1>8 DEF LiveWrite, Accepted
  <2>2. CASE c \in Altered(w, timerFree)
    BY <1>2, <1>6, <1>7, <1>8, <2>1, <2>2 DEF OutputOK, LiveWrite
  <2>3. CASE c \notin Altered(w, timerFree)
    <3>1. SourceDrive(w, c) = hw'[c]
      BY <1>8, <2>1, <2>3 DEF Altered
    <3>2. \/ driver'[c] = "source"
          \/ driver'[c] = driver[c] /\ hw[c] = hw'[c]
      BY <2>3, <3>1 DEF LiveWrite, SourceDrive
    <3>3. reported'[c] = reported[c]
      BY <2>3 DEF LiveWrite
    <3> QED BY <1>6, <1>7, <2>1, <3>2, <3>3 DEF OutputOK
  <2> QED BY <2>2, <2>3
<1>9. CASE c \notin Accepted(w, timerFree)
  <2>1. /\ c \notin Altered(w, timerFree)
        /\ hw'[c] = SourceDrive(w, c)
        /\ reported'[c] = reported[c]
    BY <1>9 DEF LiveWrite, Altered
  <2>2. CASE c = ChannelA /\ (Starting(w) \/ Stopping(w))
    <3>1. driver'[c] = "source"
      BY <2>1, <2>2 DEF LiveWrite
    <3> QED BY <1>6, <1>7, <3>1 DEF OutputOK
  <2>3. CASE ~(c = ChannelA /\ (Starting(w) \/ Stopping(w)))
    <3>1. /\ driver'[c] = driver[c]
          /\ hw'[c] = hw[c]
          /\ set'[c] = set[c]
      BY <1>9, <2>1, <2>3 DEF LiveWrite, SourceDrive
    <3> QED BY <1>6, <1>7, <2>1, <3>1 DEF OutputOK
  <2> QED BY <2>2, <2>3
<1> QED BY <1>8, <1>9

(* The poll of the hardware thread keeps the invariant. *)
LEMMA PollKeeps ==
  ASSUME OutputsInv, Poll
  PROVE  OutputsInv'
<1>1. TypeOK'
  <2>1. /\ hw' \in [Output -> Drive]
        /\ reported' \in [Output -> Mode]
        /\ motor' \in [Output -> Motor]
    BY DriveTypes, MotorTypes DEF OutputsInv, TypeOK, Poll, Mode
  <2>2. set' \in [Output -> LiveSetting]
    BY DEF OutputsInv, TypeOK, Poll, LiveSetting
  <2>3. /\ driver' \in [Output -> Driver]
        /\ latched' \in [Output -> BOOLEAN]
    BY DEF OutputsInv, TypeOK, Poll, Driver
  <2>4. /\ lease' \in 0..MaxTicks
        /\ moving' \subseteq Loco
        /\ locoLive' \in BOOLEAN
        /\ quiet' \in BOOLEAN
    BY DEF OutputsInv, TypeOK, Poll
  <2> QED BY <2>1, <2>2, <2>3, <2>4 DEF OutputsInv, TypeOK, Poll
<1>2. UnusedBeforeConfiguration'
  BY DEF OutputsInv, UnusedBeforeConfiguration, Poll
<1> SUFFICES ASSUME NEW c \in Output
             PROVE  OutputOK(c)'
  BY <1>1, <1>2, OutputByOutputNext
<1>3. OutputOK(c) /\ cfg'[c] = cfg[c]
  BY OutputByOutput DEF Poll
<1>4. CASE c \in Faulting
  <2>1. /\ hw'[c] = Off /\ reported'[c] = "Off" /\ driver'[c] = "fault"
        /\ motor'[c] = Stopped(motor[c])
    BY <1>4 DEF Poll
  <2>2. Stopped(IdleMotor) = IdleMotor
    BY DEF Stopped, IdleMotor
  <2> QED BY <1>3, <2>1, <2>2 DEF OutputOK, Stopped, Off
<1>5. CASE c \in PulseOver
  <2>1. /\ c \notin Faulting
        /\ motor[c].pulsing
        /\ cfg[c].role = "Turnout"
    BY <1>3, <1>5 DEF PulseOver, OutputOK
  <2>2. /\ hw'[c] = Off /\ driver'[c] = "turnout"
        /\ motor'[c] = Stopped(motor[c])
    BY <1>5, <2>1 DEF Poll
  <2> QED BY <1>3, <2>1, <2>2 DEF OutputOK, Stopped, Off
<1>6. CASE c \in Released
  <2>1. c \notin Faulting /\ c \notin PulseOver
    BY <1>6 DEF Released
  <2>2. /\ hw'[c] = Off /\ reported'[c] = "Off" /\ driver'[c] = "lease"
        /\ motor'[c] = motor[c]
    BY <1>6, <2>1 DEF Poll
  <2> QED BY <1>3, <2>2 DEF OutputOK, Off
<1>7. CASE c \notin Faulting \cup PulseOver \cup Released
  <2>1. /\ hw'[c] = hw[c] /\ reported'[c] = reported[c]
        /\ driver'[c] = driver[c] /\ motor'[c] = motor[c]
        /\ set'[c] = [live |-> set[c].live /\ ~LeaseOver, as |-> set[c].as]
        /\ quiet' = (quiet \/ LeaseOver)
    BY <1>7 DEF Poll
  <2>2. CASE LeaseOver
    <3>1. ~(driver[c] = "live" /\ hw[c].mode # "Off")
      BY <1>3, <1>7, <2>2 DEF OutputOK, Released
    <3> QED BY <1>3, <2>1, <3>1 DEF OutputOK
  <2>3. CASE ~LeaseOver
    <3>1. /\ set'[c].live <=> set[c].live
          /\ set'[c].as = set[c].as
          /\ quiet' <=> quiet
      BY <2>1, <2>3 DEF OutputsInv, TypeOK, LiveSetting
    <3> QED BY <1>3, <2>1, <3>1 DEF OutputOK
  <2> QED BY <2>2, <2>3
<1> QED BY <1>4, <1>5, <1>6, <1>7

(* Every step keeps the invariant. *)
LEMMA NextKeeps == OutputsInv /\ [Next]_vars => OutputsInv'
<1> SUFFICES ASSUME OutputsInv, [Next]_vars
             PROVE  OutputsInv'
  OBVIOUS
<1>1. ASSUME NEW s \in [Output -> Settings], ApplyConfiguration(s)
      PROVE  OutputsInv'
  BY <1>1, ConfigKeeps
<1>2. ASSUME NEW c \in Output, BlockOn(c) \/ BlockOff(c) \/ BlockDcc(c)
      PROVE  OutputsInv'
  <2>1. FALSE \in BOOLEAN /\ Full \in Duty
    BY DEF Full, Duty
  <2>2. cfg[c].dccReversed \in BOOLEAN
    BY DEF OutputsInv, TypeOK, Setting
  <2>3. /\ Dc(FALSE, Full) \in Drive
        /\ Off \in Drive
        /\ Dcc(cfg[c].dccReversed) \in Drive
    BY <2>1, <2>2, DriveTypes
  <2> QED BY <1>2, <2>3, BlockKeeps DEF BlockOn, BlockOff, BlockDcc
<1>3. ASSUME NEW c \in Output, Throw(c) \/ Close(c)
      PROVE  OutputsInv'
  BY <1>3, TurnoutKeeps DEF Throw, Close
<1>4. ASSUME NEW c \in Output, FaultLine(c)
      PROVE  OutputsInv'
  BY <1>4, FaultLineKeeps
<1>5. ASSUME NEW w \in Writes, NEW timerFree \in BOOLEAN,
             LiveWrite(w, timerFree)
      PROVE  OutputsInv'
  BY <1>5, LiveWriteKeeps
<1>6. CASE Poll
  BY <1>6, PollKeeps
<1>7. CASE Tick
  BY <1>7, TickKeeps
<1>8. CASE UNCHANGED vars
  <2>1. /\ TypeOK'
        /\ UnusedBeforeConfiguration'
    BY <1>8 DEF OutputsInv, TypeOK, UnusedBeforeConfiguration, vars,
                outputVars, liveVars
  <2>2. \A c \in Output : OutputOK(c)'
    BY <1>8, OutputByOutput DEF OutputOK, vars, outputVars, liveVars
  <2> QED BY <2>1, <2>2, OutputByOutputNext
<1> QED BY <1>1, <1>2, <1>3, <1>4, <1>5, <1>6, <1>7, <1>8 DEF Next

LEMMA InitKeeps == Init => OutputsInv
<1> SUFFICES ASSUME Init
             PROVE  OutputsInv
  OBVIOUS
<1>1. TypeOK
  BY InitTyped
<1>2. UnusedBeforeConfiguration
  BY DEF Init, UnusedBeforeConfiguration, UnusedSetting
<1>3. ASSUME NEW c \in Output
      PROVE  OutputOK(c)
  BY DEF Init, OutputOK, IdleMotor, UnusedSetting, Off
<1> QED BY <1>1, <1>2, <1>3, OutputByOutput

-----------------------------------------------------------------------------
(* The theorems. *)

(* The inductive invariant holds of every behaviour of the outputs. *)
THEOREM OutputsSafe == Spec => []OutputsInv
<1>1. Init => OutputsInv
  BY InitKeeps
<1>2. OutputsInv /\ [Next]_vars => OutputsInv'
  BY NextKeeps
<1> QED BY <1>1, <1>2, PTL DEF Spec

(* Every variable keeps to its type: nothing the code drives an output with
   is outside what Channels can hold. *)
THEOREM OutputsTyped == Spec => []TypeOK
<1>1. OutputsInv => TypeOK
  BY DEF OutputsInv
<1> QED BY <1>1, OutputsSafe, PTL

(* A pulse motor is never left powered outside a pulse (Turnouts.h). *)
THEOREM NoPulseMotorHeld == Spec => []PulseMotorNotHeld
<1>1. OutputsInv => PulseMotorNotHeld
  BY DEF OutputsInv
<1> QED BY <1>1, OutputsSafe, PTL

(* Only a pulse motor is ever in a pulse (Turnouts.cpp). *)
THEOREM PulsesArePulseMotors == Spec => []PulseIsAPulseMotor
<1>1. OutputsInv => PulseIsAPulseMotor
  BY DEF OutputsInv
<1> QED BY <1>1, OutputsSafe, PTL

(* A lease that has run out leaves nothing powered that live control was the
   last to change (LiveControl::expire). *)
THEOREM LeaseReleases == Spec => []QuietOutputsOff
<1>1. OutputsInv => QuietOutputsOff
  BY DEF OutputsInv
<1> QED BY <1>1, OutputsSafe, PTL

(* What a block reports is what its driver does, but for channel A after the
   DCC source (FemtoController::channel_changed). *)
THEOREM ReportsFollow == Spec => []ReportedFollowsHardware
<1>1. OutputsInv => ReportedFollowsHardware
  BY DEF OutputsInv
<1> QED BY <1>1, OutputsSafe, PTL

(* Nothing but the DCC source powers an unused output (Config.h). *)
THEOREM UnusedStaysOff == Spec => []UnusedHeldOff
<1>1. OutputsInv => UnusedHeldOff
  BY DEF OutputsInv
<1> QED BY <1>1, OutputsSafe, PTL

(* What a poll leaves behind it. *)
LEMMA PollSettles ==
  ASSUME TypeOK, Poll
  PROVE  LeaseOnTime' /\ PulseOnTime'
<1>1. LeaseOnTime'
  <2>1. lease' # 0 => ~LeaseOver /\ lease' = lease /\ silent' = silent
    BY DEF Poll
  <2>2. lease \in Nat /\ silent \in Nat
    BY DEF TypeOK
  <2> QED BY <2>1, <2>2 DEF LeaseOver, LeaseOnTime
<1>2. PulseOnTime'
  <2> SUFFICES ASSUME NEW c \in Output, motor'[c].pulsing
               PROVE  motor'[c].age < cfg'[c].pulse
    BY DEF PulseOnTime
  <2>1. c \notin Faulting \cup PulseOver
    BY DEF Poll, Stopped
  <2>2. motor'[c] = motor[c] /\ cfg'[c] = cfg[c]
    BY <2>1 DEF Poll
  <2>3. motor[c].age \in Nat /\ cfg[c].pulse \in Nat
    BY DEF TypeOK, Motor, Setting
  <2> QED BY <2>1, <2>2, <2>3 DEF PulseOver
<1> QED BY <1>1, <1>2

(* A poll that has happened saw every lease and pulse as it is: the lease has
   not run out and no pulse is past its length (FemtoController::poll). *)
THEOREM PolledInTime == Spec => [](LeaseOnTime /\ PulseOnTime)
<1> DEFINE Timely == LeaseOnTime /\ PulseOnTime
<1>1. Init => Timely
  BY DEF Init, LeaseOnTime, PulseOnTime
<1>2. ASSUME TypeOK, Timely, [Next]_vars
      PROVE  Timely'
  <2>1. CASE Poll
    BY <1>2, <2>1, PollSettles
  <2>2. CASE UNCHANGED vars
    BY <1>2, <2>2 DEF LeaseOnTime, PulseOnTime, vars,
                      outputVars, liveVars
  <2>3. CASE Next /\ ~Poll
    <3>1. ~polled'
      BY <2>3 DEF Next, ApplyConfiguration, BlockOn, BlockOff, BlockDcc,
                  BlockCommand, Throw, Close, TurnoutCommand, FaultLine,
                  LiveWrite, Tick
    <3> QED BY <3>1 DEF LeaseOnTime, PulseOnTime
  <2> QED BY <1>2, <2>1, <2>2, <2>3
<1> QED BY <1>1, <1>2, OutputsTyped, PTL DEF Spec

(* No pulse outlives its length by more than a poll (Turnouts::update). *)
THEOREM PulsesOnTime == Spec => []PulseOnTime
BY PolledInTime, PTL

(* A load of the configuration does not interrupt an output whose use stays
   (FemtoController::apply_channel). *)
THEOREM ReloadsDoNotInterrupt == Spec => ReloadDoesNotInterrupt
<1> DEFINE Spared(c) ==
      /\ applied
      /\ cfg # cfg'
      /\ cfg[c].role = cfg'[c].role
      /\ \/ cfg[c].role = "Block"
         \/ motor[c].pulsing /\ cfg'[c].motor = "Pulse"
      => /\ hw'[c] = hw[c]
         /\ motor'[c] = motor[c]
         /\ reported'[c] = reported[c]
<1>1. ASSUME OutputsInv, [Next]_vars, NEW c \in Output
      PROVE  Spared(c)
  <2>1. CASE \E s \in [Output -> Settings] : ApplyConfiguration(s)
    <3> SUFFICES ASSUME applied, cfg[c].role = cfg'[c].role,
                        \/ cfg[c].role = "Block"
                        \/ motor[c].pulsing /\ cfg'[c].motor = "Pulse"
                 PROVE  /\ hw'[c] = hw[c]
                        /\ motor'[c] = motor[c]
                        /\ reported'[c] = reported[c]
      OBVIOUS
    <3>1. PICK s \in [Output -> Settings] : ApplyConfiguration(s)
      BY <2>1
    <3>2. /\ cfg'[c] = s[c]
          /\ hw'[c] = ConfiguredDrive(c, s[c])
          /\ motor'[c] = ConfiguredMotor(c, s[c])
      BY <3>1 DEF ApplyConfiguration
    <3>3. ~RoleChanged(c, s[c])
      BY <3>2 DEF RoleChanged
    <3>4. reported'[c] = reported[c]
      BY <3>1, <3>3 DEF ApplyConfiguration
    <3>5. OutputOK(c)
      BY <1>1, OutputByOutput
    <3>6. CASE cfg[c].role = "Block"
      <4>1. ~StaysTurnout(c, s[c]) /\ ~PlacedAtPowerOn(c, s[c])
        BY <3>3, <3>6 DEF StaysTurnout, PlacedAtPowerOn
      <4>2. hw'[c] = hw[c] /\ motor'[c] = IdleMotor /\ motor[c] = IdleMotor
        BY <3>2, <3>3, <3>5, <3>6, <4>1
           DEF ConfiguredDrive, ConfiguredMotor, DrivenAgain,
               SwitchedToPulse, OutputOK
      <4> QED BY <3>4, <4>2
    <3>7. CASE motor[c].pulsing /\ cfg'[c].motor = "Pulse"
      <4>1. cfg[c].role = "Turnout"
        BY <3>5, <3>7 DEF OutputOK
      <4>2. /\ StaysTurnout(c, s[c])
            /\ ~DrivenAgain(c, s[c])
            /\ ~SwitchedToPulse(c, s[c])
            /\ ~PlacedAtPowerOn(c, s[c])
        BY <3>2, <3>3, <3>7, <4>1 DEF StaysTurnout, DrivenAgain,
                                      SwitchedToPulse, PlacedAtPowerOn
      <4> QED BY <3>2, <3>3, <3>4, <4>1, <4>2
                 DEF ConfiguredDrive, ConfiguredMotor
    <3> QED BY <3>6, <3>7
  <2>2. CASE ~\E s \in [Output -> Settings] : ApplyConfiguration(s)
    <3>1. cfg' = cfg
      BY <1>1, <2>2 DEF Next, vars, outputVars, BlockOn, BlockOff, BlockDcc,
                  BlockCommand, Throw, Close, TurnoutCommand, FaultLine,
                  LiveWrite, Poll, Tick
    <3> QED BY <3>1
  <2> QED BY <2>1, <2>2
<1>2. OutputsInv /\ [Next]_vars => [\A c \in Output : Spared(c)]_vars
  BY <1>1
<1> QED BY <1>2, OutputsSafe, PTL DEF Spec, ReloadDoesNotInterrupt

=============================================================================
