----------------------------- MODULE Occupancy -----------------------------
(***************************************************************************)
(* The occupancy detector of one track block: the debounced state, and the *)
(* short pulses that measure a block which is switched off.                *)
(*                                                                         *)
(* A tick is one pass over the four channels, in which the detector polls  *)
(* this one once; every poll is under the hardware lock.  The smoothed     *)
(* current is one of three levels: below the threshold for clear, at or    *)
(* above the one for occupied, or between them.  It changes at will, since *)
(* trains move and the thresholds are settings.                            *)
(***************************************************************************)
EXTENDS Naturals

CONSTANTS
  OnDelay,       \* onMs_, in ticks
  OffDelay,      \* offMs_
  PulseInterval  \* pulseIntervalMs_

ASSUME DelayAssumption ==
  /\ OnDelay \in Nat
  /\ OffDelay \in Nat
  /\ OnDelay <= OffDelay
  /\ PulseInterval \in Nat \ {0}

VARIABLES
  state,     \* state_
  pending,   \* pending_
  age,       \* ticks since since_, up to OffDelay
  enabled,   \* enabled_: the output is a track block
  pulses,    \* pulseEnabled_
  tripped,   \* pulseFaulted_
  rest,      \* ticks since lastPulse_, up to PulseInterval
  polled,    \* the detector has polled in this tick
  powered,   \* the block is driven: with DCC, or with a duty that is not 0
  fault,     \* the driver's nFAULT line
  draw,      \* external: the level of the current, were it measured
  asked,     \* history: the state the readings have been asking for
  steady     \* history: for how many ticks they have, up to OffDelay

stateVars == <<state, pending, age, asked, steady>>
settingVars == <<enabled, pulses>>
pulseVars == <<tripped, rest>>
blockVars == <<powered, fault, draw>>
vars == <<stateVars, settingVars, pulseVars, blockVars, polled>>

BlockState == {"Unknown", "Clear", "Occupied"}
Definite == {"Clear", "Occupied"}

TypeOK ==
  /\ state \in BlockState
  /\ pending \in BlockState
  /\ age \in 0..OffDelay
  /\ enabled \in BOOLEAN
  /\ pulses \in BOOLEAN
  /\ tripped \in BOOLEAN
  /\ rest \in 0..PulseInterval
  /\ polled \in BOOLEAN
  /\ powered \in BOOLEAN
  /\ fault \in BOOLEAN
  /\ draw \in {"low", "middle", "high"}
  /\ asked \in BlockState
  /\ steady \in 0..OffDelay

(* As the constructor and the first load of the configuration leave it. *)
Init ==
  /\ state = "Unknown"
  /\ pending = "Unknown"
  /\ age = 0
  /\ enabled \in BOOLEAN
  /\ pulses \in BOOLEAN
  /\ tripped = FALSE
  /\ rest \in 0..(PulseInterval - 1)
  /\ polled = FALSE
  /\ powered = FALSE
  /\ fault = FALSE
  /\ draw = "low"
  /\ asked = "Unknown"
  /\ steady = 0

-----------------------------------------------------------------------------
(* Readings *)

CanPulse == pulses /\ ~tripped /\ ~fault
Measurable == enabled /\ (powered \/ CanPulse)

(* What a reading asks for; between the thresholds the state stands. *)
Want ==
  CASE draw = "high"   -> "Occupied"
    [] draw = "low"    -> "Clear"
    [] draw = "middle" -> IF state = "Unknown" THEN "Clear" ELSE state

Needed(want) == IF want = "Occupied" THEN OnDelay ELSE OffDelay

(* Mistake: every reading starts the delay anew. *)
AgeOfEach(want) == 0
(* For how long the state that is asked for has been pending. *)
AgeOf(want) == IF want = pending THEN age ELSE 0

Agree ==
  /\ asked' = Want
  /\ steady' = IF Want = asked THEN steady ELSE 0

(* Mistake: a reading that agrees with the state does not end the wait. *)
SettleLoosely ==
  /\ pending' = IF Want = state THEN pending ELSE Want
  /\ age' = IF Want = state THEN age ELSE AgeOf(Want)
  /\ state' = IF age' >= Needed(Want) THEN Want ELSE state
  /\ Agree

(* The end of Occupancy::poll(), once there is a reading. *)
Settle ==
  /\ pending' = Want
  /\ age' = IF Want = state THEN 0 ELSE AgeOf(Want)
  /\ state' = IF age' >= Needed(Want) THEN Want ELSE state
  /\ Agree

(* Occupancy::setUnknown(): a block that is Unknown already keeps what was
   pending. *)
SetUnknown ==
  /\ state' = "Unknown"
  /\ pending' = IF state = "Unknown" THEN pending ELSE "Unknown"
  /\ asked' = "Unknown"
  /\ steady' = 0
  /\ UNCHANGED age

-----------------------------------------------------------------------------
(* Occupancy::poll() *)

Unwatched ==
  /\ ~enabled
  /\ SetUnknown
  /\ UNCHANGED <<pulseVars, fault>>

Driven ==
  /\ enabled
  /\ powered
  /\ Settle
  /\ tripped' = FALSE
  /\ UNCHANGED <<rest, fault>>

Unmeasured ==
  /\ enabled
  /\ ~powered /\ ~CanPulse
  /\ SetUnknown
  /\ UNCHANGED <<pulseVars, fault>>

Resting ==
  /\ enabled
  /\ ~powered /\ CanPulse
  /\ rest < PulseInterval
  /\ UNCHANGED <<stateVars, pulseVars, fault>>

(* A pulse, which may trip the driver. *)
Pulse ==
  /\ enabled
  /\ ~powered /\ CanPulse
  /\ rest = PulseInterval
  /\ rest' = 0
  /\ \/ /\ Settle
        /\ UNCHANGED <<tripped, fault>>
     \/ /\ SetUnknown
        /\ tripped' = TRUE
        /\ fault' = TRUE

Poll ==
  /\ ~polled
  /\ polled' = TRUE
  /\ Unwatched \/ Driven \/ Unmeasured \/ Resting \/ Pulse
  /\ UNCHANGED <<settingVars, powered, draw>>

(* A load of the configuration: setEnabled() and setPulseDetect(), which
   spreads the pulses of the four channels over the interval. *)
Reload(block, pulse) ==
  /\ enabled' = block
  /\ pulses' = pulse
  /\ tripped' = FALSE
  /\ rest' \in 0..(PulseInterval - 1)
  /\ UNCHANGED <<stateVars, blockVars, polled>>

(* The block is switched on or off, its driver raises or clears nFAULT, and a
   train comes or goes. *)
Power ==
  /\ powered' = ~powered
  /\ UNCHANGED <<stateVars, settingVars, pulseVars, fault, draw, polled>>
FaultLine ==
  /\ fault' = ~fault
  /\ UNCHANGED <<stateVars, settingVars, pulseVars, powered, draw, polled>>
Draw(d) ==
  /\ draw' = d
  /\ UNCHANGED <<stateVars, settingVars, pulseVars, powered, fault, polled>>

Older(n, most) == IF n < most THEN n + 1 ELSE n

Tick ==
  /\ polled
  /\ polled' = FALSE
  /\ age' = Older(age, OffDelay)
  /\ rest' = Older(rest, PulseInterval)
  /\ steady' = Older(steady, OffDelay)
  /\ UNCHANGED <<state, pending, asked, settingVars, tripped, blockVars>>

Next ==
  \/ Poll
  \/ \E block, pulse \in BOOLEAN : Reload(block, pulse)
  \/ Power
  \/ FaultLine
  \/ \E d \in {"low", "middle", "high"} : Draw(d)
  \/ Tick

Spec == Init /\ [][Next]_vars

-----------------------------------------------------------------------------
(* "A block is declared occupied after onMs above threshold, and released only
   after offMs below it" (Occupancy.h), from one definite state to the other:
   every reading of the last OnDelay or OffDelay ticks has asked for the change,
   across detection pulses, power changes and loads of the configuration. *)
Debounced ==
  [][state # state' /\ {state, state'} \subseteq Definite
     => asked' = state' /\ steady' >= Needed(state')]_vars

=============================================================================
