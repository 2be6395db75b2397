------------------------- MODULE BlockReportsProofs -------------------------
(***************************************************************************)
(* What holds of a block's detector and its reports for any delays, any    *)
(* pulse interval and any number of loads of the configuration.            *)
(***************************************************************************)
EXTENDS BlockReports, TLAPS

(* A change that is pending has been asked for by every reading since, and for
   at least the time that the code has counted. *)
PendingIsAsked ==
  state \in Definite =>
    /\ pending \in Definite
    /\ pending # state => asked = pending /\ age <= steady

DetectorInv == TypeOK /\ PendingIsAsked

-----------------------------------------------------------------------------
(* Lemma: what a reading asks for is a definite state. *)
LEMMA WantIsDefinite ==
  ASSUME TypeOK
  PROVE  Want \in Definite /\ Definite \subseteq BlockState
BY DEF TypeOK, Want, Definite, BlockState

(* Lemma: the count of ticks stays in its range. *)
LEMMA OlderInRange ==
  ASSUME NEW most \in Nat, NEW n \in 0..most
  PROVE  Older(n, most) \in 0..most
BY DEF Older

(* Lemma: the delay of a state is a number of ticks. *)
LEMMA NeededIsNat ==
  ASSUME NEW want
  PROVE  Needed(want) \in Nat
BY DelayAssumption DEF Needed

(* Lemma: a reading keeps the types (the end of Occupancy::poll). *)
LEMMA SettleTyped ==
  ASSUME TypeOK, Settle
  PROVE  /\ state' \in BlockState /\ pending' \in BlockState
         /\ asked' \in BlockState
         /\ age' \in 0..OffDelay /\ steady' \in 0..OffDelay
<1>1. Want \in BlockState
  BY WantIsDefinite
<1>2. state' \in BlockState /\ pending' \in BlockState /\ asked' \in BlockState
  BY <1>1 DEF Settle, Agree, TypeOK
<1>3. age' \in 0..OffDelay
  BY DelayAssumption DEF Settle, AgeOf, TypeOK
<1>4. steady' \in 0..OffDelay
  BY DelayAssumption DEF Settle, Agree, TypeOK
<1> QED BY <1>2, <1>3, <1>4

(* Lemma: so does the loss of a reading (Occupancy::setUnknown). *)
LEMMA SetUnknownTyped ==
  ASSUME TypeOK, SetUnknown
  PROVE  /\ state' \in BlockState /\ pending' \in BlockState
         /\ asked' \in BlockState
         /\ age' \in 0..OffDelay /\ steady' \in 0..OffDelay
<1>1. state' \in BlockState /\ pending' \in BlockState /\ asked' \in BlockState
  BY DEF SetUnknown, TypeOK, BlockState
<1>2. age' \in 0..OffDelay /\ steady' \in 0..OffDelay
  BY DelayAssumption DEF SetUnknown, TypeOK
<1> QED BY <1>1, <1>2

(* Lemma: a poll settles on a reading, finds none, or leaves the state. *)
LEMMA PollDoes ==
  ASSUME Poll
  PROVE  Settle \/ SetUnknown \/ UNCHANGED stateVars
BY DEF Poll, Unwatched, Driven, Unmeasured, Resting, Pulse

-----------------------------------------------------------------------------
(* Lemma: the initial states are typed. *)
LEMMA InitTyped ==
  ASSUME Init
  PROVE  TypeOK
<1>1. rest \in 0..PulseInterval
  BY DelayAssumption DEF Init
<1>2. age \in 0..OffDelay /\ steady \in 0..OffDelay
  BY DelayAssumption DEF Init
<1>3. state \in BlockState /\ pending \in BlockState /\ asked \in BlockState
  BY DEF Init, BlockState
<1> QED BY <1>1, <1>2, <1>3 DEF Init, TypeOK

(* Lemma: every step of the detector keeps the types. *)
LEMMA TypesKept ==
  ASSUME TypeOK, [Next]_vars
  PROVE  TypeOK'
<1>1. CASE Poll
  <2>1. /\ state' \in BlockState /\ pending' \in BlockState
        /\ asked' \in BlockState
        /\ age' \in 0..OffDelay /\ steady' \in 0..OffDelay
    <3>1. CASE Settle BY <3>1, SettleTyped
    <3>2. CASE SetUnknown BY <3>2, SetUnknownTyped
    <3>3. CASE UNCHANGED stateVars BY <3>3 DEF stateVars, TypeOK
    <3> QED BY <1>1, <3>1, <3>2, <3>3, PollDoes
  <2>2. rest' \in 0..PulseInterval
    BY <1>1, DelayAssumption
    DEF Poll, Unwatched, Driven, Unmeasured, Resting, Pulse, pulseVars, TypeOK
  <2>3. tripped' \in BOOLEAN /\ fault' \in BOOLEAN
    BY <1>1
    DEF Poll, Unwatched, Driven, Unmeasured, Resting, Pulse, pulseVars, TypeOK
  <2>4. /\ enabled' \in BOOLEAN /\ pulses' \in BOOLEAN /\ polled' \in BOOLEAN
        /\ powered' \in BOOLEAN /\ draw' \in {"low", "middle", "high"}
    BY <1>1 DEF Poll, settingVars, TypeOK
  <2> QED BY <2>1, <2>2, <2>3, <2>4 DEF TypeOK
<1>2. ASSUME NEW block \in BOOLEAN, NEW pulse \in BOOLEAN, Reload(block, pulse)
      PROVE  TypeOK'
  <2>1. rest' \in 0..PulseInterval
    BY <1>2, DelayAssumption DEF Reload
  <2>2. UNCHANGED <<stateVars, blockVars, polled>>
    BY <1>2 DEF Reload
  <2>3. enabled' \in BOOLEAN /\ pulses' \in BOOLEAN /\ tripped' \in BOOLEAN
    BY <1>2 DEF Reload
  <2> QED BY <2>1, <2>2, <2>3 DEF TypeOK, stateVars, blockVars
<1>3. CASE Power \/ FaultLine \/ \E d \in {"low", "middle", "high"} : Draw(d)
  BY <1>3
  DEF Power, FaultLine, Draw, stateVars, settingVars, pulseVars, TypeOK
<1>4. CASE Tick
  <2>1. age' \in 0..OffDelay /\ steady' \in 0..OffDelay
    BY <1>4, OlderInRange, DelayAssumption DEF Tick, TypeOK
  <2>2. rest' \in 0..PulseInterval
    BY <1>4, OlderInRange, DelayAssumption DEF Tick, TypeOK
  <2> QED BY <1>4, <2>1, <2>2 DEF Tick, settingVars, blockVars, TypeOK
<1>5. CASE UNCHANGED vars
  BY <1>5 DEF vars, stateVars, settingVars, pulseVars, blockVars, TypeOK
<1> QED BY <1>1, <1>2, <1>3, <1>4, <1>5 DEF Next

(* Lemma: a reading keeps what is pending asked for, and changes a definite
   state only after its delay. *)
LEMMA SettleKeeps ==
  ASSUME DetectorInv, Settle
  PROVE  /\ PendingIsAsked'
         /\ state' # state /\ state \in Definite
              => asked' = state' /\ steady' >= Needed(state')
<1> DEFINE want == Want
<1>1. want \in Definite /\ Definite \subseteq BlockState
  BY WantIsDefinite DEF DetectorInv
<1>2. /\ pending' = want
      /\ age' = IF want = state THEN 0 ELSE AgeOf(want)
      /\ state' = IF age' >= Needed(want) THEN want ELSE state
      /\ asked' = want
      /\ steady' = IF want = asked THEN steady ELSE 0
  BY DEF Settle, Agree
<1> HIDE DEF want
<1>3. age \in Nat /\ steady \in Nat /\ steady' \in Nat /\ age' \in Nat
  BY <1>2, DelayAssumption DEF DetectorInv, TypeOK, AgeOf
<1>4. state \in Definite /\ want # state => age' <= steady'
  <2> SUFFICES ASSUME state \in Definite, want # state
               PROVE  age' <= steady'
    OBVIOUS
  <2>1. CASE want = pending
    <3>1. asked = want /\ age <= steady
      BY <2>1 DEF DetectorInv, PendingIsAsked
    <3> QED BY <2>1, <3>1, <1>2 DEF AgeOf
  <2>2. CASE want # pending
    BY <2>2, <1>2, <1>3 DEF AgeOf
  <2> QED BY <2>1, <2>2
<1>5. PendingIsAsked'
  BY <1>1, <1>2, <1>4 DEF PendingIsAsked
<1>6. ASSUME state' # state, state \in Definite
      PROVE  asked' = state' /\ steady' >= Needed(state')
  <2>1. state' = want /\ want # state /\ age' >= Needed(want)
    BY <1>2, <1>6
  <2> QED BY <2>1, <1>2, <1>3, <1>4, <1>6, NeededIsNat
<1> QED BY <1>5, <1>6

(* Lemma: every step of the detector keeps what is pending asked for. *)
LEMMA PendingKept ==
  ASSUME DetectorInv, [Next]_vars
  PROVE  PendingIsAsked'
<1>1. CASE Poll
  <2>1. CASE Settle BY <2>1, SettleKeeps
  <2>2. CASE SetUnknown
    BY <2>2 DEF SetUnknown, PendingIsAsked, Definite
  <2>3. CASE UNCHANGED stateVars
    BY <2>3 DEF DetectorInv, stateVars, PendingIsAsked
  <2> QED BY <1>1, <2>1, <2>2, <2>3, PollDoes
<1>2. CASE UNCHANGED stateVars
  BY <1>2 DEF DetectorInv, stateVars, PendingIsAsked
<1>3. CASE Tick
  <2>1. UNCHANGED <<state, pending, asked>>
    BY <1>3 DEF Tick
  <2>2. age <= steady => age' <= steady'
    BY <1>3, DelayAssumption DEF Tick, Older, DetectorInv, TypeOK
  <2> QED BY <2>1, <2>2 DEF DetectorInv, PendingIsAsked
<1> QED
  BY <1>1, <1>2, <1>3
  DEF Next, vars, Reload, Power, FaultLine, Draw

(* The detector's types, and that what is pending has been asked for. *)
THEOREM DetectorSafe == Spec => []DetectorInv
<1>1. Init => DetectorInv
  <2> SUFFICES ASSUME Init PROVE DetectorInv
    OBVIOUS
  <2>1. PendingIsAsked
    BY DEF Init, PendingIsAsked, Definite
  <2> QED BY <2>1, InitTyped DEF DetectorInv
<1>2. DetectorInv /\ [Next]_vars => DetectorInv'
  BY TypesKept, PendingKept DEF DetectorInv
<1> QED BY <1>1, <1>2, PTL DEF Spec

(* A block goes from clear to occupied, or back, only after every reading of
   the delay has asked for it (Occupancy.h:71-72). *)
THEOREM DetectorDebounces == Spec => Debounced
<1>1. DetectorInv /\ [Next]_vars
      => [state # state' /\ {state, state'} \subseteq Definite
          => asked' = state' /\ steady' >= Needed(state')]_vars
  <2> SUFFICES ASSUME DetectorInv, Next,
                      state # state', {state, state'} \subseteq Definite
               PROVE  asked' = state' /\ steady' >= Needed(state')
    BY DEF vars
  <2>1. Poll
    BY DEF Next, Reload, Power, FaultLine, Draw, Tick, stateVars
  <2>2. Settle
    BY <2>1, PollDoes DEF SetUnknown, stateVars, Definite
  <2> QED BY <2>2, SettleKeeps
<1> QED BY <1>1, DetectorSafe, PTL DEF Spec, Debounced

-----------------------------------------------------------------------------
(* Lemma: a step of the composition is one of the detector. *)
LEMMA StepsOfTheDetector ==
  ASSUME [ReportsNext]_reportVars
  PROVE  [Next]_vars
BY DEF ReportsNext, PollOccupancy, Refresh, ApplyConfiguration, Surroundings,
       Next, reportVars

(* Lemma: and one of the slot. *)
LEMMA StepsOfTheSlot ==
  ASSUME ReportsTypeOK, [ReportsNext]_reportVars
  PROVE  [Slot!Next]_Slot!vars
<1>1. CASE PollOccupancy
  <2>1. state' \in Definite \cup {"Unknown"}
    <3>1. TypeOK'
      BY StepsOfTheDetector, TypesKept DEF ReportsTypeOK
    <3> QED BY <3>1 DEF TypeOK, BlockState, Definite
  <2>2. Slot!Changed(state')
    BY <1>1 DEF PollOccupancy
  <2> QED BY <2>1, <2>2 DEF Slot!Next
<1>2. CASE Refresh
  BY <1>2 DEF Refresh, Slot!Next
<1>3. CASE ApplyConfiguration
  <2>1. PICK block, pulse, events \in BOOLEAN : Slot!Rewired(block /\ events)
    BY <1>3 DEF ApplyConfiguration
  <2>2. (block /\ events) \in BOOLEAN
    OBVIOUS
  <2> QED BY <2>1, <2>2 DEF Slot!Next
<1>4. CASE Surroundings
  <2>1. UNCHANGED state /\ UNCHANGED slotVars
    BY <1>4 DEF Surroundings, Power, FaultLine, Draw, Tick, stateVars
  <2> QED BY <2>1 DEF Slot!vars, slotVars
<1>5. CASE UNCHANGED reportVars
  BY <1>5 DEF reportVars, vars, stateVars, slotVars, Slot!vars
<1> QED BY <1>1, <1>2, <1>3, <1>4, <1>5 DEF ReportsNext

(* The composition is type correct. *)
THEOREM ReportsTyped == ReportsSpec => []ReportsTypeOK
<1>1. ReportsInit => TypeOK
  BY InitTyped DEF ReportsInit
<1>2. ReportsInit => ReportsTypeOK
  <2> SUFFICES ASSUME ReportsInit PROVE ReportsTypeOK
    OBVIOUS
  <2>1. /\ wired \in BOOLEAN /\ marked \in BOOLEAN /\ sending \in BOOLEAN
        /\ missed \in BOOLEAN
    BY DEF ReportsInit, Slot!Init
  <2>2. told \in BlockState
    BY DEF ReportsInit, Slot!Init, BlockState
  <2>3. reloads \in 0..MaxReloads
    BY ReloadAssumption DEF ReportsInit
  <2> QED BY <1>1, <2>1, <2>2, <2>3 DEF ReportsTypeOK
<1>3. ReportsTypeOK /\ [ReportsNext]_reportVars => ReportsTypeOK'
  <2> SUFFICES ASSUME ReportsTypeOK, [ReportsNext]_reportVars
               PROVE  ReportsTypeOK'
    OBVIOUS
  <2>1. TypeOK'
    BY StepsOfTheDetector, TypesKept DEF ReportsTypeOK
  <2>2. reloads' \in 0..MaxReloads
    BY ReloadAssumption
    DEF ReportsTypeOK, ReportsNext, PollOccupancy, Refresh, ApplyConfiguration,
        Surroundings, reportVars
  <2>3. CASE [Slot!Next]_Slot!vars
    <3>1. told' \in BlockState
      BY <2>3 DEF ReportsTypeOK, TypeOK, Slot!Next, Slot!Changed, Slot!Clear,
                  Slot!Send, Slot!Rewired, Slot!vars
    <3>2. wired' \in BOOLEAN
      BY <2>3 DEF ReportsTypeOK, Slot!Next, Slot!Changed, Slot!Clear,
                  Slot!Send, Slot!Rewired, Slot!vars
    <3>3. marked' \in BOOLEAN
      BY <2>3 DEF ReportsTypeOK, Slot!Next, Slot!Changed, Slot!Clear,
                  Slot!Send, Slot!Rewired, Slot!vars
    <3>4. sending' \in BOOLEAN /\ missed' \in BOOLEAN
      BY <2>3 DEF ReportsTypeOK, Slot!Next, Slot!Changed, Slot!Clear,
                  Slot!Send, Slot!Rewired, Slot!vars
    <3> QED BY <2>1, <2>2, <3>1, <3>2, <3>3, <3>4 DEF ReportsTypeOK
  <2> QED BY <2>3, StepsOfTheSlot
<1> QED BY <1>2, <1>3, PTL DEF ReportsSpec

(* Lemma: what holds of the detector alone holds of the composition, which is
   built from its actions. *)
LEMMA ReportsAreTheDetectors == ReportsSpec => Spec
<1>1. ReportsInit => Init
  BY DEF ReportsInit
<1>2. [ReportsNext]_reportVars => [Next]_vars
  BY StepsOfTheDetector
<1> QED BY <1>1, <1>2, PTL DEF ReportsSpec, Spec

(* Lemma: no step of a slot loses a change. *)
LEMMA SlotKeepsUp ==
  ASSUME ReportsTypeOK, ToldIsCurrent, [Slot!Next]_Slot!vars
  PROVE  ToldIsCurrent'
<1> USE DEF ToldIsCurrent, Slot!ToldIsCurrent
<1>1. ASSUME NEW v, Slot!Changed(v)
      PROVE  ToldIsCurrent'
  BY <1>1 DEF Slot!Changed, Slot!Marks, ReportsTypeOK
<1>2. CASE Slot!Clear
  BY <1>2 DEF Slot!Clear
<1>3. CASE Slot!Send
  BY <1>3 DEF Slot!Send
<1>4. ASSUME NEW w, Slot!Rewired(w)
      PROVE  ToldIsCurrent'
  BY <1>4 DEF Slot!Rewired
<1>5. CASE UNCHANGED Slot!vars
  BY <1>5 DEF Slot!vars
<1> QED BY <1>1, <1>2, <1>3, <1>4, <1>5 DEF Slot!Next

(* The network has been told what the block's state is, unless an event is on
   its way or a load of the configuration forgot one. *)
THEOREM NoChangeIsLost == ReportsSpec => []ToldIsCurrent
<1>1. ReportsInit => ToldIsCurrent
  BY DEF ReportsInit, Slot!Init, ToldIsCurrent, Slot!ToldIsCurrent, Definite
<1>2. ReportsTypeOK /\ ToldIsCurrent /\ [ReportsNext]_reportVars
      => ToldIsCurrent'
  BY StepsOfTheSlot, SlotKeepsUp
<1> QED BY <1>1, <1>2, ReportsTyped, PTL DEF ReportsSpec

(* So the reports of a block are of debounced states. *)
THEOREM ReportsAreDebounced == ReportsSpec => Debounced
BY ReportsAreTheDetectors, DetectorDebounces, PTL

=============================================================================
