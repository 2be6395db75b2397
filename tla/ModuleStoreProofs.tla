------------------------- MODULE ModuleStoreProofs -------------------------
(***************************************************************************)
(* Proofs about ModuleStore, for every set of texts and every bound.       *)
(***************************************************************************)
EXTENDS ModuleStore, TLAPS

USE StoreAssumption

(* The hardware thread holds the lock exactly while it saves, and until it is
   done the text is as it was measured and the source is off: the executor can
   change neither without the lock.  This is what makes the interlock
   inductive. *)
StoreInv ==
  /\ TypeOK
  /\ Saving <=> lock = "hardware"
  /\ Saving => measured = data
  /\ SaveInterlocked

LEMMA InitStore == Init => StoreInv
<1> SUFFICES ASSUME Init
             PROVE  StoreInv
  OBVIOUS
<1>1. TypeOK
  <2>1. /\ data \in Held /\ file \in Held /\ measured \in Held
        /\ age \in 0..CommitDelay
        /\ writes \in 0..MaxWrites
        /\ restarts \in 0..MaxRestarts
        /\ failures \in 0..MaxFailures
    BY DEF Init, Held
  <2> QED BY <2>1 DEF Init, TypeOK
<1>2. ~Saving /\ lock # "hardware"
  BY DEF Init, Saving
<1> QED BY <1>1, <1>2 DEF StoreInv, SaveInterlocked

LEMMA ExecutorKeeps ==
  ASSUME StoreInv,
         \/ \E t \in Text : Write(t)
         \/ \E on \in BOOLEAN : SwitchSource(on)
         \/ StartConfigWrite
         \/ EndConfigWrite
  PROVE  StoreInv'
<1> USE DEF StoreInv, TypeOK, Held, Saving, SaveInterlocked
<1>1. ASSUME NEW t \in Text, Write(t)
      PROVE  StoreInv'
  BY <1>1 DEF Write
<1>2. ASSUME NEW on \in BOOLEAN, SwitchSource(on)
      PROVE  StoreInv'
  BY <1>2 DEF SwitchSource, ramVars, counts
<1>3. CASE StartConfigWrite
  BY <1>3 DEF StartConfigWrite, ramVars, counts
<1>4. CASE EndConfigWrite
  BY <1>4 DEF EndConfigWrite, ramVars, counts
<1> QED BY <1>1, <1>2, <1>3, <1>4

LEMMA HardwareKeeps ==
  ASSUME StoreInv, Commit \/ Open \/ Saved \/ Failed
  PROVE  StoreInv'
<1> USE DEF StoreInv, TypeOK, Held, Saving, SaveInterlocked
<1>1. CASE Commit
  BY <1>1 DEF Commit, counts
<1>2. CASE Open
  BY <1>2 DEF Open, ramVars, counts
<1>3. CASE Saved
  BY <1>3 DEF Saved, ramVars, counts
<1>4. CASE Failed
  BY <1>4 DEF Failed, ramVars
<1> QED BY <1>1, <1>2, <1>3, <1>4

LEMMA StepKeeps == StoreInv /\ [Next]_vars => StoreInv'
<1> SUFFICES ASSUME StoreInv, [Next]_vars
             PROVE  StoreInv'
  OBVIOUS
<1> USE DEF StoreInv, TypeOK, Held, Saving, SaveInterlocked
<1>1. CASE Tick
  <2>1. age' \in 0..CommitDelay
    BY <1>1 DEF Tick
  <2> QED BY <1>1, <2>1 DEF Tick, counts
<1>2. CASE Restart
  <2>1. restarts' \in 0..MaxRestarts
    BY <1>2 DEF Restart
  <2>2. age' \in 0..CommitDelay /\ ~Saving' /\ lock' # "hardware"
    BY <1>2 DEF Restart
  <2> QED BY <1>2, <2>1, <2>2 DEF Restart
<1>3. CASE UNCHANGED vars
  BY <1>3 DEF vars, ramVars, counts
<1> QED BY <1>1, <1>2, <1>3, ExecutorKeeps, HardwareKeeps DEF Next

-----------------------------------------------------------------------------

(* The inductive invariant holds of every behaviour. *)
THEOREM StoreSafe == Spec => []StoreInv
<1> QED BY InitStore, StepKeeps, PTL DEF Spec

(* The module description is never saved while the DCC source's timer
   interrupts, for any number of texts, writes, failures and power cuts
   (FemtoController::poll, the interlock). *)
THEOREM NoSaveWhileRunning == Spec => []SaveInterlocked
<1>1. StoreInv => SaveInterlocked
  BY DEF StoreInv
<1> QED BY <1>1, StoreSafe, PTL

(* A save that does not fail writes the text that is read back, whole. *)
THEOREM SavesOneText == Spec => SavesWhole
<1>1. StoreInv /\ [Next]_vars
      => [save = "writing" /\ save' = "idle"
            /\ failures' = failures /\ restarts' = restarts
          => file' = data']_vars
  BY DEF StoreInv, TypeOK, Saving, Next, vars, Write, SwitchSource,
         StartConfigWrite, EndConfigWrite, Commit, Open, Saved, Failed, Tick,
         Restart, ramVars, counts
<1> QED BY <1>1, StoreSafe, PTL DEF Spec, SavesWhole

(* As long as no save has failed, what a dispatcher reads back is on flash,
   being saved or waiting to be, power cuts included (ModuleStore). *)
THEOREM NothingIsForgotten == Spec => []NothingForgotten
<1>1. Init => NothingForgotten
  BY DEF Init, NothingForgotten
<1>2. StoreInv /\ NothingForgotten /\ [Next]_vars => NothingForgotten'
  BY DEF StoreInv, TypeOK, NothingForgotten, Saving, Next, vars, Write,
         SwitchSource, StartConfigWrite, EndConfigWrite, Commit, Open, Saved,
         Failed, Tick, Restart, ramVars, counts
<1> QED BY <1>1, <1>2, StoreSafe, PTL DEF Spec

(* A power cut when nothing waits to be saved changes nothing that is read
   back, as long as no save has failed (ModuleStore::begin). *)
THEOREM RestartsKeep == Spec => RestartKeepsSaved
<1>1. StoreInv /\ NothingForgotten /\ [Next]_vars
      => [restarts' # restarts /\ failures = 0 /\ ~dirty /\ ~Saving
          => data' = data]_vars
  BY DEF StoreInv, TypeOK, NothingForgotten, Saving, Next, vars, Write,
         SwitchSource, StartConfigWrite, EndConfigWrite, Commit, Open, Saved,
         Failed, Tick, Restart, ramVars, counts
<1> QED BY <1>1, StoreSafe, NothingIsForgotten, PTL DEF Spec, RestartKeepsSaved

=============================================================================
