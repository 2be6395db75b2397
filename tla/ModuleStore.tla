---------------------------- MODULE ModuleStore ----------------------------
(***************************************************************************)
(* The module description, memory space 0xE1, and the interlock between    *)
(* writing it to flash and the DCC source.                                 *)
(*                                                                         *)
(* The stack's executor writes the description into RAM, starts and stops  *)
(* the DCC source and writes the configuration file; the hardware thread   *)
(* saves the description once it has settled and the source is off.  The   *)
(* hardware lock is held by a write of either space and by the whole of a  *)
(* poll, the file operations of a save included; nothing holds it while    *)
(* the configuration file is written.  Power may go at any time.           *)
(***************************************************************************)
EXTENDS Naturals

CONSTANTS
  Text,        \* the descriptions
  Empty,       \* the one a board starts with
  Partial,     \* what a save leaves that is not one whole text
  CommitDelay, \* COMMIT_DELAY_MS, in ticks
  MaxWrites,   \* a bound on the writes of one behaviour,
  MaxRestarts, \* on the times power goes
  MaxFailures  \* and on the saves that the file system fails

ASSUME StoreAssumption ==
  /\ Empty \in Text
  /\ Partial \notin Text
  /\ CommitDelay \in Nat /\ CommitDelay > 0
  /\ MaxWrites \in Nat /\ MaxRestarts \in Nat /\ MaxFailures \in Nat

VARIABLES
  data,      \* data_, up to its first NUL
  dirty,     \* dirty_
  age,       \* ticks since lastWrite_, up to CommitDelay
  lock,      \* who holds the hardware lock
  save,      \* where the hardware thread is in commit()
  measured,  \* the text whose length commit() took
  file,      \* /fs/module.txt
  running,   \* DCCSource: running_, the timer interrupts
  config,    \* the executor is writing the configuration file
  writes, restarts, failures   \* how many there have been

ramVars == <<data, dirty, age>>
counts == <<writes, restarts, failures>>
vars == <<ramVars, lock, save, measured, file, running, config, counts>>

Held == Text \cup {Partial}
Saving == save # "idle"

TypeOK ==
  /\ data \in Held
  /\ dirty \in BOOLEAN
  /\ age \in 0..CommitDelay
  /\ lock \in {"free", "hardware"}
  /\ save \in {"idle", "opening", "writing"}
  /\ measured \in Held
  /\ file \in Held
  /\ running \in BOOLEAN
  /\ config \in BOOLEAN
  /\ writes \in 0..MaxWrites
  /\ restarts \in 0..MaxRestarts
  /\ failures \in 0..MaxFailures

Init ==
  /\ data = Empty
  /\ dirty = FALSE
  /\ age = 0
  /\ lock = "free"
  /\ save = "idle"
  /\ measured = Empty
  /\ file = Empty
  /\ running = FALSE
  /\ config = FALSE
  /\ writes = 0 /\ restarts = 0 /\ failures = 0

-----------------------------------------------------------------------------
(* The stack's executor *)

(* Mistake: the text is written without the lock. *)
WriteUnlocked(t) ==
  /\ ~config
  /\ writes < MaxWrites
  /\ writes' = writes + 1
  /\ data' = t
  /\ dirty' = TRUE
  /\ age' = 0
  /\ UNCHANGED <<lock, save, measured, file, running, config, restarts,
                 failures>>

(* Mistake: a description that is cleared is not saved. *)
WriteNotEmpty(t) ==
  /\ ~config
  /\ lock = "free"
  /\ writes < MaxWrites
  /\ writes' = writes + 1
  /\ data' = t
  /\ dirty' = (dirty \/ t # Empty)
  /\ age' = 0
  /\ UNCHANGED <<lock, save, measured, file, running, config, restarts,
                 failures>>

(* ModuleStore::write *)
Write(t) ==
  /\ ~config
  /\ lock = "free"
  /\ writes < MaxWrites
  /\ writes' = writes + 1
  /\ data' = t
  /\ dirty' = TRUE
  /\ age' = 0
  /\ UNCHANGED <<lock, save, measured, file, running, config, restarts,
                 failures>>

(* Mistake: the source is started without the lock. *)
SwitchUnlocked(on) ==
  /\ ~config
  /\ running # on
  /\ running' = on
  /\ UNCHANGED <<ramVars, lock, save, measured, file, config, counts>>

(* LiveControl::write starting the source, which got its timer, or stopping
   it. *)
SwitchSource(on) ==
  /\ ~config
  /\ lock = "free"
  /\ running # on
  /\ running' = on
  /\ UNCHANGED <<ramVars, lock, save, measured, file, config, counts>>

(* FemtoController::factory_reset, and a configuration tool's write through
   WriteOnlyPasswordSpace: neither takes the lock. *)
StartConfigWrite ==
  /\ ~config
  /\ config' = TRUE
  /\ UNCHANGED <<ramVars, lock, save, measured, file, running, counts>>

EndConfigWrite ==
  /\ config
  /\ config' = FALSE
  /\ UNCHANGED <<ramVars, lock, save, measured, file, running, counts>>

-----------------------------------------------------------------------------
(* The hardware thread: FemtoController::poll, ModuleStore::poll and commit *)

Commit ==
  /\ lock = "free"
  /\ ~running
  /\ dirty /\ age >= CommitDelay
  /\ lock' = "hardware"
  /\ save' = "opening"
  /\ measured' = data
  /\ dirty' = FALSE
  /\ UNCHANGED <<data, age, file, running, config, counts>>

(* Opening the file for writing empties it. *)
Open ==
  /\ save = "opening"
  /\ save' = "writing"
  /\ file' = Partial
  /\ UNCHANGED <<ramVars, lock, measured, running, config, counts>>

(* As many bytes of the text as commit() measured: a text that has changed
   since would be cut short or mixed. *)
Saved ==
  /\ save = "writing"
  /\ file' = IF data = measured THEN data ELSE Partial
  /\ save' = "idle"
  /\ lock' = "free"
  /\ UNCHANGED <<ramVars, measured, running, config, counts>>

(* The file does not open, or takes less than the whole text. *)
Failed ==
  /\ Saving
  /\ failures < MaxFailures
  /\ failures' = failures + 1
  /\ save' = "idle"
  /\ lock' = "free"
  /\ UNCHANGED <<ramVars, measured, file, running, config, writes, restarts>>

-----------------------------------------------------------------------------
Tick ==
  /\ age < CommitDelay
  /\ age' = age + 1
  /\ UNCHANGED <<data, dirty, lock, save, measured, file, running, config,
                 counts>>

(* Mistake: what was saved is not loaded. *)
RestartEmpty ==
  /\ restarts < MaxRestarts
  /\ restarts' = restarts + 1
  /\ data' = Empty
  /\ dirty' = FALSE
  /\ age' = 0
  /\ lock' = "free"
  /\ save' = "idle"
  /\ running' = FALSE
  /\ config' = FALSE
  /\ UNCHANGED <<measured, file, writes, failures>>

(* Power goes and comes back: ModuleStore::begin loads what the file holds. *)
Restart ==
  /\ restarts < MaxRestarts
  /\ restarts' = restarts + 1
  /\ data' = file
  /\ dirty' = FALSE
  /\ age' = 0
  /\ lock' = "free"
  /\ save' = "idle"
  /\ running' = FALSE
  /\ config' = FALSE
  /\ UNCHANGED <<measured, file, writes, failures>>

Next ==
  \/ \E t \in Text : Write(t)
  \/ \E on \in BOOLEAN : SwitchSource(on)
  \/ StartConfigWrite \/ EndConfigWrite
  \/ Commit \/ Open \/ Saved \/ Failed
  \/ Tick
  \/ Restart

Spec == Init /\ [][Next]_vars

(* The hardware thread polls for ever and time passes.  The executor may take
   the lock between any two polls, but it does not keep it. *)
FairSpec ==
  /\ Spec
  /\ SF_vars(Commit)
  /\ WF_vars(Open \/ Saved)
  /\ WF_vars(Tick)

-----------------------------------------------------------------------------
(* Safety *)

(* "Writing flash disables the flash cache ... An interrupt during that window
   is a crash.  So while the source is running the description is held in
   RAM" (FemtoController::poll): the source neither runs when a save begins
   nor is started before it has ended. *)
SaveInterlocked == Saving => ~running

(* As long as no save has failed, what a dispatcher reads back is on flash,
   being saved or going to be, however writes, saves and power cuts follow
   each other (ModuleStore::commit clears dirty_ before it saves). *)
NothingForgotten == failures = 0 => dirty \/ Saving \/ file = data

(* The file gets the text that is read back, whole: no dispatcher changes it
   between the measuring of its length and the end of the writing (the lock in
   ModuleStore::write and commit). *)
SavesWhole ==
  [][save = "writing" /\ save' = "idle"
       /\ failures' = failures /\ restarts' = restarts
     => file' = data']_vars

(* Losing power when nothing is waiting to be saved loses nothing, as long as
   no save has failed (ModuleStore::begin loads what commit wrote). *)
RestartKeepsSaved ==
  [][restarts' # restarts /\ failures = 0 /\ ~dirty /\ ~Saving
     => data' = data]_vars

-----------------------------------------------------------------------------
(* Liveness under FairSpec *)

(* If no save fails and the source stays off, what was last written gets to
   the flash (ModuleStore::poll). *)
SavedInTheEnd == <>[](~running /\ failures = 0) => <>[](file = data)

=============================================================================
