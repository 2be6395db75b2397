----------------------------- MODULE EventSlots -----------------------------
(***************************************************************************)
(* One bit that the node produces and its slot in the refresh loop         *)
(* (FemtoBits.hxx).  The hardware thread changes the bit and marks the slot *)
(* pending; the stack's executor clears the mark, then reads the bit, then *)
(* sends the event that matches it.  A load of the configuration makes the *)
(* producer anew and forgets the mark.                                     *)
(***************************************************************************)
CONSTANTS
  Unknown,  \* the bit is not known
  Known     \* the values it has otherwise

VARIABLES
  bit,      \* the bit, as state_of() answers
  wired,    \* the slot has a producer
  marked,   \* pending_
  sending,  \* poll_33hz() has cleared the mark and not yet sent
  told,     \* external: the last event that was sent, Unknown for none
  missed    \* history: a mark has been forgotten and none made since

vars == <<bit, wired, marked, sending, told, missed>>

Init ==
  /\ bit = Unknown
  /\ wired \in BOOLEAN
  /\ marked = FALSE
  /\ sending = FALSE
  /\ told = Unknown
  /\ missed = FALSE

-----------------------------------------------------------------------------
(* The hardware thread, under the hardware lock: a change to a known value
   marks the slot. *)

(* Mistake: a mark is made only for a bit that was known before. *)
MarksKnown(v) == v \in Known /\ bit \in Known /\ v # bit
Marks(v) == v \in Known /\ v # bit

Changed(v) ==
  /\ bit' = v
  /\ marked' = (marked \/ Marks(v))
  /\ missed' = (missed /\ ~Marks(v))
  /\ UNCHANGED <<wired, sending, told>>

(* The stack's executor: FemtoBitSlot::poll_33hz() *)
Clear ==
  /\ ~sending
  /\ wired /\ marked
  /\ marked' = FALSE
  /\ sending' = TRUE
  /\ UNCHANGED <<bit, wired, told, missed>>

(* BitEventProducer::SendEventReport() sends nothing of an unknown bit. *)
Send ==
  /\ sending
  /\ sending' = FALSE
  /\ told' = IF bit \in Known THEN bit ELSE told
  /\ UNCHANGED <<bit, wired, marked, missed>>

(* FemtoController::register_events(); w is whether both events are set. *)
Rewired(w) ==
  /\ ~sending
  /\ wired' = w
  /\ marked' = FALSE
  /\ missed' = (missed \/ marked)
  /\ UNCHANGED <<bit, sending, told>>

Next ==
  \/ \E v \in Known \cup {Unknown} : Changed(v)
  \/ Clear \/ Send
  \/ \E w \in BOOLEAN : Rewired(w)

Spec == Init /\ [][Next]_vars

-----------------------------------------------------------------------------
(* The last event sent is the bit's value, unless another is on its way: the
   hardware thread may change the bit between the clearing of the mark and the
   reading of the bit, and no change is lost (FemtoBitSlot::poll_33hz clears
   first).  Only a load of the configuration forgets one. *)
ToldIsCurrent ==
  ~marked /\ ~sending /\ ~missed /\ bit \in Known => told = bit

=============================================================================
