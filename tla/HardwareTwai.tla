---------------------------- MODULE HardwareTwai ----------------------------
(***************************************************************************)
(* The CAN driver (Esp32HardwareTwai): two queues between the OpenMRN      *)
(* stack, which writes, reads and waits in select(), the interrupt, which  *)
(* serves the controller, and the watchdog task.  A step here is what one  *)
(* of them does under buf_lock, under select_lock, or with one look at the *)
(* controller.  On two cores they interleave freely; on one, as on the     *)
(* ESP32-C6 of the board, no task runs while the interrupt does.  The      *)
(* controller is one that says of each frame whether it was overrun        *)
(* (SOC_TWAI_SUPPORTS_RX_STATUS), as that of the ESP32-C6.                 *)
(*                                                                         *)
(* A frame is its number: those of the stack and those of the bus each     *)
(* count from 1.                                                           *)
(***************************************************************************)
EXTENDS Naturals, Sequences, FiniteSets

CONSTANTS
  Cores,           \* of the processor
  TxSize, RxSize,  \* what tx_buf and rx_buf hold
  FifoSize,        \* what the controller's FIFO holds
  TooLong,         \* the frames of the bus with a DLC above TWAI_FRAME_MAX_DLC
  MaxWritten,      \* a bound on the frames the stack has to send,
  MaxReceived,     \* on the frames that arrive,
  MaxErrors,       \* on the changes of the error state of the bus,
  MaxOutside       \* and on both together

ASSUME TwaiAssumption ==
  /\ Cores \in {1, 2}
  /\ TxSize \in Nat \ {0} /\ RxSize \in Nat \ {0} /\ FifoSize \in Nat \ {0}
  /\ MaxWritten \in Nat /\ MaxReceived \in Nat /\ MaxErrors \in Nat
  /\ MaxOutside \in Nat
  /\ TooLong \subseteq 1..MaxReceived

VARIABLES
  tx, rx,     \* tx_buf and rx_buf
  flags,      \* external: context.state_flags of the HAL
  select,     \* wanted: the fd_sets select() was called with, ready: those it
              \* has been woken with (select_lock)
  stack,      \* the task of the stack: at, where it is; runs, the flows that
              \* need not wait; next, the frame it writes next
  isr,        \* the interrupt: at, where it is; events, what it has yet to see;
              \* left, the frames it has yet to look at; queued, whether one of
              \* those before went to rx_buf
  watchdog,   \* at, where it is; lastState, the flags it saw last, if the bus
              \* was recovering; lastRx and lastTx, the frames it saw last;
              \* success, when tx_success last changed
  stats,      \* rx_missed, rx_discard and rx_overrun
  bus,        \* external: the controller, see Bus
  sent,       \* history: upset, whether tx_buf was purged or the bus went off;
              \* last, the last frame sent until then
  read        \* history: the frames the stack has read

vars == <<tx, rx, flags, select, stack, isr, watchdog, stats, bus, sent, read>>

-----------------------------------------------------------------------------
Frame == 1..MaxWritten
Flag == {"RUNNING", "RECOVERING", "ERR_PASSIVE", "BUS_OFF", "OCCUPIED"}
FdSet == {"read", "write"}

StackAt == {"closed", "idle", "recover", "running?", "put", "occupied?",
            "transmit", "purge", "purgeWritten", "select"}
IsrAt == {"idle", "rx", "rxFrames", "rxSignal", "tx", "txSignal", "restart"}
WatchdogAt == {"state", "recover", "noteState", "rx", "purgeRx", "noteRx",
               "tx", "purgeTx", "noteTx"}

(* The state of the bus, the controller's FIFO with the frames of it that were
   overrun, the frames that have arrived, its buffer (0 when empty), whether what
   was in it last was sent, the interrupts pending, and the changes of the state
   so far.  A history: astray, whether a recovery was started that was over
   before, or a frame handed to a bus that the interrupt had seen off. *)
Bus ==
  [state : {"active", "passive", "off", "recovering"},
   fifo : Seq(1..MaxReceived), overrun : SUBSET (1..MaxReceived),
   arrived : 0..MaxReceived, buffer : 0..MaxWritten, complete : BOOLEAN,
   irq : SUBSET {"TX", "ERR"}, errors : 0..MaxErrors, astray : BOOLEAN]
Off == bus.state \in {"off", "recovering"}

Init ==                                     \* Esp32HardwareTwai, hw_init()
  /\ tx = <<>> /\ rx = <<>>
  /\ flags = {}
  /\ select = [wanted |-> {}, ready |-> {}]
  /\ stack = [at |-> "closed", runs |-> FdSet, next |-> 1]
  /\ isr = [at |-> "idle", events |-> {}, left |-> 0, queued |-> FALSE]
  /\ watchdog = [at |-> "state", lastState |-> {}, lastRx |-> 0, lastTx |-> 0,
                 success |-> "never"]
  /\ stats = [missed |-> 0, discard |-> 0, overrun |-> 0]
  /\ bus = [state |-> "active", fifo |-> <<>>, overrun |-> {}, arrived |-> 0,
            buffer |-> 0, complete |-> TRUE, irq |-> {}, errors |-> 0,
            astray |-> FALSE]
  /\ sent = [upset |-> FALSE, last |-> 0]
  /\ read = <<>>

-----------------------------------------------------------------------------
(* What several of them do *)

Signalled(fd) ==
  select' = [select EXCEPT !.ready = @ \cup ({fd} \cap select.wanted)]

(* buf_lock, which the interrupt keeps for all the frames it receives. *)
BufFree == isr.at # "rxFrames"

(* twai_purge_rx_queue() and twai_purge_tx_queue().  What they do then wakes a
   select() for exceptions, which the stack never asks for. *)
PurgeRx ==
  BufFree /\ rx' = <<>> /\ stats' = [stats EXCEPT !.missed = @ + Len(rx)]
Upset == sent' = [upset |-> TRUE, last |-> 0]
PurgeTx == BufFree /\ tx' = <<>> /\ Upset

(* External: twai_hal_start_bus_recovery().  It was found due by a flag. *)
StartsRecovery(flag) ==
  /\ flags' = flags \cup {"RECOVERING"}
  /\ bus' = [bus EXCEPT !.state = IF @ = "off" THEN "recovering" ELSE @,
                        !.astray = @ \/ flag \notin flags]

(* twai_hal_set_tx_buffer_and_transmit().  The controller does not take another
   frame while it has one, and none while it is off. *)
Handed(frame) ==
  /\ flags' = flags \cup {"OCCUPIED"}
  /\ bus' = IF Off THEN [bus EXCEPT !.astray = @ \/ "ERR" \notin bus.irq]
            ELSE IF bus.buffer # 0 THEN bus
            ELSE [bus EXCEPT !.buffer = frame, !.complete = FALSE]

(* The first frame of the queue is handed over. *)
Transmit(queue) == Handed(Head(queue))

-----------------------------------------------------------------------------
(* The stack *)

At(place) == stack.at = place
Goes(place) == stack' = [stack EXCEPT !.at = place]
(* write() returns: with nothing written, the flow waits for select(). *)
Writes(taken) ==
  stack' = [stack EXCEPT !.at = "idle",
                         !.next = IF taken THEN @ + 1 ELSE @,
                         !.runs = IF taken THEN @ ELSE @ \ {"write"}]

(* twai_vfs_open() *)
Open ==
  /\ At("closed") /\ Goes("idle")
  /\ rx' = <<>> /\ tx' = <<>>
  /\ flags' = flags \cup {"RUNNING"}
  /\ UNCHANGED <<select, isr, watchdog, stats, bus, sent, read>>

(* twai_vfs_write(), of the one frame the stack writes at a time. *)
WriteBegins ==
  /\ At("idle") /\ "write" \in stack.runs /\ stack.next <= MaxWritten
  /\ Goes(IF "BUS_OFF" \in flags THEN "recover" ELSE "running?")
  /\ UNCHANGED <<tx, rx, flags, select, isr, watchdog, stats, bus, sent, read>>

(* Mistake: write() returns, and the frames stay. *)
ReturnsAtOnce == Writes(FALSE)
(* write() goes on to remove the frames that wait. *)
PurgesNext == Goes("purge")

(* It has written a line of the log since. *)
WriteRecovers ==
  /\ At("recover") /\ PurgesNext
  /\ StartsRecovery("BUS_OFF")
  /\ UNCHANGED <<tx, rx, select, isr, watchdog, stats, sent, read>>

WriteChecks ==
  /\ At("running?")
  /\ Goes(IF "RUNNING" \notin flags THEN "purge"
          ELSE IF "ERR_PASSIVE" \in flags THEN "purgeWritten" ELSE "put")
  /\ UNCHANGED <<tx, rx, flags, select, isr, watchdog, stats, bus, sent, read>>

WritePuts ==
  /\ At("put") /\ BufFree
  /\ IF Len(tx) < TxSize
     THEN tx' = Append(tx, stack.next) /\ Goes("occupied?")
     ELSE UNCHANGED tx /\ Writes(FALSE)
  /\ UNCHANGED <<rx, flags, select, isr, watchdog, stats, bus, sent, read>>

(* Mistake: the writer does not ask whether the controller has a frame. *)
WriteLooksNot ==
  /\ At("occupied?")
  /\ IF "RUNNING" \in flags THEN Goes("transmit") ELSE Writes(TRUE)
  /\ UNCHANGED <<tx, rx, flags, select, isr, watchdog, stats, bus, sent, read>>

WriteLooks ==
  /\ At("occupied?")
  /\ IF "RUNNING" \in flags /\ "OCCUPIED" \notin flags THEN Goes("transmit")
     ELSE Writes(TRUE)
  /\ UNCHANGED <<tx, rx, flags, select, isr, watchdog, stats, bus, sent, read>>

WriteTransmits ==
  /\ At("transmit") /\ BufFree /\ Writes(TRUE)
  /\ IF tx # <<>> THEN Transmit(tx) ELSE UNCHANGED <<flags, bus>>
  /\ UNCHANGED <<tx, rx, select, isr, watchdog, stats, sent, read>>

(* In the error passive state a frame counts as written. *)
WritePurges ==
  /\ \/ At("purge") /\ Writes(FALSE)
     \/ At("purgeWritten") /\ Writes(TRUE)
  /\ PurgeTx
  /\ UNCHANGED <<rx, flags, select, isr, watchdog, stats, bus, read>>

(* twai_vfs_read(): with nothing read, the flow waits for select(). *)
Read ==
  /\ At("idle") /\ "read" \in stack.runs /\ BufFree
  /\ IF rx # <<>>
     THEN rx' = Tail(rx) /\ read' = Append(read, Head(rx)) /\ UNCHANGED stack
     ELSE /\ stack' = [stack EXCEPT !.runs = @ \ {"read"}]
          /\ UNCHANGED <<rx, read>>
  /\ UNCHANGED <<tx, flags, select, isr, watchdog, stats, bus, sent>>

(* Mistake: frames that came before select() do not end it. *)
ReadyNever == {}
(* What select() need not wait for: space in tx_buf is not looked at. *)
ReadyAtOnce == IF rx # <<>> THEN {"read"} ELSE {}

(* twai_vfs_start_select(), when no frame is left to be read.  A flow that has
   a frame to write and was told to wait has select() wait for it. *)
StartSelect ==
  /\ At("idle") /\ "read" \notin stack.runs /\ BufFree
  /\ Goes("select")
  /\ LET wanted == FdSet \ stack.runs
     IN select' = [wanted |-> wanted, ready |-> wanted \cap ReadyAtOnce]
  /\ UNCHANGED <<tx, rx, flags, isr, watchdog, stats, bus, sent, read>>

(* twai_vfs_end_select(): woken by the driver, or for something else. *)
EndSelect ==
  /\ At("select")
  /\ stack' = [stack EXCEPT !.at = "idle", !.runs = @ \cup select.ready]
  /\ select' = [wanted |-> {}, ready |-> {}]
  /\ UNCHANGED <<tx, rx, flags, isr, watchdog, stats, bus, sent, read>>

-----------------------------------------------------------------------------
(* The interrupt: twai_isr() *)

(* Where it goes for the events it has yet to see. *)
Continues(events) ==
  isr' = [at |-> IF "RX" \in events THEN "rx" ELSE IF "TX" \in events THEN "tx"
                 ELSE IF "RECOVERED" \in events THEN "restart" ELSE "idle",
          events |-> events, left |-> 0, queued |-> FALSE]

(* External: twai_hal_get_events() *)
Events ==
  (IF bus.fifo # <<>> THEN {"RX"} ELSE {}) \cup (bus.irq \cap {"TX"})
    \cup (IF "ERR" \in bus.irq /\ bus.state = "active" /\ "RECOVERING" \in flags
          THEN {"RECOVERED"} ELSE {})
FlagsSeen ==
  LET free == IF "TX" \in bus.irq THEN flags \ {"OCCUPIED"} ELSE flags IN
    IF "ERR" \notin bus.irq THEN free
    ELSE CASE Off -> (free \ {"RUNNING", "OCCUPIED"}) \cup {"BUS_OFF"}
           [] bus.state = "passive" -> free \cup {"ERR_PASSIVE"}
           [] bus.state = "active" ->
                free \ (IF "RECOVERING" \in free
                        THEN {"RECOVERING", "BUS_OFF", "ERR_PASSIVE"}
                        ELSE {"ERR_PASSIVE"})

IsrBegins ==
  /\ isr.at = "idle" /\ ~At("closed")
  /\ bus.fifo # <<>> \/ bus.irq # {}
  /\ Continues(Events)
  /\ flags' = FlagsSeen
  /\ bus' = [bus EXCEPT !.irq = {}]
  /\ UNCHANGED <<tx, rx, select, stack, watchdog, stats, sent, read>>

(* twai_rx_frames(): buf_lock is taken, and the frames are counted. *)
RxBegins ==
  /\ isr.at = "rx"
  /\ isr' = [isr EXCEPT !.at = "rxFrames", !.left = Len(bus.fifo)]
  /\ UNCHANGED <<tx, rx, flags, select, stack, watchdog, stats, bus, sent, read>>

(* What becomes of a frame: the field of stats it counts in, or "queued". *)
Fate(frame) ==
  IF frame \in bus.overrun THEN "overrun"
  ELSE IF frame \in TooLong THEN "discard"
  ELSE IF Len(rx) < RxSize THEN "queued" ELSE "missed"

(* Mistake: an overrun frame is not counted. *)
CountsUnlessOverrun(fate) ==
  stats' = IF fate \in {"queued", "overrun"} THEN stats
           ELSE [stats EXCEPT ![fate] = @ + 1]
Counts(fate) ==
  stats' = IF fate = "queued" THEN stats ELSE [stats EXCEPT ![fate] = @ + 1]

(* One frame of them, released from the FIFO whatever becomes of it. *)
RxFrames ==
  /\ isr.at = "rxFrames" /\ isr.left > 0
  /\ LET frame == Head(bus.fifo)
         fate == Fate(frame)
     IN /\ Counts(fate)
        /\ rx' = IF fate = "queued" THEN Append(rx, frame) ELSE rx
        /\ isr' = [isr EXCEPT !.left = @ - 1, !.queued = @ \/ fate = "queued"]
        /\ bus' = [bus EXCEPT !.fifo = Tail(@), !.overrun = @ \ {frame}]
  /\ UNCHANGED <<tx, flags, select, stack, watchdog, sent, read>>

RxEnds ==
  /\ isr.at = "rxFrames" /\ isr.left = 0
  /\ IF isr.queued THEN isr' = [isr EXCEPT !.at = "rxSignal"]
     ELSE Continues(isr.events \ {"RX"})
  /\ UNCHANGED <<tx, rx, flags, select, stack, watchdog, stats, bus, sent, read>>

RxSignals ==
  /\ isr.at = "rxSignal"
  /\ Signalled("read")
  /\ Continues(isr.events \ {"RX"})
  /\ UNCHANGED <<tx, rx, flags, stack, watchdog, stats, bus, sent, read>>

(* The frames that remain after an interrupt of the transmitter. *)
Unsent == IF bus.complete /\ tx # <<>> THEN Tail(tx) ELSE tx

(* Mistake: the next frame is left to the writer. *)
GoesOnNever(queue) == FALSE
(* The interrupt sends the next frame. *)
GoesOn(queue) == queue # <<>>

(* twai_tx_frame() *)
TxFrame ==
  /\ isr.at = "tx"
  /\ tx' = Unsent
  /\ IF GoesOn(tx')
     THEN Transmit(tx') /\ isr' = [isr EXCEPT !.at = "txSignal"]
     ELSE Continues(isr.events \ {"TX"}) /\ UNCHANGED <<flags, bus>>
  /\ watchdog' = [watchdog EXCEPT !.success = IF bus.complete THEN "since" ELSE @]
  /\ UNCHANGED <<rx, select, stack, stats, sent, read>>

TxSignals ==
  /\ isr.at = "txSignal"
  /\ Signalled("write")
  /\ Continues(isr.events \ {"TX"})
  /\ UNCHANGED <<tx, rx, flags, stack, watchdog, stats, bus, sent, read>>

(* TWAI_HAL_EVENT_BUS_RECOV_CPLT *)
Restart ==
  /\ isr.at = "restart"
  /\ flags' = flags \cup {"RUNNING"}
  /\ Continues({})
  /\ UNCHANGED <<tx, rx, select, stack, watchdog, stats, bus, sent, read>>

-----------------------------------------------------------------------------
(* The watchdog task: twai_watchdog() *)

WatchdogGoes(place) == watchdog' = [watchdog EXCEPT !.at = place]

(* A bus that is still as it was, and recovers, is told to recover again: once a
   line of the log is written, in which time it may have recovered. *)
ChecksState ==
  /\ watchdog.at = "state"
  /\ WatchdogGoes(IF watchdog.lastState = flags /\ "RECOVERING" \in flags
                  THEN "recover" ELSE "noteState")
  /\ UNCHANGED <<tx, rx, flags, select, stack, isr, stats, bus, sent, read>>

Recovers ==
  /\ watchdog.at = "recover" /\ WatchdogGoes("noteState")
  /\ StartsRecovery("RECOVERING")
  /\ UNCHANGED <<tx, rx, select, stack, isr, stats, sent, read>>

(* Flags without RECOVERING are never compared: they count as none. *)
NotesState ==
  /\ watchdog.at = "noteState"
  /\ watchdog' = [watchdog EXCEPT !.at = "rx",
                    !.lastState = IF "RECOVERING" \in flags THEN flags ELSE {}]
  /\ UNCHANGED <<tx, rx, flags, select, stack, isr, stats, bus, sent, read>>

NotesRx == watchdog' = [watchdog EXCEPT !.at = "tx", !.lastRx = Len(rx)]
NotesTx ==
  watchdog' = [watchdog EXCEPT !.at = "state", !.lastTx = Len(tx),
                 !.success = IF @ = "since" THEN "before" ELSE @]

ChecksRx ==
  /\ watchdog.at = "rx"
  /\ IF watchdog.lastRx # 0 /\ watchdog.lastRx = Len(rx)
     THEN WatchdogGoes("purgeRx") ELSE WatchdogGoes("noteRx")
  /\ UNCHANGED <<tx, rx, flags, select, stack, isr, stats, bus, sent, read>>

PurgesRx ==
  /\ \/ watchdog.at = "purgeRx" /\ PurgeRx /\ WatchdogGoes("noteRx")
     \/ watchdog.at = "noteRx" /\ NotesRx /\ UNCHANGED <<rx, stats>>
  /\ UNCHANGED <<tx, flags, select, stack, isr, bus, sent, read>>

(* last_tx_success is 0 until the first frame was sent. *)
ChecksTx ==
  /\ watchdog.at = "tx"
  /\ IF /\ watchdog.lastTx # 0 /\ watchdog.lastTx = Len(tx)
        /\ watchdog.success = "before"
     THEN WatchdogGoes("purgeTx") ELSE WatchdogGoes("noteTx")
  /\ UNCHANGED <<tx, rx, flags, select, stack, isr, stats, bus, sent, read>>

PurgesTx ==
  /\ \/ watchdog.at = "purgeTx" /\ PurgeTx /\ WatchdogGoes("noteTx")
     \/ watchdog.at = "noteTx" /\ NotesTx /\ UNCHANGED <<tx, sent>>
  /\ UNCHANGED <<rx, flags, select, stack, isr, stats, bus, read>>

-----------------------------------------------------------------------------
(* The controller and the bus *)

Within == bus.arrived + bus.errors < MaxOutside
Outside == UNCHANGED <<tx, rx, flags, select, stack, isr, watchdog, stats, read>>

(* A frame that finds the FIFO full is overrun: it is in it by name only. *)
Arrives ==
  /\ ~At("closed") /\ ~Off
  /\ bus.arrived < MaxReceived /\ Within
  /\ LET frame == bus.arrived + 1
         stored == Len(bus.fifo) - Cardinality(bus.overrun)
     IN bus' = [bus EXCEPT !.fifo = Append(@, frame), !.arrived = frame,
                           !.overrun = IF stored < FifoSize THEN @
                                       ELSE @ \cup {frame}]
  /\ Outside /\ UNCHANGED sent

IsSent ==
  /\ bus.buffer # 0 /\ ~Off
  /\ bus' = [bus EXCEPT !.buffer = 0, !.complete = TRUE, !.irq = @ \cup {"TX"}]
  /\ sent' = IF sent.upset THEN sent ELSE [sent EXCEPT !.last = bus.buffer]
  /\ Outside

(* Errors add up, or subside.  A bus that is off needs to be told to recover, and
   takes so long (128 times eleven bits) that the interrupt has seen it off. *)
Changes(state) ==
  /\ ~At("closed")
  /\ bus.errors < MaxErrors /\ Within /\ bus.state # state
  /\ bus.state # "off"
  /\ bus.state = "recovering" => state = "active" /\ "ERR" \notin bus.irq
  /\ bus' = [bus EXCEPT !.state = state, !.errors = @ + 1, !.irq = @ \cup {"ERR"},
                        !.buffer = IF state = "off" THEN 0 ELSE @]
  /\ IF state = "off" THEN Upset ELSE UNCHANGED sent
  /\ Outside

-----------------------------------------------------------------------------
Stack ==
  \/ Open \/ WriteBegins \/ WriteRecovers \/ WriteChecks \/ WritePuts
  \/ WriteLooks \/ WriteTransmits \/ WritePurges \/ Read \/ StartSelect
Isr ==
  \/ IsrBegins \/ RxBegins \/ RxFrames \/ RxEnds \/ RxSignals
  \/ TxFrame \/ TxSignals \/ Restart
Watchdog ==
  \/ ChecksState \/ Recovers \/ NotesState
  \/ ChecksRx \/ PurgesRx \/ ChecksTx \/ PurgesTx
Controller ==
  Arrives \/ IsSent \/ \E s \in {"active", "passive", "off"} : Changes(s)

TasksRun == Cores = 1 => isr.at = "idle"

Next ==
  \/ TasksRun /\ (Stack \/ EndSelect \/ Watchdog)
  \/ Isr
  \/ Controller
Spec == Init /\ [][Next]_vars

-----------------------------------------------------------------------------
TypeOK ==
  /\ tx \in Seq(Frame) /\ Len(tx) <= TxSize
  /\ rx \in Seq(1..MaxReceived) /\ Len(rx) <= RxSize
  /\ flags \subseteq Flag
  /\ select \in [wanted : SUBSET FdSet, ready : SUBSET FdSet]
  /\ stack \in [at : StackAt, runs : SUBSET FdSet, next : 1..MaxWritten + 1]
  /\ isr \in [at : IsrAt, events : SUBSET {"RX", "TX", "RECOVERED"},
              left : 0..MaxReceived, queued : BOOLEAN]
  /\ watchdog \in [at : WatchdogAt, lastState : SUBSET Flag, lastRx : 0..RxSize,
                   lastTx : 0..TxSize, success : {"never", "since", "before"}]
  /\ stats \in [missed : 0..MaxReceived, discard : 0..MaxReceived,
                overrun : 0..MaxReceived]
  /\ bus \in Bus
  /\ sent \in [upset : BOOLEAN, last : 0..MaxWritten]
  /\ read \in Seq(1..MaxReceived)

(* The stack is never left waiting for frames while there are some: whatever
   came before select(), while it began, or after (start_select, isr). *)
ReaderIsWoken ==
  At("select") /\ "read" \in select.wanted \ select.ready /\ rx # <<>>
  => \/ isr.at = "rxSignal"
     \/ isr.at = "rxFrames" /\ isr.queued

(* No frame waits beside an empty buffer of a controller that runs, unless the
   writer or the interrupt is about to see to it: neither leaves it to the other
   (write, tx_frame).  This holds until a bus that was seen off is handed a frame,
   or one that has recovered is told to recover. *)
NeverIdle ==
  /\ tx # <<>> /\ bus.buffer = 0 /\ ~Off /\ "RUNNING" \in flags /\ ~bus.astray
  => \/ stack.at \in {"occupied?", "transmit", "purge"}
     \/ "TX" \in bus.irq
     \/ "TX" \in isr.events /\ isr.at # "txSignal"

(* A bus that was off starts again with nothing of before to send, and does not
   run until then: who starts the recovery purges the queue, and nothing is put
   into it before the interrupt has seen the end (write, isr, watchdog). *)
Recovering == "RECOVERING" \in flags \/ "RECOVERED" \in isr.events
RestartsEmpty ==
  Recovering /\ ~bus.astray =>
    "RUNNING" \notin flags /\ (tx = <<>> \/ At("purge"))

(* The last frame that went into tx_buf, and the first that is still there. *)
LastPut == IF stack.at \in {"occupied?", "transmit"} THEN stack.next
           ELSE stack.next - 1
FirstWaiting == LastPut - Len(tx) + 1

(* Until a purge, or a bus that is off, the frames are sent in the order they
   were written, though one may be sent twice; and on one core none is left out,
   where on two the interrupt may take the end of a frame for that of the next
   one (write, tx_frame and the watchdog). *)
SentInOrder ==
  ~sent.upset =>
    /\ \A i \in 1..Len(tx) : tx[i] = FirstWaiting + i - 1
    /\ sent.last <= FirstWaiting
    /\ Cores = 1 => FirstWaiting <= sent.last + 1

Counted == stats.missed + stats.discard + stats.overrun

(* Every frame that arrived is in the FIFO or the queue, was read, or counts
   once, as missed, discarded or overrun; and those that are read are read in the
   order they came. *)
ArrivalsAccounted ==
  /\ bus.arrived = Len(bus.fifo) + Len(rx) + Len(read) + Counted
  /\ LET frames == read \o rx \o bus.fifo
     IN \A i, j \in 1..Len(frames) : i < j => frames[i] < frames[j]

=============================================================================
