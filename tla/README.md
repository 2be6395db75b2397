# FemtoLCC: verification of the node's firmware

The firmware under `software/openmrn/main` runs an OpenLCB (LCC) node on an
ESP32-C6 with four H-bridge outputs (A to D), eight inputs and outputs of its
own, and I2C boards with more inputs, outputs and servos. It reaches other nodes
over CAN and WiFi, by drivers of OpenMRN that the repository overrides
(`software/openmrn/patches/overrides`). This directory holds
TLA+ models of its core, TLC configurations that check them on small instances,
and proofs, checked by TLAPS, of what matters most. Every definition was
translated from the source; `PROJECT.json` says from which lines.

- [The system](#the-system)
- [Hard behaviours](#hard-behaviours)
- [The modules](#the-modules)
- [The runs](#the-runs)
- [Fairness](#fairness)
- [The proofs](#the-proofs)
- [Where the code and its documentation differ](#where-the-code-and-its-documentation-differ)
- [What is not modelled](#what-is-not-modelled)
- [The plan](#the-plan)

## The system

Three threads of control touch the hardware:

- the **executor** of the OpenMRN stack runs every handler: consumed events
  (`FemtoController::handle_event_report`), identify requests, loads of the
  configuration (`apply_configuration`), and reads and writes of the memory
  spaces 0xE0 (`LiveControl`) and 0xE1 (`ModuleStore`);
- the **hardware thread** runs `FemtoController::poll` every 5 ms;
- the **DCC timer interrupt** (`onDccTimer`) times the half-bits of the DCC
  signal on channel A and takes a packet from a ring each time one has gone out.

The first two exclude each other by the recursive lock `hwLock_`, held for a
whole handler or poll. The interrupt takes no lock.

The drivers of the networks have threads of their own: the CAN controller's
interrupt and a watchdog task, which share two queues with the stack under
`buf_lock` and the waiting of `select()` under `select_lock`; and, for WiFi, the
event loop of the ESP-IDF and a second executor, which share an event group and
wake-ups.

| Component | State it keeps | Operations | Correct when |
|---|---|---|---|
| `Channels` | mode, reverse and duty of each output | `set`, `setMode`, `probe`, `flush`, `faulted` | what was set last is driven |
| `Turnouts` | per output: settings, position, a pulse and its start | `attach`, `detach`, `set`, `release`, `update` | a pulse motor is powered for its pulse and no longer; nothing but a turnout is ever released by a pulse |
| `FemtoController`, outputs | role, events, reported mode, latched fault | `apply_configuration`, `drive`, `channel_changed`, `poll_faults` | reports follow the hardware; a reload leaves alone what it does not change |
| `LiveControl` (space 0xE0) | lease, last write, what it left each output with, whether it drove trains | `write`, `poll`, `expire`, `apply_channel`, `apply_loco` | a dispatcher that goes quiet leaves nothing powered that it powered |
| `DCCSource` | running, table of 8 locomotives, cursor and phase of the refresh, ring of 4 packets | `begin`, `end`, `setSpeed`, `setFunction`, `emergencyStopAll`, `update`, the interrupt | packets go out whole and in order; what a locomotive was last told reaches its decoder |
| `ModuleStore` (space 0xE1) | a text, a dirty flag, the last write, a file | `begin`, `write`, `poll`, `commit` | no save while the DCC source interrupts; nothing written is forgotten |
| configuration file | settings in flash | `factory_reset`, memory config writes | not written while the DCC source interrupts |
| event slots (`FemtoBits`) | events of a bit, a pending report | `set_producer`, `trigger`, `poll_33hz`, `set_consumer` | each change is reported |
| event registration and identify | which event is whose | `register_events`, `state_of` | the state reported is the state there is |
| `Occupancy` | per output: state, pending state, filter, pulses | `poll`, `takeTransition` | no flicker, no stale state, no pulse into a driven or shorted output |
| `IoPins`, `PinBank` | debounced levels, latch | `sample`, `takeTransition`, `set` | a settled change is reported once |
| `IoBoards` | boards found, their latches | `configure`, `poll`, `setOutput` | a board that comes back is as it should be |
| `ServoBoards` | per servo: position, target, arrival | `set`, `poll` | a servo arrives where it was sent, and says so |
| `Expander` | port B latch | `setPortBBit`, `flush`, port A for `IoPins` | the mode lines follow `Channels` |
| `Esp32HardwareTwai` | queues of frames to send and received, the sets `select()` waits for | `write`, `read`, `start_select`, the interrupt, the watchdog | no frame is lost uncounted, sent out of order, or left waiting by a lost wake-up |
| `Esp32WiFiManager` | the state of its flow, bits of an event group, connection mode, deferred publications | handlers of network events, `wait_for_connect`, `reload`, `apply_configuration`, `mdns_publish` | hub and uplink run as configured while there is an address; publications are not forgotten |

Calls between components: `FemtoController` owns all the others. An event
becomes `drive`, which calls `Channels::set` or `Turnouts::set`; a configuration
load calls `Turnouts::attach` or `detach`, then `apply_channel`, for each
output; a write of space 0xE0 calls `Channels::set` and then
`FemtoController::channel_changed`, or the DCC source; a poll calls, in this
order, the detectors, `poll_faults`, the boards, `Turnouts::update`,
`DCCSource::update`, `LiveControl::poll` and, when the source is off,
`ModuleStore::poll`.

## Hard behaviours

- Five parties drive one output (events, configuration, live control with its
  lease, faults, pulses) and each remembers something about it: `Turnouts` a
  pulse to end, `LiveControl` what to switch off, `FemtoController` what to
  report and a fault to ignore. A test of one rarely meets the memory of
  another.
- A pulse and a lease end by time, in another thread than the one that began
  them, under settings that may have changed in between.
- The ring is filled by threads and emptied by an interrupt that may come
  between any two stores.
- A full ring drops packets silently, emergency stops included; only the
  refresh makes up for it.
- Saving to flash must not meet the interrupt, may fail, and may be cut short
  by a loss of power.
- Any transfer on the I2C bus may fail, half-way through a set-up too, and
  boards come and go: what the driver believes of a chip may be stale.
- The CAN driver's writer and interrupt both hand frames to the controller, and
  a `select()` may begin to wait while a frame arrives.
- The WiFi flow looks at what the handlers and the configuration left, and goes
  to sleep; whatever changes around that look must wake it.

`PROJECT.json` lists these under "hazards", each at its line with the
properties that cover it.

## The modules

### Outputs

The outputs and everything that may drive one. Handlers and polls exclude each
other, so each is one action.

| Action | Code |
|---|---|
| `ApplyConfiguration(s)` | `apply_configuration` for channels: `Turnouts::attach`/`detach` and `apply_channel` |
| `BlockOn`, `BlockOff`, `BlockDcc`, `Throw`, `Close` | `handle_event_report` and `drive` |
| `LiveWrite(w, timerFree)` | `LiveControl::write`: lease, source, outputs and locomotive parts of one write, in this order; `timerFree` is whether `DCCSource::begin` gets its hardware timer |
| `Poll` | `poll_faults`, `Turnouts::update` and `LiveControl::poll`, in this order |
| `FaultLine(c)` | external: a driver's nFAULT line changes |
| `Tick` | external: time |

`hw` is what `Channels` drives, `reported` is `channel_[].mode`, `motor` is
`Turnouts::Motor`, `set`, `lease` and `locoLive` are `LiveControl`'s. A tick is
longer than the 5 ms between polls, so time moves on only after a poll has
seen the current state (`polled`): without this the model would let a pulse
run on unpolled, which the hardware thread does not. What a write of space 0xE0
covers is a record of parts instead of bytes. `driver` and `quiet` are history
variables for the properties: who last changed what an output is driven with,
and that a lease has run out since the last write. The table of locomotives is
here only the set of those set moving; `DccSource` has the rest.

### DccSource and PacketQueue

`DccSource` models the table, the refresh and the ring. A call into the source
(`ApplyLoco`, `EmergencyStopAll`, `Update`) computes the packets it will queue
(`calls`), and each is then dropped (`Drop`), or copied into its slot (`Copy`)
and published (`Publish`); the interrupt (`PacketSent`) may come between any
two of these. A slot being copied holds `Torn`. `heard` is what an external
decoder has been told. A slot the interrupt has taken is blanked: the code
does not read it again before it has written it. A refresh is possible once
two packets have been sent since the last one, because 30 ms are longer than
two of the longest packets take.

`PacketQueue` is the abstract specification: a bounded queue whose packets are
sent in turn, each as often as was asked, with idle packets between. `RingIsAQueue`
states that the ring implements it, under the mapping that reads the waiting
packets off the ring from `tail` to `head`.

### ModuleStore

The module description and its saves. The writes of a save are several steps
(`Commit`, `Open`, `Saved` or `Failed`) under one hold of the lock, since power
may go between them and the executor may run whatever takes no lock.
`StartConfigWrite` and `EndConfigWrite` are the configuration file's writes,
which take no lock. `measured` is the text whose length `commit` took before it
wrote it.

### Occupancy, EventSlots and BlockReports

`Occupancy` is the detector of one block. A tick is one pass of the detector
over the four outputs, 20 ms, in which it polls this one once; the branches of
`Occupancy::poll` are `Unwatched`, `Driven`, `Unmeasured`, `Resting` and
`Pulse`. The smoothed current is one of three levels, which the surroundings
change at will; so is whether the block is powered and whether its driver has
faulted. `asked` and `steady` are history: which state the readings have been
asking for, and for how long.

`EventSlots` is one bit that the node produces and its slot in the refresh
loop: the hardware thread marks it (`Changed`), the executor clears the mark
(`Clear`), then reads the bit and sends its event (`Send`), and a load of the
configuration makes the slot anew (`Rewired`) and forgets the mark (`missed`).
That the producer sends nothing of an unknown bit is OpenMRN's, and assumed.

`BlockReports` composes the two: `PollOccupancy` is `poll_occupancy`, one hold
of the lock; `Refresh` the refresh loop; `ApplyConfiguration` sets up both
detector and slot. Its actions are made of those of its parts, so that it runs
both as they are needs no property; what is checked is what comes out of it.

### ServoBoards

One servo and light board. A tick is a servo frame, 20 ms.

| Action | Code |
|---|---|
| `Configure(s)` | `ServoBoards::configure`, with the `check` at its end |
| `Set(ch, p)` | `set` and `moveTo` |
| `Poll` | `poll`: `step`, `flush` and a `check` that is due; then `FemtoController::poll_servo_boards` takes the arrivals |
| `PowerCut`, `Line` | external: the board loses its power; the bus fails or recovers |
| `Tick` | external: time |

Every transfer may fail while the bus is not `reliable`, with or without having
done its work, so what `flush`, `init` and `check` do is a set of outcomes
(`Transfers`, `Inits`, `Checks`), and a step of the driver chooses one. `chip`
is the PCA9685: whether it runs and what it sends. `owed` and `shaft` are
history: the commands that were given while the board was there and have had no
arrival, and how long each servo has been given its present width. A channel's
move is a record that is `Still` when there is none; times are kept as ages.

There is one board: boards share the bus and the turn at being checked
(`nextCheck_`), which makes a check come later by at most one poll for each
other board. `Channel::raw` is left out, since only `setPulse` sets it, and that
has no caller; so is the inversion of a light, and a light's curve.

### PinBank and DigitalIo

`PinBank` holds the operators of a bank of up to 16 lines: a mask of the code is
a set of lines, and `Loaded`, `Started`, `Sampled` and `Switched` are the
functions from a bank to a bank that `load`, `start`, `sample` and `set` are.
`DigitalIo` has the bank of the node's own pins and one for each I/O board.

| Action | Code |
|---|---|
| `ApplyConfiguration(s)` | the parts of `apply_configuration` for pins and boards: `IoPins::configure`, `IoBoards::configure` with the `check` of each board |
| `SetPin(l, on)`, `SetLine(b, l, on)` | `drive`, with `IoPins::setOutput`, which writes at once, and `IoBoards::setOutput`, which leaves it to the next poll |
| `Poll` | `poll_pins` and `poll_io_boards`: the latches that wait, at most one check, at most one reading, then the transitions are taken and slots marked |
| `Plug(b)`, `Unplug(b)`, `Noise`, `Input(w, l)`, `Tick` | external: boards, the bus, the inputs, time |

What `setup`, `check` and a write of a latch come to is a set of outcomes, as in
`ServoBoards`. `chip` is the registers of each board and of the expander: the
latch, and which lines are inputs. A PCF8574 has no directions: its latch is its
inputs as well, and lines that are not outputs read high in it. Its `setUp` and
`agreed` are history: whether the chip has been set up in full since its power
came, and the age of the last reading of an input that agreed with its state. A
tick is the 5 ms between two polls, which is also how often pins are read.

### HardwareTwai

The CAN driver. A step is what one of its parties does under one hold of a lock
or with one look at the controller.

| Action | Code |
|---|---|
| `WriteBegins`, `WriteRecovers`, `WriteChecks`, `WritePuts`, `WriteLooks`, `WriteTransmits`, `WritePurges` | `twai_vfs_write`, of one frame |
| `Open`, `Read`, `StartSelect`, `EndSelect` | the other calls of the stack |
| `IsrBegins` | `twai_isr` up to the events it sees |
| `RxBegins`, `RxFrames`, `RxEnds`, `RxSignals` | `twai_rx_frames`, a step for each frame, under one hold of `buf_lock` (`BufFree`), and the wake-up after it |
| `TxFrame`, `TxSignals`, `Restart` | `twai_tx_frame` with its wake-up; the end of a recovery |
| `ChecksState`, `Recovers`, `NotesState`, `ChecksRx`, `PurgesRx`, `ChecksTx`, `PurgesTx` | `twai_watchdog` |
| `Arrives`, `IsSent`, `Changes(state)` | external: the controller and the bus |

A frame is its number;
the stack writes and reads one at a time, as OpenMRN's `HubDeviceSelect` does.
`bus` is the controller, its FIFO and its buffer, `flags` the state the HAL
keeps of it. A frame that arrives while the FIFO is full is overrun: it stays in
the FIFO's count, and the driver finds of it only that it was lost. `TooLong` are
the frames with a DLC above 8. What a frame comes to (`Fate`) is to be queued, or
one of the three counters in `stats`. The controller is one that says of each
frame whether it was overrun, as the ESP32-C6's; the branch for the first ESP32,
which does not (703-706), is left out, so the theorems of two cores are of that
processor's cores and not of its FIFO.

Both the writer and the watchdog write a line of the log between finding that a
recovery is due and starting it, so these are two steps, and the bus may have
changed in between. How long a recovery takes (128 times 11 recessive bits) is
taken to be longer than the interrupt needs to see that the bus went off.

With `Cores = 2` tasks and the interrupt interleave freely; with
`Cores = 1`, as on the ESP32-C6, no task runs while the interrupt does, so every
behaviour of one core is one of two, as the classic ESP32 has, for which the
repository builds as well. The run is of one core; the theorems are of both.
`sent` and `read` are history: the last frame sent,
until something is purged or the bus goes off, and what the stack has read. So is
`bus.astray`: whether a recovery was started that was over, or a frame was handed
to a bus that the interrupt had seen off. Either leaves a flag of the HAL behind
that says otherwise than the controller (see
[below](#where-the-code-and-its-documentation-differ)), and two properties end
there.

### WiFiManager

The WiFi manager of a board that joins a network, the one mode `main.cxx` starts
it in. `Flow` is `WiFiStackFlow`, one action for each of its states, except that
`reload` is three: it looks at the bits, then at the connection mode for the hub,
and again for the uplink. A handler of an event becomes the list of what it has
yet to do (`Duties`), and the others run between two of these. The first
`apply_configuration` starts the executor (`InitialLoad`); later ones load the
mode (`ApplyConfiguration`) and then compare the checksum and wake the flow
(`CompareConfiguration`). The file is its connection mode; a publication that
fails is scheduled again (`PublishFails`). `LOG(FATAL)` restarts the board
(`Restart`). `asked` is history: what was to be published.

OpenMRN's `notify()` of a flow that is queued already is taken to change nothing.

### The others

`MCOutputs`, `MCDccSource`, `MCModuleStore`, `MCServoBoards` and `MCDigitalIo` give the
constants their values. `OutputsProofs`, `DccSourceProofs`, `ModuleStoreProofs`,
`BlockReportsProofs`, `ServoBoardsProofs`, `DigitalIoProofs`,
`HardwareTwaiProofs` and `WiFiManagerProofs` hold the theorems.
A definition whose comment begins with "Mistake:" is what a definition after it
would be with a plausible bug; no specification uses it. It is there to see
that the properties notice.

## The runs

| Run | Instance | Question |
|---|---|---|
| `OutputsA` | channel A, 6 settings, 12 writes, 2 ticks, 1 locomotive | all safety and liveness properties of one output |
| `DccRing` | 4 slots, a table of 1, 2 addresses, functions F0 and F9, 2 commands | the ring is a queue of whole packets; one locomotive is told its functions |
| `DccLive` | 3 slots, a table of 3, 3 addresses, 3 commands | with an odd number of locomotives every decoder is told what was dropped; no address twice |
| `Store` | 3 texts, 3 writes, 2 power cuts, 1 failure | the interlock, whole saves, nothing forgotten, saved in the end |
| `BlockReports` | delays of 1 and 2 ticks, pulses 2 ticks apart, 2 loads of the configuration | debouncing, no change lost between the threads, a train that stays is reported |
| `Servos` | 1 channel, 6 settings, 3 commands, loads or power cuts | what was believed sent is sent; servos rest when settled, arrive when they say so, and get where they were sent |
| `Io` | 2 boards and 2 lines, the second of a 16-line chip only, 4 settings, 2 loads, pluggings or changes of the noise | chips hold what was commanded, outputs start right, inputs are debounced, every board is served |
| `Can` | queues of 2 to send and 1 received, a FIFO of 1, 3 frames to send, arrivals (the second too long) and changes of the error state, 3 at most together, 1 core | no lost wake-up, no idle controller, nothing sent of before a recovery, order, every frame accounted for |
| `Wifi` | 2 services, 2 looks for an address, 3 things done by the network, the owner or others | no wake-up and no publication is lost; the board ends as configured |
| `LeftAlone`, `QuietTrains`, `SpeedRefresh` | | one disagreement each, see below |

Bounds and why they are enough:

- One output has every role change, setting change, command, fault and pulse;
  the outputs share nothing but the lease, the source and the write itself. That
  several of them do not disturb each other is proved, for any number; only
  their liveness is checked for one alone.
- `MaxTicks = 2` lets a pulse or lease be shorter than, as long as and changed
  to shorter than the time it has run. No pulse or lease is longer, and the
  clocks stop there.
- A ring of 4 slots is the code's own `PACKET_SLOTS`; 2 commands with two
  functions each are 6 packets, enough to fill it and to wrap round. A table of
  3 has 1, 2 and 3 locomotives, even and odd, and an address found, added and,
  with the table of 1, refused.
- With delays of 1 and 2 ticks a change is pending for shorter than, as long as
  and longer than its delay, within and across the 2 ticks between pulses. Two
  loads of the configuration can take a block away and give it back.
- `MaxEvents = 3` lets a servo be sent somewhere, sent back and have its board
  reset or replaced on the way. `SETTLE = 2`, `JUMP_SETTLE = 3` and `CHECK = 2`
  keep the order of the code's times, and moves of 2 ticks are longer than one
  frame. The channels of a board share only the transfer; what it sends, and
  when its servos rest and arrive, is proved for any number.
- Two boards are the least that take turns, and one of them may be given the
  other's address. `POLL = CHECK = 1` makes both due at almost every poll, where a
  turn that is not passed on would starve the other; the code's times only make
  them due less often. Debounce times of 0 and 2 polls have a change that counts
  at once and one that must last. `MaxChanges = 2` allows a load before and after
  a board is lost, or a transfer that fails while one is set up.
- A queue of 2 with 3 frames is filled and emptied, and one frame can be in the
  controller while another is written; a queue of 1 received makes frames be
  missed, and a FIFO of 1 makes them be overrun, two in a row. That the queues may
  have any size, and the processor two cores, is proved. Three changes of the
  error state take the bus off and back and off again, or into the passive state
  on the way. `MaxOutside = 3` allows three arrivals, or three changes, or some of
  both, in one behaviour.
- `MaxAttempts = 2` has the board connect in time, just in time and too late;
  with `MaxChanges = 3` a network may go, come back with an edited file, and go
  again.
- `MaxCommands`, `MaxReloads`, `MaxWrites`, `MaxRestarts` and `MaxFailures` bound what
  strangers do to the node; nothing the node does itself is bounded.

What the properties say:

- `PulseMotorNotHeld`, `PulseIsAPulseMotor`, `PulseOnTime`, `PulsesEnd`: a pulse
  motor is powered by turnout control only inside a pulse, a pulse belongs to a
  pulse motor, is over once its length has passed whatever the length is changed
  to, and does end.
- `QuietOutputsOff`, `LeaseOnTime`, `SilenceEnds`: the lease runs out on time,
  and then nothing is powered that live control was the last to change, whatever
  came between.
- `ReportedFollowsHardware`: except on channel A after the DCC source, which the
  code does not report for.
- `ReloadDoesNotInterrupt`: a reload touches neither a block that stays one nor
  a pulse.
- `NothingTorn`, `RingIsAQueue`, `LocosAreDistinct`, `OddTableIsHeard`: of the DCC source, as above. `OddTableIsHeard` is stated for
  odd numbers because it does not hold for even ones (`SpeedRefresh`).
- `SaveInterlocked`, `SavesWhole`, `NothingForgotten`, `RestartKeepsSaved`,
  `SavedInTheEnd`: of the module description. The last but one and
  `NothingForgotten` hold as long as no save has failed.
- `Debounced`, `ToldIsCurrent`, `TrainsAreReported`: a block changes between
  clear and occupied only when every reading of the delay asked for it; no
  change is lost between the two threads, unless by a load of the configuration
  (`missed`); and a train that stays in a measurable block, or stays away, is
  reported in the end.
- `SentAsWanted`, `RestsSettled`, `ArrivalIsReal`, `CommandsAnswered`,
  `ServosGetThere`: a board that answers gives what the driver believes to have
  sent; a servo's pulses stop only once it has had the width it is at for the
  settling time; an arrival is reported when the board gives the servo its last
  commanded position, and for every command, unless the board is lost or a load
  changes the position; and once the bus works every servo comes to be where it
  was sent.

- `ChipsAsCommanded`, `OutputsStartRight`, `InputsDebounced`, `BoardsServed`: a
  board that answers, with nothing waiting to be written, has the outputs it was
  commanded and the directions that were configured; a line that becomes an
  output is in its commanded state at that very transfer; an input changes only
  after every reading of its debounce time differed, and is then marked, once;
  and once the bus works every board that is there is found, written and read
  again and again. Of the pins the first two say only what holds as long as no
  transfer to them has failed.
- `ReaderIsWoken`, `NeverIdle`, `RestartsEmpty`, `SentInOrder`,
  `ArrivalsAccounted`: the stack does not wait for frames beside a queue that has
  some; no frame waits beside an empty buffer of a controller that runs, except
  for someone who is about to hand it over; a bus that was off starts again with
  nothing of before to send, and does not run until then (these two until the HAL
  is led astray); until a purge no frame is sent before an earlier one, and on
  one core none is left out; and every frame that arrived is somewhere, was read
  in order, or counts once as missed, discarded or overrun.
- `Settled`, `PublicationsKept`, `EndsAsConfigured`: when nothing is left to do,
  hub and uplink run as the file says if there is an address, and not at all if
  there is none; what was asked to be published is deferred, scheduled or
  advertised; and when strangers have done all they will, the board comes to run
  and advertise what it should, for good, unless it restarts again and again.

## Fairness

- `Outputs`: `WF(Poll)`, since the hardware thread's state flow schedules
  itself again at the end of every poll. `SF(Tick)`: time passes however
  many handlers run, while a tick is disabled again and again by handlers that
  come between a poll and the tick.
- `DccSource`: `WF(PacketSent)`, the timer; `WF(Drop \/ Copy \/ Publish)`, a
  call runs on; `WF(Update)`, the poll calls it for ever. Nothing is assumed of
  commands, starts or stops.
- `ModuleStore`: `SF(Commit)`, because the executor may take the lock and the
  source may start between any two polls, and the hardware thread still polls
  for ever; `WF(Open \/ Saved)`, a save runs on; `WF(Tick)`. A failure is never
  forced and never excluded.
- `BlockReports`: `WF(PollOccupancy)`, `WF(Refresh)` and `WF(Tick)`, the
  hardware thread, the refresh loop, which runs at 33 Hz for ever, and time.
  Nothing is assumed of the trains, the power, the driver or the configuration.
- `ServoBoards`: `WF(Poll)` and `SF(Tick)`, as for `Outputs`. That the bus works
  from some time on is a premise of `ServosGetThere`, not assumed of every
  behaviour.

- `DigitalIo`: `WF_polled(polled' = ~polled)`: polls and ticks alternate for
  ever, however many commands and inputs come between. That the bus works, and a
  board is there, from some time on is a premise of `BoardsServed`.
- `WiFiManager`: weak fairness of the flow, its timer, the handlers, the
  configuration, a network that lets the station join, and a publication that is
  not refused: each is a thread or the surroundings going on. Nothing is assumed
  of the network going away, of edits or of other publications.
- `HardwareTwai` has safety properties only. Its writer has no wake-up that could
  be relied on (see below).

## The proofs

Every safety and action property of the runs is a theorem, for every value of
the constants that satisfies the named assumptions of its module. These give
types and positive sizes, and in two places more, which the code has as
constants or checks:

- `ServoAssumption`: a servo's two positions are widths that a servo can be
  given, never 0, since `configure` clamps them to 500 to 2500 us
  (`ServoBoards.cpp:44-46`, `121-122`); and `SETTLE` is positive, as `SETTLE_MS`
  is 400 (`ServoBoards.cpp:17`). With 0 for either, a servo would rest without
  having been pulsed.
- `IoAssumption`: `CHECK` is positive, as `CHECK_MS` is 3000 (`IoBoards.cpp:11`).
  With 0, a board lost while its latch was written could be found, set up and
  seeded in the same poll.

The modules:

- `OutputsProofs`: `OutputsSafe` proves `OutputsInv`, the inductive
  invariant, and from it follow `OutputsTyped`, `NoPulseMotorHeld`,
  `PulsesArePulseMotors`, `LeaseReleases`, `ReportsFollow` and `UnusedStaysOff`.
  Three properties are not inductive on their own. `QuietOutputsOff` needs
  `LivePowerIsRecorded`: what live control powered is still in `set_` as it is
  driven, so that `expire` finds it. `PulseMotorNotHeld` needs
  `TurnoutsHavePositions`: a pulse has a position, so that a turnout whose
  motor becomes a stall motor is driven again and its pulse ended. Both need
  `UnusedBeforeConfiguration`. `PolledInTime` and `PulsesOnTime` prove `LeaseOnTime` and `PulseOnTime` from
  what a poll leaves behind it; `ReloadsDoNotInterrupt` an action property.
- `DccSourceProofs`: `DccSafe` proves the invariant of the source, from which
  follow `NoPacketTorn` and `TableIsDistinct`. The strengthening is
  `CopyHasRoom`, that a copy under way belongs to a call, has a free slot and the
  source runs: with the lemma that `head` never waits, the slot that is torn lies
  outside the waiting ones. `RingImplementsQueue` is the refinement: the initial
  state is an empty queue, and each step of the source one of `PacketQueue` or
  a stutter. The ring, read from `tail` to `head` as a function (`Ring`), ignores
  what is written at `head` (`RingIgnoresHead`: `Copy` stutters), grows at its end by
  a publication and shrinks at its front by the interrupt (`RingGrows`,
  `RingShrinks`), round the end of the array or not.
- `ModuleStoreProofs`: `NoSaveWhileRunning`, `SavesOneText`,
  `NothingIsForgotten` and `RestartsKeep`, from an invariant that ties the lock
  to the step the save is in.
- `BlockReportsProofs`: `DetectorSafe` proves the types and `PendingIsAsked`,
  that a pending change has been asked for at least as long as the code counts,
  from which `DetectorDebounces` follows. The composition does to the detector
  what the detector does, and to the slot what the slot does, by its definition;
  so `ReportsAreDebounced` is inherited from the detector, and `NoChangeIsLost`
  is proved of the steps of the slot.
- `ServoBoardsProofs`: `BoardSafe` proves that the driver trusts `written` only
  where the board gives it, and that a poll leaves a board that answers up to
  date, from which `SentIsWanted` follows. Each way a transfer can end
  is a lemma (`SentIsUpToDate`, `LostIsSafe`, ...). What makes it work is that
  a board set up afresh has nothing `written` that could be mistaken for a width
  that is wanted (`PwmIsWritten`).

  For its moves `MovesSafe` proves `MovesInv`: what is pulsed is somewhere known,
  what moves is pulsed, and a servo in position on a board that answers has been
  given that width for as long as it has rested (`RestKnown`). The last ties the
  driver's clock to what the board did, across frames in which transfers failed
  and loads that changed the width; it needs that the board gives what was
  wanted, from `BoardSafe`. `RestsAreSettled` follows. `ArrivalsAreReal` needs
  in addition that a channel that owes an arrival is where it was last sent, or
  moves there (`GoesTo`), whatever a load has made of the position.
  `ServosStayInTravel` is of every `lo` and `hi` that all positions of servos lie
  between (`Travel`): no servo is given a width beyond them, since a move, turned
  round by a command or given a new goal by a load, passes only widths between
  where it is and where it goes (`ServosWithin`, with the division of
  `BetweenStays`). No run states it. `ServoTypeOK` has the same of every channel,
  a light's included, with its clocks (`TypeInv`).
- `DigitalIoProofs`: `IoSafe` proves, besides types, that a board that answers
  and was set up since its power came has its directions, and its latch unless
  it is to be written (`Right`), which gives `BoardsAsCommanded`; and that an
  input for which a delay is being counted has differed at every reading since
  (`WaitsKnown`), which gives `ChangesAreDebounced`. `LatchBeforeDirection` is an
  action property: it looks into the steps of a set-up. The operators of `PinBank` are
  lemmas here, one for each; that the turn at being checked or read goes to a
  board that is ready (`TurnIsReady`) rests on the least of a set of naturals, by
  `WellFoundedInduction`.
- `HardwareTwaiProofs`: `TwaiSafe`. `DriverNeverIdle` and `DriverWakesTheReader`
  need where each party is and which events the interrupt has yet to see
  (`IsrInOrder`). `NeverIdle` looks at the buffer and the driver at the flag
  OCCUPIED: the proof needs that the flag means a frame in the buffer, or
  something the interrupt has yet to see (`OccupiedMeans`), that while it is clear
  somebody is about to look at the frames that wait (`LooksAtOccupied`), and that a
  bus that recovers leaves nothing behind for when it runs again
  (`RecoversEmpty`), which is `DriverRestartsEmpty` too. All of these end where
  the HAL is led astray. `DriverSendsInOrder` needs that the frame in the controller
  is the first of the queue (`BufferIsFirst`), and, for none being left out, that
  on one core the interrupt that follows a frame finds it sent and at the head
  (`OneCoreInOrder`). That part failed on two cores, and the failure is one of
  the code, see below. `DriverAccountsForArrivals` follows a frame through what
  may become of it, one at a time (`FrameTaken`, `FrameAccounted`): a frame that is
  not queued is taken out of the middle of those that arrived, which still rise
  (`MiddleTakenOut`).
- `WiFiManagerProofs`: `WiFiSafe`. `NoWakeUpLost` needs that the bits, once the
  handler and the events on their way are done with, say where the station is
  (`EventsLead`), that a handler that will wake nobody clears nothing that is set
  (`HandlerKnown`), and that a flow that nobody is about to wake has done what
  the bits and the configuration ask for, as far as it has come (`FlowFollows`).
  `ServicesKept` is inductive with the types.

Only model-checked is liveness: `SilenceEnds`, `PulsesEnd`, `OddTableIsHeard`,
`SavedInTheEnd`, `TrainsAreReported`, `CommandsAnswered`,
`ServosGetThere`, `BoardsServed` and `EndsAsConfigured`. It needs fairness, with
ENABLED, which is out of the prover's reach. That the type invariants hold is
proved, and not among the properties of the runs.

## Where the code and its documentation differ

Three runs are expected to find their property violated:

- `LeftAlone`: an output that changes from a powered block to a turnout left
  alone at power-on keeps the block's signal (`FemtoController.cxx:549`).
- `QuietTrains`: `end` clears `locoLive_` but not the table, so after a stop and
  a start trains run from the refresh and the lease does not stop them
  (`LiveControl.cxx:141`).
- `SpeedRefresh`: cursor and phase of the refresh move in step, so with an even
  number of locomotives the speed of some is never refreshed, and an emergency
  stop that was dropped is not made up for (`DCCSource.cpp:340-356`).

Differences met while modelling, which have no run:

- A block that stays Unknown keeps what was pending, so that one reading may
  declare it occupied once it can be measured again (`Occupancy.cpp:187-194` and
  `260-263` against `Occupancy.h:71`).
- A servo on a board just found that is moving, or is commanded soon after, is
  not pulsed for a full swing (`ServoBoards.cpp:286` against `265-267`).
- The configuration file is written to flash while the DCC source interrupts
  (`main.cxx:179`, `FemtoController.cxx:563`, against
  `software/openmrn/README.md:521`).
- Purging the CAN queue of frames to send is said to wake a stack that waits for
  space (`Esp32HardwareTwai.cxx:282-283`), and wakes a `select()` for exceptions
  only (300-303), which the stack does not ask for. With `start_select` not
  looking for space either (616), a writer that waits is woken by the next frame
  the interrupt sends, or not at all when there is none.

The properties above leave out what else the code does not keep: a save of the
module description that fails is not tried again (`ModuleStore.cxx:112`); a load
that changes a servo's position forgets an arrival that waits for the next poll
(`ServoBoards.cpp:168`); F13 to F28 are
stored and never sent (`DCCSource.cpp:287`); consumed events drive channel A
while the DCC source has it (`FemtoController.cxx:881-907` against
`LiveControl.cxx:126`); a load of the configuration forgets events that were
about to be sent (`FemtoBits.hxx:120`); starting or stopping the source
changes channel A without a `channel_changed`, and powers it even when it is
unused; a `begin` that gets no timer leaves it powered, outside the lease; a
driver that is commanded again while its fault is latched stays on
(`FemtoController.cxx:1228`); a write of a pin's output or directions that fails
is not tried again (`IoPins.cpp:150-152`, `174`); an input that changed while its
board was missing is taken as it is, without an event (`IoBoards.cpp:175`).

Of the CAN driver: the watchdog purges the received frames when as many wait as
10 s before, though they may be others (901, against 854); it purges those to
send only once one has been sent (912); a bus that went off is told to recover
by the next write alone (325); a frame may be handed to the controller by the
writer and by the interrupt, and be sent twice (370, 745), and on two cores the
interrupt may then take the end of the second for the end of the frame behind it,
which leaves the queue unsent (724-745); a write that failed
returns 0 and not -1 (404). A frame handed to a controller whose bus the
interrupt has seen off, as the writer does when the interrupt comes between its
look and its lock (370-387), and the interrupt when it sees the end of a frame
and the bus off at once (724-745), leaves OCCUPIED set beside an empty buffer: nothing clears the flag
when the bus recovers, so the frames written then wait, with nobody at work, until
the bus goes off again or the queue is purged. And the writer (325-329) or the
watchdog (890-895), having found a recovery due and written a line of the log,
may start one that is over: the flag RECOVERING is then left on a bus that runs,
and the next change of the error state counts as the end of a recovery. On these
two `NeverIdle` and `RestartsEmpty` end (`bus.astray`).

Of the WiFi manager: the checksum is compared with that of the last
`apply_configuration` (421), so an edit taken back while the flow loads the
first one leaves the uplink with the parameters of the first; a `stop_uplink`
before the uplink has connected closes whatever `uplinkFd_` was (611); a hub
that is stopped stays advertised (566-570); an event that wakes the flow while it
waits for an address uses up one of its looks (1426); `mdns_unpublish` of a
publication that is deferred leaves it there (792-796).

## What is not modelled

- The arithmetic of current sensing, the bits of a DCC packet, the PWM and pin
  writes of `Channels`: data the properties do not tell apart.
- `LiveControl::read`, `ModuleStore::read` and `length`: they change nothing.
- `ModuleStore::clear`: it has no caller.
- The event slots of pins, boards and servos: the same slot as a block's, which
  `BlockReports` composes with its source. Pull-ups, and the speed of the bus.
- `Expander`'s port B: one bit of what `Outputs` drives, in one transfer that does
  not fail there; `begin` at start-up.
- Of `Esp32HardwareTwai`: `close`, `ioctl` and `fcntl`, the reset of the
  controller by the ESP32's errata (not on this chip), the overrun of a controller
  that does not say which frame it was (703-706), counters other than
  `rx_missed`, `rx_discard` and `rx_overrun`.
- Of `Esp32WiFiManager`: access points, scans, the clock, radio power and sleep,
  the shutdown mode, how an uplink looks for its hub (`Esp32SocketParams`,
  `mdns_lookup`), and the callbacks of others.
- Of `ServoBoards`: the checks of addresses, and the messages printed when a
  board is found or lost.
- `Occupancy::calibrate`, `setDelays` and `pulseOnce`: they have no caller or
  change nothing that is modelled.
- Start-up, the CDI layout, `I2cBus` and the Arduino glue: straight-line
  code or declarations.
- OpenMRN itself, the rest of the overrides, and everything outside
  `software/openmrn`.

## The plan

1. Done: `Outputs`, `DccSource` with `PacketQueue`, `ModuleStore`, their runs
   and proofs.
2. Done: `EventSlots`, `Occupancy`, and `BlockReports`, which composes them,
   with their run and proofs.
3. Done: `ServoBoards`, its run and that it sends what is wanted.
4. Done: `PinBank` and `DigitalIo`, `HardwareTwai`, `WiFiManager`, and their
   runs.
5. Done: the ring implements `PacketQueue`, `RestsSettled`, `ArrivalIsReal`, and
   the safety of `DigitalIo`, `HardwareTwai` and `WiFiManager`. With these no
   safety property of a run is without its theorem.
6. Next: what liveness stands on and can be stated without fairness. Of
   `ServoBoards`, that a servo that is not where it was sent is on its way or on
   a board that is away; of `Outputs`, that a pulse or lease under way has a clock
   that runs; of `DigitalIo`, that the turn at being checked and read goes
   round.
