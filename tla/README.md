# AutoTux: models, checks and proofs

AutoTux is a miniature autonomous car. A low-level board (STM32, ChibiOS, `src/stm32`)
drives engine, steering and sensors; a high-level board (Odroid, Linux, `src/Odroid`) runs
the programs that see and decide. One USB serial connection joins them: control packets go
down, sensor reports come up. This directory holds TLA+ specifications of the parts where
order, timing and failure matter, the TLC configurations that model-check them on small
instances, and proofs checked by TLAPS for every value of the constants.

## The system

```
 RC transmitter --pulses--> STM32: main loop (sensorInput, controlOutput) --PWM--> engine, steering
                                   |  controlData, sensor values (shared, cooperative threads)
                            STM32: serial thread (serialConnection, packetHandler)
                                   |  USB bulk transfers (queues of the ChibiOS driver)
 Odroid, AutoTuxProxy:      handler thread (SerialHandler, SerialIOImpl, libusb)
                                   |  SerialBuffer (two deques, four mutexes)
                            proxy thread (Proxy) --- OpenDaVINCI conference --- LaneFollower,
                                                     DecisionMaker (Overtaker, Parker), ATConfigurator
```

| component | state | operations | interacts by |
|---|---|---|---|
| SerialBuffer | `buffer_in`, `buffer_out`, mutexes `arb asb rrm rsm` | append/read of each deque | called by the proxy thread and the handler thread |
| SerialHandler, SerialIOImpl | `running`, libusb handle | run loop, connect, claim, read, write, reconnect, disconnect, stop | libusb transfers, SerialBuffer |
| packetHandler | `buffer`, `bufferCounter` | add a byte, read a packet, send a packet | called by the serial thread |
| serialConnection | counter of iterations without a packet, link flags | receive part, send part | USB driver queues, `controlOutputSetData`, `sensorInputGetData` |
| controlOutput, hardwarePWM, hardwareRC | latest command, "is new" flag, watchdog counter, static variables of `rcModeCheck`, measured and output pulse widths | iteration, set data, interrupts of the receiver | main loop; command from the serial thread |
| sensorInput, hardwareUS/WE/IR | distances, zero counters, wheel ticks | measuring iteration, wheel interrupt, report | main loop, interrupts, serial thread |
| Proxy | data store (latest `VehicleControl`) | body: read report, send command | SerialBuffer, conference |
| DecisionMaker, Overtaker, Parker | operator's state, stop-line latch, states of two state machines | body, per state: lane following, overtaking, parking | conference messages |
| LaneFollower | stop-line counter, steering controller | image processing | conference messages |
| ATConfigurator | UI state, conference singleton | menus, monitors | conference messages |

The two threads of the board have equal priority and no time slices
(`CH_CFG_TIME_QUANTUM 0`), so they switch only where one of them sleeps or waits; interrupts
come at any time. The handler thread and the proxy thread of the AutoTuxProxy run
concurrently.

What is hard here: two threads over a buffer whose locks do not exclude each other; bytes
lost and packets split at any byte; a peer that is killed, restarted or unplugged at any
step; two counters that bound a queue in another program; a watchdog, an RC takeover and a
brake that all write the same outputs; state machines that are left half-way and entered
again. PROJECT.json lists each of these hazards at its line with the properties that
would catch it.

What makes each component correct:

- SerialBuffer: the newest packet is stored, a read returns nothing older or undefined,
  no call ends without giving its mutex back.
- SerialHandler: transfers only on a claimed handle, one release per claim, an unplugged
  board is noticed and the link comes back, `stop` ends the thread.
- packetHandler: no packet is acted on before it was sent in full; the newest one
  whose bytes were neither lost, dropped nor cut off is read when an iteration ends. That the newest packet is always delivered, as its comments
  have it, is not so (`packet_lost`).
- serialConnection: the thread never waits in the driver, bytes that wait are taken, reports keep
  flowing while valid packets arrive.
- controlOutput: the car stops when nobody is in charge, and only then; RC mode switches
  by the gesture only; a command is carried out.
- Overtaker: its flags and control values fit its state, each leg has its length, it moves on
  only after enough readings in a row, it returns to the right lane.
- DecisionMaker, Parker: a stop at a line is held in every frame that follows the lane and ends in
  LANE_FOLLOWING, PARKING does not move the car in a safety stop, the car backs into the gap it
  measured, whatever the operator chooses meanwhile.
- Sensor input: the distance that reaches the host is not ahead of the car, a zero enters the
  average of a sensor only after more than one read of it without an echo, the silence of all sensors is reported in the end.

## Modules

| module | models | state and actions |
|---|---|---|
| `SerialBuffer` | SerialBuffer.cpp, called by any number of threads | one action per access of the deque or of a mutex; a copy from a vector destroyed under it returns garbage or ends the process; the byte search of `appendReceiveBuffer` is one action per pass of its loop (`PassByte`, `JumpOver`, `EndScan`, `ScanFaults`) over the positions of the delimiters |
| `MCSerialBuffer` | the two threads of the AutoTuxProxy and what each may call; transfers cut out of the stream of packets | constants and the cutting of the stream |
| `PacketHandler` | packetHandler.c, byte by byte, fed by the loop of serialThread | `ReceiveByte` (add to the buffer), `LoseByte` (reset of the link), `ReadPacket`/`NoPacket`/`TooFewBytes` (end of an iteration) |
| `RcModeCheck` | the function `rcModeCheck` | its static variables as a record, the call as an operator |
| `ControlOutput` | controlOutput.c with hardwarePWM.c and hardwareRC.c | `Measure` (interrupts), `SetData` (serial thread), and one action per stretch of `controlOutputIteration` between two reads of a pulse width: the throttle is read once for RC mode and twice for the brake (`AskBrake`, then `RcBrakes` or one of the actions under `NotBraking`) |
| `SafetyStop` | abstract: a dead man's switch | moving, iterations left, command pending, manual |
| `MCControlOutput` | commands and pulse widths for TLC | constants only |
| `SerialLink` | SerialHandler::run, SerialIOImpl, with the USB bus as environment | one action per libusb call and per sleep |
| `SerialConnection` | serialThread, the driver's output queue, the loop of the handler thread | `ReceivePacket` (a valid packet), `ReceiveNoPacket` (bytes without one, which count as no reception), `ReceiveNothing`, `SendReport`/`SendNothing` (board), `ReadReports`/`ReadTimesOut`/`WriteCommand`/... (host), `Unplug`/`Plug`/`Start`/`Kill` |
| `LaneChange` | abstract: what the Overtaker promises the DecisionMaker | who steers, which lane the car is on, and the phase between |
| `Overtaker` | Overtaker.cpp | one step is one call of `obstacleDetection` in which the car has moved by `d`: `Finds` is `resetFSM` followed by the `switch`, and each state has an action for staying in it and one for leaving it (`TurnLeft`/`TurnedLeft`, `SearchCorner`/`CornerPassed`, ...) |
| `MCOvertaker` | readings and angles for TLC | constants only |
| `Parker` | Parker.cpp | `FindSpot`, `ParallelPark`, `GoBackToLane`: one action per call, with one disjunct per state and outcome; `NotCalled` for a frame without a call |
| `DecisionMaker` | DecisionMaker.cpp, on top of `Parker` | one step is one pass of the loop of `body`, one action per branch (`LaneFollowing`, `Driving`, `SearchSpot`, `Park`, `StayParked`, `Resume`, `ResumeDone`); the operator's state is any of the four in each frame |
| `MCDecisionMaker` | readings and angles for TLC | constants only |
| `SensorInput` | hardwareWE.c, hardwareUS.c, the distance of sensorInput.c and its decoding in VDContainer.cpp | `IncrTicks` (interrupt), `BeginReport`/`ReadByte` (serial thread), `ReadEcho`/`SkipZero`/`TakeZero`/`ReadFails` (main thread, one sensor each) |
| `*_proofs` | theorems about the module of that name | |

`RcModeCheck` is extended by `ControlOutput`; `SafetyStop` is instantiated by it as its
abstract specification, and `LaneChange` likewise by `Overtaker`. `DecisionMaker` extends `Parker`. External parts (libusb, the ChibiOS driver, the processes) are
modelled from how the code uses them and marked external in PROJECT.json.

Comments "Mutant:" precede variants of a definition with a plausible bug; each property
is violated when one of them replaces the original, which shows what the property guards
against.

## Runs

| run | configuration | shows |
|---|---|---|
| `serial_buffer` | 2 threads, 2 appends per deque, packets of 3 bytes, transfers of up to 2 whole packets with what is left of their neighbours | `LatestStored`, `FreshRead`, `CallsReturn` over every interleaving of single accesses; `NewestUnlessCorrupt`, `LeavesOnlyOverCorrupt` of the byte search |
| `serial_buffer_race` | same, transfers of one packet | **violated** `NonEmptyAfterTest`: read and append of a deque hold different mutexes, so the append's `clear` can come between the size test and `at(0)` |
| `packet_handler` | buffer of 12 bytes (three packets), 6 packets, 1 lost byte | `OnlyWholePackets`: no packet is read before its last byte was sent; `NewestUncutRead`: the newest packet is read when an iteration ends unless the link lost, an overflow dropped or an earlier read cut off one of its bytes |
| `packet_lost` | buffer of 10, 5 packets, no loss | **violated** `NewestDelivered`: a read discards also the bytes received behind the packet it found, so the packet they began is never delivered |
| `control_output` | limits 2, 3, 2; three commands, pulse widths on every side of every threshold | stopped stays stopped, the gesture, refinement of `SafetyStop`, two liveness properties |
| `control_silence` | same, histories to 7 | **violated** `EngineStopsWhenSilent`: while the transmitter's brake is held a command stays new, and is carried out afterwards however old it is |
| `serial_link` | 2 leaked handles counted | handle discipline, `UnplugIsNoticed`, `LinkComesBack`, `StopEndsThread` |
| `serial_connection` | the constants of the code (5, 16, 8, 2) | `NeverBlocks`, `CommandsTaken` whether or not bytes hold a valid packet; `ReportsFlow` if not only garbage arrives |
| `overtaker` | legs of 1 to 3, 3 readings, 2 averaged frames, reset after 3 frames | `ControlFitsManoeuvre`, `LegsMeasured`, `RightSideHeld`, refinement of `LaneChange`, `ReturnEnds` |
| `decision_maker` | paths of 1 or 2, counts of 2, a stop of 2 frames, four readings | while the operator chooses any state before any frame: `StopHeld` (every frame that follows the lane, in LANE_FOLLOWING, DRIVING and the search of PARKING), `StopEnds` (in LANE_FOLLOWING), `SafetyStopFinal` (frames of PARKING), `BacksAtGap` |
| `parker_reversing` | same | **violated** `ReversesWithRoom`: in PHASE3 the car goes on reversing below the limit of the rear sensor when the front sensor is below its limit too, or hears nothing |
| `sensor_input` | 2 sensors, one range, a tick that carries into the next byte | `TornOnlyAtCarry`, `ZerosDiscarded`, `QuietSettles` |

Bounds, and why they suffice:

- `PacketSize = 3` with header, value and comma (16 in the code): the jump of `PacketSize + 1` bytes
  from a comma lands on, before and behind the start of the data, depending on the tail
  the transfer begins with; two packets give each combination of good and corrupt neighbours.
- `MaxAppends = 2`: a read can meet an older, a newer and no packet; more appends repeat
  these cases.
- `PacketHandler`: a control packet is four symbols (start, data, checksum, comma; the code's
  seven bytes differ only in how many data bytes they carry, which no property distinguishes),
  and the code's 128-byte buffer is 12 or 10 symbols. In 12 a half of the buffer holds one and a
  half packets and in 10 one and a quarter, so the half that is discarded cuts packets at
  different offsets, as 64 bytes cut packets of seven; six packets fill the buffer twice over,
  and one lost byte shifts the offset of every packet after it.
- `ControlOutput`: limits of 2 and 3 iterations are reached, passed and reset on every
  path; the pulse widths contain a value on each side of every comparison.
- `HistoryBound` only ends the counting of the history variable `silent`. It is 0 where no
  property reads it.
- `MaxLeaked` only ends the counting of leaked handles; no guard reads it.
- `Overtaker`: `MaxStep = 1` and legs of 1 to 3 make every leg last several calls, in each of
  which the car may also stand; with 3 readings, 2 averaged frames and a reset after 3 frames each
  counter is met at zero, between, at its limit and left over from a manoeuvre given up. The
  readings -1, 2, 4, 6 lie on both sides of every range, the angles on both sides of both bends.
  `Farthest` caps two lengths beyond every guard that compares them.
- `DecisionMaker`: paths of 1 or 2 frames with `MaxStep = 1`, counts of 2, a stop of 2 frames, so each
  leg is met before, on and behind its end and each counter below, at and beyond its limit.
  The readings 5, 8, 12, 40 lie on both sides of every limit of the code (which keep their
  values, in cm). `BACKING_STRAIGHT` is 2 as in the simulation's constants; with the 0.00 of the
  real car PHASE2 lasts a frame. The theorems hold for both.
- `SensorInput`: two sensors as on the car; the ticks begin at 104 (253 cm) and the next one (256 cm)
  carries into the second byte, which is where a report can be torn. The distance is exact up to
  `FloatExact` ticks, the first count at which the code's float arithmetic rounds to another
  centimetre (found by comparing the two for every count up to it).
- `SerialConnection` has no bound beyond the code's own constants.

Deadlock is looked for in every run except where the cfg says otherwise: the serial
buffer may have used up its appends or died of an exception, and the byte stream of the packet handler is
finite.

Fairness: `SerialBuffer` assumes that a thread inside a call is scheduled, and nothing about
calls being made (no fairness of the mutexes: they are held for a few steps each).
`ControlOutput` assumes that the main loop runs (it waits for nobody). `SerialLink` assumes that the
handler thread runs and every libusb call returns (they have timeouts). `SerialConnection`
assumes the same of the board's thread and of a handler thread whose process lives; nothing is
assumed of the cable, the process or the proxy thread, which the liveness properties mention as
premises instead. `ReportsFlow` has one premise more, `PacketsFound`: a board that receives bytes without a
valid packet again and again also finds valid ones again and again. It is needed: bytes without a packet
go on counting towards the end of the reports (serialConnection.c:195-199), and nothing in the code
guarantees that a packet is found, the loss shown by `packet_lost` included. `Overtaker` assumes that there is a next frame (the DecisionMaker is
time-triggered and its operator's state stays DRIVING), not that the car moves: a call on a standing
car is a step too, and counts it closer to the reset. `DecisionMaker` assumes the same next frame, in
any of the operator's states. `SensorInput` assumes that the main loop goes on reading its sensors
(every i2c call has a timeout), and nothing of wheel and reports.

## Findings

The violated runs above are findings, each a disagreement between code and a comment or
document: see PROJECT.json for the quotations. One result is neither a bug nor in any
document: `NeverBlocks` holds because the constants fit **exactly**. With
`MAX_ITERATIONS_WITHOUT_RECEIVE` = 5, 16 reports to a driver buffer and 8 to a `READ_LEN`,
both conditions of `RoomAssumption` (3 * 5 + 1 <= 16 and 3 * 5 + 1 <= 2 * 8) hold with equality; with a limit of
6, a report of one byte more, or a shorter `READ_LEN` the serial thread can end up waiting in the
driver for a host that does not read.

Seen while modelling, and covered by no run of their own:

- `appendReceiveBuffer` says "when is a 'proper' packet, i.e. size == 16 then jump over"
  (SerialBuffer.cpp:97-98), but `it -= SBDPKTSIZE` comes on top of the loop's own step: 17 bytes. A good
  packet directly before a corrupt one is never found, and a transfer that begins with a corrupt packet
  runs past the start of the vector, which the loop, testing for equality, never notices.
  `NewestUnlessCorrupt` and `LeavesOnlyOverCorrupt` say that this is the only way it goes wrong.
- Three ways in which the receive buffer differs from its comments meet in `NewestDelivered`: the
  bytes behind a packet that is read are dropped (packetHandler.c:136-137, the shortest counterexample), the
  newest byte goes with the oldest half of a full buffer (:87-92), and what a read leaves behind, its own
  comma and bytes of older packets, is searched again, so a packet can be delivered twice or an old one
  after a new one.
- `packetHandlerAddToRcvBuffer` writes the byte that follows a full buffer one past the array before
  half of it is discarded (packetHandler.c:87-94); `AddPastTheEnd` models it as harmless memory.
- With a dead link `rcModeCheck` runs twice in an iteration (controlOutput.c:139), so the gesture takes
  half the "consecutive iterations" of autotuxconfig.h:92. `SwitchNeedsGesture` counts calls.
- The reset of a standing car leaves the overtaker's override flag set (Overtaker.cpp:175): on the free
  lane nobody follows the lane until the next obstacle, although the report has the overtaker
  release control (doc/final_report/tex/ch2.tex:158-160).
- The distance is computed anew for each of its four bytes; a tick in between can make the report
  2.5 m too short for one report (`TornOnlyAtCarry` says when). The speed is read twice, for
  the test and for the cast.
- hardwareUS.c:147-148 and ch3.tex:98-99 have readings of 0 discarded until at least three
  consecutive ones occur. The code does not keep this, because the sensors share one counter: after zeros of
  the other sensor the second zero of a sensor is averaged (or its first, if its reads failed
  meanwhile), and a sensor that hears nothing while the other hears echoes keeps its last value for
  ever. `ZerosDiscarded` says exactly what is left: three zeros are discarded while no other
  sensor reads any, otherwise fewer, and with two sensors never fewer than one read without an echo before the zero.
  `QuietSettles` promises the 0 only if all sensors fall silent. The ring begins with zeros, so the first averages are too short. sensorInput.c:77 tests
  the rear infrared sensor for non-zero where its neighbours test for < 255, so 0 is sent as 255.
- A line that stays in view stops the car again as soon as it woke up. `isStopLine` is kept
  when the operator leaves LANE_FOLLOWING: the car then stands in DRIVING and in the search of PARKING for
  good, where ch2.tex:24-32 has it stop temporarily and follow the track while it looks for obstacles
  or a spot. `StopHeld` says that the latched stop is held; `StopEnds` needs LANE_FOLLOWING for its end.
  A frame in which the overtaker or the parker steers moves the car whatever the latch says, and
  so does RESUME in a safety stop, which `SafetyStopFinal` does not cover.
- The throttle is read twice for the transmitter's brake (controlOutput.c:89-90): one that falls from
  above the range to below it between the reads counts as braking. `CommandIsOutput` counts it as such.
- A handle whose interface could not be claimed is overwritten by the next one and never closed
  (SerialIOImpl.cpp:132). `stop` is not noticed while the board is away (SerialHandler.cpp:159).
- Leaving PARKING while a gap is measured, or between the discovery of a spot and the manoeuvre,
  and coming back measures the path driven meanwhile as gap (`BacksAtGap` holds only without
  `missed` frames). After parking and RESUME, `isSpot` and `isParked` are never reset, so
  choosing PARKING again sends whatever was sent last, frame after frame. When RESUME is over, the last control (speed 1, left) is sent on
  until the operator chooses another state, because the assignment to `state` is overwritten
  by the next frame.
- On the real car (`BACKING_STRAIGHT` 0) PHASE3 begins with speed 0: if both sensors are close in its first
  frame, the same two tests leave the car standing.

## Proofs

Theorems are of the form `Spec => []Inv` or `Spec => [][Action]_vars`, both by an inductive
invariant `IInv`, or `Spec => Abstract!Spec`; two state what an abstract specification gives its
implementation. Some of the properties are proved and not among the runs (a run costs a search,
and these say the same for every configuration); they stand beside the others in their module.
Many of these are *safety cores*: where a run checks that something happens in the end, the
theorem states a variant, an upper bound of the steps left that each step of the code lowers (or
what is gained instead, where the bound is of several kinds). With the fairness of the run that gives the
liveness property; the proof says by which steps the end comes near, for all constants.

- `SerialBuffer_proofs` (any set of threads, any rights to call, any packet size and transfers): types,
  `LatestStored`, `FreshRead`, `NewestUnlessCorrupt`, `LeavesOnlyOverCorrupt`. The invariant adds who holds which mutex (`LocksHeld`) and what a read in progress
  has seen (`ReadInProgress`): without the former two appends of a deque could overlap. For the byte search it adds where the
  iterator may be at each point of an append (`ScanLocals`). From the same invariant follow `MutexesReturned`,
  `FailsOnlyUnderAppend` (how far the missing common mutex of append and read reaches) and
  `CallsGetShorter`: the search goes down through the data and an iterator that left it ends the
  call or the process.
- `PacketHandler_proofs` (any even buffer size of at least two packets): types,
  `NewestUncutRead`, `OnlyWholePackets`. For the former the invariant says where in the buffer the last bytes
  stored lie side by side, how many of them an overflow leaves, and that a read leaves none of them
  (`TailIntact`); a packet that lies among them in full is the last one a search from the end can meet. `OnlyWholePackets` is not
  inductive: a shift leaves commas of older packets behind its counter, and one of them could close the
  packet that is still on its way. The strengthening says that a check byte in the buffer, used
  part or not, belongs to a packet of which at most the comma is missing (`ChecksSent`), and if it is
  missing, this check byte is the last byte of the used part while a read may follow
  (`CheckLast`), so that nothing can stand behind it.
- `ControlOutput_proofs` (any limits, commands and pulse widths): types,
  `UnattendedCarStops`, `StoppedStaysStopped`, `SwitchNeedsGesture`, and `DeadMansSwitch`, the
  refinement of `SafetyStop`. The invariant relates the history of idle iterations to the watchdog's counter
  at every point of the loop, what was stopped to the stored command, and the gesture's counters to
  its history. Also proved: `ModeTakesBothSteps`, `CommandsAreLimited`, `CommandIsNotLost` (the watchdog
  never overwrites a command that is new, because `controlOutputSetData` runs only where the main thread waits
  for its sensors; the interrupts that come between the two reads of the brake do not touch it), and of the abstract switch `MovesOnlyWhileLeft`, the reason why a run down counter
  means a standing car.
- `SerialLink_proofs`: types, `TransferOnClaimed`, `ReleasedOnce`, from what the handle is at
  every point of the thread; and three variants over the same points: while the bus is free, the steps to the next write
  (`EachStepNearsWrite`) and to the end of a stopped thread (`EachStepNearsEnd`; nothing is claimed while the
  board is away, because the loop of reconnect does not look at `running`), and the steps to the closing of a dead
  handle (`EachStepNearsClose`).
- `SerialConnection_proofs` (any constants that meet `RoomAssumption`): types and
  `NeverBlocks`. The invariant counts the reports *committed* to the buffer being filled: those in it
  and those the board may still send for the commands it has. A write commits to at most
  `MAX_ITERATIONS_WITHOUT_RECEIVE` more; writes and reads alternate; so the bound depends on how many reads the
  buffer before still needs, and the more it needs, the fewer reports were left to commit when it was
  full (`AnyBound`, `WriteBound`, `LostBound`). `TakenInTwoSteps` and `AnswersFollow` use it: a step of
  the board never waits, so the bytes of a command are read within two of them, and a valid packet
  is answered in the next.
- `Overtaker_proofs` (any lengths, counts, readings and angles that meet `StepAssumption`): types,
  `ControlFitsManoeuvre`, `LegsMeasured`, `RightSideHeld`, and `ChangesLane`, the refinement of
  `LaneChange`. The invariant adds that the readings counter is 0 where the sensors beside the
  obstacle come into use and counts the frames in a row from there (`ReadingsCounted`), that the path driven
  while the angle is averaged is that of the frames counted (`AngleFramesCounted`: without it
  the right switch could begin with any path behind it, also because the counter of these frames
  survives a reset), and that the wheels are set before a state relies on them (`ControlSet`). It gives
  also that no leg is driven too far (`NotTooLong`) or left too early (`NotTooShort`), and that every call of a
  return advances it (`ReturnAdvances`); `FlagsFitPhase` is what `LaneChange` promises.
- `DecisionMaker_proofs` (any lengths, limits, readings and counts that meet `FrameAssumption`): types,
  `StopHeld`, `SafetyStopFinal`, `BacksAtGap`. The invariant ties flag and counter of a stop to the speed
  that is kept and to the control of frames that follow the lane (a stop survives the states that do not look for a line because they do not touch
  it), the phase of the manoeuvre to the spot (`parked` only in PHASE4, so that no safety stop follows),
  and the history of the gap to the path the code compares
  (`GapMeasured`: equal always, and bounded while no frame passed without the parker). The order
  of what spans many frames is proved as action properties over every choice of the operator:
  `StopIsCounted`, `ParksInOrder`, `WayBackInOrder`.
- `SensorInput_proofs` (any number of sensors, ranges and ticks up to `FloatExact`): types,
  `TornOnlyAtCarry`, `ZerosDiscarded`. `PathSoFar` says that the bytes read so far are at most what the
  distance has to their left, and exactly that while nothing carried; `ZerosCounted` bounds the shared counter by
  the silent reads of every single sensor, and `ZerosOwn` by the zeros of one while no other has read any. `AverageInside` and `ZerosSink` rest on the value being the average of the
  ring at all times (`Averages`) and on a lemma about the rounded average of four numbers.

Assumptions are those named in the modules (`...Assumption`): ranges of the constants,
`RoomAssumption`, and `StepAssumption` and `FrameAssumption` (in one frame the car drives no
further than the first leg of an overtaking, or the adjustment before parking, is long; nothing in the code enforces it,
it holds because frames are short).

Model-checked only: every liveness property (`CallsReturn`, `LostLinkStops`,
`CommandIsOutput`, `LinkComesBack`, `UnplugIsNoticed`, `StopEndsThread`, `ReportsFlow`, `CommandsTaken`, `ReturnEnds`,
`StopEnds`, `QuietSettles`), because the provers do not reach fairness. Their safety cores are proved: in the same order `CallsGetShorter` with
`MutexesReturned`, `DeadMansSwitch` (its step `Coast`) with `MovesOnlyWhileLeft`, `CommandIsNotLost`, `EachStepNearsWrite`,
`EachStepNearsClose`, `EachStepNearsEnd`, `AnswersFollow`, `TakenInTwoSteps`, `ReturnAdvances`, `StopIsCounted`, and
`ZerosSink` with `AverageInside`. What remains with TLC is that the steps are taken, and the
counting down of a variant to its end. Without a run of their own are these properties and
`UnattendedCarStops` (implied by `DeadMansSwitch`), `FailsOnlyUnderAppend`,
`ModeTakesBothSteps`, `CommandsAreLimited`, `NotTooLong`, `NotTooShort`, `ParksInOrder` and
`WayBackInOrder`, all of which TLC confirmed on the configurations of the runs before they were proved.

## What is abstracted, and what is not modelled

- `SerialBuffer`: a transfer is the positions of the commas that close a packet and of those too
  early to; bytes that look like delimiters inside a packet are left out (they would be another
  entry of `frames`), as is what the memory before the vector holds (`Found` and `ScanFaults` allow both
  outcomes).
- `SerialConnection`: a report is written between two start-of-frame interrupts of the
  USB driver, so a buffer is flushed at report boundaries; each transfer of the host
  carries whole reports. Time is not modelled: the loops drift freely against each other.
- `ControlOutput`: the lights; a pulse width is any value of a set for as long as it likes,
  so a stale one (transmitter off) is included but not told apart.
- `Overtaker`: lengths are integers, the wheels' angle is left, right or straight, the average
  is rounded down; `stopCar` is never called and has no action.
- `Parker`, `DecisionMaker`: lengths are integers; one variable `driven` stands for the three positions
  the code compares with the path (each state compares its own); readings of the sensors at the
  side are classes (object, gap, on the limit); the speed is kept only during a stop at a line
  (every other branch sets it before it reads it); the overtaker's flag and control are free in
  each frame of DRIVING; lights, the lane flag of `ovtMSG`, `reversing` and debug output are left out.
- `SensorInput`: infrared sensors, light and speed are copied to the report and not read again on the
  board; the ring is the sequence of its last four values.
- DEBUG output and calibration, which the configuration compiles out.
- Not modelled: the lights and the camera (output only; pictures go to shared memory of an external
  library), the LaneFollower (image processing and a controller over floating-point numbers; its
  results, an angle and a distance, are any value of a set for the DecisionMaker), the conversion of
  the infrared readings (a floating-point curve), the ATConfigurator (a text interface that shows values
  and sends the operator's state, which is free in `DecisionMaker`; its threads share a singleton
  without a lock), the Overtaking stub, the Arduino prototypes, and ChibiOS with the other vendored
  code, which is nearly all of the repository by size.
- Real time: the sleeps of the handler thread (SerialHandler.cpp:70, seconds compared as
  milliseconds) and of the serial thread (serialConnection.c:231, an unsigned difference) are longer
  than meant; the loops of `SerialConnection` drift freely, so its properties hold for any sleep.

## State of the plan

All components with discrete behaviour of their own are modelled, checked and, but for liveness
(of which the safety cores are proved), proved. In the order of what they would add, these extensions remain:

1. `DecisionMaker` with `LaneChange` in place of the free overtaker: which of the two holds the
   wheel when the operator changes between DRIVING and the other states.
2. The composition of `ControlOutput`, `SerialConnection` and the proxy that resends the latest
   `VehicleControl`: how old a command may be that the car drives by.
3. At the Overtaker: whether the corner is seen in consecutive frames (a new minimum does not reset
   the counter), and whether the averaged angle is that of one manoeuvre (counter and sum survive
   a reset).
