----------------------------- MODULE SerialLink -----------------------------
(***************************************************************************)
(* The serial handler thread of the AutoTuxProxy: SerialHandler::run, which *)
(* keeps the USB connection to the STM32 board, and SerialIOImpl, which     *)
(* holds the libusb handle.  The board can be unplugged and plugged in      *)
(* again between any two steps.                                            *)
(*                                                                         *)
(* libusb is external: an open, a claim and a transfer succeed or fail as   *)
(* the bus and the handle allow, and a transfer through a handle whose      *)
(* board was unplugged returns one of the codes of is_reconnect.            *)
(***************************************************************************)
EXTENDS Naturals

CONSTANTS
  MaxLeaked  \* bound of the model: handles that are counted as leaked

ASSUME MaxLeakedAssumption == MaxLeaked \in Nat

VARIABLES
  bus,       \* environment: what a connect() meets on the USB bus
  usb_dev,   \* the libusb handle of SerialIOImpl
  attached,  \* the board behind the handle was not unplugged since the open
  leaked,    \* handles that were overwritten without being closed
  running,   \* loop control of SerialHandler
  filled,    \* buffer_out of the SerialBuffer holds a packet
  pc,        \* where the handler thread is
  resume     \* where it goes on once connected

vars == <<bus, usb_dev, attached, leaked, running, filled, pc, resume>>

thread == <<usb_dev, leaked, pc, resume>>

(* No board, a board that cannot be opened, one whose interface somebody    *)
(* else has claimed, one that is free.                                     *)
BusStates == {"absent", "denied", "busy", "free"}

(* Never opened; open; open with the interface claimed; closed, dangling.   *)
Handles == {"null", "open", "claimed", "closed"}

(* The classes of the codes that read and write return: success, an error   *)
(* of is_reconnect, any other error (a timeout, EMPTY_DATA).                *)
Transfers == {"ok", "reconnect", "other"}

Points == {"loop", "read", "write", "sleep", "disconnect", "open", "claim",
           "retry", "finished"}

Init ==
  /\ bus \in BusStates
  /\ usb_dev = "null"
  /\ attached = FALSE
  /\ leaked = 0
  /\ running = TRUE
  /\ filled = FALSE
  /\ pc = "open"
  /\ resume = "loop"

-----------------------------------------------------------------------------
(* The environment: the bus, the proxy thread and whoever calls stop().     *)

BusChanges(b) ==
  /\ bus' = b
  /\ attached' = (attached /\ b # "absent")
  /\ UNCHANGED <<thread, running, filled>>

AppendSendBuffer ==
  /\ filled' = TRUE
  /\ UNCHANGED <<bus, attached, thread, running>>

Stop ==
  /\ running' = FALSE
  /\ UNCHANGED <<bus, attached, thread, filled>>

-----------------------------------------------------------------------------
(* SerialIOImpl::connect, called in a loop until it succeeds.               *)

OpenSucceeds ==
  /\ pc = "open"
  /\ bus \in {"busy", "free"}
  /\ usb_dev' = "open"
  /\ attached' = TRUE
  /\ leaked' = IF usb_dev = "open" /\ leaked < MaxLeaked THEN leaked + 1 ELSE leaked
  /\ pc' = "claim"
  /\ UNCHANGED <<bus, running, filled, resume>>

OpenFails ==
  /\ pc = "open"
  /\ bus \in {"absent", "denied"}
  /\ pc' = "retry"
  /\ UNCHANGED <<bus, usb_dev, attached, leaked, running, filled, resume>>

ClaimSucceeds ==
  /\ pc = "claim"
  /\ bus = "free" /\ attached
  /\ usb_dev' = "claimed"
  /\ pc' = resume
  /\ UNCHANGED <<bus, attached, leaked, running, filled, resume>>

\* Mutant: the claim is tried again on the same handle.
MutClaimFails ==
  /\ pc = "claim"
  /\ ~(bus = "free" /\ attached)
  /\ pc' = "claim"
  /\ UNCHANGED <<bus, usb_dev, attached, leaked, running, filled, resume>>

\* The handle stays open: the next connect() overwrites it.
ClaimFails ==
  /\ pc = "claim"
  /\ ~(bus = "free" /\ attached)
  /\ pc' = "retry"
  /\ UNCHANGED <<bus, usb_dev, attached, leaked, running, filled, resume>>

\* Mutant: the loop gives up.
MutSleepAndRetry ==
  /\ pc = "retry"
  /\ pc' = resume
  /\ UNCHANGED <<bus, usb_dev, attached, leaked, running, filled, resume>>

SleepAndRetry ==
  /\ pc = "retry"
  /\ pc' = "open"
  /\ UNCHANGED <<bus, usb_dev, attached, leaked, running, filled, resume>>

\* Mutant: the handle is not released on the way to a new connection.
MutDisconnect ==
  /\ pc = "disconnect"
  /\ pc' = "open"
  /\ UNCHANGED <<bus, usb_dev, attached, leaked, running, filled, resume>>

(* SerialHandler::reconnect first disconnects, then connects.               *)
Disconnect ==
  /\ pc = "disconnect"
  /\ usb_dev' = "closed"
  /\ pc' = "open"
  /\ UNCHANGED <<bus, attached, leaked, running, filled, resume>>

-----------------------------------------------------------------------------
(* The main loop of SerialHandler::run.                                    *)

\* Mutant: nobody looks at the loop control.
MutLoopAgain ==
  /\ pc = "loop"
  /\ pc' = "read"
  /\ UNCHANGED <<bus, usb_dev, attached, leaked, running, filled, resume>>

LoopAgain ==
  /\ pc = "loop"
  /\ running
  /\ pc' = "read"
  /\ UNCHANGED <<bus, usb_dev, attached, leaked, running, filled, resume>>

LoopEnds ==
  /\ pc = "loop"
  /\ ~running
  /\ pc' = "finished"
  /\ UNCHANGED <<bus, usb_dev, attached, leaked, running, filled, resume>>

(* What a bulk transfer can return; an unplugged board is always noticed.   *)
CanReturn(r) == r \in Transfers /\ (attached \/ r = "reconnect")

\* Mutants: the operation that failed is done again; a lost board is taken
\* for a passing error.
MutAfterAgain(r, next) ==
  IF r = "reconnect"
  THEN pc' = "disconnect" /\ resume' = pc
  ELSE pc' = next /\ UNCHANGED resume

MutAfter(r, next) ==
  IF r = "reconnect" /\ attached
  THEN pc' = "disconnect" /\ resume' = next
  ELSE pc' = next /\ UNCHANGED resume

\* After a transfer with result r: reconnect if necessary, then go on.
After(r, next) ==
  IF r = "reconnect"
  THEN pc' = "disconnect" /\ resume' = next
  ELSE pc' = next /\ UNCHANGED resume

ReadOp(r) ==
  /\ pc = "read"
  /\ CanReturn(r)
  /\ After(r, "write")
  /\ UNCHANGED <<bus, usb_dev, attached, leaked, running, filled>>

\* write() of an empty buffer transfers nothing and returns EMPTY_DATA.
WriteOp(r) ==
  /\ pc = "write"
  /\ IF filled THEN CanReturn(r) ELSE r = "other"
  /\ After(r, "sleep")
  /\ UNCHANGED <<bus, usb_dev, attached, leaked, running, filled>>

SleepToNextIteration ==
  /\ pc = "sleep"
  /\ pc' = "loop"
  /\ UNCHANGED <<bus, usb_dev, attached, leaked, running, filled, resume>>

-----------------------------------------------------------------------------
HandlerStep ==
  \/ OpenSucceeds \/ OpenFails \/ ClaimSucceeds \/ ClaimFails
  \/ SleepAndRetry \/ Disconnect
  \/ LoopAgain \/ LoopEnds \/ SleepToNextIteration
  \/ \E r \in Transfers : ReadOp(r) \/ WriteOp(r)

Next ==
  \/ \E b \in BusStates : BusChanges(b)
  \/ AppendSendBuffer
  \/ Stop
  \/ HandlerStep

\* The operating system runs the thread; every call of libusb returns.
Spec == Init /\ [][Next]_vars /\ WF_vars(HandlerStep)

-----------------------------------------------------------------------------
TypeOK ==
  /\ bus \in BusStates
  /\ usb_dev \in Handles
  /\ attached \in BOOLEAN
  /\ leaked \in 0 .. MaxLeaked
  /\ running \in BOOLEAN
  /\ filled \in BOOLEAN
  /\ pc \in Points
  /\ resume \in {"loop", "write", "sleep"}

(* A transfer goes only through an open handle whose interface was claimed: *)
(* neither the write after a read that failed, nor the first transfer after *)
(* a failed or interrupted connect, finds anything else (SerialHandler.cpp  *)
(* :42-65, :155-165).                                                      *)
TransferOnClaimed == pc \in {"read", "write"} => usb_dev = "claimed"

(* A handle is released once: disconnect() finds a handle that is open, and *)
(* no open() forgets one whose interface is still claimed, which would keep *)
(* the interface from the next claim for ever.                             *)
ReleasedOnce ==
  /\ pc = "disconnect" => usb_dev = "claimed"
  /\ pc = "open" => usb_dev # "claimed"

(* How many steps of SerialHandler::reconnect lie before the thread goes on; *)
(* a claim through a handle whose board was unplugged fails once more.      *)
ConnectSteps ==
  CASE pc = "claim" -> IF attached THEN 1 ELSE 4
    [] pc = "open"  -> 2
    [] pc \in {"retry", "disconnect"} -> 3
    [] OTHER -> 0

\* At most so many steps from point p to the next write (each transfer on the
\* way may fail once and reconnect), and from p to the end once stopped.
ToWrite(p) ==
  CASE p = "write" -> 0
    [] p = "read"  -> 4
    [] p = "loop"  -> 5
    [] p = "sleep" -> 6
    [] OTHER -> 0

ToEnd(p) ==
  CASE p = "loop"  -> 1
    [] p = "sleep" -> 2
    [] p = "write" -> 6
    [] p = "read"  -> 10
    [] OTHER -> 0

StepsToWrite ==
  IF ConnectSteps > 0 THEN ConnectSteps + ToWrite(resume) ELSE ToWrite(pc)

StepsToEnd ==
  IF ConnectSteps > 0 THEN ConnectSteps + ToEnd(resume) ELSE ToEnd(pc)

(* The thread of a link whose board is plugged in and free comes closer to  *)
(* the next write with every step, whichever transfer fails on the way: it  *)
(* never turns in a circle of reconnects (SerialHandler.cpp:42-65).         *)
EachStepNearsWrite ==
  [][ bus = "free" /\ running /\ pc # "write" /\ HandlerStep
        => StepsToWrite' < StepsToWrite ]_vars

(* Once stopped, and while the bus is free, it comes closer to its end with *)
(* every step: no error code keeps SerialHandler::run going for more than   *)
(* two further reconnects.  The loop of reconnect does not look at running,  *)
(* so that a stopped thread whose board is away comes no closer to its end. *)
EachStepNearsEnd ==
  [][ bus = "free" /\ ~running /\ HandlerStep => StepsToEnd' < StepsToEnd ]_vars

\* At most so many steps until a thread that holds a dead handle closes it.
ToClose(p) ==
  CASE p = "disconnect" -> 1
    [] p = "read"  -> 2
    [] p = "loop"  -> 3
    [] p = "sleep" -> 4
    [] p = "write" -> 5
    [] OTHER -> 0

(* A handle whose board was unplugged is closed within five steps of the    *)
(* thread, also when there is nothing to write, and nothing that is plugged *)
(* in again makes the old handle good before that.                         *)
EachStepNearsClose ==
  [][ usb_dev = "claimed" /\ ~attached /\ running =>
        /\ ~attached'
        /\ HandlerStep => usb_dev' # "claimed" \/ ToClose(pc') < ToClose(pc) ]_vars

(* When the board stays plugged in and free, the thread gets through to the *)
(* write again and again, whatever was unplugged, claimed by others or      *)
(* failed before, unless it was stopped.                                   *)
LinkComesBack ==
  <>[](bus = "free") => []<>(pc = "write" \/ ~running)

(* A board that was unplugged is noticed: the thread does not go on         *)
(* transferring through a handle that leads nowhere.                       *)
UnplugIsNoticed ==
  (usb_dev = "claimed" /\ ~attached) ~> (usb_dev # "claimed" \/ ~running)

(* stop() ends the thread, provided the board can be connected to.          *)
StopEndsThread ==
  <>[](bus = "free") => (~running ~> pc = "finished")
=============================================================================
