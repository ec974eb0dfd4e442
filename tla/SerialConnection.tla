-------------------------- MODULE SerialConnection --------------------------
(***************************************************************************)
(* The USB connection between the two boards: the serial thread of the      *)
(* STM32 board (stm32/src/serial/serialConnection.c), the buffer queues of  *)
(* its USB driver, and the loop of the handler thread of the AutoTuxProxy.  *)
(*                                                                         *)
(* The board answers control packets with sensor reports: after a valid     *)
(* packet it sends one report per iteration, for a limited number of        *)
(* iterations, so that a host that went away does not leave it waiting for  *)
(* room in its output queue.  The host reads, writes and sleeps in turn; it *)
(* can be killed and started again, and the cable can be pulled, between    *)
(* any two steps.                                                          *)
(*                                                                         *)
(* The ChibiOS driver sends the output queue buffer by buffer: one buffer   *)
(* is in transmission while the next one is filled; a buffer that is only   *)
(* partly filled is sent as soon as the endpoint is idle (within a          *)
(* millisecond, which is no time here).  A read of the host ends with that  *)
(* buffer, or after as many packets as fit in READ_LEN; a buffer that ends  *)
(* exactly there leaves a packet of size zero for the next read.           *)
(***************************************************************************)
EXTENDS Integers

CONSTANTS
  MaxIterationsWithoutReceive,  \* MAX_ITERATIONS_WITHOUT_RECEIVE, 5 in the code
  BufferPackets,                \* sensor packets in a buffer of the driver, 256 \div 16
  ReadPackets,                  \* sensor packets in a read of the host, 128 \div 16
  CommandSlots                  \* control packets the board's input queue holds, 2

ASSUME ConnectionAssumption ==
  /\ MaxIterationsWithoutReceive \in Nat \ {0}
  /\ BufferPackets \in Nat
  /\ ReadPackets \in Nat
  /\ CommandSlots \in Nat \ {0}

(* The configuration leaves room in the queue, and not one packet more: of   *)
(* the commands the host writes while the board's buffer takes two reads,   *)
(* all the reports fit in a buffer, and two reads do take all of it.  With   *)
(* the code's constants both hold with equality: 16 <= 16.                  *)
ASSUME RoomAssumption ==
  /\ 3 * MaxIterationsWithoutReceive + 1 <= BufferPackets
  /\ 3 * MaxIterationsWithoutReceive + 1 <= 2 * ReadPackets

VARIABLES
  iterationsWithoutReceive,  \* counter of serialThread
  usbConnected,              \* what serialThread found in this iteration
  pc,                        \* the part of its loop serialThread is in
  attached,                  \* environment: the board is plugged in
  commands,                  \* control packets in the board's input queue
  busy,                      \* the IN endpoint is transmitting
  transmitting,              \* reports left of the buffer in transmission
  filling,                   \* reports in the buffer that is being filled
  host,                      \* the operation the handler thread is at
  resume,                    \* where it goes on once connected
  handle,                    \* its libusb handle
  filled                     \* buffer_out of the SerialBuffer holds a packet

board == <<iterationsWithoutReceive, usbConnected, pc>>
output == <<busy, transmitting, filling>>
handler == <<host, resume, handle>>
vars == <<iterationsWithoutReceive, usbConnected, pc, attached, commands, busy,
          transmitting, filling, host, resume, handle, filled>>

TypeOK ==
  /\ iterationsWithoutReceive \in 0 .. MaxIterationsWithoutReceive + 1
  /\ usbConnected \in BOOLEAN
  /\ pc \in {"receive", "send"}
  /\ attached \in BOOLEAN
  /\ commands \in 0 .. CommandSlots
  /\ busy \in BOOLEAN
  /\ transmitting \in 0 .. BufferPackets
  /\ filling \in 0 .. BufferPackets
  /\ host \in {"read", "write", "connect", "dead"}
  /\ resume \in {"read", "write"}
  /\ handle \in {"none", "valid", "stale"}
  /\ filled \in BOOLEAN

Init ==
  /\ iterationsWithoutReceive = 0
  /\ usbConnected = FALSE
  /\ pc = "receive"
  /\ attached \in BOOLEAN
  /\ commands = 0
  /\ busy = FALSE
  /\ transmitting = 0
  /\ filling = 0
  /\ host = "dead"
  /\ resume = "read"
  /\ handle = "none"
  /\ filled = FALSE

-----------------------------------------------------------------------------
(* The serial thread of the board.                                         *)

\* Mutant: a valid packet does not restart the count.
MutReceivePacket ==
  /\ pc = "receive"
  /\ attached
  /\ commands > 0
  /\ commands' = 0
  /\ usbConnected' = TRUE
  /\ pc' = "send"
  /\ UNCHANGED <<iterationsWithoutReceive, attached, output, handler, filled>>

(* All bytes that arrived are read, and the newest packet is taken.         *)
ReceivePacket ==
  /\ pc = "receive"
  /\ attached
  /\ commands > 0
  /\ commands' = 0
  /\ iterationsWithoutReceive' = 0
  /\ usbConnected' = TRUE
  /\ pc' = "send"
  /\ UNCHANGED <<attached, output, handler, filled>>

Counted ==
  IF iterationsWithoutReceive <= MaxIterationsWithoutReceive
  THEN iterationsWithoutReceive + 1 ELSE iterationsWithoutReceive

(* All bytes that arrived are read, but there is no valid packet in them,   *)
(* or too few of them for one: they count as no reception.                 *)
ReceiveNoPacket ==
  /\ pc = "receive"
  /\ attached
  /\ commands > 0
  /\ commands' = 0
  /\ iterationsWithoutReceive' = Counted
  /\ usbConnected' = TRUE
  /\ pc' = "send"
  /\ UNCHANGED <<attached, output, handler, filled>>

\* Mutant: the count goes on for ever.
MutReceiveNothing ==
  /\ pc = "receive"
  /\ attached => commands = 0
  /\ usbConnected' = attached
  /\ iterationsWithoutReceive' = iterationsWithoutReceive + 1
  /\ pc' = "send"
  /\ UNCHANGED <<attached, commands, output, handler, filled>>

ReceiveNothing ==
  /\ pc = "receive"
  /\ attached => commands = 0
  /\ usbConnected' = attached
  /\ iterationsWithoutReceive' = Counted
  /\ pc' = "send"
  /\ UNCHANGED <<attached, commands, output, handler, filled>>

\* Mutant: the link counts as active in one iteration more.
MutConnectionLinkActive == iterationsWithoutReceive <= MaxIterationsWithoutReceive

ConnectionLinkActive == iterationsWithoutReceive < MaxIterationsWithoutReceive

(* Without room the thread waits in the driver, for as long as it takes.    *)
Room == busy => filling < BufferPackets

\* Mutant: reports are sent whether commands arrive or not.
MutSending == pc = "send" /\ usbConnected

Sending == pc = "send" /\ usbConnected /\ ConnectionLinkActive

SendReport ==
  /\ Sending
  /\ attached
  /\ Room
  /\ busy' = TRUE
  /\ transmitting' = IF busy THEN transmitting ELSE 1
  /\ filling' = IF busy THEN filling + 1 ELSE filling
  /\ pc' = "receive"
  /\ UNCHANGED <<iterationsWithoutReceive, usbConnected, attached, commands, handler, filled>>

(* Nothing is sent, or the driver refuses because the cable was just pulled. *)
SendNothing ==
  /\ pc = "send"
  /\ Sending => ~attached
  /\ pc' = "receive"
  /\ UNCHANGED <<iterationsWithoutReceive, usbConnected, attached, commands, output,
                 handler, filled>>

SerialThread ==
  \/ ReceivePacket \/ ReceiveNoPacket \/ ReceiveNothing
  \/ SendReport \/ SendNothing

-----------------------------------------------------------------------------
(* The cable.                                                              *)

Unplug ==
  /\ attached
  /\ attached' = FALSE
  /\ handle' = IF handle = "valid" THEN "stale" ELSE handle
  /\ commands' = 0
  /\ busy' = FALSE
  /\ transmitting' = 0
  /\ filling' = 0
  /\ UNCHANGED <<board, host, resume, filled>>

Plug ==
  /\ ~attached
  /\ attached' = TRUE
  /\ UNCHANGED <<board, commands, output, handler, filled>>

-----------------------------------------------------------------------------
(* The handler thread of the AutoTuxProxy, and the process it is part of.   *)

ProxyAppends ==
  /\ host # "dead"
  /\ filled' = TRUE
  /\ UNCHANGED <<board, attached, commands, output, handler>>

Start ==
  /\ host = "dead"
  /\ host' = "connect"
  /\ resume' = "read"
  /\ filled' = FALSE
  /\ UNCHANGED <<board, attached, commands, output, handle>>

Kill ==
  /\ host # "dead"
  /\ host' = "dead"
  /\ handle' = "none"
  /\ UNCHANGED <<board, attached, commands, output, resume, filled>>

Connect ==
  /\ host = "connect"
  /\ attached
  /\ handle' = "valid"
  /\ host' = resume
  /\ UNCHANGED <<board, attached, commands, output, resume, filled>>

(* A transfer through a handle whose board was unplugged: reconnect, then   *)
(* go on with the other operation.                                         *)
TransferFails ==
  /\ handle = "stale"
  /\ host = "read" \/ (host = "write" /\ filled)
  /\ handle' = "none"
  /\ host' = "connect"
  /\ resume' = IF host = "read" THEN "write" ELSE "read"
  /\ UNCHANGED <<board, attached, commands, output, filled>>

\* A read takes the rest of the buffer in transmission; the endpoint goes on
\* with the next one.
BufferEnds ==
  /\ busy' = (filling > 0)
  /\ transmitting' = filling
  /\ filling' = 0

\* A read takes as many packets as fit, and the buffer is not finished.
BufferGoesOn ==
  /\ transmitting' = transmitting - ReadPackets
  /\ UNCHANGED <<busy, filling>>

ReadReports ==
  /\ host = "read"
  /\ handle = "valid"
  /\ busy
  /\ IF transmitting < ReadPackets THEN BufferEnds ELSE BufferGoesOn
  /\ host' = "write"
  /\ UNCHANGED <<board, attached, commands, resume, handle, filled>>

ReadTimesOut ==
  /\ host = "read"
  /\ handle = "valid"
  /\ ~busy
  /\ host' = "write"
  /\ UNCHANGED <<board, attached, commands, output, resume, handle, filled>>

WriteCommand ==
  /\ host = "write"
  /\ handle = "valid"
  /\ filled
  /\ commands < CommandSlots
  /\ commands' = commands + 1
  /\ host' = "read"
  /\ UNCHANGED <<board, attached, output, resume, handle, filled>>

(* The board's queue is full until the transfer times out, or there is      *)
(* nothing to write.                                                       *)
WriteNothing ==
  /\ host = "write"
  /\ ~filled \/ (handle = "valid" /\ commands = CommandSlots)
  /\ host' = "read"
  /\ UNCHANGED <<board, attached, commands, output, resume, handle, filled>>

HandlerThread ==
  \/ Connect \/ TransferFails \/ ReadReports \/ ReadTimesOut
  \/ WriteCommand \/ WriteNothing

Next ==
  \/ SerialThread \/ HandlerThread
  \/ Unplug \/ Plug \/ ProxyAppends \/ Start \/ Kill

(* Both loops sleep for a while and go on; a process that runs goes on.     *)
Spec == Init /\ [][Next]_vars /\ WF_vars(SerialThread) /\ WF_vars(HandlerThread)

-----------------------------------------------------------------------------
(* ch4.tex:48-52 "To make sure the output buffer is not filled, which would *)
(* cause the thread to block while writing": whenever the serial thread is  *)
(* about to send, there is room in the queue, whatever the host did, and    *)
(* however the two loops drifted against each other.                       *)
NeverBlocks == Sending => Room

(* What the flow of reports rests on: if the board receives bytes without   *)
(* a valid packet again and again (serialConnection.c:179-192), it receives *)
(* valid packets again and again as well.                                  *)
PacketsFound == []<><<ReceiveNoPacket>>_vars => []<><<ReceivePacket>>_vars

(* No circular wait: although the board sends only after it has received a  *)
(* valid packet, and the host can be slow, restarted or reconnected at any  *)
(* time, reports are read again and again as long as the handler is         *)
(* connected, the proxy has a command to send, and what arrives is not      *)
(* garbage for ever.  Without a valid packet there are no reports: bytes    *)
(* alone do not count (serialConnection.c:195-199).                        *)
ReportsFlow ==
  <>[](handle = "valid" /\ filled) /\ PacketsFound
    => []<><<ReadReports /\ transmitting > 0>>_vars

(* A command that waits on the board is taken in the second step of the     *)
(* serial thread at the latest, whatever the host did meanwhile: bytes are  *)
(* read in every iteration, also in those the board has given up sending    *)
(* in, and the thread is in no other place for more than a step.           *)
TakenInTwoSteps ==
  [][ commands > 0 /\ SerialThread =>
        \/ pc = "receive" /\ commands' = 0
        \/ pc = "send" /\ pc' = "receive" /\ commands' = commands ]_vars

(* A valid packet is answered, and the answer reaches the next reads: the   *)
(* step that takes it leaves the thread about to send with room to do so,   *)
(* the step after it leaves a report in the queue of a connected board, and *)
(* a report leaves the queue only with the cable or into a read; a read of  *)
(* an empty buffer has the next one in transmission.  The safety core of    *)
(* ReportsFlow.  Bytes without a valid packet are not answered for their    *)
(* own sake.                                                               *)
Queued == transmitting + filling

AnswersFollow ==
  [][ /\ ReceivePacket => Sending' /\ Room'
      /\ SerialThread /\ Sending /\ attached => busy' /\ Queued' = Queued + 1
      /\ Queued' < Queued => ReadReports \/ ~attached'
      /\ ReadReports /\ transmitting = 0 => transmitting' = Queued
      /\ Queued > 0 => busy ]_vars

(* A command the host wrote is taken by the board, or lost with the cable:  *)
(* the serial thread is never held up for ever, not even by a dead host.    *)
CommandsTaken == commands > 0 ~> commands = 0
=============================================================================
