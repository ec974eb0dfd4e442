---------------------- MODULE SerialConnection_proofs ----------------------
(***************************************************************************)
(* The serial thread of the board never waits for room in its output queue, *)
(* for every configuration that meets RoomAssumption.                       *)
(*                                                                         *)
(* The argument counts the reports a buffer may still take before the host  *)
(* writes again: those in it and those the commands received so far allow   *)
(* (Committed).  A write adds at most MaxIterationsWithoutReceive to it, and *)
(* between two writes there is a read.  A buffer is filled while the one    *)
(* before it is read: in one read, two reads, or (when it ends exactly with *)
(* the second) three, and the more reads it takes the fewer reports were    *)
(* committed when it was full.                                              *)
(***************************************************************************)
EXTENDS SerialConnection, TLAPS

Max == MaxIterationsWithoutReceive

(* The reports the serial thread can send before another command arrives.   *)
PotentialOf(n, at, connected, i) ==
  IF n > 0
  THEN IF at = "send" /\ connected /\ i < Max THEN Max + 1 ELSE Max
  ELSE IF at = "send"
       THEN IF i < Max THEN Max - i ELSE 0
       ELSE IF i + 1 < Max THEN (Max - 1) - i ELSE 0

Potential == PotentialOf(commands, pc, usbConnected, iterationsWithoutReceive)

Committed == filling + Potential

TypeInv ==
  /\ iterationsWithoutReceive \in 0 .. Max + 1
  /\ usbConnected \in BOOLEAN
  /\ pc \in {"receive", "send"}
  /\ attached \in BOOLEAN
  /\ commands \in 0 .. CommandSlots
  /\ busy \in BOOLEAN
  /\ transmitting \in Nat
  /\ filling \in Nat
  /\ host \in {"read", "write", "connect", "dead"}
  /\ resume \in {"read", "write"}
  /\ handle \in {"none", "valid", "stale"}
  /\ filled \in BOOLEAN

ConnectionInv ==
  /\ handle = "valid" => attached
  /\ ~attached => commands = 0
  /\ ~busy => transmitting = 0 /\ filling = 0

(* A host that lost the board has written nothing since.                    *)
Lost == handle = "stale" \/ (host = "connect" /\ resume = "write")

(* What may be committed (s), given how much of the buffer before is left   *)
(* (t): at any time, when the host writes next, and when it lost the board.  *)
AnyBound(s, t) ==
  /\ s <= 3 * Max + 1
  /\ t <= 3 * Max + 1
  /\ t >= ReadPackets => s <= 2 * Max + 1
  /\ t >= 2 * ReadPackets => s <= Max

WriteBound(s, t) ==
  /\ s <= 2 * Max + 1
  /\ t >= ReadPackets => s <= Max + 1
  /\ t >= 2 * ReadPackets => s = 0

LostBound(s, t) == s + t <= Max

RoomInv ==
  /\ AnyBound(Committed, transmitting)
  /\ host = "write" => WriteBound(Committed, transmitting)
  /\ Lost => LostBound(Committed, transmitting)

IInv == TypeInv /\ ConnectionInv /\ RoomInv

-----------------------------------------------------------------------------

LEMMA PotentialOfBounds ==
  ASSUME NEW n \in Nat, NEW at, NEW connected \in BOOLEAN, NEW i \in Nat
  PROVE  /\ PotentialOf(n, at, connected, i) \in Nat
         /\ PotentialOf(n, at, connected, i) <= Max + 1
BY ConnectionAssumption DEF PotentialOf, Max

LEMMA PotentialBounds ==
  ASSUME TypeInv
  PROVE  Potential \in Nat /\ Potential <= Max + 1
<1>1. commands \in Nat /\ usbConnected \in BOOLEAN /\ iterationsWithoutReceive \in Nat
  BY ConnectionAssumption DEF TypeInv, Max
<1> QED BY <1>1, PotentialOfBounds DEF Potential

LEMMA NextPotentialBounds ==
  ASSUME TypeInv'
  PROVE  Potential' \in Nat /\ Potential' <= Max + 1
<1>1. commands' \in Nat /\ usbConnected' \in BOOLEAN /\ iterationsWithoutReceive' \in Nat
  BY ConnectionAssumption DEF TypeInv, Max
<1> QED BY <1>1, PotentialOfBounds DEF Potential

(* The steps of the board: receiving moves nothing between the buffers and  *)
(* commits to nothing new, sending turns a report that could be sent into   *)
(* one that is in a buffer.                                                 *)
LEMMA ReceivePotential ==
  ASSUME IInv, ReceivePacket \/ ReceiveNoPacket \/ ReceiveNothing
  PROVE  Potential' <= Potential
BY ConnectionAssumption
   DEF IInv, TypeInv, ConnectionInv, ReceivePacket, ReceiveNoPacket, ReceiveNothing, Counted,
       Potential, PotentialOf, Max

LEMMA SendReportPotential ==
  ASSUME IInv, SendReport
  PROVE  Potential' = Potential - 1
BY ConnectionAssumption
   DEF IInv, TypeInv, SendReport, Sending, ConnectionLinkActive, Potential, PotentialOf, Max

LEMMA SendNothingPotential ==
  ASSUME IInv, SendNothing
  PROVE  Potential' <= Potential
BY ConnectionAssumption
   DEF IInv, TypeInv, ConnectionInv, SendNothing, Sending, ConnectionLinkActive, Potential, PotentialOf, Max

LEMMA WriteCommandPotential ==
  ASSUME IInv, WriteCommand
  PROVE  Potential' <= Potential + Max
<1>1. /\ commands \in Nat /\ commands' > 0
      /\ UNCHANGED <<iterationsWithoutReceive, usbConnected, pc>>
  BY ConnectionAssumption DEF IInv, TypeInv, WriteCommand, board
<1>2. iterationsWithoutReceive \in Nat /\ Max \in Nat /\ Max > 0
  BY ConnectionAssumption DEF IInv, TypeInv, Max
<1> QED BY <1>1, <1>2 DEF Potential, PotentialOf

LEMMA UnplugPotential ==
  ASSUME IInv, Unplug
  PROVE  Potential' <= Max
<1>1. commands' = 0 /\ UNCHANGED <<iterationsWithoutReceive, pc>>
  BY DEF Unplug, board
<1>2. iterationsWithoutReceive \in Nat /\ Max \in Nat
  BY ConnectionAssumption DEF IInv, TypeInv, Max
<1> QED BY <1>1, <1>2 DEF Potential, PotentialOf, Max

LEMMA OtherPotential ==
  ASSUME UNCHANGED <<board, commands>>
  PROVE  Potential' = Potential
<1>1. UNCHANGED <<iterationsWithoutReceive, usbConnected, pc, commands>>
  BY DEF board
<1> QED BY <1>1 DEF Potential, PotentialOf, Max

-----------------------------------------------------------------------------
(* The arithmetic of the bounds.                                           *)
LEMMA Less ==
  ASSUME NEW s \in Nat, NEW t \in Nat, NEW r \in Nat, r <= s
  PROVE  /\ AnyBound(s, t) => AnyBound(r, t)
         /\ WriteBound(s, t) => WriteBound(r, t)
         /\ LostBound(s, t) => LostBound(r, t)
BY ConnectionAssumption DEF AnyBound, WriteBound, LostBound, Max

(* A report is the first of a buffer, which is sent at once.                *)
LEMMA FirstReport ==
  ASSUME NEW s \in Nat, NEW r \in Nat, r = s - 1
  PROVE  /\ AnyBound(s, 0) => AnyBound(r, 1)
         /\ WriteBound(s, 0) => WriteBound(r, 1)
         /\ LostBound(s, 0) => LostBound(r, 1)
BY ConnectionAssumption, RoomAssumption DEF AnyBound, WriteBound, LostBound, Max

(* The host writes a command.                                              *)
LEMMA Written ==
  ASSUME NEW s \in Nat, NEW t \in Nat, NEW r \in Nat, r <= s + Max,
         AnyBound(s, t), WriteBound(s, t)
  PROVE  AnyBound(r, t)
BY ConnectionAssumption DEF AnyBound, WriteBound, Max

(* The host reads the end of a buffer, and the endpoint takes the next.     *)
LEMMA LastRead ==
  ASSUME NEW f \in Nat, NEW p \in Nat, p <= Max + 1, NEW t \in Nat, AnyBound(f + p, t)
  PROVE  AnyBound(p, f) /\ WriteBound(p, f)
BY ConnectionAssumption, RoomAssumption DEF AnyBound, WriteBound, Max

(* The host reads a part of a buffer.                                      *)
LEMMA PartRead ==
  ASSUME NEW s \in Nat, NEW t \in Nat, t >= ReadPackets, AnyBound(s, t)
  PROVE  /\ (t - ReadPackets) \in Nat
         /\ AnyBound(s, t - ReadPackets)
         /\ WriteBound(s, t - ReadPackets)
BY ConnectionAssumption, RoomAssumption DEF AnyBound, WriteBound, Max

(* A board that was lost may be written to at once.                         *)
LEMMA Found ==
  ASSUME NEW s \in Nat, NEW t \in Nat, LostBound(s, t)
  PROVE  AnyBound(s, t) /\ WriteBound(s, t)
BY ConnectionAssumption, RoomAssumption DEF AnyBound, WriteBound, LostBound, Max

LEMMA AddLess ==
  ASSUME NEW f \in Nat, NEW p \in Nat, NEW q \in Nat
  PROVE  /\ f + p \in Nat
         /\ q <= p => f + q <= f + p
         /\ q <= p + Max => f + q <= (f + p) + Max
         /\ q = p - 1 => ((f + 1) + q = f + p /\ f + q = (f + p) - 1)
BY ConnectionAssumption DEF Max

-----------------------------------------------------------------------------
LEMMA TypeNext == IInv /\ [Next]_vars => TypeInv'
<1> SUFFICES ASSUME TypeInv, [Next]_vars PROVE TypeInv'
  BY DEF IInv
<1> USE ConnectionAssumption DEF TypeInv, Max
<1>1. CASE ReceivePacket
  BY <1>1 DEF ReceivePacket, output, handler
<1>2. CASE ReceiveNoPacket \/ ReceiveNothing
  <2>1. Counted \in 0 .. MaxIterationsWithoutReceive + 1
    BY DEF Counted
  <2>2. CASE ReceiveNoPacket
    <3>1. 0 \in 0 .. CommandSlots
      OBVIOUS
    <3> QED BY <2>1, <2>2, <3>1 DEF ReceiveNoPacket, output, handler
  <2>3. CASE ReceiveNothing
    BY <2>1, <2>3 DEF ReceiveNothing, output, handler
  <2> QED BY <1>2, <2>2, <2>3
<1>3. CASE SendReport
  BY <1>3 DEF SendReport, handler
<1>4. CASE SendNothing
  BY <1>4 DEF SendNothing, output, handler
<1>5. CASE Connect \/ TransferFails \/ ReadTimesOut \/ WriteNothing
  BY <1>5 DEF Connect, TransferFails, ReadTimesOut, WriteNothing, board, output
<1>6. CASE ReadReports
  <2>1. transmitting' \in Nat /\ filling' \in Nat /\ busy' \in BOOLEAN
    <3>1. CASE transmitting < ReadPackets
      BY <1>6, <3>1 DEF ReadReports, BufferEnds
    <3>2. CASE ~(transmitting < ReadPackets)
      BY <1>6, <3>2 DEF ReadReports, BufferGoesOn
    <3> QED BY <3>1, <3>2
  <2> QED BY <1>6, <2>1 DEF ReadReports, board
<1>7. CASE WriteCommand
  <2>1. commands' \in 0 .. CommandSlots /\ host' = "read"
    BY <1>7 DEF WriteCommand
  <2>2. UNCHANGED <<iterationsWithoutReceive, usbConnected, pc, attached, busy,
                    transmitting, filling, resume, handle, filled>>
    BY <1>7 DEF WriteCommand, board, output
  <2> QED BY <2>1, <2>2
<1>8. CASE Unplug \/ Plug
  <2>1. CASE Unplug
    <3>1. handle' \in {"none", "valid", "stale"}
      BY <2>1 DEF Unplug
    <3>2. commands' \in 0 .. CommandSlots /\ transmitting' \in Nat /\ filling' \in Nat
      BY <2>1 DEF Unplug
    <3>3. attached' \in BOOLEAN /\ busy' \in BOOLEAN
      BY <2>1 DEF Unplug
    <3>4. UNCHANGED <<iterationsWithoutReceive, usbConnected, pc, host, resume, filled>>
      BY <2>1 DEF Unplug, board
    <3> QED BY <3>1, <3>2, <3>3, <3>4
  <2>2. CASE Plug
    BY <2>2 DEF Plug, board, output, handler
  <2> QED BY <1>8, <2>1, <2>2
<1>9. CASE ProxyAppends \/ Start \/ Kill
  BY <1>9 DEF ProxyAppends, Start, Kill, board, output, handler
<1>10. CASE UNCHANGED vars
  BY <1>10 DEF vars
<1> QED BY <1>1, <1>2, <1>3, <1>4, <1>5, <1>6, <1>7, <1>8, <1>9, <1>10
        DEF Next, SerialThread, HandlerThread

LEMMA ConnectionNext == IInv /\ [Next]_vars => ConnectionInv'
<1> SUFFICES ASSUME TypeInv, ConnectionInv, [Next]_vars PROVE ConnectionInv'
  BY DEF IInv
<1> USE DEF ConnectionInv
<1>1. CASE ReceivePacket \/ ReceiveNoPacket \/ ReceiveNothing \/ SendNothing
  BY <1>1 DEF ReceivePacket, ReceiveNoPacket, ReceiveNothing, SendNothing, output, handler
<1>2. CASE SendReport
  BY <1>2 DEF SendReport, handler
<1>3. CASE Connect \/ TransferFails \/ ReadTimesOut \/ WriteNothing
  BY <1>3 DEF Connect, TransferFails, ReadTimesOut, WriteNothing, board, output
<1>4. CASE ReadReports
  <2>1. ~busy' => transmitting' = 0 /\ filling' = 0
    <3>1. CASE transmitting < ReadPackets
      <4>1. busy' = (filling > 0) /\ transmitting' = filling /\ filling' = 0
        BY <1>4, <3>1 DEF ReadReports, BufferEnds
      <4>2. filling > 0 \/ filling = 0
        BY DEF TypeInv
      <4> QED BY <4>1, <4>2, Zenon
    <3>2. CASE ~(transmitting < ReadPackets)
      BY <1>4, <3>2 DEF ReadReports, BufferGoesOn
    <3> QED BY <3>1, <3>2
  <2> QED BY <1>4, <2>1 DEF ReadReports, board
<1>5. CASE WriteCommand
  BY <1>5 DEF WriteCommand, board, output
<1>6. CASE Unplug \/ Plug
  BY <1>6 DEF Unplug, Plug, board, output, handler, TypeInv
<1>7. CASE ProxyAppends \/ Start \/ Kill
  BY <1>7 DEF ProxyAppends, Start, Kill, board, output, handler
<1>8. CASE UNCHANGED vars
  BY <1>8 DEF vars
<1> QED BY <1>1, <1>2, <1>3, <1>4, <1>5, <1>6, <1>7, <1>8
        DEF Next, SerialThread, HandlerThread

-----------------------------------------------------------------------------
LEMMA CommittedNat ==
  ASSUME IInv
  PROVE  /\ filling \in Nat /\ transmitting \in Nat
         /\ Potential \in Nat /\ Potential <= Max + 1
         /\ Committed \in Nat
<1>1. Potential \in Nat /\ Potential <= Max + 1
  BY PotentialBounds DEF IInv
<1>2. filling \in Nat /\ transmitting \in Nat
  BY DEF IInv, TypeInv
<1> QED BY <1>1, <1>2, AddLess DEF Committed

(* The same reports are in the buffers, and no more can be sent.            *)
LEMMA NothingCommitted ==
  ASSUME IInv, TypeInv', Potential' <= Potential,
         UNCHANGED <<filling, transmitting>>
  PROVE  /\ AnyBound(Committed', transmitting')
         /\ WriteBound(Committed, transmitting) => WriteBound(Committed', transmitting')
         /\ LostBound(Committed, transmitting) => LostBound(Committed', transmitting')
<1>1. Potential' \in Nat /\ AnyBound(Committed, transmitting)
  BY NextPotentialBounds DEF IInv, RoomInv
<1>2. Committed' = filling' + Potential'
  BY DEF Committed
<1>3. Committed' = filling + Potential'
  BY <1>2
<1>4. Committed' \in Nat /\ Committed' <= Committed
  BY <1>1, <1>3, CommittedNat, AddLess DEF Committed
<1> QED BY <1>1, <1>4, CommittedNat, Less

LEMMA RoomReceive ==
  ASSUME IInv, TypeInv',
         ReceivePacket \/ ReceiveNoPacket \/ ReceiveNothing \/ SendNothing
  PROVE  RoomInv'
<1>1. UNCHANGED <<filling, transmitting, host, resume, handle>>
  BY DEF ReceivePacket, ReceiveNoPacket, ReceiveNothing, SendNothing, output, handler
<1>2. Potential' <= Potential
  BY ReceivePotential, SendNothingPotential
<1> QED BY <1>1, <1>2, NothingCommitted DEF IInv, RoomInv, Lost

LEMMA RoomSend ==
  ASSUME IInv, TypeInv', SendReport
  PROVE  RoomInv'
<1>1. UNCHANGED <<host, resume, handle>> /\ Potential' \in Nat
  BY NextPotentialBounds DEF SendReport, handler
<1>2. Potential' = Potential - 1
  BY SendReportPotential
<1>3. Committed' = filling' + Potential'
  BY DEF Committed
<1>4. CASE busy
  <2>1. filling' = filling + 1 /\ transmitting' = transmitting
    BY <1>4 DEF SendReport
  <2>2. Committed' = (filling + 1) + Potential'
    BY <1>3, <2>1
  <2>3. Committed' = Committed
    BY <1>1, <1>2, <2>2, CommittedNat, AddLess DEF Committed
  <2> QED BY <1>1, <2>1, <2>3 DEF IInv, RoomInv, Lost
<1>5. CASE ~busy
  <2>1. filling' = filling /\ transmitting' = 1 /\ transmitting = 0
    BY <1>5 DEF SendReport, IInv, ConnectionInv
  <2>2. Committed' = filling + Potential'
    BY <1>3, <2>1
  <2>3. Committed' = Committed - 1 /\ Committed' \in Nat
    BY <1>1, <1>2, <2>2, CommittedNat, AddLess DEF Committed
  <2> QED BY <1>1, <2>1, <2>3, CommittedNat, FirstReport DEF IInv, RoomInv, Lost
<1> QED BY <1>4, <1>5

LEMMA RoomWrite ==
  ASSUME IInv, TypeInv', WriteCommand
  PROVE  RoomInv'
<1>1. /\ host = "write" /\ host' = "read" /\ handle = "valid"
      /\ UNCHANGED <<filling, transmitting, handle>>
  BY DEF WriteCommand, output
<1>2. Potential' \in Nat /\ Potential' <= Potential + Max
  BY NextPotentialBounds, WriteCommandPotential
<1>3. Committed' = filling' + Potential'
  BY DEF Committed
<1>4. Committed' = filling + Potential'
  BY <1>1, <1>3
<1>5. Committed' \in Nat /\ Committed' <= Committed + Max
  BY <1>2, <1>4, CommittedNat, AddLess DEF Committed
<1>6. AnyBound(Committed', transmitting')
  BY <1>1, <1>5, CommittedNat, Written DEF IInv, RoomInv
<1> QED BY <1>1, <1>6 DEF RoomInv, Lost

LEMMA RoomRead ==
  ASSUME IInv, TypeInv', ReadReports
  PROVE  RoomInv'
<1>1. host' = "write" /\ handle' = "valid" /\ UNCHANGED <<board, commands>>
  BY DEF ReadReports
<1>2. Potential' = Potential
  BY <1>1, OtherPotential
<1>3. Committed' = filling' + Potential
  BY <1>2 DEF Committed
<1>4. AnyBound(Committed', transmitting') /\ WriteBound(Committed', transmitting')
  <2>1. CASE transmitting < ReadPackets
    <3>1. filling' = 0 /\ transmitting' = filling
      BY <2>1 DEF ReadReports, BufferEnds
    <3>2. Committed' = 0 + Potential
      BY <1>3, <3>1
    <3>3. Committed' = Potential
      BY <3>2, CommittedNat
    <3> QED BY <3>1, <3>3, CommittedNat, LastRead DEF IInv, RoomInv, Committed
  <2>2. CASE ~(transmitting < ReadPackets)
    <3>1. filling' = filling /\ transmitting' = transmitting - ReadPackets
      BY <2>2 DEF ReadReports, BufferGoesOn
    <3>2. Committed' = Committed
      BY <1>3, <3>1 DEF Committed
    <3>3. transmitting >= ReadPackets
      BY <2>2, CommittedNat, ConnectionAssumption
    <3> QED BY <3>1, <3>2, <3>3, CommittedNat, PartRead DEF IInv, RoomInv
  <2> QED BY <2>1, <2>2
<1> QED BY <1>1, <1>4 DEF RoomInv, Lost

LEMMA RoomTimeout ==
  ASSUME IInv, TypeInv', ReadTimesOut
  PROVE  RoomInv'
<1>1. /\ host' = "write" /\ handle' = "valid" /\ UNCHANGED <<board, commands, filling>>
      /\ transmitting = 0 /\ filling = 0 /\ transmitting' = 0
  BY DEF ReadTimesOut, output, IInv, ConnectionInv
<1>2. Potential' = Potential
  BY <1>1, OtherPotential
<1>3. Committed' = 0 + Potential /\ Committed = 0 + Potential
  BY <1>1, <1>2 DEF Committed
<1>4. Committed' = Potential
  BY <1>3, CommittedNat
<1>5. AnyBound(filling + Potential, transmitting)
  BY DEF IInv, RoomInv, Committed
<1>6. AnyBound(Potential, filling) /\ WriteBound(Potential, filling)
  BY <1>5, CommittedNat, LastRead
<1> QED BY <1>1, <1>4, <1>6 DEF RoomInv, Lost

LEMMA RoomUnplug ==
  ASSUME IInv, TypeInv', Unplug
  PROVE  RoomInv'
<1>1. filling' = 0 /\ transmitting' = 0
  BY DEF Unplug
<1>2. Potential' \in Nat /\ Potential' <= Max
  BY NextPotentialBounds, UnplugPotential
<1>3. Committed' = filling' + Potential'
  BY DEF Committed
<1>4. Committed' = 0 + Potential'
  BY <1>1, <1>3
<1>5. \A q \in Nat : q <= Max => 0 + q \in Nat /\ LostBound(0 + q, 0)
  BY ConnectionAssumption DEF LostBound, Max
<1>6. Committed' \in Nat /\ LostBound(Committed', transmitting')
  BY <1>1, <1>2, <1>4, <1>5
<1>7. AnyBound(Committed', transmitting') /\ WriteBound(Committed', transmitting')
  BY <1>1, <1>6, Found
<1> QED BY <1>6, <1>7 DEF RoomInv

(* Steps that touch neither the board nor the buffers.                     *)
LEMMA RoomElsewhere ==
  ASSUME IInv, UNCHANGED <<board, commands, filling, transmitting>>,
         Lost' => Lost,
         host' = "write" => Lost \/ host = "write"
  PROVE  RoomInv'
<1>1. Committed' = Committed
  BY OtherPotential DEF Committed
<1>2. Lost => WriteBound(Committed, transmitting)
  BY CommittedNat, Found DEF IInv, RoomInv
<1> QED BY <1>1, <1>2 DEF IInv, RoomInv

LEMMA RoomNext == IInv /\ [Next]_vars => RoomInv'
<1> SUFFICES ASSUME IInv, [Next]_vars PROVE RoomInv'
  OBVIOUS
<1>1. TypeInv'
  BY TypeNext
<1>2. CASE ReceivePacket \/ ReceiveNoPacket \/ ReceiveNothing \/ SendNothing
  BY <1>1, <1>2, RoomReceive
<1>3. CASE SendReport
  BY <1>1, <1>3, RoomSend
<1>4. CASE WriteCommand
  BY <1>1, <1>4, RoomWrite
<1>5. CASE ReadReports
  BY <1>1, <1>5, RoomRead
<1>6. CASE ReadTimesOut
  BY <1>1, <1>6, RoomTimeout
<1>7. CASE Unplug
  BY <1>1, <1>7, RoomUnplug
<1>8. CASE Connect
  BY <1>8, RoomElsewhere DEF Connect, output, Lost, IInv, TypeInv
<1>9. CASE TransferFails
  BY <1>9, RoomElsewhere DEF TransferFails, output, Lost
<1>10. CASE WriteNothing
  BY <1>10, RoomElsewhere DEF WriteNothing, output, Lost
<1>11. CASE Plug \/ ProxyAppends
  BY <1>11, RoomElsewhere DEF Plug, ProxyAppends, output, handler, Lost
<1>12. CASE Start
  BY <1>12, RoomElsewhere DEF Start, output, Lost
<1>13. CASE Kill
  BY <1>13, RoomElsewhere DEF Kill, output, Lost
<1>14. CASE UNCHANGED vars
  BY <1>14, RoomElsewhere DEF vars, board, Lost
<1> QED BY <1>2, <1>3, <1>4, <1>5, <1>6, <1>7, <1>8, <1>9, <1>10, <1>11, <1>12, <1>13, <1>14
        DEF Next, SerialThread, HandlerThread

LEMMA InitIInv == Init => IInv
<1> SUFFICES ASSUME Init PROVE IInv
  OBVIOUS
<1>1. TypeInv
  <2>1. 0 \in 0 .. Max + 1 /\ 0 \in 0 .. CommandSlots /\ 0 \in Nat
    BY ConnectionAssumption DEF Max
  <2> QED BY <2>1 DEF Init, TypeInv
<1>2. ConnectionInv
  BY DEF Init, ConnectionInv
<1>3. Potential \in Nat /\ Potential <= Max
  <2>1. commands = 0 /\ pc = "receive" /\ iterationsWithoutReceive = 0
    BY DEF Init
  <2> QED BY <2>1, ConnectionAssumption DEF Potential, PotentialOf, Max
<1>4. Committed = 0 + Potential /\ transmitting = 0 /\ host = "dead" /\ handle = "none"
  BY DEF Init, Committed
<1>5. Committed \in Nat /\ Committed <= Max
  BY <1>3, <1>4
<1>6. \A c \in Nat : c <= Max => LostBound(c, 0)
  BY ConnectionAssumption DEF LostBound, Max
<1>7. AnyBound(Committed, 0)
  BY <1>5, <1>6, Found
<1> QED BY <1>1, <1>2, <1>4, <1>7 DEF IInv, RoomInv, Lost

THEOREM Inductive == Spec => []IInv
<1>1. IInv /\ [Next]_vars => IInv'
  BY TypeNext, ConnectionNext, RoomNext DEF IInv
<1> QED BY InitIInv, <1>1, PTL DEF Spec

(* Whenever the serial thread is about to send a report there is room for   *)
(* it, for every configuration that meets RoomAssumption.                   *)
THEOREM SendsWithoutWaiting == Spec => []NeverBlocks
<1>1. ASSUME IInv, Sending PROVE Room
  <2>1. Potential >= 1
    BY <1>1, ConnectionAssumption
       DEF Sending, ConnectionLinkActive, IInv, TypeInv, Potential, PotentialOf, Max
  <2>2. \A f, p \in Nat : f + p <= 3 * Max + 1 /\ p >= 1 => f < BufferPackets
    BY ConnectionAssumption, RoomAssumption DEF Max
  <2>3. filling + Potential <= 3 * Max + 1
    BY <1>1 DEF IInv, RoomInv, AnyBound, Committed
  <2> QED BY <1>1, <2>1, <2>2, <2>3, CommittedNat DEF Room
<1>2. IInv => NeverBlocks
  BY <1>1 DEF NeverBlocks
<1> QED BY <1>2, Inductive, PTL

(* The state of the connection keeps its types: no buffer of the driver is  *)
(* filled beyond its size, and the count of iterations stays bounded.       *)
THEOREM TypeCorrect == Spec => []TypeOK
<1>1. ASSUME IInv PROVE TypeOK
  <2>1. \A f, p \in Nat : f + p <= 3 * Max + 1 => f \in 0 .. BufferPackets
    BY ConnectionAssumption, RoomAssumption DEF Max
  <2>2. filling \in 0 .. BufferPackets
    <3>1. filling + Potential <= 3 * Max + 1
      BY <1>1 DEF IInv, RoomInv, AnyBound, Committed
    <3> QED BY <1>1, <2>1, <3>1, CommittedNat
  <2>3. transmitting \in 0 .. BufferPackets
    <3>1. transmitting <= 3 * Max + 1
      BY <1>1 DEF IInv, RoomInv, AnyBound
    <3> QED BY <1>1, <3>1, CommittedNat, ConnectionAssumption, RoomAssumption DEF Max
  <2> QED BY <1>1, <2>2, <2>3 DEF IInv, TypeInv, TypeOK, Max
<1> QED BY <1>1, Inductive, PTL

(* What the host wrote is taken, valid or not, within two steps of the      *)
(* serial thread; together with NeverBlocks, which says that neither of     *)
(* them waits, this is what CommandsTaken rests on                          *)
(* (serialConnection.c:127-199).                                           *)
THEOREM CommandsAreTakenSoon == Spec => TakenInTwoSteps
<1>1. IInv /\ [Next]_vars =>
        [ commands > 0 /\ SerialThread =>
            \/ pc = "receive" /\ commands' = 0
            \/ pc = "send" /\ pc' = "receive" /\ commands' = commands ]_vars
  <2> SUFFICES ASSUME IInv, commands > 0, SerialThread
               PROVE  \/ pc = "receive" /\ commands' = 0
                      \/ pc = "send" /\ pc' = "receive" /\ commands' = commands
    OBVIOUS
  <2>1. attached /\ commands # 0
    BY ConnectionAssumption DEF IInv, TypeInv, ConnectionInv
  <2>2. ~ReceiveNothing
    BY <2>1 DEF ReceiveNothing
  <2>3. CASE ReceivePacket \/ ReceiveNoPacket
    BY <2>3 DEF ReceivePacket, ReceiveNoPacket
  <2>4. CASE SendReport
    BY <2>4 DEF SendReport, Sending
  <2>5. CASE SendNothing
    BY <2>5 DEF SendNothing
  <2> QED BY <2>2, <2>3, <2>4, <2>5 DEF SerialThread
<1> QED BY <1>1, Inductive, PTL DEF Spec, TakenInTwoSteps

(* Every valid packet the board takes is answered and the answer is kept for *)
(* the host, for every configuration that meets RoomAssumption: nobody waits *)
(* for anybody in a circle (serialConnection.c:172-224).  Of bytes without a *)
(* valid packet nothing is claimed.                                        *)
THEOREM CommandsAreAnswered == Spec => AnswersFollow
<1>1. ASSUME IInv, NeverBlocks', Next
      PROVE  /\ ReceivePacket => Sending' /\ Room'
             /\ SerialThread /\ Sending /\ attached => busy' /\ Queued' = Queued + 1
             /\ Queued' < Queued => ReadReports \/ ~attached'
             /\ ReadReports /\ transmitting = 0 => transmitting' = Queued
             /\ Queued > 0 => busy
  <2>1. /\ transmitting \in Nat /\ filling \in Nat /\ commands \in Nat
        /\ ~busy => transmitting = 0 /\ filling = 0
        /\ ReadPackets \in Nat /\ ReadPackets > 0
    BY <1>1, ConnectionAssumption, RoomAssumption DEF IInv, TypeInv, ConnectionInv
  <2>2. ASSUME ReceivePacket PROVE Sending' /\ Room'
    <3>1. Sending'
      BY <2>2, ConnectionAssumption DEF ReceivePacket, Sending, ConnectionLinkActive
    <3> QED
      BY <1>1, <3>1 DEF NeverBlocks
  <2>3. ASSUME SerialThread, Sending, attached PROVE busy' /\ Queued' = Queued + 1
    <3>1. SendReport
      BY <2>3 DEF SerialThread, ReceivePacket, ReceiveNoPacket, ReceiveNothing, SendNothing, Sending
    <3>2. CASE busy
      BY <2>1, <3>1, <3>2 DEF SendReport, Queued
    <3>3. CASE ~busy
      BY <2>1, <3>1, <3>3 DEF SendReport, Queued
    <3> QED
      BY <3>2, <3>3
  <2>4. ASSUME ~ReadReports, attached' PROVE ~(Queued' < Queued)
    <3>1. CASE SendReport
      <4>1. Queued' = Queued + 1
        BY <2>1, <2>3, <3>1 DEF SendReport, SerialThread
      <4> QED
        BY <2>1, <4>1 DEF Queued
    <3>2. CASE ~SendReport
      <4>1. UNCHANGED <<transmitting, filling>>
        BY <1>1, <2>4, <3>2
           DEF Next, SerialThread, ReceivePacket, ReceiveNoPacket, ReceiveNothing, SendNothing,
               HandlerThread,
               Connect, TransferFails, ReadTimesOut, WriteCommand, WriteNothing, Unplug, Plug,
               ProxyAppends, Start, Kill, output
      <4> QED
        BY <2>1, <4>1 DEF Queued
    <3> QED
      BY <3>1, <3>2
  <2>5. ASSUME ReadReports, transmitting = 0 PROVE transmitting' = Queued
    BY <2>1, <2>5 DEF ReadReports, BufferEnds, Queued
  <2>6. Queued > 0 => busy
    BY <2>1 DEF Queued
  <2> QED
    BY <2>2, <2>3, <2>4, <2>5, <2>6
<1>2. IInv /\ NeverBlocks' /\ [Next]_vars =>
        [ /\ ReceivePacket => Sending' /\ Room'
          /\ SerialThread /\ Sending /\ attached => busy' /\ Queued' = Queued + 1
          /\ Queued' < Queued => ReadReports \/ ~attached'
          /\ ReadReports /\ transmitting = 0 => transmitting' = Queued
          /\ Queued > 0 => busy ]_vars
  BY <1>1
<1> QED BY <1>2, Inductive, SendsWithoutWaiting, PTL DEF Spec, AnswersFollow
=============================================================================
