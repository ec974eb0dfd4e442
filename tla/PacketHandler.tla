---------------------------- MODULE PacketHandler ----------------------------
(***************************************************************************)
(* The receive side of stm32/src/serial/packetHandler.c: bytes from the     *)
(* Odroid are appended to a buffer, and the newest valid control packet is  *)
(* searched for from the end of the buffer backwards.                       *)
(*                                                                         *)
(* A control packet "4:", speed, angle, lights, checksum, "," is abstracted *)
(* to four bytes: <<start>>, <<data>>, <<check>>, <<comma>>.  Start and     *)
(* comma look the same in every packet; data and check carry the number of  *)
(* the packet, so a checksum matches exactly the data it was computed from. *)
(* The Odroid sends packets 1, 2, 3, ... one after the other; the link      *)
(* delivers their bytes in order, split over the iterations of the serial   *)
(* thread in any way, and may lose bytes (a reset of the USB connection).   *)
(***************************************************************************)
EXTENDS Integers

CONSTANTS
  BufferSize,  \* BUFFER_SIZE, 128 in the code
  MaxPackets,  \* bound of the model: packets the Odroid sends
  MaxLost      \* bound of the model: bytes the link loses

(* CONTROL_DATA_PACKET_SIZE, 7 in the code.                                *)
PacketSize == 4

ASSUME BufferSizeAssumption ==
  /\ BufferSize \in Nat
  /\ BufferSize % 2 = 0
  /\ BufferSize >= 2 * PacketSize

ASSUME BoundsAssumption == MaxPackets \in Nat /\ MaxLost \in Nat

VARIABLES
  buffer,         \* buffer[]
  bufferCounter,  \* next free position of buffer
  fresh,          \* bytes were added since the last attempt to read a packet
  delivered,      \* the packet the last successful read returned, 0 for none
  sent,           \* environment: bytes that left the Odroid
  lost,           \* environment: how many of them the link lost
  upto,           \* history: the stream up to the byte that was stored last
  tail            \* history: how many of these bytes lie at the end of the used
                  \* part, none of them missing

history == <<upto, tail>>
vars == <<buffer, bufferCounter, fresh, delivered, sent, lost, history>>

-----------------------------------------------------------------------------
(* Bytes.                                                                  *)
Zero  == [kind |-> "zero",  packet |-> 0]
Start == [kind |-> "start", packet |-> 0]
Comma == [kind |-> "comma", packet |-> 0]
Data(p)  == [kind |-> "data",  packet |-> p]
Check(p) == [kind |-> "check", packet |-> p]

Byte == [kind : {"zero", "start", "data", "check", "comma"}, packet : Nat]

(* The n-th byte the Odroid sends, n = 0, 1, 2, ...                        *)
StreamPacket(n) == (n \div PacketSize) + 1
StreamByte(n) ==
  LET p == StreamPacket(n)
  IN  CASE n % PacketSize = 0 -> Start
        [] n % PacketSize = 1 -> Data(p)
        [] n % PacketSize = 2 -> Check(p)
        [] OTHER              -> Comma

-----------------------------------------------------------------------------
Positions == 0 .. BufferSize - 1

(* strnshift: copies b[n ..] to the front, but at most n bytes of it; the   *)
(* rest of the array keeps what it held.                                   *)
Shift(b, n) ==
  [i \in Positions |-> IF i < n /\ i + n < BufferSize THEN b[i + n] ELSE b[i]]

Init ==
  /\ buffer = [i \in Positions |-> Zero]
  /\ bufferCounter = 0
  /\ fresh = FALSE
  /\ delivered = 0
  /\ sent = 0
  /\ lost = 0
  /\ upto = 0 /\ tail = 0

\* Mutant: the counter is not compared with the size of the buffer.
MutAddPastTheEnd ==
  /\ bufferCounter = BufferSize
  /\ bufferCounter' = bufferCounter + 1
  /\ UNCHANGED <<buffer, history>>

Stored(x) == [buffer EXCEPT ![bufferCounter] = x]

(* packetHandlerAddToRcvBuffer.  With bufferCounter = BufferSize the byte   *)
(* is written one past the end of the array: it is lost to the buffer (what *)
(* else it overwrites is outside this module), and only then is the older   *)
(* half discarded.  What is left ends with the byte before the lost one.    *)
AddToFreePosition(x) ==
  /\ bufferCounter < BufferSize
  /\ buffer' = Stored(x)
  /\ bufferCounter' = bufferCounter + 1
  /\ upto' = sent + 1
  /\ tail' = IF upto = sent THEN tail + 1 ELSE 1

AddPastTheEnd ==
  /\ bufferCounter = BufferSize
  /\ buffer' = Shift(buffer, BufferSize \div 2)
  /\ bufferCounter' = BufferSize \div 2
  /\ tail' = IF tail < BufferSize \div 2 THEN tail ELSE BufferSize \div 2
  /\ UNCHANGED upto

ReceiveByte ==
  /\ sent < PacketSize * MaxPackets
  /\ sent' = sent + 1
  /\ fresh' = TRUE
  /\ AddToFreePosition(StreamByte(sent)) \/ AddPastTheEnd
  /\ UNCHANGED <<delivered, lost>>

LoseByte ==
  /\ sent < PacketSize * MaxPackets
  /\ lost < MaxLost
  /\ sent' = sent + 1
  /\ lost' = lost + 1
  /\ UNCHANGED <<buffer, bufferCounter, fresh, delivered, history>>

\* Mutant: the checksum is not compared with the data.
MutPacketEndsAt(e) ==
  /\ buffer[e] = Comma
  /\ buffer[e - 3] = Start
  /\ buffer[e - 2].kind = "data"

(* packetHandlerReadPacketFromBuffer, called when bytes were received and   *)
(* the buffer holds enough of them (serialConnection.c:170-171).           *)
PacketEndsAt(e) ==
  /\ buffer[e] = Comma
  /\ buffer[e - 3] = Start
  /\ buffer[e - 2].kind = "data"
  /\ buffer[e - 1] = Check(buffer[e - 2].packet)

\* Mutant: the scan starts one byte too early.
MutPacketEnds == {e \in PacketSize - 1 .. bufferCounter - 2 : PacketEndsAt(e)}

PacketEnds == {e \in PacketSize - 1 .. bufferCounter - 1 : PacketEndsAt(e)}

TryRead ==
  /\ fresh
  /\ bufferCounter >= PacketSize

LastPacketEnd(e) == e \in PacketEnds /\ \A f \in PacketEnds : f <= e

(* The counter goes back to the comma, so the bytes received behind it are  *)
(* no longer at the end of the used part: what follows them is stored where *)
(* the comma was.                                                          *)
ReadPacket ==
  /\ TryRead
  /\ \E e \in Positions :
       /\ LastPacketEnd(e)
       /\ buffer' = Shift(buffer, e)
       /\ bufferCounter' = e
       /\ delivered' = buffer[e - 2].packet
  /\ fresh' = FALSE
  /\ tail' = 0
  /\ UNCHANGED <<sent, lost, upto>>

NoPacket ==
  /\ TryRead
  /\ PacketEnds = {}
  /\ fresh' = FALSE
  /\ UNCHANGED <<buffer, bufferCounter, delivered, sent, lost, history>>

\* The iteration ends with too few bytes in the buffer.
TooFewBytes ==
  /\ fresh
  /\ bufferCounter < PacketSize
  /\ fresh' = FALSE
  /\ UNCHANGED <<buffer, bufferCounter, delivered, sent, lost, history>>

Next ==
  \/ ReceiveByte
  \/ LoseByte
  \/ ReadPacket
  \/ NoPacket
  \/ TooFewBytes

Spec == Init /\ [][Next]_vars

-----------------------------------------------------------------------------
TypeOK ==
  /\ buffer \in [Positions -> Byte]
  /\ bufferCounter \in 0 .. BufferSize
  /\ fresh \in BOOLEAN
  /\ delivered \in Nat
  /\ sent \in Nat
  /\ lost \in Nat
  /\ upto \in Nat /\ tail \in Nat

(* What the history variables mean: the last bytes stored, one after the    *)
(* other, lie side by side at the end of the used part of the buffer.       *)
TailIntact ==
  /\ tail <= bufferCounter
  /\ tail <= upto
  /\ upto <= sent
  /\ \A i \in 1 .. tail : buffer[bufferCounter - i] = StreamByte(upto - i)

(* packetHandler.c:107-156: a packet is acted on only after its last byte   *)
(* has left the Odroid.  The bytes of older packets that the shift leaves   *)
(* in the buffer never complete a packet that is still on its way.         *)
OnlyWholePackets == PacketSize * delivered <= sent

(* What is left of "moves backward until the first valid packet is          *)
(* instantiated" (packetHandler.c:99-101).  When an iteration that brought  *)
(* bytes ends, the packet read is the newest whose last byte was received,  *)
(* unless one of its bytes was lost by the link, overflowed the buffer, lay *)
(* half a buffer before one that did, or was received before an earlier     *)
(* packet was read.  It is read although the iteration ends in the middle   *)
(* of the next packet, directly after the buffer overflowed, and whatever   *)
(* stale bytes are searched too.  The other packets may be missed: see      *)
(* NewestDelivered.                                                        *)
NewestUncutRead ==
  [][ TryRead /\ ~fresh' /\ tail >= PacketSize + (upto % PacketSize)
        => delivered' = upto \div PacketSize ]_vars

(* What the comments promise of a link that loses nothing: half the buffer, *)
(* "the oldest part", goes when it is full (packetHandler.c:79-85), the     *)
(* search begins at "the most recent end", and a read discards what is      *)
(* "older than the end of that packet" or up to it and no more (:8-11,      *)
(* :99-101).  So whenever the bytes of an iteration have been searched the  *)
(* packet delivered last is the newest that was sent in full.              *)
NewestDelivered == lost = 0 /\ ~fresh => delivered = sent \div PacketSize
=============================================================================
