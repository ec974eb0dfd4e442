------------------------ MODULE PacketHandler_proofs ------------------------
(***************************************************************************)
(* Theorems about PacketHandler, for every even buffer size of at least two *)
(* packets and any number of packets and lost bytes.                       *)
(***************************************************************************)
EXTENDS PacketHandler, TLAPS

(* The check byte of a packet whose comma has not been sent yet ...         *)
ChecksSent ==
  \A i \in Positions : buffer[i].kind = "check" => 4 * buffer[i].packet <= sent + 1

(* ... is the last byte of the used part, as long as a read may follow.     *)
CheckLast ==
  fresh => \A i \in Positions :
             buffer[i].kind = "check" /\ 4 * buffer[i].packet = sent + 1
               => i = bufferCounter - 1

IInv == TypeOK /\ TailIntact /\ ChecksSent /\ CheckLast /\ OnlyWholePackets

-----------------------------------------------------------------------------
(* The bytes of the stream are bytes.                                      *)
LEMMA StreamType == \A n \in Nat : StreamByte(n) \in Byte
  BY DEF StreamByte, StreamPacket, PacketSize, Byte, Start, Comma, Data, Check

(* Shifting a buffer by any amount gives a buffer again.                   *)
LEMMA ShiftType ==
  ASSUME NEW b \in [Positions -> Byte], NEW n \in Nat
  PROVE  Shift(b, n) \in [Positions -> Byte]
  <1> SUFFICES ASSUME NEW i \in Positions, i < n, i + n < BufferSize
               PROVE  b[i + n] \in Byte
    BY DEF Shift
  <1> QED
    BY BufferSizeAssumption DEF Positions

LEMMA HalfIsPosition ==
  BufferSize \div 2 \in Nat /\ BufferSize \div 2 < BufferSize
  BY BufferSizeAssumption DEF PacketSize

-----------------------------------------------------------------------------
LEMMA InitIInv == Init => IInv
  <1> SUFFICES ASSUME Init PROVE IInv
    OBVIOUS
  <1>1. Zero \in Byte
    BY DEF Zero, Byte
  <1>2. 0 \in 0 .. BufferSize
    BY BufferSizeAssumption
  <1>3. TypeOK
    BY <1>1, <1>2 DEF Init, TypeOK
  <1>4. TailIntact
    BY DEF Init, TailIntact
  <1>5. ChecksSent /\ CheckLast
    BY DEF Init, ChecksSent, CheckLast, Zero
  <1>6. OnlyWholePackets
    BY DEF Init, OnlyWholePackets, PacketSize
  <1> QED
    BY <1>3, <1>4, <1>5, <1>6 DEF IInv

LEMMA TypeStep == TypeOK /\ [Next]_vars => TypeOK'
  <1> SUFFICES ASSUME TypeOK, [Next]_vars PROVE TypeOK'
    OBVIOUS
  <1> USE DEF TypeOK
  <1>1. CASE ReceiveByte
    <2>1. sent' \in Nat /\ fresh' \in BOOLEAN /\ delivered' \in Nat /\ lost' \in Nat
      BY <1>1 DEF ReceiveByte
    <2>2. CASE AddToFreePosition(StreamByte(sent))
      <3>1. StreamByte(sent) \in Byte
        BY StreamType
      <3>2. upto' \in Nat /\ tail' \in Nat
        BY <2>2 DEF AddToFreePosition
      <3>3. buffer' \in [Positions -> Byte] /\ bufferCounter' \in 0 .. BufferSize
        BY <2>2, <3>1, BufferSizeAssumption DEF AddToFreePosition, Stored, Positions
      <3> QED BY <2>1, <3>2, <3>3
    <2>3. CASE AddPastTheEnd
      <3>1. Shift(buffer, BufferSize \div 2) \in [Positions -> Byte]
        BY HalfIsPosition, ShiftType
      <3>2. upto' \in Nat /\ tail' \in Nat
        BY <2>3, HalfIsPosition DEF AddPastTheEnd
      <3> QED BY <2>1, <2>3, <3>1, <3>2, HalfIsPosition, BufferSizeAssumption DEF AddPastTheEnd
    <2> QED BY <1>1, <2>2, <2>3 DEF ReceiveByte
  <1>2. CASE LoseByte
    BY <1>2 DEF LoseByte, history
  <1>3. CASE ReadPacket
    <2>1. PICK e \in Positions :
            /\ LastPacketEnd(e)
            /\ buffer' = Shift(buffer, e)
            /\ bufferCounter' = e
            /\ delivered' = buffer[e - 2].packet
      BY <1>3 DEF ReadPacket
    <2>2. e \in Nat /\ e - 2 \in Positions /\ e <= BufferSize
      BY <2>1, BufferSizeAssumption DEF LastPacketEnd, PacketEnds, PacketSize, Positions
    <2>3. buffer' \in [Positions -> Byte]
      BY <2>1, <2>2, ShiftType
    <2>4. delivered' \in Nat
      BY <2>1, <2>2 DEF Byte
    <2>5. bufferCounter' \in 0 .. BufferSize
      BY <2>1, <2>2, BufferSizeAssumption
    <2>6. fresh' \in BOOLEAN /\ sent' \in Nat /\ lost' \in Nat /\ upto' \in Nat /\ tail' \in Nat
      BY <1>3 DEF ReadPacket
    <2> QED BY <2>3, <2>4, <2>5, <2>6
  <1>4. CASE NoPacket
    BY <1>4 DEF NoPacket, history
  <1>5. CASE TooFewBytes
    BY <1>5 DEF TooFewBytes, history
  <1>6. CASE UNCHANGED vars
    BY <1>6 DEF vars, history
  <1> QED
    BY <1>1, <1>2, <1>3, <1>4, <1>5, <1>6 DEF Next

(* The byte that is stored extends what lies at the end, or begins it anew.  *)
LEMMA TailExtended ==
  ASSUME TypeOK, TailIntact, sent' = sent + 1, AddToFreePosition(StreamByte(sent))
  PROVE  TailIntact'
  <1> USE DEF TypeOK
  <1>1. /\ upto' = sent + 1
        /\ tail' = (IF upto = sent THEN tail + 1 ELSE 1)
        /\ bufferCounter' = bufferCounter + 1
        /\ buffer' = [buffer EXCEPT ![bufferCounter] = StreamByte(sent)]
        /\ bufferCounter \in Positions
    BY BufferSizeAssumption DEF AddToFreePosition, Stored, Positions
  <1>2. tail' <= bufferCounter' /\ tail' <= upto' /\ upto' <= sent'
    BY <1>1 DEF TailIntact
  <1>3. ASSUME NEW i \in 1 .. tail'
        PROVE  buffer'[bufferCounter' - i] = StreamByte(upto' - i)
    <2>1. CASE i = 1
      <3>1. bufferCounter' - i = bufferCounter /\ upto' - i = sent
        BY <1>1, <2>1
      <3> QED BY <1>1, <3>1
    <2>2. CASE i # 1
      <3>1. i - 1 \in 1 .. tail /\ upto = sent
        BY <1>1, <2>2
      <3>2. /\ bufferCounter' - i = bufferCounter - (i - 1)
            /\ upto' - i = upto - (i - 1)
        BY <1>1, <3>1
      <3>3. /\ bufferCounter - (i - 1) \in Positions
            /\ bufferCounter - (i - 1) # bufferCounter
        BY <3>1, BufferSizeAssumption DEF TailIntact, Positions
      <3>4. buffer[bufferCounter - (i - 1)] = StreamByte(upto - (i - 1))
        BY <3>1 DEF TailIntact
      <3> QED BY <1>1, <3>2, <3>3, <3>4
    <2> QED BY <2>1, <2>2
  <1> QED BY <1>2, <1>3 DEF TailIntact

(* An overflow keeps of it what fits into half the buffer.                  *)
LEMMA TailHalved ==
  ASSUME TypeOK, TailIntact, sent' = sent + 1, AddPastTheEnd
  PROVE  TailIntact'
  <1> USE DEF TypeOK
  <1> DEFINE half == BufferSize \div 2
  <1>1. half \in Nat /\ half + half = BufferSize /\ BufferSize \in Nat
    BY BufferSizeAssumption
  <1>2. /\ tail' = (IF tail < half THEN tail ELSE half)
        /\ upto' = upto /\ bufferCounter = BufferSize /\ bufferCounter' = half
        /\ buffer' = Shift(buffer, half)
    BY DEF AddPastTheEnd
  <1> HIDE DEF half
  <1>3. tail' <= bufferCounter' /\ tail' <= upto' /\ upto' <= sent'
    BY <1>1, <1>2 DEF TailIntact
  <1>4. ASSUME NEW i \in 1 .. tail'
        PROVE  buffer'[bufferCounter' - i] = StreamByte(upto' - i)
    <2>1. i \in 1 .. tail /\ i \in 1 .. half
      BY <1>1, <1>2
    <2>2. /\ half - i \in Positions /\ half - i < half
          /\ half - i + half = BufferSize - i /\ BufferSize - i < BufferSize
      BY <1>1, <2>1 DEF Positions
    <2>3. buffer'[half - i] = buffer[BufferSize - i]
      BY <1>2, <2>2 DEF Shift
    <2>4. buffer[BufferSize - i] = StreamByte(upto - i)
      BY <1>2, <2>1 DEF TailIntact
    <2> QED BY <1>2, <2>3, <2>4
  <1> QED BY <1>3, <1>4 DEF TailIntact

LEMMA TailStep == TypeOK /\ TailIntact /\ [Next]_vars => TailIntact'
  <1> SUFFICES ASSUME TypeOK, TailIntact, [Next]_vars PROVE TailIntact'
    OBVIOUS
  <1>1. CASE ReceiveByte
    BY <1>1, TailExtended, TailHalved DEF ReceiveByte
  <1>2. CASE LoseByte
    BY <1>2 DEF LoseByte, TailIntact, TypeOK, history
  <1>3. CASE ReadPacket
    <2>1. /\ tail' = 0 /\ upto' = upto /\ sent' = sent
          /\ bufferCounter' \in Nat
      BY <1>3, BufferSizeAssumption DEF ReadPacket, Positions
    <2> QED BY <2>1 DEF TailIntact, TypeOK
  <1>4. CASE NoPacket
    BY <1>4 DEF NoPacket, TailIntact, history
  <1>5. CASE TooFewBytes
    BY <1>5 DEF TooFewBytes, TailIntact, history
  <1>6. CASE UNCHANGED vars
    BY <1>6 DEF vars, TailIntact, history
  <1> QED
    BY <1>1, <1>2, <1>3, <1>4, <1>5, <1>6 DEF Next

(* When what lies at the end holds a whole packet and perhaps the beginning *)
(* of the next, the last packet end in the buffer is the comma of this      *)
(* packet, and what is read there is its data.                             *)
LEMMA TailPacket ==
  ASSUME TypeOK, TailIntact, tail >= PacketSize + (upto % PacketSize)
  PROVE  \E e \in PacketEnds :
           /\ \A f \in PacketEnds : f <= e
           /\ buffer[e - 2].packet = upto \div PacketSize
  <1> DEFINE r == upto % 4
             p == upto \div 4
             e == bufferCounter - 1 - r
  <1>1. /\ upto \in Nat /\ tail \in Nat /\ bufferCounter \in Nat
        /\ r \in 0 .. 3 /\ p \in Nat /\ upto = 4 * p + r
    BY DEF TypeOK
  <1>2. tail <= bufferCounter /\ tail <= upto /\ tail >= 4 + r
    BY DEF TailIntact, PacketSize
  <1>3. p >= 1 /\ bufferCounter >= 4 + r
    BY <1>1, <1>2
  <1>4. ASSUME NEW i \in 1 .. 4 + r
        PROVE  buffer[bufferCounter - i] = StreamByte(upto - i)
    BY <1>1, <1>2, <1>4 DEF TailIntact
  <1> HIDE DEF r, p
  <1>5. /\ buffer[e] = StreamByte(4 * p - 1) /\ buffer[e - 1] = StreamByte(4 * p - 2)
        /\ buffer[e - 2] = StreamByte(4 * p - 3) /\ buffer[e - 3] = StreamByte(4 * p - 4)
    <2>1. ASSUME NEW k \in 1 .. 4
          PROVE  buffer[bufferCounter - (r + k)] = StreamByte(4 * p - k)
      <3>1. r + k \in 1 .. 4 + r /\ upto - (r + k) = 4 * p - k
        BY <1>1
      <3> QED BY <1>4, <3>1
    <2>2. /\ e = bufferCounter - (r + 1) /\ e - 1 = bufferCounter - (r + 2)
          /\ e - 2 = bufferCounter - (r + 3) /\ e - 3 = bufferCounter - (r + 4)
      BY <1>1
    <2>3. 1 \in 1 .. 4 /\ 2 \in 1 .. 4 /\ 3 \in 1 .. 4 /\ 4 \in 1 .. 4
      OBVIOUS
    <2> QED BY <2>1, <2>2, <2>3
  <1>6. /\ StreamByte(4 * p - 1) = Comma /\ StreamByte(4 * p - 2) = Check(p)
        /\ StreamByte(4 * p - 3) = Data(p) /\ StreamByte(4 * p - 4) = Start
    <2>1. /\ (4 * p - 1) % 4 = 3 /\ (4 * p - 2) % 4 = 2
          /\ (4 * p - 3) % 4 = 1 /\ (4 * p - 4) % 4 = 0
          /\ ((4 * p - 2) \div 4) + 1 = p /\ ((4 * p - 3) \div 4) + 1 = p
      BY <1>1, <1>3
    <2> QED BY <2>1 DEF StreamByte, StreamPacket, PacketSize
  <1>7. e \in 3 .. bufferCounter - 1
    BY <1>1, <1>3
  <1>8. e \in PacketEnds
    BY <1>5, <1>6, <1>7 DEF PacketEnds, PacketEndsAt, PacketSize, Data, Check
  <1>9. ASSUME NEW f \in PacketEnds, f > e PROVE FALSE
    <2>1. f \in 3 .. bufferCounter - 1 /\ buffer[f] = Comma
      BY DEF PacketEnds, PacketEndsAt, PacketSize
    <2> DEFINE i == bufferCounter - f
    <2>2. i \in 1 .. r /\ f = bufferCounter - i
      BY <1>1, <1>9, <2>1
    <2> HIDE DEF i
    <2>3. i \in 1 .. 4 + r
      BY <1>1, <2>2
    <2>4. StreamByte(upto - i) = Comma
      BY <1>4, <2>1, <2>2, <2>3
    <2>5. upto - i = 4 * p + (r - i) /\ r - i \in 0 .. 2
      BY <1>1, <2>2
    <2>6. (4 * p + (r - i)) % 4 = r - i
      BY <1>1, <2>5
    <2>7. (upto - i) % 4 \in 0 .. 2
      BY <2>5, <2>6
    <2> QED BY <2>4, <2>7 DEF StreamByte, PacketSize, Start, Data, Check, Comma
  <1>10. e \in Int /\ \A f \in PacketEnds : f \in Int
    BY <1>1 DEF PacketEnds, PacketSize
  <1>11. buffer[e - 2].packet = upto \div PacketSize
    BY <1>5, <1>6 DEF Data, p, PacketSize
  <1> QED
    BY <1>8, <1>9, <1>10, <1>11

-----------------------------------------------------------------------------
(* A shift only moves bytes that were in the buffer.                       *)
LEMMA ShiftMoves ==
  ASSUME NEW b \in [Positions -> Byte], NEW n \in Nat, NEW i \in Positions
  PROVE  \E j \in Positions : Shift(b, n)[i] = b[j]
  <1>1. CASE i < n /\ i + n < BufferSize
    <2>1. i + n \in Positions
      BY <1>1, BufferSizeAssumption DEF Positions
    <2>2. Shift(b, n)[i] = b[i + n]
      BY <1>1 DEF Shift
    <2> QED BY <2>1, <2>2
  <1>2. CASE ~(i < n /\ i + n < BufferSize)
    <2>1. Shift(b, n)[i] = b[i]
      BY <1>2 DEF Shift
    <2> QED BY <2>1
  <1> QED BY <1>1, <1>2

(* The check byte of a packet is its third byte: one more follows.         *)
LEMMA CheckByte ==
  ASSUME NEW n \in Nat, StreamByte(n).kind = "check"
  PROVE  4 * StreamByte(n).packet = n + 2
  <1>1. n % 4 = 2
    BY DEF StreamByte, PacketSize, Start, Data, Check, Comma
  <1>2. StreamByte(n).packet = (n \div 4) + 1
    BY <1>1 DEF StreamByte, StreamPacket, PacketSize, Check
  <1>3. 4 * (n \div 4) + 2 = n
    BY <1>1
  <1> QED BY <1>2, <1>3

(* A received byte: only the byte itself can belong to the check byte of    *)
(* the packet that is still on its way.                                    *)
LEMMA ChecksReceived ==
  ASSUME TypeOK, ChecksSent, ReceiveByte
  PROVE  ChecksSent' /\ CheckLast'
  <1> USE DEF TypeOK
  <1>1. sent' = sent + 1
    BY DEF ReceiveByte
  <1>2. CASE AddToFreePosition(StreamByte(sent))
    <2>1. /\ bufferCounter \in Positions
          /\ bufferCounter' = bufferCounter + 1
          /\ buffer' = [buffer EXCEPT ![bufferCounter] = StreamByte(sent)]
      BY <1>2, BufferSizeAssumption DEF AddToFreePosition, Stored, Positions
    <2>2. ASSUME NEW i \in Positions, buffer'[i].kind = "check"
          PROVE  /\ 4 * buffer'[i].packet <= sent' + 1
                 /\ 4 * buffer'[i].packet = sent' + 1 => i = bufferCounter' - 1
      <3>1. CASE i = bufferCounter
        <4>1. buffer'[i] = StreamByte(sent)
          BY <2>1, <3>1
        <4>2. 4 * buffer'[i].packet = sent + 2
          BY <2>2, <4>1, CheckByte
        <4> QED BY <1>1, <2>1, <3>1, <4>2
      <3>2. CASE i # bufferCounter
        <4>1. buffer'[i] = buffer[i]
          BY <2>1, <3>2
        <4>2. buffer[i].packet \in Nat /\ 4 * buffer[i].packet <= sent + 1
          BY <2>2, <4>1 DEF ChecksSent, Byte
        <4> QED BY <1>1, <4>1, <4>2
      <3> QED BY <3>1, <3>2
    <2> QED BY <2>2 DEF ChecksSent, CheckLast
  <1>3. CASE AddPastTheEnd
    <2>1. ASSUME NEW i \in Positions, buffer'[i].kind = "check"
          PROVE  4 * buffer'[i].packet <= sent + 1 /\ buffer'[i].packet \in Nat
      <3>1. PICK j \in Positions : buffer'[i] = buffer[j]
        BY <1>3, HalfIsPosition, ShiftMoves DEF AddPastTheEnd
      <3> QED BY <2>1, <3>1 DEF ChecksSent, Byte
    <2> QED BY <1>1, <2>1 DEF ChecksSent, CheckLast
  <1> QED BY <1>2, <1>3 DEF ReceiveByte

LEMMA ChecksStep ==
  TypeOK /\ ChecksSent /\ CheckLast /\ [Next]_vars => ChecksSent' /\ CheckLast'
  <1> SUFFICES ASSUME TypeOK, ChecksSent, CheckLast, [Next]_vars
               PROVE  ChecksSent' /\ CheckLast'
    OBVIOUS
  <1>1. CASE ReceiveByte
    BY <1>1, ChecksReceived
  <1>2. CASE LoseByte
    <2>1. \A i \in Positions : buffer[i].packet \in Nat
      BY DEF TypeOK, Byte
    <2> QED BY <1>2, <2>1 DEF LoseByte, ChecksSent, CheckLast, TypeOK
  <1>3. CASE ReadPacket
    <2>1. PICK e \in Positions : buffer' = Shift(buffer, e)
      BY <1>3 DEF ReadPacket
    <2>2. e \in Nat /\ ~fresh' /\ sent' = sent
      BY <1>3, BufferSizeAssumption DEF ReadPacket, Positions
    <2>3. ASSUME NEW i \in Positions, buffer'[i].kind = "check"
          PROVE  4 * buffer'[i].packet <= sent' + 1
      <3>1. PICK j \in Positions : buffer'[i] = buffer[j]
        BY <2>1, <2>2, ShiftMoves DEF TypeOK
      <3> QED BY <2>2, <2>3, <3>1 DEF ChecksSent
    <2> QED BY <2>2, <2>3 DEF ChecksSent, CheckLast
  <1>4. CASE NoPacket
    BY <1>4 DEF NoPacket, ChecksSent, CheckLast
  <1>5. CASE TooFewBytes
    BY <1>5 DEF TooFewBytes, ChecksSent, CheckLast
  <1>6. CASE UNCHANGED vars
    BY <1>6 DEF vars, ChecksSent, CheckLast
  <1> QED
    BY <1>1, <1>2, <1>3, <1>4, <1>5, <1>6 DEF Next

(* A packet is read where its checksum is followed by a comma, so its       *)
(* checksum is not the last byte, and the whole of it has been sent.       *)
LEMMA WholeStep ==
  TypeOK /\ ChecksSent /\ CheckLast /\ OnlyWholePackets /\ [Next]_vars
    => OnlyWholePackets'
  <1> SUFFICES ASSUME TypeOK, ChecksSent, CheckLast, OnlyWholePackets, [Next]_vars
               PROVE  OnlyWholePackets'
    OBVIOUS
  <1> USE DEF TypeOK, PacketSize
  <1>1. CASE ReadPacket
    <2>1. PICK e \in Positions : LastPacketEnd(e) /\ delivered' = buffer[e - 2].packet
      BY <1>1 DEF ReadPacket
    <2>2. /\ e \in 3 .. bufferCounter - 1
          /\ PacketEndsAt(e)
      BY <2>1 DEF LastPacketEnd, PacketEnds
    <2>3. fresh /\ sent' = sent
      BY <1>1 DEF ReadPacket, TryRead
    <2>4. e - 1 \in Positions /\ e - 2 \in Positions /\ e - 1 # bufferCounter - 1
      BY <2>1, <2>2, BufferSizeAssumption DEF Positions
    <2>5. buffer[e - 1].kind = "check" /\ buffer[e - 1].packet = delivered'
      BY <2>1, <2>2 DEF PacketEndsAt, Check
    <2>6. delivered' \in Nat
      BY <2>1, <2>4 DEF Byte
    <2>7. 4 * delivered' <= sent + 1 /\ 4 * delivered' # sent + 1
      BY <2>3, <2>4, <2>5 DEF ChecksSent, CheckLast
    <2>8. \A x, y \in Nat : 4 * x <= y + 1 /\ 4 * x # y + 1 => 4 * x <= y
      OBVIOUS
    <2>9. 4 * delivered' <= sent
      BY <2>6, <2>7, <2>8
    <2> QED BY <2>3, <2>9 DEF OnlyWholePackets
  <1>2. CASE ReceiveByte \/ LoseByte
    <2>1. sent' = sent + 1 /\ delivered' = delivered
      BY <1>2 DEF ReceiveByte, LoseByte
    <2> QED BY <2>1 DEF OnlyWholePackets
  <1>3. CASE NoPacket \/ TooFewBytes \/ UNCHANGED vars
    <2>1. sent' = sent /\ delivered' = delivered
      BY <1>3 DEF NoPacket, TooFewBytes, vars
    <2> QED BY <2>1 DEF OnlyWholePackets
  <1> QED
    BY <1>1, <1>2, <1>3 DEF Next

-----------------------------------------------------------------------------
THEOREM Inductive == Spec => []IInv
  <1>1. IInv /\ [Next]_vars => IInv'
    BY TypeStep, TailStep, ChecksStep, WholeStep DEF IInv
  <1> QED
    BY InitIInv, <1>1, PTL DEF Spec

(* The variables keep their types; in particular bufferCounter never passes *)
(* BUFFER_SIZE, although it reaches it (packetHandler.c:86-94).            *)
THEOREM TypeCorrect == Spec => []TypeOK
  BY Inductive, PTL DEF IInv

(* A packet is acted on only after its last byte was sent, for every size   *)
(* of the buffer and however many bytes were lost: no stale comma completes *)
(* a packet that is still on its way (packetHandler.c:107-156).            *)
THEOREM ReadsOnlyWholePackets == Spec => []OnlyWholePackets
  BY Inductive, PTL DEF IInv

(* For every size of the buffer the newest packet is read unless the link    *)
(* lost, an overflow dropped or a read cut off a byte of it, also when the  *)
(* iteration ends in the middle of the next packet, or the buffer has just  *)
(* overflowed (packetHandler.c:86-94, :107-156).                           *)
THEOREM ReadsNewestUncut == Spec => NewestUncutRead
  <1>1. IInv /\ [Next]_vars =>
          [TryRead /\ ~fresh' /\ tail >= PacketSize + (upto % PacketSize)
             => delivered' = upto \div PacketSize]_vars
    <2> SUFFICES ASSUME IInv, Next, TryRead, ~fresh',
                        tail >= PacketSize + (upto % PacketSize)
                 PROVE  delivered' = upto \div PacketSize
      OBVIOUS
    <2>1. PICK e \in PacketEnds :
            /\ \A f \in PacketEnds : f <= e
            /\ buffer[e - 2].packet = upto \div PacketSize
      BY TailPacket DEF IInv
    <2>2. CASE ReadPacket
      <3>1. PICK f \in Positions :
              LastPacketEnd(f) /\ delivered' = buffer[f - 2].packet
        BY <2>2 DEF ReadPacket
      <3>2. e \in Int /\ f \in Int /\ f <= e /\ e <= f
        BY <2>1, <3>1, BufferSizeAssumption DEF LastPacketEnd, PacketEnds, PacketSize, Positions
      <3>3. e = f
        BY <3>2
      <3> QED BY <2>1, <3>1, <3>3
    <2>3. ~NoPacket
      BY <2>1 DEF NoPacket
    <2>4. ~TooFewBytes
      BY DEF TooFewBytes, TryRead, IInv, TypeOK, PacketSize
    <2>5. ~ReceiveByte /\ ~LoseByte
      BY DEF ReceiveByte, LoseByte, TryRead
    <2> QED BY <2>2, <2>3, <2>4, <2>5 DEF Next
  <1> QED
    BY Inductive, <1>1, PTL DEF Spec, NewestUncutRead
=============================================================================
