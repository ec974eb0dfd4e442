------------------------- MODULE SensorInput_proofs -------------------------
(***************************************************************************)
(* Theorems about SensorInput, for any number of sensors, any ranges and    *)
(* any number of ticks a float can count.  The report needs an invariant    *)
(* about its unfinished path (PathSoFar): the bytes read so far are not more *)
(* than what the distance has to the left of those still to be read.       *)
(* The shared counter of zeros is bounded by the reads since the last echo   *)
(* of every single sensor (ZerosCounted), and by the zeros of one sensor    *)
(* where no other one has read any (ZerosOwn).                              *)
(***************************************************************************)
EXTENDS SensorInput, TLAPS

\* What lies to the left of the bytes still to be read.
Left(d) == CASE toRead = 4 -> d \div (256 * (256 * 256 * 256))
             [] toRead = 3 -> d \div (256 * 256 * 256)
             [] toRead = 2 -> d \div (256 * 256)
             [] toRead = 1 -> d \div 256

PathSoFar ==
  toRead > 0 =>
    /\ began <= DistanceNow
    /\ path <= Left(DistanceNow)
    /\ began \div 256 = DistanceNow \div 256 => path = Left(DistanceNow)

\* The reads of other sensors since the last one of s.
SinceRead(s) == IF currentSensor > s THEN currentSensor - s - 1
                                     ELSE currentSensor - s - 1 + US_SENSORS

ZerosCounted ==
  \A s \in Sensors :
    \/ silent[s] = MaxSilent
    \/ zeroOccurences <= silent[s] * US_SENSORS + SinceRead(s)

\* The zeros that were counted are those of s, if no other sensor read any.
ZerosOwn ==
  \A s \in Sensors : (\A t \in Sensors \ {s} : zeros[t] = 0) => zeroOccurences <= zeros[s]

IInv == TypeOK /\ PathSoFar /\ TornOnlyAtCarry /\ ZerosCounted /\ ZerosOwn

-----------------------------------------------------------------------------
(* MaxSilent is the least number of turns that are more than three reads.   *)
LEMMA SilentIsEnough ==
  /\ MaxSilent \in Nat /\ MaxSilent > 0
  /\ \A k \in Nat : k * US_SENSORS > 3 => k >= MaxSilent
  <1>1. US_SENSORS \in Nat /\ US_SENSORS > 0
    BY SensorAssumption
  <1>2. CASE US_SENSORS = 1
    <2>1. MaxSilent = 4
      BY <1>2, SMT DEF MaxSilent
    <2> QED BY <1>2, <2>1
  <1>3. CASE US_SENSORS = 2
    <2>1. MaxSilent = 2
      BY <1>3, SMT DEF MaxSilent
    <2> QED BY <1>3, <2>1
  <1>4. CASE US_SENSORS = 3
    <2>1. MaxSilent = 2
      BY <1>4, SMT DEF MaxSilent
    <2> QED BY <1>4, <2>1
  <1>5. CASE US_SENSORS > 3
    <2>1. 3 \div US_SENSORS = 0
      BY <1>1, <1>5, SMT
    <2>2. MaxSilent = 1
      BY <2>1 DEF MaxSilent
    <2>3. \A k \in Nat : k >= 1 \/ k = 0
      OBVIOUS
    <2> QED BY <1>1, <2>2, <2>3
  <1> QED BY <1>1, <1>2, <1>3, <1>4, <1>5

-----------------------------------------------------------------------------
(* A tick never lowers the distance, and it stays below 2^32.              *)
LEMMA DistanceOf ==
  ASSUME NEW n \in Nat
  PROVE  /\ Distance(n) \in Nat
         /\ Distance(n) <= Distance(n + 1)
         /\ Distance(n) <= 3 * n
  BY SMT DEF Distance, WE_TICKS_PER_METER

LEMMA FloatIsShort == FloatExact \in Nat /\ 3 * FloatExact < 256 * (256 * 256 * 256)
  BY SMT DEF FloatExact

LEMMA DistanceFacts ==
  ASSUME TypeOK
  PROVE  /\ distanceTicks \in Nat
         /\ DistanceNow \in Nat
         /\ DistanceNow < 256 * (256 * 256 * 256)
         /\ DistanceNow <= Distance(distanceTicks + 1)
         /\ Distance(distanceTicks + 1) \in Nat
  <1>1. distanceTicks \in Nat /\ distanceTicks <= FloatExact
    BY SensorAssumption, FloatIsShort, SMT DEF TypeOK
  <1>2. DistanceNow \in Nat /\ DistanceNow <= 3 * distanceTicks
    BY <1>1, DistanceOf DEF DistanceNow
  <1>3. DistanceNow <= Distance(distanceTicks + 1) /\ Distance(distanceTicks + 1) \in Nat
    BY <1>1, DistanceOf DEF DistanceNow
  <1> QED
    BY <1>1, <1>2, <1>3, FloatIsShort, SMT

(* Four bytes make a number.                                               *)
LEMMA Bytes ==
  ASSUME NEW d \in Nat, d < 256 * (256 * 256 * 256)
  PROVE  /\ d = 256 * (d \div 256) + (d % 256)
         /\ d \div 256 = 256 * (d \div (256 * 256)) + ((d \div 256) % 256)
         /\ d \div (256 * 256) =
              256 * (d \div (256 * 256 * 256)) + ((d \div (256 * 256)) % 256)
         /\ d \div (256 * 256 * 256) = (d \div (256 * 256 * 256)) % 256
         /\ d \div (256 * (256 * 256 * 256)) = 0
  BY SMT

(* A longer distance has no less to the left of a byte, and the same if the *)
(* bytes up to the last one are the same.                                   *)
LEMMA LeftGrows ==
  ASSUME NEW b \in Nat, NEW d \in Nat, NEW e \in Nat, b <= d, d <= e
  PROVE  /\ d \div 256 <= e \div 256
         /\ d \div (256 * 256) <= e \div (256 * 256)
         /\ d \div (256 * 256 * 256) <= e \div (256 * 256 * 256)
         /\ d \div (256 * (256 * 256 * 256)) <= e \div (256 * (256 * 256 * 256))
         /\ b \div 256 = e \div 256 => d \div 256 = e \div 256
         /\ d \div 256 = e \div 256 =>
              /\ d \div (256 * 256) = e \div (256 * 256)
              /\ d \div (256 * 256 * 256) = e \div (256 * 256 * 256)
              /\ d \div (256 * (256 * 256 * 256)) = e \div (256 * (256 * 256 * 256))
  <1>1. /\ d \div 256 <= e \div 256
        /\ d \div (256 * 256) <= e \div (256 * 256)
        /\ d \div (256 * 256 * 256) <= e \div (256 * 256 * 256)
        /\ d \div (256 * (256 * 256 * 256)) <= e \div (256 * (256 * 256 * 256))
    BY SMT
  <1>2. b \div 256 = e \div 256 => d \div 256 = e \div 256
    BY SMT
  <1>3. \A n \in Nat : /\ n \div (256 * 256) = (n \div 256) \div 256
                       /\ n \div (256 * 256 * 256) = ((n \div 256) \div 256) \div 256
                       /\ n \div (256 * (256 * 256 * 256)) =
                            (((n \div 256) \div 256) \div 256) \div 256
    BY SMT
  <1> QED
    BY <1>1, <1>2, <1>3

LEMMA InitIInv == Init => IInv
  <1> SUFFICES ASSUME Init PROVE IInv
    OBVIOUS
  <1>1. TypeOK
    BY SensorAssumption, SilentIsEnough DEF Init, TypeOK, Sensors, MaxZeros
  <1>2. PathSoFar /\ TornOnlyAtCarry
    BY DEF Init, PathSoFar, TornOnlyAtCarry
  <1>3. ZerosCounted
    BY SensorAssumption DEF Init, ZerosCounted, SinceRead, Sensors
  <1>4. ZerosOwn
    BY DEF Init, ZerosOwn
  <1> QED
    BY <1>1, <1>2, <1>3, <1>4 DEF IInv

-----------------------------------------------------------------------------
(* A step of the wheel encoder or of a report.                             *)
LEMMA ReportTypes ==
  ASSUME TypeOK, IncrTicks \/ BeginReport \/ ReadByte
  PROVE  TypeOK'
  <1> USE DEF TypeOK, report, us, wheel
  <1>1. CASE IncrTicks
    BY <1>1, SensorAssumption DEF IncrTicks
  <1>2. CASE BeginReport
    BY <1>2, DistanceFacts DEF BeginReport
  <1>3. CASE ReadByte
    <2>1. Byte(DistanceNow, toRead) \in Nat
      BY <1>3, DistanceFacts, SMT DEF ReadByte, Byte, Weight
    <2> QED BY <1>3, <2>1, DistanceFacts DEF ReadByte
  <1> QED
    BY <1>1, <1>2, <1>3

(* The counts of a read without an echo.                                   *)
LEMMA CountTypes ==
  ASSUME TypeOK, NEW zero, NoEcho(zero)
  PROVE  /\ silent' \in [Sensors -> 0 .. MaxSilent] /\ zeros' \in [Sensors -> 0 .. MaxZeros]
         /\ silent'[currentSensor] = IF silent[currentSensor] < MaxSilent
                                       THEN silent[currentSensor] + 1 ELSE MaxSilent
  <1>1. MaxSilent \in Nat /\ MaxZeros \in Nat
    BY SilentIsEnough DEF MaxZeros
  <1>2. /\ silent \in [Sensors -> 0 .. MaxSilent] /\ zeros \in [Sensors -> 0 .. MaxZeros]
        /\ currentSensor \in Sensors
    BY DEF TypeOK
  <1>3. ASSUME NEW most \in Nat, NEW count \in [Sensors -> 0 .. most]
        PROVE  /\ OneMore(count, most) \in [Sensors -> 0 .. most]
               /\ OneMore(count, most)[currentSensor] =
                    IF count[currentSensor] < most THEN count[currentSensor] + 1 ELSE most
    BY <1>2 DEF OneMore
  <1> QED
    BY <1>1, <1>2, <1>3 DEF NoEcho

(* A read of a sensor.                                                     *)
LEMMA SensorTypes ==
  ASSUME TypeOK, ReadSensor
  PROVE  TypeOK'
  <1> USE SensorAssumption DEF TypeOK, report, us, wheel, Sensors, MaxZeros
  <1>0. MaxSilent \in Nat
    BY SilentIsEnough
  <1>1. ASSUME NEW value \in Nat, Averaged(value)
        PROVE  /\ usCmCircBuffer' \in [Sensors -> [Places -> Nat]]
               /\ usCm' \in [Sensors -> Nat]
    <2> DEFINE old == usCmCircBuffer[currentSensor]
    <2> DEFINE ring == [i \in Places |-> IF i = 4 THEN value ELSE old[i + 1]]
    <2>1. old \in [Places -> Nat]
      OBVIOUS
    <2>2. ring \in [Places -> Nat]
      <3> HIDE DEF old
      <3> QED BY <2>1 DEF Places
    <2>3. Average(ring) \in Nat
      <3>1. ring[1] \in Nat /\ ring[2] \in Nat /\ ring[3] \in Nat /\ ring[4] \in Nat
        BY <2>2 DEF Places
      <3> HIDE DEF ring
      <3>2. \A a, b, c, d \in Nat : (a + b + c + d + 2) \div 4 \in Nat
        BY SMT
      <3> QED BY <3>1, <3>2 DEF Average
    <2> HIDE DEF ring
    <2>4. /\ usCmCircBuffer' = [usCmCircBuffer EXCEPT ![currentSensor] = ring]
          /\ usCm' = [usCm EXCEPT ![currentSensor] = Average(ring)]
      BY <1>1 DEF Averaged, ring
    <2> QED BY <2>2, <2>3, <2>4
  <1>2. UNCHANGED <<distanceTicks, toRead, path, began, ended>> /\ currentSensor' \in Sensors
    <2>1. UNCHANGED <<wheel, report>> /\ AdvanceSensor
      BY DEF ReadSensor, ReadZero, ReadEcho, SkipZero, TakeZero, ReadFails
    <2> QED BY <2>1 DEF AdvanceSensor
  <1>3. silent' \in [Sensors -> 0 .. MaxSilent] /\ zeros' \in [Sensors -> 0 .. MaxZeros]
    <2>1. CASE ReadEcho
      BY <1>0, <2>1 DEF ReadEcho
    <2>2. CASE ~ReadEcho
      <3>1. PICK zero : NoEcho(zero)
        BY <2>2 DEF ReadSensor, ReadZero, SkipZero, TakeZero, ReadFails
      <3> QED BY <3>1, CountTypes
    <2> QED BY <2>1, <2>2
  <1>4. /\ usCmCircBuffer' \in [Sensors -> [Places -> Nat]]
        /\ usCm' \in [Sensors -> Nat]
    <2>1. CASE UNCHANGED <<usCmCircBuffer, usCm>>
      BY <2>1
    <2>2. CASE \E value \in Nat : Averaged(value)
      BY <1>1, <2>2
    <2> QED
      BY <2>1, <2>2 DEF ReadSensor, ReadZero, ReadEcho, SkipZero, TakeZero, ReadFails
  <1>5. zeroOccurences' \in 0 .. 3
    <2>1. \/ zeroOccurences' \in {0, zeroOccurences}
          \/ zeroOccurences <= 2 /\ zeroOccurences' = zeroOccurences + 1
      BY DEF ReadSensor, ReadZero, ReadEcho, SkipZero, TakeZero, ReadFails
    <2>2. zeroOccurences \in 0 .. 3
      OBVIOUS
    <2> QED BY <2>1, <2>2
  <1>6. distanceTicks \in StartTicks .. MaxTicks /\ toRead \in 0 .. 4
        /\ path \in Nat /\ began \in Nat /\ ended \in Nat
    OBVIOUS
  <1> QED
    BY <1>2, <1>3, <1>4, <1>5, <1>6

(* The path of a report.                                                   *)
LEMMA ReportStep ==
  ASSUME TypeOK, PathSoFar, TornOnlyAtCarry, [Next]_vars
  PROVE  PathSoFar' /\ TornOnlyAtCarry'
  <1>1. CASE IncrTicks
    <2> DEFINE d == DistanceNow
    <2> DEFINE e == Distance(distanceTicks + 1)
    <2>1. UNCHANGED report /\ DistanceNow' = e
      BY <1>1 DEF IncrTicks, DistanceNow
    <2>2. TornOnlyAtCarry'
      BY <2>1 DEF report, TornOnlyAtCarry
    <2>3. d \in Nat /\ e \in Nat /\ d <= e /\ began \in Nat /\ path \in Nat /\ toRead \in 0 .. 4
      BY DistanceFacts DEF TypeOK
    <2>4. toRead > 0 => Left(d) <= Left(e) /\ Left(d) \in Nat /\ Left(e) \in Nat
      BY <2>3, LeftGrows, SMT DEF Left
    <2>5. ASSUME toRead > 0, began \div 256 = e \div 256
          PROVE  began \div 256 = d \div 256 /\ Left(d) = Left(e)
      BY <2>3, <2>5, LeftGrows, SMT DEF Left, PathSoFar
    <2>6. Left(DistanceNow)' = Left(e)
      BY <2>1 DEF report, Left
    <2>7. PathSoFar'
      <3> HIDE DEF e
      <3> QED BY <2>1, <2>3, <2>4, <2>5, <2>6 DEF report, PathSoFar
    <2> QED BY <2>2, <2>7
  <1>2. CASE BeginReport
    <2>1. /\ toRead' = 4 /\ path' = 0 /\ began' = DistanceNow /\ DistanceNow' = DistanceNow
      BY <1>2 DEF BeginReport, wheel, DistanceNow
    <2>2. Left(DistanceNow)' = 0
      BY <2>1, DistanceFacts, Bytes, SMT DEF Left
    <2> QED
      BY <2>1, <2>2, DistanceFacts DEF PathSoFar, TornOnlyAtCarry
  <1>3. CASE ReadByte
    <2> DEFINE d == DistanceNow
    <2>1. /\ DistanceNow' = d /\ toRead \in {1, 2, 3, 4}
          /\ toRead' = toRead - 1 /\ began' = began /\ ended' = d
          /\ path' = 256 * path + Byte(d, toRead)
      BY <1>3 DEF ReadByte, wheel, TypeOK, DistanceNow
    <2>2. /\ d \in Nat /\ d < 256 * (256 * 256 * 256) /\ path \in Nat /\ began \in Nat
      BY DistanceFacts DEF TypeOK
    <2>3. /\ path <= Left(d) /\ began <= d
          /\ began \div 256 = d \div 256 => path = Left(d)
      BY <2>1 DEF PathSoFar
    <2>4. IF toRead = 1 THEN d = 256 * Left(d) + Byte(d, toRead)
                        ELSE Left(d)' = 256 * Left(d) + Byte(d, toRead)
      BY <2>1, <2>2, Bytes, SMT DEF Left, Byte, Weight
    <2>5. Left(d) \in Nat /\ Byte(d, toRead) \in Nat
      BY <2>1, <2>2, SMT DEF Left, Byte, Weight
    <2> HIDE DEF d
    <2>6. CASE toRead = 1
      BY <2>1, <2>2, <2>3, <2>4, <2>5, <2>6 DEF PathSoFar, TornOnlyAtCarry
    <2>7. CASE toRead # 1
      <3>1. Left(DistanceNow)' = 256 * Left(d) + Byte(d, toRead) /\ toRead' > 0
        BY <2>1, <2>4, <2>7 DEF Left, d
      <3> QED
        BY <2>1, <2>2, <2>3, <2>5, <3>1 DEF PathSoFar, TornOnlyAtCarry
    <2> QED BY <2>6, <2>7
  <1>4. CASE ReadSensor \/ UNCHANGED vars
    <2>1. UNCHANGED <<wheel, report>>
      BY <1>4 DEF ReadSensor, ReadZero, ReadEcho, SkipZero, TakeZero, ReadFails, vars
    <2> QED
      BY <2>1 DEF wheel, report, PathSoFar, TornOnlyAtCarry,
                  DistanceNow, Left
  <1> QED
    BY <1>1, <1>2, <1>3, <1>4 DEF Next

(* The counter of zeros.                                                   *)
LEMMA ZerosStep ==
  ASSUME TypeOK, ZerosCounted, [Next]_vars
  PROVE  ZerosCounted'
  <1>1. CASE ReadSensor
    <2> SUFFICES ASSUME NEW s \in Sensors,
                        silent'[s] # MaxSilent
                 PROVE  zeroOccurences' <= silent'[s] * US_SENSORS + SinceRead(s)'
      BY DEF ZerosCounted
    <2>1. /\ US_SENSORS \in Nat /\ US_SENSORS > 0 /\ s \in Nat /\ s < US_SENSORS
          /\ currentSensor \in Nat /\ currentSensor < US_SENSORS
          /\ zeroOccurences \in Nat /\ silent[s] \in Nat
      <3>1. US_SENSORS \in Nat /\ US_SENSORS > 0
        BY SensorAssumption
      <3>2. /\ currentSensor \in Sensors /\ zeroOccurences \in 0 .. 3
            /\ silent[s] \in 0 .. MaxSilent
        BY DEF TypeOK
      <3> QED BY <3>1, <3>2, SilentIsEnough DEF Sensors
    <2>2. currentSensor' = IF currentSensor + 1 < US_SENSORS THEN currentSensor + 1 ELSE 0
      BY <1>1 DEF ReadSensor, ReadZero, ReadEcho, SkipZero, TakeZero, ReadFails, AdvanceSensor
    <2>3. s # currentSensor => silent'[s] = silent[s] /\ SinceRead(s)' = SinceRead(s) + 1
      <3>1. s # currentSensor => silent'[s] = silent[s]
        BY <1>1 DEF ReadSensor, ReadZero, ReadEcho, SkipZero, TakeZero, ReadFails, NoEcho, OneMore, TypeOK
      <3> QED BY <2>1, <2>2, <3>1 DEF SinceRead
    <2>4. s = currentSensor => SinceRead(s) = US_SENSORS - 1 /\ SinceRead(s)' = 0
      BY <2>1, <2>2 DEF SinceRead
    <2>5. SinceRead(s) \in Nat /\ SinceRead(s)' \in Nat
      BY <2>1, <2>2 DEF SinceRead
    <2>6. CASE ReadEcho
      <3>1. zeroOccurences' = 0 /\ silent'[s] \in Nat
        BY <2>6, SilentIsEnough DEF ReadEcho, TypeOK
      <3> QED BY <2>1, <2>5, <3>1
    <2>7. CASE SkipZero \/ TakeZero \/ ReadFails
      <3>1. zeroOccurences' <= zeroOccurences + 1 /\ zeroOccurences' \in Nat
        <4>1. zeroOccurences' = zeroOccurences \/ zeroOccurences' = zeroOccurences + 1
          BY <2>7 DEF SkipZero, TakeZero, ReadFails
        <4> QED BY <2>1, <4>1
      <3>2. s = currentSensor => silent'[s] = silent[s] + 1 /\ silent[s] # MaxSilent
        <4>1. PICK zero : NoEcho(zero)
          BY <2>7 DEF SkipZero, TakeZero, ReadFails
        <4>2. silent[currentSensor] \in 0 .. MaxSilent /\ MaxSilent \in Nat
          BY SilentIsEnough DEF TypeOK
        <4> QED BY <4>1, <4>2, CountTypes
      <3>3. zeroOccurences <= silent[s] * US_SENSORS + SinceRead(s)
        BY <2>3, <3>2 DEF ZerosCounted
      <3>4. (silent[s] + 1) * US_SENSORS = silent[s] * US_SENSORS + US_SENSORS
        BY <2>1
      <3>5. silent[s] * US_SENSORS \in Nat
        BY <2>1
      <3>6. CASE s = currentSensor
        BY <2>1, <2>4, <3>1, <3>2, <3>3, <3>4, <3>5, <3>6
      <3>7. CASE s # currentSensor
        BY <2>1, <2>3, <2>5, <3>1, <3>3, <3>5, <3>7
      <3> QED BY <3>6, <3>7
    <2> QED BY <1>1, <2>6, <2>7 DEF ReadSensor, ReadZero
  <1>2. CASE IncrTicks \/ BeginReport \/ ReadByte \/ UNCHANGED vars
    <2>1. UNCHANGED us
      BY <1>2 DEF IncrTicks, BeginReport, ReadByte, vars
    <2> QED BY <2>1 DEF us, ZerosCounted, SinceRead
  <1> QED
    BY <1>1, <1>2 DEF Next

(* A zero that is counted is one of its sensor; an echo empties the counter. *)
LEMMA OwnStep ==
  ASSUME TypeOK, ZerosOwn, [Next]_vars
  PROVE  ZerosOwn'
  <1>1. CASE ReadEcho
    <2>1. zeroOccurences' = 0 /\ \A s \in Sensors : zeros'[s] \in Nat
      BY <1>1 DEF ReadEcho, TypeOK, MaxZeros
    <2> QED BY <2>1 DEF ZerosOwn
  <1>2. CASE ReadZero
    <2> SUFFICES ASSUME NEW s \in Sensors, \A t \in Sensors \ {s} : zeros'[t] = 0
                 PROVE  zeroOccurences' <= zeros'[s]
      BY DEF ZerosOwn
    <2>1. /\ zeros' = [zeros EXCEPT ![currentSensor] =
                         IF zeros[currentSensor] < 4 THEN zeros[currentSensor] + 1
                                                     ELSE zeros[currentSensor]]
          /\ currentSensor \in Sensors /\ zeros \in [Sensors -> 0 .. 4]
      BY <1>2 DEF ReadZero, SkipZero, TakeZero, NoEcho, OneMore, MaxZeros, TypeOK
    <2>2. zeros'[currentSensor] > 0
      BY <2>1
    <2>3. s = currentSensor
      BY <2>1, <2>2
    <2>4. zeroOccurences <= zeros[s]
      BY <2>1, <2>3 DEF ZerosOwn
    <2>5. CASE SkipZero
      <3>1. zeroOccurences' = zeroOccurences + 1 /\ zeroOccurences' <= 3
            /\ zeroOccurences \in Nat
        BY <2>5 DEF SkipZero, TypeOK
      <3> QED BY <2>1, <2>3, <2>4, <3>1
    <2>6. CASE TakeZero
      <3>1. zeroOccurences' = zeroOccurences /\ zeroOccurences \in Nat
        BY <2>6 DEF TakeZero, TypeOK
      <3> QED BY <2>1, <2>3, <2>4, <3>1
    <2> QED BY <1>2, <2>5, <2>6 DEF ReadZero
  <1>3. CASE ReadFails \/ IncrTicks \/ BeginReport \/ ReadByte \/ UNCHANGED vars
    <2>1. UNCHANGED <<zeroOccurences, zeros>>
      BY <1>3 DEF ReadFails, NoEcho, IncrTicks, BeginReport, ReadByte, vars, us
    <2> QED BY <2>1 DEF ZerosOwn
  <1> QED
    BY <1>1, <1>2, <1>3 DEF Next, ReadSensor

-----------------------------------------------------------------------------
THEOREM Inductive == Spec => []IInv
  <1>1. IInv /\ [Next]_vars => IInv'
    <2> SUFFICES ASSUME IInv, [Next]_vars PROVE IInv'
      OBVIOUS
    <2>1. TypeOK'
      <3>1. CASE UNCHANGED vars
        BY <3>1 DEF vars, wheel, report, us, IInv, TypeOK
      <3> QED BY <3>1, ReportTypes, SensorTypes DEF IInv, Next
    <2> QED BY <2>1, ReportStep, ZerosStep, OwnStep DEF IInv
  <1> QED
    BY InitIInv, <1>1, PTL DEF Spec

(* The state variables of SensorInput keep their types.                    *)
THEOREM TypeCorrect == Spec => []TypeOK
  BY Inductive, PTL DEF IInv

(* For every distance and whatever ticks fall into a report, its path is    *)
(* not longer than the car has driven, and right unless a byte above the    *)
(* last one changed while it was made (sensorInput.c:83-86,                 *)
(* VDContainer.cpp:37-40).                                                  *)
THEOREM ReportsAreWhole == Spec => []TornOnlyAtCarry
  BY Inductive, PTL DEF IInv

(* For any number of sensors, three zeros of a sensor are discarded before   *)
(* one is averaged, if no other sensor has read any; and if others have, it *)
(* has been read without an echo in as many turns as make more than three   *)
(* reads of all sensors (hardwareUS.c:147-158).                             *)
THEOREM ZerosAreDiscarded == Spec => ZerosDiscarded
  <1>1. ASSUME IInv, ReadSensor, NEW s \in Sensors, ZeroEnters(s)
        PROVE  /\ (\A t \in Sensors \ {s} : zeros[t] = 0) => zeros'[s] > 3
               /\ silent'[s] = MaxSilent
    <2>1. /\ US_SENSORS \in Nat /\ US_SENSORS > 0 /\ s \in Nat /\ s < US_SENSORS
          /\ currentSensor \in Sensors
          /\ silent \in [Sensors -> 0 .. MaxSilent] /\ zeros \in [Sensors -> 0 .. 4]
          /\ usCmCircBuffer \in [Sensors -> [Places -> Nat]]
      BY <1>1, SensorAssumption DEF IInv, TypeOK, Sensors, MaxZeros
    <2>2. s = currentSensor
      BY <1>1, <2>1
         DEF ReadSensor, ReadZero, ReadEcho, SkipZero, TakeZero, ReadFails, Averaged, ZeroEnters
    <2>3. ~ReadEcho
      <3> SUFFICES ASSUME ReadEcho PROVE FALSE
        OBVIOUS
      <3>1. PICK value \in Echoes : Averaged(value)
        BY DEF ReadEcho
      <3>2. usCmCircBuffer'[s][4] = value
        BY <2>1, <2>2, <3>1 DEF Averaged, Places
      <3> QED BY <1>1, <3>2, SensorAssumption DEF ZeroEnters
    <2>4. TakeZero
      BY <1>1, <2>3 DEF ReadSensor, ReadZero, SkipZero, ReadFails, ZeroEnters
    <2>5. /\ silent'[s] = (IF silent[s] < MaxSilent THEN silent[s] + 1 ELSE silent[s])
          /\ zeros'[s] = (IF zeros[s] < 4 THEN zeros[s] + 1 ELSE zeros[s])
      BY <2>1, <2>2, <2>4 DEF TakeZero, NoEcho, OneMore, MaxZeros
    <2>6. zeroOccurences \in Nat /\ zeroOccurences > 2
      BY <1>1, <2>4 DEF TakeZero, IInv, TypeOK
    <2>7. (\A t \in Sensors \ {s} : zeros[t] = 0) => zeros'[s] > 3
      <3>1. (\A t \in Sensors \ {s} : zeros[t] = 0) => zeroOccurences <= zeros[s]
        BY <1>1 DEF IInv, ZerosOwn
      <3>2. zeros[s] \in 0 .. 4
        BY <2>1
      <3> QED BY <2>5, <2>6, <3>1, <3>2
    <2>8. silent[s] \in Nat /\ MaxSilent \in Nat /\ silent[s] <= MaxSilent
      <3>1. silent[s] \in 0 .. MaxSilent
        BY <2>1
      <3> QED BY <3>1, SilentIsEnough
    <2>9. CASE silent[s] = MaxSilent
      BY <2>5, <2>7, <2>8, <2>9
    <2>10. CASE silent[s] # MaxSilent
      <3>1. silent'[s] = silent[s] + 1 /\ silent[s] + 1 <= MaxSilent
        BY <2>5, <2>8, <2>10
      <3>2. SinceRead(s) = US_SENSORS - 1
        BY <2>1, <2>2 DEF SinceRead
      <3>3. zeroOccurences <= silent[s] * US_SENSORS + SinceRead(s)
        BY <1>1, <2>10 DEF IInv, ZerosCounted
      <3>4. /\ silent[s] * US_SENSORS \in Nat
            /\ (silent[s] + 1) * US_SENSORS = silent[s] * US_SENSORS + US_SENSORS
        BY <2>1, <2>8
      <3>5. (silent[s] + 1) * US_SENSORS > 3
        BY <2>1, <2>6, <3>2, <3>3, <3>4
      <3>6. silent[s] + 1 >= MaxSilent
        BY <2>8, <3>5, SilentIsEnough
      <3> QED BY <2>7, <2>8, <3>1, <3>6
    <2> QED BY <2>9, <2>10
  <1>2. ASSUME IInv, Next, NEW s \in Sensors, ZeroEnters(s)
        PROVE  /\ (\A t \in Sensors \ {s} : zeros[t] = 0) => zeros'[s] > 3
               /\ silent'[s] = MaxSilent
    <2>1. ReadSensor
      BY <1>2 DEF Next, IncrTicks, BeginReport, ReadByte, us, ZeroEnters
    <2> QED BY <1>1, <1>2, <2>1
  <1>3. IInv /\ [Next]_vars =>
          [\A s \in Sensors :
             ZeroEnters(s) =>
               /\ (\A t \in Sensors \ {s} : zeros[t] = 0) => zeros'[s] > 3
               /\ silent'[s] = MaxSilent]_vars
    BY <1>2
  <1> QED
    BY <1>3, Inductive, PTL DEF Spec, ZerosDiscarded

-----------------------------------------------------------------------------
(* The averages.                                                           *)

(* The rounded average of four numbers lies among them, and takes over no    *)
(* more than the number that replaces another.                              *)
LEMMA AverageOfFour ==
  ASSUME NEW a \in Nat, NEW b \in Nat, NEW c \in Nat, NEW d \in Nat
  PROVE  LET avg == (a + b + c + d + 2) \div 4
         IN /\ avg \in Nat
            /\ a <= avg \/ b <= avg \/ c <= avg \/ d <= avg
            /\ avg <= a \/ avg <= b \/ avg <= c \/ avg <= d
            /\ (b + c + d + 0 + 2) \div 4 <= avg
  BY SMT

LEMMA RingAverage ==
  ASSUME NEW ring \in [Places -> Nat]
  PROVE  \E i, j \in Places : ring[i] <= Average(ring) /\ Average(ring) <= ring[j]
<1>1. /\ ring[1] \in Nat /\ ring[2] \in Nat /\ ring[3] \in Nat /\ ring[4] \in Nat
      /\ 1 \in Places /\ 2 \in Places /\ 3 \in Places /\ 4 \in Places
  BY DEF Places
<1>2. /\ \/ ring[1] <= Average(ring) \/ ring[2] <= Average(ring)
         \/ ring[3] <= Average(ring) \/ ring[4] <= Average(ring)
      /\ \/ Average(ring) <= ring[1] \/ Average(ring) <= ring[2]
         \/ Average(ring) <= ring[3] \/ Average(ring) <= ring[4]
  BY <1>1, AverageOfFour DEF Average
<1>3. (\E i \in Places : ring[i] <= Average(ring)) /\ (\E j \in Places : Average(ring) <= ring[j])
  BY <1>1, <1>2
<1> QED
  BY <1>3

(* What averageWithCircBuffer makes of the values of a sensor.              *)
LEMMA AveragedValue ==
  ASSUME TypeOK, NEW value, Averaged(value)
  PROVE  /\ usCmCircBuffer'[currentSensor] =
              [i \in Places |-> IF i = 4 THEN value ELSE usCmCircBuffer[currentSensor][i + 1]]
         /\ usCm'[currentSensor] = Average(usCmCircBuffer'[currentSensor])
         /\ \A s \in Sensors \ {currentSensor} :
              usCmCircBuffer'[s] = usCmCircBuffer[s] /\ usCm'[s] = usCm[s]
  BY DEF Averaged, TypeOK

Averages == \A s \in Sensors : usCm[s] = Average(usCmCircBuffer[s])

LEMMA AveragesKept == Spec => []Averages
<1>1. Init => Averages
  <2>1. (0 + 0 + 0 + 0 + 2) \div 4 = 0
    BY SMT
  <2>2. Average([i \in Places |-> 0]) = 0
    BY <2>1 DEF Average, Places
  <2> QED
    BY <2>2 DEF Init, Averages
<1>2. IInv /\ Averages /\ [Next]_vars => Averages'
  <2> SUFFICES ASSUME IInv, Averages, [Next]_vars PROVE Averages'
    OBVIOUS
  <2>1. CASE UNCHANGED <<usCmCircBuffer, usCm>>
    BY <2>1 DEF Averages
  <2>2. CASE ~UNCHANGED <<usCmCircBuffer, usCm>>
    <3>1. PICK value : Averaged(value)
      BY <2>2
         DEF Next, IncrTicks, BeginReport, ReadByte, ReadSensor, ReadZero, ReadEcho, SkipZero, TakeZero,
             ReadFails, vars, us
    <3> QED
      BY <3>1, AveragedValue DEF Averages, IInv
  <2> QED
    BY <2>1, <2>2
<1> QED
  BY Inductive, <1>1, <1>2, PTL DEF Spec

(* For any number of sensors and any ranges, the value of a sensor is the   *)
(* average of its last four and lies among them (hardwareUS.c, usCm).       *)
THEOREM ValuesAreInside == Spec => []AverageInside
<1>1. IInv /\ Averages => AverageInside
  BY RingAverage DEF IInv, TypeOK, Averages, AverageInside
<1> QED
  BY Inductive, AveragesKept, <1>1, PTL

(* For any number of sensors, a zero that a sensor returns never raises its  *)
(* value, and is counted or brings the value nearer to 0: the safety core   *)
(* of QuietSettles (hardwareUS.c:147-158).                                  *)
THEOREM ZerosLowerValues == Spec => ZerosSink
<1>1. ASSUME IInv, Averages, Next, NEW s \in Sensors,
             ReadZero, s = currentSensor
      PROVE  /\ usCm'[s] <= usCm[s]
             /\ \/ zeroOccurences' = zeroOccurences + 1
                \/ /\ zeroOccurences' = zeroOccurences
                   /\ \A k \in 0 .. 3 : ZerosAtEnd(s, k) => ZerosAtEnd(s, k + 1)'
  <2>1. TypeOK
    BY <1>1 DEF IInv
  <2> DEFINE old == usCmCircBuffer[s]
             new == usCmCircBuffer'[s]
  <2>2. /\ old \in [Places -> Nat] /\ usCm[s] \in Nat
    BY <2>1 DEF TypeOK
  <2>3. SkipZero \/ TakeZero
    BY <1>1 DEF ReadZero
  <2>4. CASE SkipZero
    BY <2>2, <2>4 DEF SkipZero
  <2>5. CASE TakeZero
    <3>1. /\ new = [i \in Places |-> IF i = 4 THEN 0 ELSE old[i + 1]]
          /\ usCm'[s] = Average(new)
          /\ zeroOccurences' = zeroOccurences
      BY <1>1, <2>1, <2>5, AveragedValue DEF TakeZero
    <3>2. usCm[s] = Average(old)
      BY <1>1 DEF Averages
    <3>3. old[1] \in Nat /\ old[2] \in Nat /\ old[3] \in Nat /\ old[4] \in Nat
      BY <2>2 DEF Places
    <3> HIDE DEF old, new
    <3>4. new[1] = old[2] /\ new[2] = old[3] /\ new[3] = old[4] /\ new[4] = 0
      BY <3>1 DEF Places
    <3>5. Average(new) <= Average(old)
      BY <3>3, <3>4, AverageOfFour DEF Average
    <3>6. ASSUME NEW k \in 0 .. 3, ZerosAtEnd(s, k), NEW i \in Places, i > 4 - (k + 1)
          PROVE  new[i] = 0
      <4>1. CASE i = 4
        BY <3>4, <4>1
      <4>2. CASE i # 4
        <5>1. i + 1 \in Places /\ i + 1 > 4 - k
          BY <3>6, <4>2 DEF Places
        <5>2. old[i + 1] = 0
          BY <3>6, <5>1 DEF ZerosAtEnd, old
        <5> QED
          BY <3>1, <3>6, <4>2, <5>2
      <4> QED
        BY <4>1, <4>2
    <3>7. \A k \in 0 .. 3 : ZerosAtEnd(s, k) => ZerosAtEnd(s, k + 1)'
      BY <3>6 DEF ZerosAtEnd, new
    <3> QED
      BY <3>1, <3>2, <3>5, <3>7
  <2> QED
    BY <2>3, <2>4, <2>5
<1>2. IInv /\ Averages /\ [Next]_vars =>
        [\A s \in Sensors :
           ReadZero /\ s = currentSensor =>
             /\ usCm'[s] <= usCm[s]
             /\ \/ zeroOccurences' = zeroOccurences + 1
                \/ /\ zeroOccurences' = zeroOccurences
                   /\ \A k \in 0 .. 3 : ZerosAtEnd(s, k) => ZerosAtEnd(s, k + 1)']_vars
  BY <1>1
<1> QED
  BY Inductive, AveragesKept, <1>2, PTL DEF Spec, ZerosSink
=============================================================================
