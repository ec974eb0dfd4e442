----------------------------- MODULE SensorInput -----------------------------
(***************************************************************************)
(* The sensors of the STM32 board whose values several actors touch:        *)
(*                                                                         *)
(*   - the interrupt of the wheel encoder counts the ticks (hardwareWE.c),   *)
(*   - the main thread reads the ultrasonic sensors over i2c, one after the  *)
(*     other (hardwareUS.c),                                                *)
(*   - the serial thread fills a report in sensorInputGetData; it computes   *)
(*     the distance anew for each of its four bytes (the build has no        *)
(*     optimisation), and the proxy puts the bytes together (VDContainer).   *)
(*                                                                         *)
(* An ultrasonic sensor that hears no echo returns 0.  The ring of a sensor  *)
(* is the sequence of its last four values: which of its positions is        *)
(* overwritten next makes no difference to their sum.  The infrared sensors, *)
(* the light and the speed are copied into the report and left out.          *)
(***************************************************************************)
EXTENDS Integers

CONSTANTS
  US_SENSORS,   \* how many ultrasonic sensors there are
  Echoes,       \* the ranges one may measure, in cm
  StartTicks,   \* the ticks counted before the behaviour begins
  MaxTicks      \* bound of the model: ticks counted

\* Up to here, 2.6 km, the distance computed with floats is the one computed
\* with integers; beyond it the rounding may show.
FloatExact == 107485

ASSUME SensorAssumption ==
  /\ US_SENSORS \in Nat \ {0}
  /\ Echoes \subseteq Nat \ {0}
  /\ MaxTicks \in 0 .. FloatExact
  /\ StartTicks \in 0 .. MaxTicks

VARIABLES
  distanceTicks,   \* ticks of the wheel encoder
  toRead,          \* bytes of the distance the serial thread has yet to read
  path,            \* the bytes read so far, put together to a number
  began,           \* history: the distance when the report began
  ended,           \* history: the distance when its last byte was read
  currentSensor,   \* the sensor the main thread reads next
  usCmCircBuffer,  \* usCmCircBuffer[s]: its last four values
  usCm,            \* usCm[s]: their average
  zeroOccurences,  \* zeros skipped since the last echo of any sensor
  silent,          \* history: reads of s since its last echo, up to MaxSilent
  zeros            \* history: how many of these returned a zero, up to MaxZeros

wheel  == distanceTicks
report == <<toRead, path, began, ended>>
us     == <<currentSensor, usCmCircBuffer, usCm, zeroOccurences, silent, zeros>>
vars   == <<wheel, report, us>>

Sensors   == 0 .. US_SENSORS - 1
Places    == 1 .. 4   \* US_CIRCULAR_BUFFER_LENGTH
MaxZeros  == 4

\* How many reads of one sensor are more than three of all of them.
MaxSilent == (3 \div US_SENSORS) + 1

WE_TICKS_PER_METER == 41

\* hardwareGetValuesWEDistance: the half is added after the conversion to int,
\* and cut off again.
Distance(n) == (n * 100) \div WE_TICKS_PER_METER

DistanceNow == Distance(distanceTicks)

Init ==
  /\ distanceTicks = StartTicks
  /\ toRead = 0 /\ path = 0 /\ began = 0 /\ ended = 0
  /\ currentSensor = 0
  /\ usCmCircBuffer = [s \in Sensors |-> [i \in Places |-> 0]]
  /\ usCm = [s \in Sensors |-> 0]
  /\ zeroOccurences = 0
  /\ silent = [s \in Sensors |-> 0]
  /\ zeros = [s \in Sensors |-> 0]

-----------------------------------------------------------------------------
(* The wheel encoder.                                                      *)
IncrTicks ==
  /\ distanceTicks < MaxTicks
  /\ distanceTicks' = distanceTicks + 1
  /\ UNCHANGED <<report, us>>

-----------------------------------------------------------------------------
(* The report: sensorInputGetData on the board, genVDContainer on the host. *)
BeginReport ==
  /\ toRead = 0
  /\ toRead' = 4 /\ path' = 0
  /\ began' = DistanceNow
  /\ UNCHANGED <<wheel, ended, us>>

\* What the n-th byte from the right is worth.
Weight(n) ==
  CASE n = 4 -> 256 * 256 * 256 [] n = 3 -> 256 * 256 [] n = 2 -> 256 [] n = 1 -> 1

Byte(d, n) == (d \div Weight(n)) % 256

\* Mutant: the byte of weight 1 is read first.
MutReadByte ==
  /\ toRead > 0
  /\ toRead' = toRead - 1
  /\ path' = path + Byte(DistanceNow, 5 - toRead) * Weight(5 - toRead)
  /\ ended' = DistanceNow
  /\ UNCHANGED <<wheel, began, us>>

ReadByte ==
  /\ toRead > 0
  /\ toRead' = toRead - 1
  /\ path' = 256 * path + Byte(DistanceNow, toRead)
  /\ ended' = DistanceNow
  /\ UNCHANGED <<wheel, began, us>>

-----------------------------------------------------------------------------
(* hardwareUSIterationEnd: one sensor after the other.                     *)
AdvanceSensor ==
  currentSensor' = IF currentSensor + 1 < US_SENSORS THEN currentSensor + 1 ELSE 0

\* averageWithCircBuffer; the average is rounded to the nearest.
Average(ring) == (ring[1] + ring[2] + ring[3] + ring[4] + 2) \div 4

Averaged(value) ==
  LET old  == usCmCircBuffer[currentSensor]
      ring == [i \in Places |-> IF i = 4 THEN value ELSE old[i + 1]] IN
  /\ usCmCircBuffer' = [usCmCircBuffer EXCEPT ![currentSensor] = ring]
  /\ usCm' = [usCm EXCEPT ![currentSensor] = Average(ring)]

OneMore(count, most) ==
  [count EXCEPT ![currentSensor] = IF @ < most THEN @ + 1 ELSE @]

NoEcho(zero) ==
  /\ silent' = OneMore(silent, MaxSilent)
  /\ zeros' = IF zero THEN OneMore(zeros, MaxZeros) ELSE zeros

\* Mutant: an echo does not begin the count of zeros anew.
MutReadEcho ==
  /\ \E value \in Echoes : Averaged(value)
  /\ silent' = [silent EXCEPT ![currentSensor] = 0]
  /\ zeros' = [zeros EXCEPT ![currentSensor] = 0]
  /\ AdvanceSensor
  /\ UNCHANGED <<wheel, report, zeroOccurences>>

ReadEcho ==
  /\ \E value \in Echoes : Averaged(value)
  /\ zeroOccurences' = 0
  /\ silent' = [silent EXCEPT ![currentSensor] = 0]
  /\ zeros' = [zeros EXCEPT ![currentSensor] = 0]
  /\ AdvanceSensor
  /\ UNCHANGED <<wheel, report>>

\* Mutant: one zero more is skipped.
MutSkipZero ==
  /\ zeroOccurences <= 3
  /\ zeroOccurences' = zeroOccurences + 1
  /\ NoEcho(TRUE)
  /\ AdvanceSensor
  /\ UNCHANGED <<wheel, report, usCmCircBuffer, usCm>>

SkipZero ==
  /\ zeroOccurences <= 2
  /\ zeroOccurences' = zeroOccurences + 1
  /\ NoEcho(TRUE)
  /\ AdvanceSensor
  /\ UNCHANGED <<wheel, report, usCmCircBuffer, usCm>>

\* Mutant: the counter starts again, so that only every fourth zero counts.
MutTakeZero ==
  /\ zeroOccurences > 2
  /\ zeroOccurences' = 0
  /\ NoEcho(TRUE)
  /\ AdvanceSensor
  /\ UNCHANGED <<wheel, report, usCmCircBuffer, usCm>>

TakeZero ==
  /\ zeroOccurences > 2
  /\ Averaged(0)
  /\ NoEcho(TRUE)
  /\ AdvanceSensor
  /\ UNCHANGED <<wheel, report, zeroOccurences>>

ReadFails ==
  /\ NoEcho(FALSE)
  /\ AdvanceSensor
  /\ UNCHANGED <<wheel, report, usCmCircBuffer, usCm, zeroOccurences>>

-----------------------------------------------------------------------------
ReadZero   == SkipZero \/ TakeZero
ReadSensor == ReadEcho \/ ReadZero \/ ReadFails

Next == IncrTicks \/ BeginReport \/ ReadByte \/ ReadSensor

\* The main loop reads its sensors for ever; the other actors need not act.
Spec == Init /\ [][Next]_vars /\ WF_vars(ReadSensor)

-----------------------------------------------------------------------------
(* Type correctness.                                                       *)
TypeOK ==
  /\ distanceTicks \in StartTicks .. MaxTicks
  /\ toRead \in 0 .. 4
  /\ path \in Nat /\ began \in Nat /\ ended \in Nat
  /\ currentSensor \in Sensors
  /\ usCmCircBuffer \in [Sensors -> [Places -> Nat]]
  /\ usCm \in [Sensors -> Nat]
  /\ zeroOccurences \in 0 .. 3
  /\ silent \in [Sensors -> 0 .. MaxSilent]
  /\ zeros \in [Sensors -> 0 .. MaxZeros]

(* However the ticks fall between the four reads of the distance, the path  *)
(* the host puts together is what the car has driven when the last byte is  *)
(* read, and never longer.  Only when a byte to the left of the last one    *)
(* changed meanwhile it is shorter, by more than 2.5 m when the last byte    *)
(* has run over (sensorInput.c:83-86: the bytes are read from the left to   *)
(* the right).                                                              *)
TornOnlyAtCarry ==
  toRead = 0 =>
    /\ path <= ended
    /\ began \div 256 = ended \div 256 => path = ended

(* What is left of the rule that a reading of 0 is discarded "unless the     *)
(* reading of 0 reoccurs at least three consecutive times" (ch3.tex:98-99,   *)
(* hardwareUS.c:147-148), with a counter all sensors share.  The rule holds  *)
(* for a sensor while no other one has read a zero since its last echo:     *)
(* three of its own are discarded before one is averaged.  Otherwise the    *)
(* zeros of the others count for it, so that its first or second zero may    *)
(* be averaged, against the rule; but an echo of any sensor begins the      *)
(* count anew, so with two sensors one that hears an echo at every second    *)
(* read is never averaged with 0.                                          *)
ZeroEnters(s) == usCmCircBuffer'[s] # usCmCircBuffer[s] /\ usCmCircBuffer'[s][4] = 0

ZerosDiscarded ==
  [][\A s \in Sensors :
       ZeroEnters(s) =>
         /\ (\A t \in Sensors \ {s} : zeros[t] = 0) => zeros'[s] > 3
         /\ silent'[s] = MaxSilent]_vars

(* What is reported of a sensor is the rounded average of its last four      *)
(* values, so it lies between the smallest and the largest of them: an       *)
(* obstacle is never reported nearer than the nearest or farther than the    *)
(* farthest of them, and four zeros are reported as 0.                       *)
AverageInside ==
  \A s \in Sensors :
    /\ usCm[s] = Average(usCmCircBuffer[s])
    /\ \E i, j \in Places : usCmCircBuffer[s][i] <= usCm[s] /\ usCm[s] <= usCmCircBuffer[s][j]

(* A zero never raises the value of its sensor: it is counted, three at most *)
(* between two echoes, or it makes one more of the last values 0, until all  *)
(* are.  With AverageInside the safety core of QuietSettles.                 *)
ZerosAtEnd(s, k) == \A i \in Places : i > 4 - k => usCmCircBuffer[s][i] = 0

ZerosSink ==
  [][\A s \in Sensors :
       ReadZero /\ s = currentSensor =>
         /\ usCm'[s] <= usCm[s]
         /\ \/ zeroOccurences' = zeroOccurences + 1
            \/ /\ zeroOccurences' = zeroOccurences
               /\ \A k \in 0 .. 3 : ZerosAtEnd(s, k) => ZerosAtEnd(s, k + 1)']_vars

(* When every read of every sensor returns a zero from some time on, the     *)
(* values sink to 0 and stay there: what is gone is not reported for ever   *)
(* (hardwareUS.c:147-155).  Nothing is claimed when only some sensors are    *)
(* silent: the echoes of the others hide their zeros.                      *)
QuietSettles ==
  <>[][~ReadEcho /\ ~ReadFails]_vars => \A s \in Sensors : <>[](usCm[s] = 0)
=============================================================================
