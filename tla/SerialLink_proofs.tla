-------------------------- MODULE SerialLink_proofs --------------------------
(***************************************************************************)
(* Theorems about SerialLink, for any number of connects and failures.      *)
(***************************************************************************)
EXTENDS SerialLink, TLAPS

(* What the handle is at every point of the thread.                        *)
HandleAt ==
  /\ pc \in {"loop", "read", "write", "sleep", "finished", "disconnect"} => usb_dev = "claimed"
  /\ pc = "claim" => usb_dev = "open"
  /\ pc \in {"open", "retry"} => usb_dev # "claimed"

IInv == TypeOK /\ HandleAt

LEMMA InitIInv == Init => IInv
<1> SUFFICES ASSUME Init PROVE IInv
  OBVIOUS
<1>1. leaked \in 0 .. MaxLeaked
  BY MaxLeakedAssumption DEF Init
<1>2. TypeOK
  BY <1>1 DEF Init, TypeOK, Handles, Points
<1>3. HandleAt
  BY DEF Init, HandleAt
<1> QED BY <1>2, <1>3 DEF IInv

LEMMA NextIInv == IInv /\ [Next]_vars => IInv'
<1> SUFFICES ASSUME IInv, [Next]_vars PROVE IInv'
  OBVIOUS
<1> USE MaxLeakedAssumption DEF IInv, TypeOK, HandleAt, Handles, Points
<1>1. ASSUME NEW b \in BusStates, BusChanges(b) PROVE IInv'
  BY <1>1 DEF BusChanges, thread
<1>2. CASE AppendSendBuffer \/ Stop
  BY <1>2 DEF AppendSendBuffer, Stop, thread
<1>3. CASE OpenSucceeds
  BY <1>3 DEF OpenSucceeds
<1>4. CASE OpenFails
  BY <1>4 DEF OpenFails
<1>5. CASE ClaimSucceeds
  BY <1>5 DEF ClaimSucceeds
<1>6. CASE ClaimFails
  BY <1>6 DEF ClaimFails
<1>7. CASE SleepAndRetry
  BY <1>7 DEF SleepAndRetry
<1>8. CASE Disconnect
  BY <1>8 DEF Disconnect
<1>9. CASE LoopAgain \/ LoopEnds \/ SleepToNextIteration
  BY <1>9 DEF LoopAgain, LoopEnds, SleepToNextIteration
<1>10. ASSUME NEW r \in Transfers, ReadOp(r) PROVE IInv'
  BY <1>10 DEF ReadOp, After
<1>11. ASSUME NEW r \in Transfers, WriteOp(r) PROVE IInv'
  BY <1>11 DEF WriteOp, After
<1>12. CASE UNCHANGED vars
  BY <1>12 DEF vars
<1> QED BY <1>1, <1>2, <1>3, <1>4, <1>5, <1>6, <1>7, <1>8, <1>9, <1>10, <1>11, <1>12
        DEF Next, HandlerStep

THEOREM Inductive == Spec => []IInv
  BY InitIInv, NextIInv, PTL DEF Spec

(* The state of the handler thread keeps its types.                        *)
THEOREM TypeCorrect == Spec => []TypeOK
<1>1. IInv => TypeOK
  BY DEF IInv
<1> QED BY <1>1, Inductive, PTL

(* Bytes are transferred only through a handle that was opened and claimed. *)
THEOREM TransfersAreOnClaimed == Spec => []TransferOnClaimed
<1>1. IInv => TransferOnClaimed
  BY DEF IInv, HandleAt, TransferOnClaimed
<1> QED BY <1>1, Inductive, PTL

(* A connection is released exactly once before the next one is made.       *)
THEOREM HandlesAreReleasedOnce == Spec => []ReleasedOnce
<1>1. IInv => ReleasedOnce
  BY DEF IInv, HandleAt, ReleasedOnce
<1> QED BY <1>1, Inductive, PTL

-----------------------------------------------------------------------------
(* The steps of the thread while the board is there, and what they do to    *)
(* the distance from the write, the end and the closing of the handle.     *)
LEMMA ConnectedSteps ==
  ASSUME IInv, bus = "free", HandlerStep
  PROVE  /\ running /\ pc # "write" => StepsToWrite' < StepsToWrite
         /\ ~running => StepsToEnd' < StepsToEnd
<1> USE DEF IInv, TypeOK, Points, StepsToWrite, StepsToEnd, ConnectSteps, ToWrite, ToEnd
<1>1. CASE OpenSucceeds
  BY <1>1 DEF OpenSucceeds
<1>2. ~OpenFails
  BY DEF OpenFails
<1>3. CASE ClaimSucceeds
  BY <1>3 DEF ClaimSucceeds
<1>4. CASE ClaimFails
  BY <1>4 DEF ClaimFails
<1>5. CASE SleepAndRetry
  BY <1>5 DEF SleepAndRetry
<1>6. CASE Disconnect
  BY <1>6 DEF Disconnect
<1>7. CASE LoopAgain
  BY <1>7 DEF LoopAgain
<1>8. CASE LoopEnds
  BY <1>8 DEF LoopEnds
<1>9. CASE SleepToNextIteration
  BY <1>9 DEF SleepToNextIteration
<1>10. ASSUME NEW r \in Transfers, ReadOp(r)
       PROVE  /\ running /\ pc # "write" => StepsToWrite' < StepsToWrite
              /\ ~running => StepsToEnd' < StepsToEnd
  BY <1>10 DEF ReadOp, After
<1>11. ASSUME NEW r \in Transfers, WriteOp(r)
       PROVE  /\ running /\ pc # "write" => StepsToWrite' < StepsToWrite
              /\ ~running => StepsToEnd' < StepsToEnd
  BY <1>11 DEF WriteOp, After
<1> QED BY <1>1, <1>2, <1>3, <1>4, <1>5, <1>6, <1>7, <1>8, <1>9, <1>10, <1>11
        DEF HandlerStep

(* With a board that stays plugged in, every step of the thread brings the  *)
(* next write nearer, for any history of failures (SerialHandler.cpp:42).   *)
THEOREM WayBackGetsShorter == Spec => EachStepNearsWrite
<1>1. IInv /\ [Next]_vars =>
        [ bus = "free" /\ running /\ pc # "write" /\ HandlerStep
            => StepsToWrite' < StepsToWrite ]_vars
  BY ConnectedSteps
<1> QED BY <1>1, Inductive, PTL DEF Spec, EachStepNearsWrite

(* While the bus is free, every step of a thread that was stopped brings    *)
(* its end nearer.  Nothing is said of a board that is away: the loop of    *)
(* SerialHandler::reconnect does not look at running (SerialHandler.cpp), so *)
(* a thread that was stopped there goes on until the board can be claimed.  *)
THEOREM StoppedThreadEnds == Spec => EachStepNearsEnd
<1>1. IInv /\ [Next]_vars =>
        [ bus = "free" /\ ~running /\ HandlerStep => StepsToEnd' < StepsToEnd ]_vars
  BY ConnectedSteps
<1> QED BY <1>1, Inductive, PTL DEF Spec, EachStepNearsEnd

(* A step of the thread that holds a dead handle.                          *)
LEMMA DeadHandleSteps ==
  ASSUME IInv, usb_dev = "claimed", ~attached, running, HandlerStep
  PROVE  ~attached' /\ (usb_dev' # "claimed" \/ ToClose(pc') < ToClose(pc))
<1> USE DEF IInv, TypeOK, HandleAt, Points, ToClose
<1>1. CASE Disconnect
  BY <1>1 DEF Disconnect
<1>2. CASE LoopAgain
  BY <1>2 DEF LoopAgain
<1>3. CASE SleepToNextIteration
  BY <1>3 DEF SleepToNextIteration
<1>4. ASSUME NEW r \in Transfers, ReadOp(r)
      PROVE  ~attached' /\ ToClose(pc') < ToClose(pc)
  BY <1>4 DEF ReadOp, CanReturn, After
<1>5. ASSUME NEW r \in Transfers, WriteOp(r)
      PROVE  ~attached' /\ ToClose(pc') < ToClose(pc)
  BY <1>5 DEF WriteOp, After
<1>6. /\ ~OpenSucceeds /\ ~OpenFails /\ ~ClaimSucceeds /\ ~ClaimFails
      /\ ~SleepAndRetry /\ ~LoopEnds
  BY DEF OpenSucceeds, OpenFails, ClaimSucceeds, ClaimFails, SleepAndRetry, LoopEnds
<1>7. CASE \E r \in Transfers : ReadOp(r) \/ WriteOp(r)
  BY <1>4, <1>5, <1>7
<1> QED BY <1>1, <1>2, <1>3, <1>6, <1>7 DEF HandlerStep

(* A dead handle is closed within five steps of the thread, whether there   *)
(* is anything to write or not.                                            *)
THEOREM DeadHandleIsClosed == Spec => EachStepNearsClose
<1>1. IInv /\ [Next]_vars =>
        [ usb_dev = "claimed" /\ ~attached /\ running =>
            /\ ~attached'
            /\ HandlerStep => usb_dev' # "claimed" \/ ToClose(pc') < ToClose(pc) ]_vars
  <2> SUFFICES ASSUME IInv, Next, usb_dev = "claimed", ~attached, running
               PROVE  /\ ~attached'
                      /\ HandlerStep => usb_dev' # "claimed" \/ ToClose(pc') < ToClose(pc)
    OBVIOUS
  <2>1. HandlerStep => ~attached' /\ (usb_dev' # "claimed" \/ ToClose(pc') < ToClose(pc))
    BY DeadHandleSteps
  <2>2. ~HandlerStep => ~attached'
    BY DEF Next, BusChanges, AppendSendBuffer, Stop
  <2> QED BY <2>1, <2>2
<1> QED BY <1>1, Inductive, PTL DEF Spec, EachStepNearsClose
=============================================================================
