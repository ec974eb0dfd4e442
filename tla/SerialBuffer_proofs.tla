------------------------ MODULE SerialBuffer_proofs ------------------------
(***************************************************************************)
(* Theorems about SerialBuffer, for any number of threads, any data and any *)
(* bound on the number of packets.  LatestStored is not inductive by itself: that    *)
(* only one thread is between clear() and push_front() follows from the     *)
(* append mutex (LocksHeld), and FreshRead needs to be known from the       *)
(* moment the element is chosen (ReadInProgress).                          *)
(***************************************************************************)
EXTENDS SerialBuffer, TLAPS

(* From the lock on, what a read has recorded is no newer than the queue,   *)
(* and the element it copies is no older than the read.                     *)
ReadInProgress ==
  \A t \in Threads :
    /\ pc[t] \in {"test", "at", "copy", "unlock_read"} => since[t] <= pushed[at[t]]
    /\ pc[t] \in {"copy", "unlock_read"} /\ got[t].kind = "packet" =>
         got[t].version \in since[t] .. pushed[at[t]]

\* The steps of the search for a packet.
Scanning(t) == RejectShort(t) \/ BeginScan(t) \/ PassByte(t)
               \/ JumpOver(t) \/ EndScan(t) \/ ScanFaults(t)

Examined == {"scan", "push", "unlock_append"}

(* The locals of an append: the iterator stands at 0 until the search       *)
(* begins, and an append to buffer_out has no chunk to search.              *)
ScanLocals ==
  \A t \in Threads :
    /\ pc[t] \notin Examined => it[t] = 0
    /\ pc[t] \in AppendPoints /\ at[t] = "buffer_out" => data[t] = NoChunk

(* A read that found the deque filled knows that a packet was stored, and   *)
(* what it copies is a packet, destroyed only by an append under way or     *)
(* done.                                                                    *)
Undisturbed(t) ==
  /\ pc[t] = "at" => pushed[at[t]] > 0
  /\ pc[t] = "copy" => got[t].kind = "packet"
  /\ pc[t] = "copy" /\ spoiled[t] =>
       Refilling(at[t]) \/ got[t].version < pushed[at[t]]

DisturbedByAppend == \A t \in Threads : Undisturbed(t)

IInv == /\ TypeOK /\ LocksHeld /\ LatestStored /\ ReadInProgress
        /\ ScanLocals /\ NewestUnlessCorrupt /\ LeavesOnlyOverCorrupt
        /\ MutexesReturned /\ DisturbedByAppend

-----------------------------------------------------------------------------
LEMMA InitIInv == Init => IInv
  <1> SUFFICES ASSUME Init PROVE IInv
    OBVIOUS
  <1>1. TypeOK
    <2>1. << >> \in Seq(Nat) /\ NoResult \in Result
      BY DEF NoResult, Result
    <2>2. "buffer_in" \in Queues /\ "idle" \in Points
      BY DEF Queues, Points
    <2>3. data \in [Threads -> Chunks \cup {NoChunk}] /\ it \in [Threads -> Int]
      BY DEF Init
    <2> QED BY <2>1, <2>2, <2>3 DEF Init, TypeOK
  <1>2. LocksHeld /\ ReadInProgress
    BY DEF Init, LocksHeld, ReadInProgress
  <1>3. LatestStored
    BY DEF Init, LatestStored, Refilling
  <1>4. ScanLocals /\ NewestUnlessCorrupt /\ LeavesOnlyOverCorrupt
    BY DEF Init, ScanLocals, AppendPoints, NewestUnlessCorrupt, LeavesOnlyOverCorrupt
  <1>5. MutexesReturned /\ DisturbedByAppend
    BY ThreadsAssumption DEF Init, MutexesReturned, DisturbedByAppend, Undisturbed
  <1> QED
    BY <1>1, <1>2, <1>3, <1>4, <1>5 DEF IInv

(* What a thread's chunk is.                                               *)
LEMMA ChunkFacts ==
  ASSUME TypeOK, NEW t \in Threads
  PROVE  /\ data[t].size \in Nat
         /\ data[t].frames \subseteq (PacketSize - 1) .. (data[t].size - 1)
         /\ data[t].valid \subseteq data[t].frames
         /\ data[t].strays \subseteq 1 .. (PacketSize - 2)
         /\ it[t] \in Int /\ PacketSize \in Nat \ {0, 1}
  BY ChunksAssumption, PacketSizeAssumption DEF TypeOK, NoChunk

(* Every step keeps the types.                                             *)
LEMMA TypeStep == TypeOK /\ [Next]_vars => TypeOK'
  <1> SUFFICES ASSUME TypeOK, [Next]_vars PROVE TypeOK'
    OBVIOUS
  <1> USE ThreadsAssumption DEF TypeOK, queues, locks, scan, reads, Points, AppendPoints, ReadPoints
  <1>1. ASSUME NEW t \in Threads, NEW q \in Queues, CallAppend(t, q) PROVE TypeOK'
    BY <1>1 DEF CallAppend, Goto
  <1>2. ASSUME NEW t \in Threads, NEW q \in Queues, CallRead(t, q) PROVE TypeOK'
    BY <1>2 DEF CallRead, Goto
  <1>3. ASSUME NEW t \in Threads, AppendStep(t) PROVE TypeOK'
    <2>1. CASE LockAppend(t)   BY <2>1 DEF LockAppend, Goto
    <2>2. CASE RejectShort(t) BY <2>2 DEF RejectShort, Goto
    <2>3. CASE BeginScan(t)    BY <2>3, ChunkFacts DEF BeginScan, Goto
    <2>4. CASE PassByte(t) BY <2>4 DEF PassByte, Goto
    <2>5. CASE JumpOver(t)     BY <2>5, ChunkFacts DEF JumpOver, Goto
    <2>6. CASE EndScan(t)      BY <2>6 DEF EndScan, Goto
    <2>7. CASE ScanFaults(t) BY <2>7 DEF ScanFaults
    <2>8. CASE ClearDeque(t)
      <3>1. pc' \in [Threads -> Points]
        BY <2>8 DEF ClearDeque, GoPush, Goto
      <3>2. deque' \in [Queues -> Seq(Nat)]
        BY <2>8 DEF ClearDeque
      <3> QED BY <2>8, <3>1, <3>2 DEF ClearDeque
    <2>9. CASE PushPacket(t)   BY <2>9 DEF PushPacket, Goto
    <2>10. CASE UnlockAppend(t) BY <2>10 DEF UnlockAppend, Goto
    <2> QED
      BY <1>3, <2>1, <2>2, <2>3, <2>4, <2>5, <2>6, <2>7, <2>8, <2>9, <2>10 DEF AppendStep
  <1>4. ASSUME NEW t \in Threads, ReadStep(t) PROVE TypeOK'
    <2>1. CASE LockRead(t)     BY <2>1 DEF LockRead, Goto
    <2>2. CASE TestNonEmpty(t) BY <2>2 DEF TestNonEmpty, Goto
    <2>3. CASE TestEmpty(t)    BY <2>3 DEF TestEmpty, Goto, EmptyVec, Result
    <2>4. CASE AccessFirst(t)
      <3>1. Head(deque[at[t]]) \in Nat
        BY <2>4 DEF AccessFirst
      <3> QED BY <2>4, <3>1 DEF AccessFirst, Goto, Packet, Result
    <2>5. CASE AccessThrows(t) BY <2>5 DEF AccessThrows
    <2>6. CASE FinishCopy(t)   BY <2>6 DEF FinishCopy, Goto
    <2>7. CASE FinishSpoiledCopy(t)
      BY <2>7 DEF FinishSpoiledCopy, Goto, Garbage, Result
    <2>8. CASE UnlockRead(t)   BY <2>8 DEF UnlockRead, Goto
    <2> QED BY <1>4, <2>1, <2>2, <2>3, <2>4, <2>5, <2>6, <2>7, <2>8 DEF ReadStep
  <1>5. CASE UNCHANGED vars
    BY <1>5 DEF vars
  <1> QED
    BY <1>1, <1>2, <1>3, <1>4, <1>5 DEF Next, Call

(* Mutual exclusion of the two mutexes of a queue.                         *)
LEMMA LocksStep == TypeOK /\ LocksHeld /\ [Next]_vars => LocksHeld'
  <1> SUFFICES ASSUME TypeOK, LocksHeld, [Next]_vars PROVE LocksHeld'
    OBVIOUS
  <1> USE ThreadsAssumption DEF TypeOK, LocksHeld, queues, locks, scan, reads
  <1>1. ASSUME NEW t \in Threads, NEW q \in Queues, CallAppend(t, q) PROVE LocksHeld'
    BY <1>1 DEF CallAppend, Goto
  <1>2. ASSUME NEW t \in Threads, NEW q \in Queues, CallRead(t, q) PROVE LocksHeld'
    BY <1>2 DEF CallRead, Goto
  <1>3. ASSUME NEW t \in Threads, AppendStep(t) PROVE LocksHeld'
    <2>1. CASE LockAppend(t)   BY <2>1 DEF LockAppend, Goto
    <2>2. CASE RejectShort(t)  BY <2>2 DEF RejectShort, Goto
    <2>3. CASE BeginScan(t)    BY <2>3 DEF BeginScan, Goto
    <2>4. CASE PassByte(t)     BY <2>4 DEF PassByte, Goto
    <2>5. CASE JumpOver(t)     BY <2>5 DEF JumpOver, Goto
    <2>6. CASE EndScan(t)      BY <2>6 DEF EndScan, Goto
    <2>7. CASE ScanFaults(t)   BY <2>7 DEF ScanFaults
    <2>8. CASE ClearDeque(t)   BY <2>8 DEF ClearDeque, GoPush, Goto
    <2>9. CASE PushPacket(t)   BY <2>9 DEF PushPacket, Goto
    <2>10. CASE UnlockAppend(t) BY <2>10 DEF UnlockAppend, Goto
    <2> QED
      BY <1>3, <2>1, <2>2, <2>3, <2>4, <2>5, <2>6, <2>7, <2>8, <2>9, <2>10 DEF AppendStep
  <1>4. ASSUME NEW t \in Threads, ReadStep(t) PROVE LocksHeld'
    <2>1. CASE LockRead(t)     BY <2>1 DEF LockRead, Goto
    <2>2. CASE TestNonEmpty(t) BY <2>2 DEF TestNonEmpty, Goto
    <2>3. CASE TestEmpty(t)    BY <2>3 DEF TestEmpty, Goto
    <2>4. CASE AccessFirst(t)  BY <2>4 DEF AccessFirst, Goto
    <2>5. CASE AccessThrows(t) BY <2>5 DEF AccessThrows
    <2>6. CASE FinishCopy(t)   BY <2>6 DEF FinishCopy, Goto
    <2>7. CASE FinishSpoiledCopy(t) BY <2>7 DEF FinishSpoiledCopy, Goto
    <2>8. CASE UnlockRead(t)   BY <2>8 DEF UnlockRead, Goto
    <2> QED BY <1>4, <2>1, <2>2, <2>3, <2>4, <2>5, <2>6, <2>7, <2>8 DEF ReadStep
  <1>5. CASE UNCHANGED vars
    BY <1>5 DEF vars
  <1> QED
    BY <1>1, <1>2, <1>3, <1>4, <1>5 DEF Next, Call

(* A step that touches neither the queues nor who is refilling one.        *)
LEMMA LatestFrame ==
  ASSUME LatestStored, UNCHANGED queues,
         \A q \in Queues : Refilling(q)' <=> Refilling(q)
  PROVE  LatestStored'
  BY DEF LatestStored, queues

LEMMA LatestStep == TypeOK /\ LocksHeld /\ LatestStored /\ [Next]_vars => LatestStored'
  <1> SUFFICES ASSUME TypeOK, LocksHeld, LatestStored, [Next]_vars PROVE LatestStored'
    OBVIOUS
  <1> USE DEF TypeOK, queues
  <1>1. ASSUME NEW t \in Threads, NEW q \in Queues,
               CallAppend(t, q) \/ CallRead(t, q)
        PROVE  LatestStored'
    <2>1. \A p \in Queues : Refilling(p)' <=> Refilling(p)
      BY <1>1 DEF CallAppend, CallRead, Goto, Refilling
    <2> QED BY <1>1, <2>1, LatestFrame DEF CallAppend, CallRead
  <1>2. ASSUME NEW t \in Threads, AppendStep(t) PROVE LatestStored'
    <2>1. CASE LockAppend(t) \/ UnlockAppend(t) \/ Scanning(t)
      <3>1. \A p \in Queues : Refilling(p)' <=> Refilling(p)
        BY <2>1 DEF LockAppend, UnlockAppend, Scanning, RejectShort, BeginScan,
             PassByte, JumpOver, EndScan, ScanFaults, Goto, Refilling
      <3>2. UNCHANGED queues
        BY <2>1 DEF LockAppend, UnlockAppend, Scanning, RejectShort, BeginScan,
             PassByte, JumpOver, EndScan, ScanFaults
      <3> QED BY <3>1, <3>2, LatestFrame
    <2>2. CASE ClearDeque(t)
      <3>1. Refilling(at[t])'
        BY <2>2 DEF ClearDeque, GoPush, Goto, Refilling
      <3>2. \A p \in Queues \ {at[t]} : Refilling(p)' <=> Refilling(p)
        BY <2>2 DEF ClearDeque, GoPush, Goto, Refilling
      <3> QED BY <2>2, <3>1, <3>2 DEF ClearDeque, LatestStored
    <2>3. CASE PushPacket(t)
      <3>1. Refilling(at[t]) /\ deque[at[t]] = << >>
        BY <2>3 DEF PushPacket, Goto, Refilling, LatestStored
      <3>2. \A p \in Queues : p = at[t] => ~Refilling(p)'
        BY <2>3 DEF PushPacket, Goto, Refilling, LocksHeld
      <3>3. \A p \in Queues \ {at[t]} : Refilling(p)' <=> Refilling(p)
        BY <2>3 DEF PushPacket, Goto, Refilling
      <3>4. deque'[at[t]] = <<pushed'[at[t]]>> /\ pushed'[at[t]] # 0
        BY <2>3, <3>1 DEF PushPacket
      <3>5. \A p \in Queues \ {at[t]} : deque'[p] = deque[p] /\ pushed'[p] = pushed[p]
        BY <2>3 DEF PushPacket
      <3> SUFFICES ASSUME NEW p \in Queues
                   PROVE  deque'[p] = IF Refilling(p)' \/ pushed'[p] = 0
                                      THEN << >> ELSE <<pushed'[p]>>
        BY DEF LatestStored
      <3>6. CASE p = at[t]
        BY <3>2, <3>4, <3>6
      <3>7. CASE p # at[t]
        BY <3>3, <3>5, <3>7 DEF LatestStored
      <3> QED BY <3>6, <3>7
    <2> QED BY <1>2, <2>1, <2>2, <2>3 DEF AppendStep, Scanning
  <1>3. ASSUME NEW t \in Threads, ReadStep(t) PROVE LatestStored'
    <2>1. \A p \in Queues : Refilling(p)' <=> Refilling(p)
      BY <1>3 DEF ReadStep, LockRead, TestNonEmpty, TestEmpty, AccessFirst,
           AccessThrows, FinishCopy, FinishSpoiledCopy, UnlockRead, Goto, Refilling
    <2>2. UNCHANGED queues
      BY <1>3 DEF ReadStep, LockRead, TestNonEmpty, TestEmpty, AccessFirst,
           AccessThrows, FinishCopy, FinishSpoiledCopy, UnlockRead
    <2> QED BY <2>1, <2>2, LatestFrame
  <1>4. CASE UNCHANGED vars
    BY <1>4, LatestFrame DEF vars, Refilling
  <1> QED
    BY <1>1, <1>2, <1>3, <1>4 DEF Next, Call

LEMMA ReadInProgressStep ==
  TypeOK /\ LatestStored /\ ReadInProgress /\ [Next]_vars => ReadInProgress'
  <1> SUFFICES ASSUME TypeOK, LatestStored, ReadInProgress, [Next]_vars
               PROVE  ReadInProgress'
    OBVIOUS
  <1> USE DEF TypeOK, ReadInProgress, queues, locks, scan, reads
  <1>1. ASSUME NEW t \in Threads, NEW q \in Queues,
               CallAppend(t, q) \/ CallRead(t, q)
        PROVE  ReadInProgress'
    BY <1>1 DEF CallAppend, CallRead, Goto
  <1>2. ASSUME NEW t \in Threads, AppendStep(t) PROVE ReadInProgress'
    <2>1. CASE LockAppend(t)   BY <2>1 DEF LockAppend, Goto
    <2>2. CASE RejectShort(t)  BY <2>2 DEF RejectShort, Goto
    <2>3. CASE BeginScan(t)    BY <2>3 DEF BeginScan, Goto
    <2>4. CASE PassByte(t)     BY <2>4 DEF PassByte, Goto
    <2>5. CASE JumpOver(t)     BY <2>5 DEF JumpOver, Goto
    <2>6. CASE EndScan(t)      BY <2>6 DEF EndScan, Goto
    <2>7. CASE ScanFaults(t)   BY <2>7 DEF ScanFaults
    <2>8. CASE ClearDeque(t)   BY <2>8 DEF ClearDeque, GoPush, Goto
    <2>9. CASE PushPacket(t)   BY <2>9 DEF PushPacket, Goto
    <2>10. CASE UnlockAppend(t) BY <2>10 DEF UnlockAppend, Goto
    <2> QED
      BY <1>2, <2>1, <2>2, <2>3, <2>4, <2>5, <2>6, <2>7, <2>8, <2>9, <2>10 DEF AppendStep
  <1>3. ASSUME NEW t \in Threads, ReadStep(t) PROVE ReadInProgress'
    <2>1. CASE LockRead(t)     BY <2>1 DEF LockRead, Goto
    <2>2. CASE TestNonEmpty(t) BY <2>2 DEF TestNonEmpty, Goto
    <2>3. CASE TestEmpty(t)    BY <2>3 DEF TestEmpty, Goto, EmptyVec
    <2>4. CASE AccessFirst(t)
      <3>1. Head(deque[at[t]]) = pushed[at[t]]
        BY <2>4 DEF AccessFirst, LatestStored
      <3> QED BY <2>4, <3>1 DEF AccessFirst, Goto, Packet
    <2>5. CASE AccessThrows(t) BY <2>5 DEF AccessThrows
    <2>6. CASE FinishCopy(t)   BY <2>6 DEF FinishCopy, Goto
    <2>7. CASE FinishSpoiledCopy(t) BY <2>7 DEF FinishSpoiledCopy, Goto, Garbage
    <2>8. CASE UnlockRead(t)   BY <2>8 DEF UnlockRead, Goto
    <2> QED BY <1>3, <2>1, <2>2, <2>3, <2>4, <2>5, <2>6, <2>7, <2>8 DEF ReadStep
  <1>4. CASE UNCHANGED vars
    BY <1>4 DEF vars
  <1> QED
    BY <1>1, <1>2, <1>3, <1>4 DEF Next, Call

(* Who is not searching keeps the locals; a search touches only its own.    *)
LEMMA LocalsStep == TypeOK /\ ScanLocals /\ [Next]_vars => ScanLocals'
  <1> SUFFICES ASSUME TypeOK, ScanLocals, [Next]_vars PROVE ScanLocals'
    OBVIOUS
  <1> USE DEF TypeOK, ScanLocals, Examined, AppendPoints, queues, locks, scan, reads
  <1>1. ASSUME NEW t \in Threads, NEW q \in Queues,
               CallAppend(t, q) \/ CallRead(t, q)
        PROVE  ScanLocals'
    BY <1>1 DEF CallAppend, CallRead, Goto, Queues
  <1>2. ASSUME NEW t \in Threads, AppendStep(t) PROVE ScanLocals'
    <2>1. CASE LockAppend(t)   BY <2>1 DEF LockAppend, Goto
    <2>2. CASE RejectShort(t)  BY <2>2 DEF RejectShort, Goto
    <2>3. CASE BeginScan(t)    BY <2>3 DEF BeginScan, Goto
    <2>4. CASE PassByte(t)     BY <2>4 DEF PassByte, Goto
    <2>5. CASE JumpOver(t)     BY <2>5 DEF JumpOver, Goto
    <2>6. CASE EndScan(t)      BY <2>6 DEF EndScan, Goto
    <2>7. CASE ScanFaults(t)   BY <2>7 DEF ScanFaults
    <2>8. CASE ClearDeque(t)   BY <2>8 DEF ClearDeque, GoPush, Goto
    <2>9. CASE PushPacket(t)   BY <2>9 DEF PushPacket, Goto
    <2>10. CASE UnlockAppend(t) BY <2>10 DEF UnlockAppend, Goto
    <2> QED
      BY <1>2, <2>1, <2>2, <2>3, <2>4, <2>5, <2>6, <2>7, <2>8, <2>9, <2>10 DEF AppendStep
  <1>3. ASSUME NEW t \in Threads, ReadStep(t) PROVE ScanLocals'
    <2>1. UNCHANGED <<scan, at>>
      BY <1>3 DEF ReadStep, LockRead, TestNonEmpty, TestEmpty, AccessFirst,
           AccessThrows, FinishCopy, FinishSpoiledCopy, UnlockRead
    <2>2. \A r \in Threads : pc'[r] = pc[r] \/ pc[r] \in ReadPoints
      BY <1>3 DEF ReadStep, LockRead, TestNonEmpty, TestEmpty, AccessFirst,
           AccessThrows, FinishCopy, FinishSpoiledCopy, UnlockRead, Goto, ReadPoints
    <2>3. \A r \in Threads : pc'[r] = pc[r] \/ pc'[r] \in ReadPoints \cup {"idle"}
      BY <1>3 DEF ReadStep, LockRead, TestNonEmpty, TestEmpty, AccessFirst,
           AccessThrows, FinishCopy, FinishSpoiledCopy, UnlockRead, Goto, ReadPoints
    <2> QED BY <2>1, <2>2, <2>3 DEF ReadPoints
  <1>4. CASE UNCHANGED vars
    BY <1>4 DEF vars
  <1> QED
    BY <1>1, <1>2, <1>3, <1>4 DEF Next, Call

LEMMA ScanStep ==
  TypeOK /\ ScanLocals /\ NewestUnlessCorrupt /\ LeavesOnlyOverCorrupt /\ [Next]_vars
    => NewestUnlessCorrupt' /\ LeavesOnlyOverCorrupt'
  <1> SUFFICES ASSUME TypeOK, ScanLocals, NewestUnlessCorrupt, LeavesOnlyOverCorrupt,
                      [Next]_vars
               PROVE  NewestUnlessCorrupt' /\ LeavesOnlyOverCorrupt'
    OBVIOUS
  <1> DEFINE Newest(t) ==
        \A p \in data[t].valid :
          p > it[t] => \E f \in data[t].frames \ data[t].valid :
                         p < f /\ f <= p + PacketSize
  <1> DEFINE Left(t) ==
        it[t] < 0 => \/ \E f \in data[t].frames \ data[t].valid : f <= PacketSize
                     \/ data[t].strays # {}
  <1>0. /\ \A t \in Threads : pc[t] \in Examined => Newest(t)
        /\ \A t \in Threads : Left(t)
    BY DEF NewestUnlessCorrupt, LeavesOnlyOverCorrupt, Examined
  <1>1. ASSUME \A t \in Threads : pc'[t] \in Examined => Newest(t)',
               \A t \in Threads : Left(t)'
        PROVE  NewestUnlessCorrupt' /\ LeavesOnlyOverCorrupt'
    BY <1>1 DEF NewestUnlessCorrupt, LeavesOnlyOverCorrupt, Examined
  <1> HIDE DEF Newest, Left
  \* A step that leaves the chunks and the iterators alone.
  <1>2. ASSUME UNCHANGED scan,
               \A t \in Threads : pc'[t] \in Examined => pc[t] \in Examined \/ Newest(t)
        PROVE  NewestUnlessCorrupt' /\ LeavesOnlyOverCorrupt'
    <2>1. \A t \in Threads : (Newest(t)' <=> Newest(t)) /\ (Left(t)' <=> Left(t))
      BY <1>2 DEF scan, Newest, Left
    <2> QED BY <1>0, <1>1, <1>2, <2>1
  \* A step of a search, or one that begins or ends an append.
  <1>3. ASSUME NEW t \in Threads,
               \A r \in Threads \ {t} :
                 data'[r] = data[r] /\ it'[r] = it[r] /\ pc'[r] = pc[r],
               pc'[t] \in Examined => Newest(t)', Left(t)'
        PROVE  NewestUnlessCorrupt' /\ LeavesOnlyOverCorrupt'
    <2>1. \A r \in Threads \ {t} : (Newest(r)' <=> Newest(r)) /\ (Left(r)' <=> Left(r))
      BY <1>3 DEF Newest, Left
    <2> QED BY <1>0, <1>1, <1>3, <2>1
  <1>4. ASSUME NEW t \in Threads, NEW q \in Queues,
               CallAppend(t, q) \/ CallRead(t, q)
        PROVE  NewestUnlessCorrupt' /\ LeavesOnlyOverCorrupt'
    <2>1. CASE CallAppend(t, q)
      <3>1. /\ pc'[t] = "lock_append" /\ it'[t] = 0
            /\ \A r \in Threads \ {t} :
                 data'[r] = data[r] /\ it'[r] = it[r] /\ pc'[r] = pc[r]
        BY <2>1 DEF CallAppend, Goto, TypeOK, ScanLocals, Examined
      <3> QED BY <3>1, <1>3 DEF Left, Examined
    <2>2. CASE CallRead(t, q)
      <3>1. UNCHANGED scan /\ \A r \in Threads : pc'[r] \in Examined => pc[r] \in Examined
        BY <2>2 DEF CallRead, Goto, TypeOK, Examined
      <3> QED BY <3>1, <1>2
    <2> QED BY <1>4, <2>1, <2>2
  <1>5. ASSUME NEW t \in Threads, AppendStep(t)
        PROVE  NewestUnlessCorrupt' /\ LeavesOnlyOverCorrupt'
    <2> USE ChunkFacts
    <2>1. CASE LockAppend(t)
      <3>1. UNCHANGED scan /\ \A r \in Threads : pc'[r] \in Examined => pc[r] \in Examined
        BY <2>1 DEF LockAppend, Goto, TypeOK, Examined
      <3> QED BY <3>1, <1>2
    <2>2. CASE RejectShort(t)
      <3>1. UNCHANGED scan /\ \A r \in Threads \ {t} : pc'[r] = pc[r]
        BY <2>2 DEF RejectShort, Goto, TypeOK
      <3>2. Newest(t)
        BY <2>2 DEF RejectShort, Newest
      <3> QED BY <3>1, <3>2, <1>2
    <2>3. CASE BeginScan(t)
      <3>1. /\ it'[t] = data[t].size - 1 /\ data'[t] = data[t] /\ data[t].size >= PacketSize
            /\ \A r \in Threads \ {t} :
                 data'[r] = data[r] /\ it'[r] = it[r] /\ pc'[r] = pc[r]
        BY <2>3 DEF BeginScan, Goto, TypeOK
      <3>2. Newest(t)' /\ Left(t)'
        BY <3>1 DEF Newest, Left
      <3> QED BY <3>1, <3>2, <1>3
    <2>4. CASE PassByte(t)
      <3>1. /\ it'[t] = it[t] - 1 /\ data'[t] = data[t] /\ it[t] > 0
            /\ it[t] \notin data[t].frames /\ pc[t] \in Examined
            /\ \A r \in Threads \ {t} :
                 data'[r] = data[r] /\ it'[r] = it[r] /\ pc'[r] = pc[r]
        BY <2>4 DEF PassByte, Goto, TypeOK, Examined
      <3>2. Newest(t)' /\ Left(t)'
        BY <3>1, <1>0 DEF Newest, Left
      <3> QED BY <3>1, <3>2, <1>3
    <2>5. CASE JumpOver(t)
      <3>1. /\ it'[t] = it[t] - PacketSize - 1 /\ data'[t] = data[t]
            /\ it[t] \in (data[t].frames \ data[t].valid) \cup data[t].strays
            /\ pc[t] \in Examined
            /\ \A r \in Threads \ {t} :
                 data'[r] = data[r] /\ it'[r] = it[r] /\ pc'[r] = pc[r]
        BY <2>5 DEF JumpOver, Goto, TypeOK, Examined
      <3>2. ASSUME NEW p \in data[t].valid, p > it[t] - PacketSize - 1
            PROVE  \E f \in data[t].frames \ data[t].valid : p < f /\ f <= p + PacketSize
        <4>1. CASE p > it[t]
          BY <3>1, <1>0, <4>1 DEF Newest
        <4>2. CASE it[t] \in data[t].strays
          BY <4>1, <4>2
        <4>3. CASE it[t] \in data[t].frames \ data[t].valid /\ ~(p > it[t])
          BY <3>2, <4>3
        <4> QED BY <3>1, <4>1, <4>2, <4>3
      <3>3. Newest(t)'
        BY <3>1, <3>2 DEF Newest
      <3>4. Left(t)'
        BY <3>1 DEF Left
      <3> QED BY <3>1, <3>3, <3>4, <1>3
    <2>6. CASE EndScan(t) \/ ScanFaults(t) \/ PushPacket(t)
      <3>1. UNCHANGED scan /\ \A r \in Threads : pc'[r] \in Examined => pc[r] \in Examined
        BY <2>6 DEF EndScan, ScanFaults, PushPacket, Goto, TypeOK, Examined
      <3> QED BY <3>1, <1>2
    <2>7. CASE ClearDeque(t)
      <3>1. UNCHANGED scan /\ \A r \in Threads \ {t} : pc'[r] = pc[r]
        BY <2>7 DEF ClearDeque, GoPush, Goto, TypeOK
      <3>2. pc[t] \in Examined \/ data[t] = NoChunk
        BY <2>7 DEF ClearDeque, GoPush, Goto, Examined, ScanLocals, AppendPoints
      <3>3. pc[t] \in Examined \/ Newest(t)
        BY <3>2 DEF Newest, NoChunk
      <3> QED BY <3>1, <3>3, <1>2
    <2>8. CASE UnlockAppend(t)
      <3>1. /\ pc'[t] = "idle" /\ it'[t] = 0
            /\ \A r \in Threads \ {t} :
                 data'[r] = data[r] /\ it'[r] = it[r] /\ pc'[r] = pc[r]
        BY <2>8 DEF UnlockAppend, Goto, TypeOK
      <3> QED BY <3>1, <1>3 DEF Left, Examined
    <2> QED
      BY <1>5, <2>1, <2>2, <2>3, <2>4, <2>5, <2>6, <2>7, <2>8 DEF AppendStep
  <1>6. ASSUME NEW t \in Threads, ReadStep(t)
        PROVE  NewestUnlessCorrupt' /\ LeavesOnlyOverCorrupt'
    <2>1. UNCHANGED scan /\ \A r \in Threads : pc'[r] \in Examined => pc[r] \in Examined
      BY <1>6 DEF ReadStep, LockRead, TestNonEmpty, TestEmpty, AccessFirst,
           AccessThrows, FinishCopy, FinishSpoiledCopy, UnlockRead, Goto, TypeOK, Examined
    <2> QED BY <2>1, <1>2
  <1>7. CASE UNCHANGED vars
    BY <1>7, <1>2 DEF vars
  <1> QED
    BY <1>4, <1>5, <1>6, <1>7 DEF Next, Call

(* Who unlocks is who locked, so a mutex is free once its holder has left.  *)
LEMMA MutexStep == TypeOK /\ MutexesReturned /\ [Next]_vars => MutexesReturned'
  <1> SUFFICES ASSUME TypeOK, MutexesReturned, [Next]_vars PROVE MutexesReturned'
    OBVIOUS
  <1> USE ThreadsAssumption DEF TypeOK, MutexesReturned, queues, locks, scan, reads
  <1>1. ASSUME NEW t \in Threads, NEW q \in Queues,
               CallAppend(t, q) \/ CallRead(t, q)
        PROVE  MutexesReturned'
    <2>1. /\ pc[t] = "idle" /\ UNCHANGED locks
          /\ \A r \in Threads \ {t} : pc'[r] = pc[r] /\ at'[r] = at[r]
      BY <1>1 DEF CallAppend, CallRead, Goto
    <2>2. \A p \in Queues : appendLock[p] # t /\ readLock[p] # t
      BY <2>1
    <2> QED BY <2>1, <2>2
  <1>2. ASSUME NEW t \in Threads, AppendStep(t) PROVE MutexesReturned'
    <2>1. CASE LockAppend(t)    BY <2>1 DEF LockAppend, Goto
    <2>2. CASE RejectShort(t)   BY <2>2 DEF RejectShort, Goto
    <2>3. CASE BeginScan(t)     BY <2>3 DEF BeginScan, Goto
    <2>4. CASE PassByte(t)      BY <2>4 DEF PassByte, Goto
    <2>5. CASE JumpOver(t)      BY <2>5 DEF JumpOver, Goto
    <2>6. CASE EndScan(t)       BY <2>6 DEF EndScan, Goto
    <2>7. CASE ScanFaults(t)    BY <2>7 DEF ScanFaults
    <2>8. CASE ClearDeque(t)
      <3>1. /\ pc[t] \in {"append", "scan"} /\ UNCHANGED <<locks, at>>
            /\ pc' = [pc EXCEPT ![t] = "push"]
        BY <2>8 DEF ClearDeque, GoPush, Goto
      <3> QED BY <3>1
    <2>9. CASE PushPacket(t)    BY <2>9 DEF PushPacket, Goto
    <2>10. CASE UnlockAppend(t) BY <2>10 DEF UnlockAppend, Goto
    <2> QED
      BY <1>2, <2>1, <2>2, <2>3, <2>4, <2>5, <2>6, <2>7, <2>8, <2>9, <2>10 DEF AppendStep
  <1>3. ASSUME NEW t \in Threads, ReadStep(t) PROVE MutexesReturned'
    <2>1. CASE LockRead(t)      BY <2>1 DEF LockRead, Goto
    <2>2. CASE TestNonEmpty(t)  BY <2>2 DEF TestNonEmpty, Goto
    <2>3. CASE TestEmpty(t)     BY <2>3 DEF TestEmpty, Goto
    <2>4. CASE AccessFirst(t)   BY <2>4 DEF AccessFirst, Goto
    <2>5. CASE AccessThrows(t)  BY <2>5 DEF AccessThrows
    <2>6. CASE FinishCopy(t)    BY <2>6 DEF FinishCopy, Goto
    <2>7. CASE FinishSpoiledCopy(t) BY <2>7 DEF FinishSpoiledCopy, Goto
    <2>8. CASE UnlockRead(t)    BY <2>8 DEF UnlockRead, Goto
    <2> QED BY <1>3, <2>1, <2>2, <2>3, <2>4, <2>5, <2>6, <2>7, <2>8 DEF ReadStep
  <1>4. CASE UNCHANGED vars
    BY <1>4 DEF vars
  <1> QED
    BY <1>1, <1>2, <1>3, <1>4 DEF Next, Call

LEMMA DisturbedStep ==
  TypeOK /\ LatestStored /\ ReadInProgress /\ DisturbedByAppend /\ [Next]_vars
    => DisturbedByAppend'
  <1> SUFFICES ASSUME TypeOK, LatestStored, ReadInProgress, DisturbedByAppend, [Next]_vars
               PROVE  DisturbedByAppend'
    OBVIOUS
  \* A step that ends no append and touches no read that is under way.
  <1>1. ASSUME \A q \in Queues : Refilling(q) => Refilling(q)',
               UNCHANGED <<reads, pushed>>,
               \A t \in Threads : pc'[t] \in {"at", "copy"} =>
                                   pc'[t] = pc[t] /\ at'[t] = at[t]
        PROVE  DisturbedByAppend'
    BY <1>1 DEF DisturbedByAppend, Undisturbed, TypeOK, reads
  <1>2. ASSUME NEW t \in Threads, NEW q \in Queues,
               CallAppend(t, q) \/ CallRead(t, q)
        PROVE  DisturbedByAppend'
    <2>1. \A p \in Queues : Refilling(p) => Refilling(p)'
      BY <1>2 DEF CallAppend, CallRead, Goto, Refilling, TypeOK
    <2> QED
      BY <1>1, <1>2, <2>1 DEF CallAppend, CallRead, Goto, TypeOK, queues
  <1>3. ASSUME NEW t \in Threads, AppendStep(t) PROVE DisturbedByAppend'
    <2>1. CASE LockAppend(t) \/ UnlockAppend(t) \/ Scanning(t)
      <3>1. \A p \in Queues : Refilling(p) => Refilling(p)'
        BY <2>1 DEF LockAppend, UnlockAppend, Scanning, RejectShort, BeginScan,
             PassByte, JumpOver, EndScan, ScanFaults, Goto, Refilling, TypeOK
      <3>2. UNCHANGED <<reads, pushed, at>>
        BY <2>1 DEF LockAppend, UnlockAppend, Scanning, RejectShort, BeginScan,
             PassByte, JumpOver, EndScan, ScanFaults, queues
      <3>3. \A r \in Threads : pc'[r] \in {"at", "copy"} => pc'[r] = pc[r]
        BY <2>1 DEF LockAppend, UnlockAppend, Scanning, RejectShort, BeginScan,
             PassByte, JumpOver, EndScan, ScanFaults, Goto, TypeOK
      <3> QED BY <1>1, <3>1, <3>2, <3>3
    <2>2. CASE ClearDeque(t)
      <3>1. Refilling(at[t])' /\ \A p \in Queues : Refilling(p) => Refilling(p)'
        BY <2>2 DEF ClearDeque, GoPush, Goto, Refilling, TypeOK
      <3>2. \A r \in Threads : pc'[r] \in {"at", "copy"} => pc'[r] = pc[r]
        BY <2>2 DEF ClearDeque, GoPush, Goto, TypeOK
      <3>3. /\ UNCHANGED <<at, got, pushed>>
            /\ \A r \in Threads :
                 spoiled'[r] => spoiled[r] \/ at[r] = at[t]
        BY <2>2 DEF ClearDeque
      <3> QED
        BY <3>1, <3>2, <3>3 DEF DisturbedByAppend, Undisturbed, TypeOK
    <2>3. CASE PushPacket(t)
      <3>1. \A p \in Queues : Refilling(p) => Refilling(p)' \/ p = at[t]
        BY <2>3 DEF PushPacket, Goto, Refilling, TypeOK
      <3>2. \A r \in Threads : pc'[r] \in {"at", "copy"} => pc'[r] = pc[r]
        BY <2>3 DEF PushPacket, Goto, TypeOK
      <3>3. /\ UNCHANGED <<at, reads>>
            /\ pushed'[at[t]] = pushed[at[t]] + 1
            /\ \A p \in Queues : pushed'[p] \in Nat /\ pushed'[p] >= pushed[p]
        BY <2>3 DEF PushPacket, TypeOK
      <3>4. ASSUME NEW r \in Threads PROVE Undisturbed(r)'
        <4>1. /\ at[r] \in Queues /\ pushed[at[r]] \in Nat
              /\ pushed'[at[r]] \in Nat /\ pushed'[at[r]] >= pushed[at[r]]
          BY <3>3 DEF TypeOK
        <4>2. pc'[r] = "at" => pushed'[at[r]] > 0
          <5>1. pc[r] = "at" => pushed[at[r]] > 0
            BY DEF DisturbedByAppend, Undisturbed
          <5>2. pc'[r] = "at" => pc[r] = "at"
            BY <3>2
          <5> QED BY <4>1, <5>1, <5>2
        <4>3. pc'[r] = "copy" => got[r].kind = "packet"
          BY <3>2 DEF DisturbedByAppend, Undisturbed
        <4>4. ASSUME pc'[r] = "copy", spoiled[r]
              PROVE  Refilling(at[r])' \/ got[r].version < pushed'[at[r]]
          <5>1. got[r].version \in Nat /\ got[r].version <= pushed[at[r]]
            BY <3>2, <4>1, <4>3, <4>4 DEF ReadInProgress, TypeOK, Result
          <5>2. CASE at[r] = at[t]
            BY <3>3, <4>1, <5>1, <5>2
          <5>3. CASE at[r] # at[t]
            <6>1. pc[r] = "copy"
              BY <3>2, <4>4
            <6>2. Refilling(at[r]) \/ got[r].version < pushed[at[r]]
              BY <4>4, <6>1 DEF DisturbedByAppend, Undisturbed
            <6>3. Refilling(at[r]) => Refilling(at[r])'
              BY <3>1, <3>3, <4>1, <5>3
            <6> QED BY <4>1, <5>1, <6>2, <6>3
          <5> QED BY <5>2, <5>3
        <4> QED BY <3>3, <4>2, <4>3, <4>4 DEF Undisturbed, reads
      <3> QED BY <3>4 DEF DisturbedByAppend
    <2> QED BY <1>3, <2>1, <2>2, <2>3 DEF AppendStep, Scanning
  <1>4. ASSUME NEW t \in Threads, ReadStep(t) PROVE DisturbedByAppend'
    <2>1. \A p \in Queues : Refilling(p) => Refilling(p)'
      BY <1>4 DEF ReadStep, LockRead, TestNonEmpty, TestEmpty, AccessFirst,
           AccessThrows, FinishCopy, FinishSpoiledCopy, UnlockRead, Goto, Refilling, TypeOK
    <2>2. UNCHANGED <<pushed, deque, at>>
      BY <1>4 DEF ReadStep, LockRead, TestNonEmpty, TestEmpty, AccessFirst,
           AccessThrows, FinishCopy, FinishSpoiledCopy, UnlockRead, queues
    <2>3. \A r \in Threads \ {t} :
             pc'[r] = pc[r] /\ got'[r] = got[r] /\ spoiled'[r] = spoiled[r]
      BY <1>4 DEF ReadStep, LockRead, TestNonEmpty, TestEmpty, AccessFirst,
           AccessThrows, FinishCopy, FinishSpoiledCopy, UnlockRead, Goto, TypeOK, reads
    <2>4. \A r \in Threads \ {t} : Undisturbed(r)'
      BY <2>1, <2>2, <2>3 DEF DisturbedByAppend, Undisturbed, TypeOK
    <2>5. Undisturbed(t)'
      <3>1. CASE TestNonEmpty(t)
        <4>1. pushed[at[t]] \in Nat /\ pushed[at[t]] # 0
          BY <3>1 DEF TestNonEmpty, LatestStored, TypeOK
        <4> QED BY <3>1, <4>1, <2>2 DEF TestNonEmpty, Goto, Undisturbed, TypeOK
      <3>2. CASE AccessFirst(t)
        BY <3>2 DEF AccessFirst, Goto, Undisturbed, Packet, TypeOK
      <3>3. CASE AccessThrows(t)
        BY <3>3, <2>1, <2>2 DEF AccessThrows, DisturbedByAppend, Undisturbed, reads, TypeOK
      <3>4. CASE ~(TestNonEmpty(t) \/ AccessFirst(t) \/ AccessThrows(t))
        <4>1. pc'[t] \notin {"at", "copy"}
          BY <1>4, <3>4 DEF ReadStep, LockRead, TestEmpty, FinishCopy,
               FinishSpoiledCopy, UnlockRead, Goto, TypeOK
        <4> QED BY <4>1 DEF Undisturbed
      <3> QED BY <3>1, <3>2, <3>3, <3>4
    <2> QED BY <2>4, <2>5 DEF DisturbedByAppend
  <1>5. CASE UNCHANGED vars
    BY <1>5, <1>1 DEF vars, Refilling, queues
  <1> QED
    BY <1>2, <1>3, <1>4, <1>5 DEF Next, Call

-----------------------------------------------------------------------------
THEOREM Inductive == Spec => []IInv
  <1>1. Init => IInv
    BY InitIInv
  <1>2. IInv /\ [Next]_vars => IInv'
    BY TypeStep, LocksStep, LatestStep, ReadInProgressStep,
       LocalsStep, ScanStep, MutexStep, DisturbedStep DEF IInv
  <1> QED
    BY <1>1, <1>2, PTL DEF Spec

(* The state variables of SerialBuffer keep their types.                   *)
THEOREM TypeCorrect == Spec => []TypeOK
  BY Inductive, PTL DEF IInv

(* Whatever the threads do, a deque holds the packet stored last and no     *)
(* other: appendReceiveBuffer and appendSendBuffer never leave two packets  *)
(* nor an old one (SerialBuffer.cpp:90-93, 141-147).                        *)
THEOREM DequeHoldsLatest == Spec => []LatestStored
  BY Inductive, PTL DEF IInv

(* For every packet size and every data, appendReceiveBuffer stores the      *)
(* newest packet with a right checksum, unless a corrupt one follows it     *)
(* closely (SerialBuffer.cpp:58-107).                                       *)
THEOREM NewestIsStored == Spec => []NewestUnlessCorrupt
  BY Inductive, PTL DEF IInv

(* For every packet size and every data, the search runs off the data only   *)
(* over a corrupt packet at its begin or a stray comma                      *)
(* (SerialBuffer.cpp:59-65, 99).                                            *)
THEOREM SearchStaysInData == Spec => []LeavesOnlyOverCorrupt
  BY Inductive, PTL DEF IInv

(* Whatever the threads do, a read returns no packet older than the newest  *)
(* one at the time it took its mutex (SerialBuffer.cpp:115-132, 155-172).   *)
THEOREM ReadsAreFresh == Spec => []FreshRead
  <1>1. IInv => FreshRead
    BY DEF IInv, ReadInProgress, FreshRead
  <1> QED
    BY <1>1, Inductive, PTL

(* No call of any thread leaves a mutex behind, however it returns, and     *)
(* nobody waits for a thread that waits itself (SerialBuffer.cpp:44-172).   *)
THEOREM MutexesAreReturned == Spec => []MutexesReturned
  BY Inductive, PTL DEF IInv

(* The missing common mutex harms a read only while an append of the same   *)
(* queue replaces the packet, or when it just did (SerialBuffer.cpp:119-122, *)
(* 142-145, 159-162).                                                       *)
THEOREM ReadsFailOnlyUnderAppend == Spec => []FailsOnlyUnderAppend
  <1>1. IInv => FailsOnlyUnderAppend
    <2> SUFFICES ASSUME IInv, NEW t \in Threads
                 PROVE  /\ pc[t] = "at" /\ deque[at[t]] = << >> => Refilling(at[t])
                        /\ pc[t] = "copy" /\ spoiled[t] =>
                             Refilling(at[t]) \/ got[t].version < pushed[at[t]]
      BY DEF FailsOnlyUnderAppend
    <2>1. Undisturbed(t) /\ at[t] \in Queues /\ pushed[at[t]] \in Nat
      BY DEF IInv, DisturbedByAppend, TypeOK
    <2>2. deque[at[t]] = IF Refilling(at[t]) \/ pushed[at[t]] = 0
                         THEN << >> ELSE <<pushed[at[t]]>>
      BY <2>1 DEF IInv, LatestStored
    <2>3. <<pushed[at[t]]>> # << >>
      OBVIOUS
    <2> QED BY <2>1, <2>2, <2>3 DEF Undisturbed
  <1> QED
    BY <1>1, Inductive, PTL

-----------------------------------------------------------------------------
(* The steps left of a call, at the points of the search and elsewhere.     *)
LEMMA StepsLeftNat ==
  ASSUME TypeOK, NEW t \in Threads
  PROVE  StepsLeft(t) \in Nat
  BY ChunkFacts DEF StepsLeft, TypeOK

LEMMA StepsOfOthers ==
  ASSUME TypeOK, NEW t \in Threads, pc'[t] = pc[t], it'[t] = it[t], data'[t] = data[t]
  PROVE  StepsLeft(t)' = StepsLeft(t)
  BY DEF StepsLeft

\* Every step of an append brings its end closer.
LEMMA AppendShorter ==
  ASSUME TypeOK, NEW t \in Threads, AppendStep(t)
  PROVE  /\ StepsLeft(t)' <= StepsLeft(t)
         /\ StepsLeft(t)' < StepsLeft(t) \/ terminated'
  <1> USE ChunkFacts DEF StepsLeft
  <1>1. CASE LockAppend(t)    BY <1>1 DEF LockAppend, Goto, TypeOK, scan
  <1>2. CASE RejectShort(t)   BY <1>2 DEF RejectShort, Goto, TypeOK, scan
  <1>3. CASE BeginScan(t)
    <2>1. /\ pc[t] = "append" /\ pc'[t] = "scan" /\ data[t].size >= PacketSize
          /\ it'[t] = data[t].size - 1
      BY <1>3 DEF BeginScan, Goto, TypeOK
    <2> QED BY <2>1
  <1>4. CASE PassByte(t)
    <2>1. pc[t] = "scan" /\ pc'[t] = "scan" /\ it[t] > 0 /\ it'[t] = it[t] - 1
      BY <1>4 DEF PassByte, Goto, TypeOK
    <2> QED BY <2>1
  <1>5. CASE JumpOver(t)
    <2>1. /\ pc[t] = "scan" /\ pc'[t] = "scan" /\ it'[t] = it[t] - PacketSize - 1
          /\ it[t] \in (data[t].frames \ data[t].valid) \cup data[t].strays
      BY <1>5 DEF JumpOver, Goto, TypeOK
    <2>2. it[t] > 0
      BY <2>1
    <2> QED BY <2>1, <2>2
  <1>6. CASE EndScan(t)       BY <1>6 DEF EndScan, Goto, TypeOK, scan
  <1>7. CASE ScanFaults(t)    BY <1>7 DEF ScanFaults, scan, TypeOK
  <1>8. CASE ClearDeque(t)
    <2>1. pc[t] \in {"append", "scan"} /\ pc'[t] = "push"
      BY <1>8 DEF ClearDeque, GoPush, Goto, TypeOK
    <2> QED BY <2>1
  <1>9. CASE PushPacket(t)    BY <1>9 DEF PushPacket, Goto, TypeOK
  <1>10. CASE UnlockAppend(t) BY <1>10 DEF UnlockAppend, Goto, TypeOK
  <1> QED
    BY <1>1, <1>2, <1>3, <1>4, <1>5, <1>6, <1>7, <1>8, <1>9, <1>10 DEF AppendStep

\* Every step of a read brings its end closer.
LEMMA ReadShorter ==
  ASSUME TypeOK, NEW t \in Threads, ReadStep(t)
  PROVE  /\ StepsLeft(t)' <= StepsLeft(t)
         /\ StepsLeft(t)' < StepsLeft(t) \/ terminated'
  <1> USE DEF StepsLeft, Goto, TypeOK
  <1>1. CASE LockRead(t)      BY <1>1 DEF LockRead
  <1>2. CASE TestNonEmpty(t)  BY <1>2 DEF TestNonEmpty
  <1>3. CASE TestEmpty(t)     BY <1>3 DEF TestEmpty
  <1>4. CASE AccessFirst(t)   BY <1>4 DEF AccessFirst
  <1>5. CASE AccessThrows(t)  BY <1>5 DEF AccessThrows, scan
  <1>6. CASE FinishCopy(t)    BY <1>6 DEF FinishCopy
  <1>7. CASE FinishSpoiledCopy(t) BY <1>7 DEF FinishSpoiledCopy
  <1>8. CASE UnlockRead(t)    BY <1>8 DEF UnlockRead
  <1> QED
    BY <1>1, <1>2, <1>3, <1>4, <1>5, <1>6, <1>7, <1>8 DEF ReadStep

\* A step of one thread leaves the locals of the others alone.
LEMMA LocalsOfOthers ==
  ASSUME TypeOK, NEW t \in Threads, Call(t) \/ AppendStep(t) \/ ReadStep(t),
         NEW r \in Threads \ {t}
  PROVE  pc'[r] = pc[r] /\ it'[r] = it[r] /\ data'[r] = data[r]
  <1> USE DEF TypeOK, Goto, scan
  <1>1. ASSUME NEW q \in Queues, CallAppend(t, q) \/ CallRead(t, q)
        PROVE  pc'[r] = pc[r] /\ it'[r] = it[r] /\ data'[r] = data[r]
    BY <1>1 DEF CallAppend, CallRead
  <1>2. CASE AppendStep(t)
    <2>1. CASE LockAppend(t) \/ PushPacket(t) \/ UnlockAppend(t)
      BY <2>1 DEF LockAppend, PushPacket, UnlockAppend
    <2>2. CASE Scanning(t)
      BY <2>2 DEF Scanning, RejectShort, BeginScan, PassByte, JumpOver, EndScan, ScanFaults
    <2>3. CASE ClearDeque(t)
      BY <2>3 DEF ClearDeque, GoPush
    <2> QED BY <1>2, <2>1, <2>2, <2>3 DEF AppendStep, Scanning
  <1>3. CASE ReadStep(t)
    BY <1>3 DEF ReadStep, LockRead, TestNonEmpty, TestEmpty, AccessFirst,
         AccessThrows, FinishCopy, FinishSpoiledCopy, UnlockRead
  <1> QED BY <1>1, <1>2, <1>3 DEF Call

\* Only an idle thread makes a call, so whoever is inside one goes on in it.
LEMMA ShorterStep ==
  ASSUME TypeOK, [Next]_vars, NEW t \in Threads
  PROVE  /\ pc[t] # "idle" => StepsLeft(t)' <= StepsLeft(t)
         /\ AppendStep(t) \/ ReadStep(t) => StepsLeft(t)' < StepsLeft(t) \/ terminated'
  <1>1. AppendStep(t) \/ ReadStep(t) =>
           /\ StepsLeft(t)' <= StepsLeft(t)
           /\ StepsLeft(t)' < StepsLeft(t) \/ terminated'
    BY AppendShorter, ReadShorter
  <1>2. ASSUME pc[t] # "idle" PROVE StepsLeft(t)' <= StepsLeft(t)
    <2>1. ASSUME pc'[t] = pc[t], it'[t] = it[t], data'[t] = data[t]
          PROVE  StepsLeft(t)' <= StepsLeft(t)
      BY <2>1, StepsOfOthers, StepsLeftNat
    <2>2. ASSUME NEW s \in Threads, Call(s) \/ AppendStep(s) \/ ReadStep(s)
          PROVE  StepsLeft(t)' <= StepsLeft(t)
      <3>1. CASE s = t
        <4>1. ~Call(t)
          BY <1>2 DEF Call, CallAppend, CallRead, Goto
        <4> QED BY <1>1, <2>2, <3>1, <4>1
      <3>2. CASE s # t
        BY <2>1, <2>2, <3>2, LocalsOfOthers
      <3> QED BY <3>1, <3>2
    <2>3. CASE UNCHANGED vars
      BY <2>1, <2>3 DEF vars, scan
    <2> QED BY <2>2, <2>3 DEF Next
  <1> QED BY <1>1, <1>2

(* Every call of the four functions ends after at most as many steps of its *)
(* thread as the data has bytes, and five more: the search for a packet     *)
(* never goes round in a circle, whatever it jumps over                     *)
(* (SerialBuffer.cpp:59-107).                                               *)
THEOREM CallsAreFinite == Spec => CallsGetShorter
  <1>1. TypeOK /\ [Next]_vars =>
          [\A t \in Threads :
             /\ pc[t] # "idle" => StepsLeft(t)' <= StepsLeft(t)
             /\ AppendStep(t) \/ ReadStep(t) =>
                  StepsLeft(t)' < StepsLeft(t) \/ terminated']_vars
    BY ShorterStep
  <1> QED
    BY <1>1, TypeCorrect, PTL DEF Spec, CallsGetShorter
=============================================================================
