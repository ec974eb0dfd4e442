---------------------------- MODULE SerialBuffer ----------------------------
(***************************************************************************)
(* The class serial::SerialBuffer of the AutoTuxProxy: two deques that the  *)
(* proxy thread and the serial handler thread exchange packets through.     *)
(*                                                                         *)
(*   buffer_in    sensor packets: the handler appends, the proxy reads      *)
(*   buffer_out   control packets: the proxy appends, the handler reads     *)
(*                                                                         *)
(* Each deque is guarded by TWO mutexes: one is taken by the appends and a  *)
(* different one by the reads, so an append and a read of the same deque do *)
(* overlap.  A call is therefore a sequence of steps: take the lock, the    *)
(* accesses to the deque one by one, release the lock.                      *)
(*                                                                         *)
(* A packet is the number of the append that stored it (the n-th packet     *)
(* stored in a queue is n).  What the search of appendReceiveBuffer tells   *)
(* apart in the bytes it is given is a chunk:                               *)
(*                                                                         *)
(*   size     the number of bytes                                          *)
(*   frames   the positions of the commas that close a packet, its header   *)
(*            PacketSize - 1 bytes before them; from 0, as the iterator     *)
(*   valid    those whose checksum is right                                *)
(*   strays   commas so early that the header would lie before the data     *)
(***************************************************************************)
EXTENDS Integers, Sequences

CONSTANTS
  Threads,     \* the threads that call the class
  MayAppend,   \* pairs <<t, q>>: thread t appends to queue q
  MayRead,     \* pairs <<t, q>>: thread t reads queue q
  NoThread,    \* the value of a free mutex
  PacketSize,  \* SBDPKTSIZE: bytes of a sensor packet
  Chunks,      \* what one transfer from the board may have returned
  MaxAppends   \* bound of the model: packets stored in one queue

Queues == {"buffer_in", "buffer_out"}

ASSUME ThreadsAssumption ==
  /\ NoThread \notin Threads
  /\ MayAppend \subseteq Threads \X Queues
  /\ MayRead   \subseteq Threads \X Queues

ASSUME PacketSizeAssumption == PacketSize \in Nat \ {0, 1}

ASSUME ChunksAssumption ==
  \A c \in Chunks :
    /\ c.size \in Nat
    /\ c.frames \subseteq (PacketSize - 1) .. (c.size - 1)
    /\ c.valid \subseteq c.frames
    /\ c.strays \subseteq 1 .. (PacketSize - 2)

ASSUME MaxAppendsAssumption == MaxAppends \in Nat

VARIABLES
  deque,       \* deque[q]: the content of buffer_in / buffer_out
  appendLock,  \* appendLock[q]: holder of arb / asb
  readLock,    \* readLock[q]: holder of rrm / rsm
  pc,          \* pc[t]: where thread t is in its call
  at,          \* at[t]: the queue of that call
  data,        \* data[t]: the chunk t is appending
  it,          \* it[t]: the iterator that looks for a packet in it
  got,         \* got[t]: the vector the last read of t produced
  spoiled,     \* spoiled[t]: the element t is copying has been destroyed
  terminated,  \* an exception left a thread: the process is gone
  pushed,      \* history: pushed[q] packets have been stored in q
  since        \* history: since[t] is pushed[q] when the read of t began

queues == <<deque, pushed>>
locks  == <<appendLock, readLock>>
scan   == <<data, it>>
reads  == <<got, spoiled, since>>
vars   == <<queues, locks, scan, reads, pc, at, terminated>>

-----------------------------------------------------------------------------
AppendPoints == {"lock_append", "append", "scan", "push", "unlock_append"}
ReadPoints   == {"lock_read", "test", "at", "copy", "unlock_read"}
Points       == {"idle"} \cup AppendPoints \cup ReadPoints

Result == [kind : {"none", "empty", "packet", "garbage"}, version : Nat]

NoResult  == [kind |-> "none",    version |-> 0]
EmptyVec  == [kind |-> "empty",   version |-> 0]
Garbage   == [kind |-> "garbage", version |-> 0]
Packet(n) == [kind |-> "packet",  version |-> n]

\* Outside an append there is no chunk.
NoChunk == [size |-> 0, frames |-> {}, valid |-> {}, strays |-> {}]

Goto(t, from, to) ==
  /\ ~terminated
  /\ pc[t] = from
  /\ pc' = [pc EXCEPT ![t] = to]

Init ==
  /\ deque      = [q \in Queues |-> << >>]
  /\ appendLock = [q \in Queues |-> NoThread]
  /\ readLock   = [q \in Queues |-> NoThread]
  /\ pc         = [t \in Threads |-> "idle"]
  /\ at         = [t \in Threads |-> "buffer_in"]
  /\ data       = [t \in Threads |-> NoChunk]
  /\ it         = [t \in Threads |-> 0]
  /\ got        = [t \in Threads |-> NoResult]
  /\ spoiled    = [t \in Threads |-> FALSE]
  /\ terminated = FALSE
  /\ pushed     = [q \in Queues |-> 0]
  /\ since      = [t \in Threads |-> 0]

-----------------------------------------------------------------------------
(* appendReceiveBuffer and appendSendBuffer                                *)

CallAppend(t, q) ==
  /\ <<t, q>> \in MayAppend
  /\ pushed[q] < MaxAppends
  /\ Goto(t, "idle", "lock_append")
  /\ at' = [at EXCEPT ![t] = q]
  /\ \E c \in IF q = "buffer_in" THEN Chunks ELSE {NoChunk} :
       data' = [data EXCEPT ![t] = c]
  /\ UNCHANGED <<queues, locks, it, reads, terminated>>

LockAppend(t) ==
  /\ appendLock[at[t]] = NoThread
  /\ Goto(t, "lock_append", "append")
  /\ appendLock' = [appendLock EXCEPT ![at[t]] = t]
  /\ UNCHANGED <<queues, scan, reads, readLock, at, terminated>>

-----------------------------------------------------------------------------
(* The search for the newest packet, from the last byte backwards.  It ends *)
(* when the iterator EQUALS the begin of the data, which is not looked at.  *)

\* Less data than one packet has.
RejectShort(t) ==
  /\ at[t] = "buffer_in"
  /\ data[t].size < PacketSize
  /\ Goto(t, "append", "unlock_append")
  /\ UNCHANGED <<queues, locks, scan, reads, at, terminated>>

\* Mutant: the search starts before the last whole packet.
MutBeginScan(t) ==
  /\ at[t] = "buffer_in"
  /\ data[t].size >= PacketSize
  /\ Goto(t, "append", "scan")
  /\ it' = [it EXCEPT ![t] = data[t].size - PacketSize]
  /\ UNCHANGED <<queues, locks, data, reads, at, terminated>>

BeginScan(t) ==
  /\ at[t] = "buffer_in"
  /\ data[t].size >= PacketSize
  /\ Goto(t, "append", "scan")
  /\ it' = [it EXCEPT ![t] = data[t].size - 1]
  /\ UNCHANGED <<queues, locks, data, reads, at, terminated>>

\* Mutant: the search has no end at the begin of the data.
MutPassByte(t) ==
  /\ it[t] >= 0
  /\ it[t] \notin data[t].frames
  /\ Goto(t, "scan", "scan")
  /\ it' = [it EXCEPT ![t] = @ - 1]
  /\ UNCHANGED <<queues, locks, data, reads, at, terminated>>

\* No delimiters here; before a stray comma the memory may hold anything.
PassByte(t) ==
  /\ it[t] > 0
  /\ it[t] \notin data[t].frames
  /\ Goto(t, "scan", "scan")
  /\ it' = [it EXCEPT ![t] = @ - 1]
  /\ UNCHANGED <<queues, locks, data, reads, at, terminated>>

\* A packet with a wrong checksum is jumped over: SBDPKTSIZE bytes, and the
\* step of the loop comes on top of it.
JumpOver(t) ==
  /\ it[t] \in (data[t].frames \ data[t].valid) \cup data[t].strays
  /\ Goto(t, "scan", "scan")
  /\ it' = [it EXCEPT ![t] = @ - PacketSize - 1]
  /\ UNCHANGED <<queues, locks, data, reads, at, terminated>>

EndScan(t) ==
  /\ it[t] = 0
  /\ Goto(t, "scan", "unlock_append")
  /\ UNCHANGED <<queues, locks, scan, reads, at, terminated>>

\* Once before the data, the iterator never equals its begin: the search runs
\* down the memory until a page is missing, or until it takes bytes for a
\* packet (Found).
ScanFaults(t) ==
  /\ ~terminated
  /\ pc[t] = "scan"
  /\ it[t] < 0
  /\ terminated' = TRUE
  /\ UNCHANGED <<queues, locks, scan, reads, pc, at>>

Found(t) == it[t] \in data[t].valid \cup data[t].strays \/ it[t] < 0

-----------------------------------------------------------------------------
\* appendSendBuffer stores what it is given, appendReceiveBuffer what it found.
GoPush(t) ==
  \/ at[t] = "buffer_out" /\ Goto(t, "append", "push")
  \/ at[t] = "buffer_in" /\ Found(t) /\ Goto(t, "scan", "push")

\* Mutant: the deque is not cleared before the new packet is pushed.
MutClearDeque(t) ==
  /\ GoPush(t)
  /\ UNCHANGED <<queues, locks, scan, reads, at, terminated>>

\* clear() destroys the element a reader may be copying at this moment.
ClearDeque(t) ==
  /\ GoPush(t)
  /\ deque' = [deque EXCEPT ![at[t]] = << >>]
  /\ spoiled' = [r \in Threads |->
                   spoiled[r] \/ (pc[r] = "copy" /\ at[r] = at[t])]
  /\ UNCHANGED <<locks, scan, at, got, terminated, pushed, since>>

PushPacket(t) ==
  /\ Goto(t, "push", "unlock_append")
  /\ pushed' = [pushed EXCEPT ![at[t]] = @ + 1]
  /\ deque' = [deque EXCEPT ![at[t]] = <<pushed[at[t]] + 1>> \o @]
  /\ UNCHANGED <<locks, scan, reads, at, terminated>>

\* Mutant: a thread that has appended once is finished.
MutUnlockAppend(t) ==
  /\ Goto(t, "unlock_append", "finished")
  /\ appendLock' = [appendLock EXCEPT ![at[t]] = NoThread]
  /\ data' = [data EXCEPT ![t] = NoChunk]
  /\ it' = [it EXCEPT ![t] = 0]
  /\ UNCHANGED <<queues, reads, readLock, at, terminated>>

UnlockAppend(t) ==
  /\ Goto(t, "unlock_append", "idle")
  /\ appendLock' = [appendLock EXCEPT ![at[t]] = NoThread]
  /\ data' = [data EXCEPT ![t] = NoChunk]
  /\ it' = [it EXCEPT ![t] = 0]
  /\ UNCHANGED <<queues, reads, readLock, at, terminated>>

-----------------------------------------------------------------------------
(* readReceiveBuffer and readSendBuffer                                    *)

CallRead(t, q) ==
  /\ <<t, q>> \in MayRead
  /\ Goto(t, "idle", "lock_read")
  /\ at' = [at EXCEPT ![t] = q]
  /\ UNCHANGED <<queues, scan, locks, reads, terminated>>

LockRead(t) ==
  /\ readLock[at[t]] = NoThread
  /\ Goto(t, "lock_read", "test")
  /\ readLock' = [readLock EXCEPT ![at[t]] = t]
  /\ since' = [since EXCEPT ![t] = pushed[at[t]]]
  /\ UNCHANGED <<queues, scan, appendLock, at, got, spoiled, terminated>>

TestNonEmpty(t) ==
  /\ deque[at[t]] # << >>
  /\ Goto(t, "test", "at")
  /\ UNCHANGED <<queues, scan, locks, reads, at, terminated>>

\* Mutant: the branch for an empty deque returns without the unlock.
MutTestEmpty(t) ==
  /\ deque[at[t]] = << >>
  /\ Goto(t, "test", "idle")
  /\ got' = [got EXCEPT ![t] = EmptyVec]
  /\ UNCHANGED <<queues, scan, locks, at, spoiled, terminated, since>>

TestEmpty(t) ==
  /\ deque[at[t]] = << >>
  /\ Goto(t, "test", "unlock_read")
  /\ got' = [got EXCEPT ![t] = EmptyVec]
  /\ UNCHANGED <<queues, scan, locks, at, spoiled, terminated, since>>

\* Mutant: a vector that already holds a packet is not read again.
MutAccessFirst(t) ==
  /\ deque[at[t]] # << >>
  /\ Goto(t, "at", "copy")
  /\ got' = [got EXCEPT ![t] = IF @.kind = "packet" THEN @ ELSE Packet(Head(deque[at[t]]))]
  /\ spoiled' = [spoiled EXCEPT ![t] = FALSE]
  /\ UNCHANGED <<queues, scan, locks, at, terminated, since>>

\* at(0) finds an element: the copy of the vector begins.
AccessFirst(t) ==
  /\ deque[at[t]] # << >>
  /\ Goto(t, "at", "copy")
  /\ got' = [got EXCEPT ![t] = Packet(Head(deque[at[t]]))]
  /\ spoiled' = [spoiled EXCEPT ![t] = FALSE]
  /\ UNCHANGED <<queues, scan, locks, at, terminated, since>>

\* at(0) finds the deque emptied since the test: std::out_of_range leaves the
\* function with the read mutex held, and nobody catches it.
AccessThrows(t) ==
  /\ ~terminated
  /\ pc[t] = "at"
  /\ deque[at[t]] = << >>
  /\ terminated' = TRUE
  /\ UNCHANGED <<queues, scan, locks, reads, pc, at>>

\* The copy ends.  If the element was destroyed under it, the bytes it read
\* were freed memory: the vector returned is garbage, or the process dies.
FinishCopy(t) ==
  /\ ~spoiled[t]
  /\ Goto(t, "copy", "unlock_read")
  /\ UNCHANGED <<queues, scan, locks, reads, at, terminated>>

FinishSpoiledCopy(t) ==
  /\ spoiled[t]
  /\ Goto(t, "copy", "unlock_read")
  /\ got' = [got EXCEPT ![t] = Garbage]
  /\ terminated' \in BOOLEAN
  /\ UNCHANGED <<queues, scan, locks, at, spoiled, since>>

UnlockRead(t) ==
  /\ Goto(t, "unlock_read", "idle")
  /\ readLock' = [readLock EXCEPT ![at[t]] = NoThread]
  /\ UNCHANGED <<queues, scan, reads, appendLock, at, terminated>>

-----------------------------------------------------------------------------
AppendStep(t) ==
  \/ LockAppend(t)
  \/ RejectShort(t)
  \/ BeginScan(t)
  \/ PassByte(t)
  \/ JumpOver(t)
  \/ EndScan(t)
  \/ ScanFaults(t)
  \/ ClearDeque(t)
  \/ PushPacket(t)
  \/ UnlockAppend(t)

ReadStep(t) ==
  \/ LockRead(t)
  \/ TestNonEmpty(t)
  \/ TestEmpty(t)
  \/ AccessFirst(t)
  \/ AccessThrows(t)
  \/ FinishCopy(t)
  \/ FinishSpoiledCopy(t)
  \/ UnlockRead(t)

Call(t) == \E q \in Queues : CallAppend(t, q) \/ CallRead(t, q)

Next == \E t \in Threads : Call(t) \/ AppendStep(t) \/ ReadStep(t)

\* The scheduler runs a thread that is inside a call; it need not make calls.
Fairness == \A t \in Threads : WF_vars(AppendStep(t) \/ ReadStep(t))

Spec == Init /\ [][Next]_vars /\ Fairness

-----------------------------------------------------------------------------
(* Type correctness.                                                       *)
TypeOK ==
  /\ deque      \in [Queues -> Seq(Nat)]
  /\ appendLock \in [Queues -> Threads \cup {NoThread}]
  /\ readLock   \in [Queues -> Threads \cup {NoThread}]
  /\ pc         \in [Threads -> Points]
  /\ at         \in [Threads -> Queues]
  /\ data       \in [Threads -> Chunks \cup {NoChunk}]
  /\ it         \in [Threads -> Int]
  /\ got        \in [Threads -> Result]
  /\ spoiled    \in [Threads -> BOOLEAN]
  /\ terminated \in BOOLEAN
  /\ pushed     \in [Queues -> Nat]
  /\ since      \in [Threads -> Nat]

(* The invariant the lock fields keep: whoever is inside an append (a read) *)
(* of a queue holds that queue's append (read) mutex.                       *)
LocksHeld ==
  \A t \in Threads :
    /\ pc[t] \in {"append", "scan", "push", "unlock_append"} => appendLock[at[t]] = t
    /\ pc[t] \in {"test", "at", "copy", "unlock_read"} => readLock[at[t]] = t

Refilling(q) == \E t \in Threads : pc[t] = "push" /\ at[t] = q

(* A deque holds exactly the packet stored last, and nothing only before    *)
(* the first append or between the clear() and the push_front() of one      *)
(* (SerialBuffer.cpp:90-93 and 141-147): packets neither pile up nor get    *)
(* out of order, however appends and reads interleave.                      *)
LatestStored ==
  \A q \in Queues :
    deque[q] = IF Refilling(q) \/ pushed[q] = 0 THEN << >> ELSE <<pushed[q]>>

(* A read never hands out a packet older than the newest one stored when it *)
(* took its lock, nor one that was never stored (SerialBuffer.cpp:114 "the  *)
(* most recent valid packet").                                              *)
FreshRead ==
  \A t \in Threads :
    pc[t] = "unlock_read" /\ got[t].kind = "packet" =>
      got[t].version \in since[t] .. pushed[at[t]]

(* A call returns, unless an exception ended the process: every path of the *)
(* four functions releases the mutex it took (arb has two unlocks, :52 and  *)
(* :110; rrm and rsm two each).                                             *)
CallsReturn ==
  \A t \in Threads : pc[t] # "idle" ~> pc[t] = "idle" \/ terminated

(* What appendReceiveBuffer has stored, or given up with, is the newest     *)
(* packet of the data with a right checksum - except that a packet with a   *)
(* wrong one hides those that end within PacketSize bytes before it, so the *)
(* good packet directly in front of a corrupt one is always lost            *)
(* (SerialBuffer.cpp:58-107).                                               *)
NewestUnlessCorrupt ==
  \A t \in Threads :
    pc[t] \in {"scan", "push", "unlock_append"} =>
      \A p \in data[t].valid :
        p > it[t] => \E f \in data[t].frames \ data[t].valid :
                       p < f /\ f <= p + PacketSize

(* The search leaves the data (an undefined read, and the end of the        *)
(* process) only over a corrupt packet that begins at its first or second   *)
(* byte, or a comma too early to close a packet (SerialBuffer.cpp:59-65,    *)
(* 99).                                                                    *)
LeavesOnlyOverCorrupt ==
  \A t \in Threads :
    it[t] < 0 =>
      \/ \E f \in data[t].frames \ data[t].valid : f <= PacketSize
      \/ data[t].strays # {}

(* A mutex is held only by a thread that is inside the function that took   *)
(* it, past the lock and before the unlock: no way out of the four          *)
(* functions leaves one behind, and whoever holds one waits for none, so    *)
(* the threads cannot wait for each other in a circle                       *)
(* (SerialBuffer.cpp:44-110, 114-132, 137-150, 154-172).                    *)
MutexesReturned ==
  \A q \in Queues, t \in Threads :
    /\ appendLock[q] = t =>
         at[t] = q /\ pc[t] \in {"append", "scan", "push", "unlock_append"}
    /\ readLock[q] = t =>
         at[t] = q /\ pc[t] \in {"test", "at", "copy", "unlock_read"}

\* An upper bound of the steps a thread has still to take in its call.
StepsLeft(t) ==
  CASE pc[t] = "lock_append"   -> data[t].size + 5
    [] pc[t] = "append"        -> data[t].size + 4
    [] pc[t] = "scan"          -> IF it[t] < 0 THEN 3 ELSE it[t] + 4
    [] pc[t] = "push"          -> 2
    [] pc[t] = "unlock_append" -> 1
    [] pc[t] = "lock_read"     -> 5
    [] pc[t] = "test"          -> 4
    [] pc[t] = "at"            -> 3
    [] pc[t] = "copy"          -> 2
    [] pc[t] = "unlock_read"   -> 1
    [] OTHER                   -> 0

(* A call is finite: every step a thread takes in it brings its end closer,  *)
(* also in the search for a packet, and no step of another thread moves it  *)
(* away; only an exception or an access outside the data ends it otherwise. *)
CallsGetShorter ==
  [][\A t \in Threads :
       /\ pc[t] # "idle" => StepsLeft(t)' <= StepsLeft(t)
       /\ AppendStep(t) \/ ReadStep(t) => StepsLeft(t)' < StepsLeft(t) \/ terminated']_vars

(* How far the missing common mutex of append and read reaches: at(0) finds *)
(* no element only between the clear() and the push_front() of an append,   *)
(* and an element is destroyed under the copy only by an append whose       *)
(* packet is newer.  A read that meets no append succeeds, and one that     *)
(* fails has lost nothing but an older packet.                              *)
FailsOnlyUnderAppend ==
  \A t \in Threads :
    /\ pc[t] = "at" /\ deque[at[t]] = << >> => Refilling(at[t])
    /\ pc[t] = "copy" /\ spoiled[t] =>
         Refilling(at[t]) \/ got[t].version < pushed[at[t]]

(* What SerialBuffer.cpp:118-121 relies on ("check for size, i.e. not       *)
(* empty", then "get the most recent packet, always in first position"):    *)
(* once the size was found non-zero there is an element to return.          *)
NonEmptyAfterTest ==
  \A t \in Threads : pc[t] = "at" => deque[at[t]] # << >>
=============================================================================
