--------------------------- MODULE MCSerialBuffer ---------------------------
(***************************************************************************)
(* SerialBuffer with the two threads of the AutoTuxProxy process            *)
(* (apps/AutoTuxProxy.cpp:39-44).  A packet has three bytes: header, value, *)
(* comma.  A transfer is cut out of the stream of packets: the tail of one, *)
(* up to MaxPackets whole ones with the checksum right or wrong, and the    *)
(* head of one.                                                            *)
(***************************************************************************)
EXTENDS SerialBuffer

CONSTANTS proxy, handler, MaxPackets

MCThreads   == {proxy, handler}
MCMayAppend == {<<handler, "buffer_in">>, <<proxy, "buffer_out">>}
MCMayRead   == {<<proxy, "buffer_in">>, <<handler, "buffer_out">>}

\* right[i]: the checksum of the i-th whole packet is right.
Cut(tail, right, head) ==
  LET comma(i) == tail + PacketSize * i - 1 IN
  [size   |-> tail + PacketSize * Len(right) + head,
   frames |-> {comma(i) : i \in DOMAIN right},
   valid  |-> {comma(i) : i \in {j \in DOMAIN right : right[j]}},
   strays |-> {tail - 1} \cap 1 .. PacketSize - 2]

MCChunks ==
  {Cut(tail, right, head) :
     tail  \in 0 .. PacketSize - 1,
     right \in UNION {[1 .. n -> BOOLEAN] : n \in 0 .. MaxPackets},
     head  \in {0, PacketSize - 1}}

=============================================================================
