----------------------- MODULE OmnixtendLink_acks_proofs -----------------------
(***************************************************************************)
(* The acknowledgement half of the invariant LinkInv, and the theorems     *)
(* about delivery that follow from it.                                     *)
(***************************************************************************)
EXTENDS OmnixtendLink_order_proofs

-----------------------------------------------------------------------------
(* Acknowledgements of the endpoint: UpAcks is kept by every step *)

\* What a number acknowledges is a count, and at least what was dropped.
LEMMA UpAckedType ==
  ASSUME TypeOK, UpData, NEW x \in SeqNum
  PROVE  UpAcked(x) \in Nat /\ UpFirst <= UpAcked(x) /\ UpFirst \in Nat
  <1>1. UpFirst \in Nat
    BY UpTypes DEF UpData
  <1>2. Distance(r_first_in_resend, x) \in Nat
    BY DistanceType DEF TypeOK, RequesterTypeOK
  <1> QED
    BY <1>1, <1>2 DEF UpAcked

\* Sequence numbers of packets and operations.
LEMMA FieldTypes ==
  ASSUME TypeOK
  PROVE  /\ \A p \in UpPackets \cup DownPackets : p.seq \in SeqNum /\ p.ack_seq \in SeqNum
         /\ \A k \in DOMAIN e_ops : e_ops[k].seq \in SeqNum /\ e_ops[k].ack_seq \in SeqNum
  <1>1. \A p \in UpPackets \cup DownPackets : p \in Packet
    BY UpTypes, DownTypes, Zenon
  <1>2. \A p \in Packet : p.seq \in SeqNum /\ p.ack_seq \in SeqNum
    BY DEF Packet
  <1>3. \A k \in DOMAIN e_ops : e_ops[k] \in Op
    BY DEF TypeOK, EndpointTypeOK
  <1>4. \A o \in Op : o.seq \in SeqNum /\ o.ack_seq \in SeqNum
    BY DEF Op
  <1> QED
    BY <1>1, <1>2, <1>3, <1>4, Zenon

\* Steps that move packets around, or lose them, and acknowledge nothing.
LEMMA UpAcksKeep ==
  ASSUME UpAcks, UpFirst' = UpFirst, EGot' = EGot, RGot' = RGot,
         UNCHANGED <<r_first_in_resend, e_last_rx, e_ops>>,
         DownPackets' \subseteq DownPackets, AckOnlyOrder'
  PROVE  UpAcks'
  <1>1. \A x : UpAcked(x)' = UpAcked(x)
    BY Zenon DEF UpAcked
  <1> QED
    BY <1>1, Zenon DEF UpAcks

\* The order of ACK-only packets when nothing, a numbered packet or a loss happens.
LEMMA AckOnlyOrderKeep ==
  ASSUME TypeOK, AckOnlyOrder, UpFirst' = UpFirst, RGot' = RGot, UNCHANGED r_first_in_resend,
         \/ down' = down
         \/ down # <<>> /\ down' = Tail(down)
         \/ \E x \in Packet : x.type # "AckOnly" /\ down' = Append(down, x)
  PROVE  AckOnlyOrder'
  <1>1. \A x : UpAcked(x)' = UpAcked(x)
    BY Zenon DEF UpAcked
  <1>2. down \in Seq(Packet)
    BY DEF TypeOK
  <1>3. CASE down' = down
    BY <1>1, <1>3, Zenon DEF AckOnlyOrder
  <1>4. CASE down # <<>> /\ down' = Tail(down)
    <2>1. \A i \in DOMAIN down' : i + 1 \in DOMAIN down /\ down'[i] = down[i + 1] /\ i \in Nat
      BY <1>2, <1>4
    <2>2. \A i, j \in DOMAIN down' : i < j => i + 1 < j + 1
      BY <2>1
    <2> QED
      BY <1>1, <2>1, <2>2, Zenon DEF AckOnlyOrder
  <1>5. ASSUME NEW x \in Packet, x.type # "AckOnly", down' = Append(down, x)
        PROVE  AckOnlyOrder'
    <2>1. \A i \in DOMAIN down' : (i \in DOMAIN down /\ down'[i] = down[i]) \/ down'[i] = x
      BY <1>2, <1>5
    <2>2. \A i \in DOMAIN down' : down'[i].type = "AckOnly" => i \in DOMAIN down /\ down'[i] = down[i]
      BY <1>5, <2>1, Zenon
    <2> QED
      BY <1>1, <2>2, Zenon DEF AckOnlyOrder
  <1> QED
    BY <1>3, <1>4, <1>5

\* remove_from_resend moves the origin and keeps what later numbers acknowledge.
LEMMA UpAckedAccept ==
  ASSUME TypeOK, UpData, NEW p \in Packet, RAccept(p), UNCHANGED r_sent
  PROVE  /\ UpFirst' = UpAcked(p.ack_seq)
         /\ \A x \in SeqNum : UpAcked(p.ack_seq) <= UpAcked(x) => UpAcked(x)' = UpAcked(x)
  <1> DEFINE m == RAcked(p)
  <1>1. /\ r_first_in_resend' = p.ack_seq /\ m <= Len(r_resend_buffer)
        /\ r_resend_buffer' = SubSeq(r_resend_buffer, m + 1, Len(r_resend_buffer))
    BY DEF RAccept
  <1>2. p.ack_seq \in SeqNum /\ r_first_in_resend \in SeqNum
    BY DEF Packet, TypeOK, RequesterTypeOK
  <1>3. m = Distance(r_first_in_resend, p.ack_seq)
    BY DEF RAcked, Distance
  <1>4. m \in Nat
    BY <1>2, <1>3, DistanceType
  <1> HIDE DEF m
  <1>5. Len(r_resend_buffer') = Len(r_resend_buffer) - m
    <2>1. r_resend_buffer \in Seq(Packet) /\ m \in 0 .. Len(r_resend_buffer)
      BY <1>1, <1>4, UpTypes DEF TypeOK, RequesterTypeOK
    <2> QED
      BY <1>1, <2>1, DropFirst
  <1>6. UpFirst' = UpFirst + m
    BY <1>4, <1>5, UpTypes DEF UpFirst
  <1>7. ASSUME NEW x \in SeqNum, UpAcked(p.ack_seq) <= UpAcked(x)
        PROVE  UpAcked(x)' = UpAcked(x)
    <2>1. /\ Distance(r_first_in_resend, x) \in Nat
          /\ UpAcked(x) = UpFirst + Distance(r_first_in_resend, x)
          /\ UpAcked(p.ack_seq) = UpFirst + m
      BY <1>2, <1>3, DistanceType DEF UpAcked
    <2>2. m <= Distance(r_first_in_resend, x)
      BY <1>4, <1>7, <2>1, UpTypes
    <2>3. Distance(p.ack_seq, x) = Distance(r_first_in_resend, x) - m
      BY <1>2, <1>3, <2>2, DistanceShift
    <2>4. UpAcked(x)' = UpFirst' + Distance(p.ack_seq, x)
      BY <1>1, Zenon DEF UpAcked
    <2> QED
      BY <1>4, <1>6, <2>1, <2>3, <2>4, UpTypes
  <1>8. UpFirst' = UpAcked(p.ack_seq)
    BY <1>3, <1>6 DEF UpAcked
  <1> QED
    BY <1>7, <1>8

\* process_packets.
LEMMA UpAcksReceive ==
  ASSUME TypeOK, UpData, DownData, UpAcks, DownFirst <= RGot + 1, RReceive PROVE UpAcks'
  <1> DEFINE p == Head(down)
  <1>1. UNCHANGED <<r_sent, e_delivered, e_last_rx, e_ops, e_resending, e_resend_buffer>>
    BY DEF RReceive, recvVars, buildVars, resendVars
  <1>2. down # <<>> /\ down' = Tail(down) /\ down \in Seq(Packet) /\ p \in Packet /\ p \in Packets(down)
    BY RReceiveCases, Zenon DEF TypeOK
  <1>3. EGot' = EGot
    BY <1>1, Zenon DEF EGot
  <1>4. Packets(down') \subseteq Packets(down) /\ DownPackets' \subseteq DownPackets
    <2>1. Packets(down') \subseteq Packets(down)
      BY <1>2, PacketsHeadTail
    <2> QED
      BY <1>1, <2>1, Zenon DEF DownPackets
  <1>5. CASE UNCHANGED <<r_delivered, r_resend_buffer, r_first_in_resend>>
    <2>1. UpFirst' = UpFirst /\ RGot' = RGot
      BY <1>1, <1>5, Zenon DEF UpFirst, RGot
    <2>2. AckOnlyOrder'
      BY <1>2, <1>5, <2>1, AckOnlyOrderKeep, Zenon DEF UpAcks
    <2> QED
      BY <1>1, <1>3, <1>4, <1>5, <2>1, <2>2, UpAcksKeep, Zenon
  <1>6. CASE RAccept(p) /\ p.idx = RGot
              /\ \/ p.type # "AckOnly" /\ r_delivered' = Append(r_delivered, p.idx)
                 \/ p.type = "AckOnly" /\ UNCHANGED r_delivered
    <2> DEFINE base == UpAcked(p.ack_seq)
    <2>1. p \in DownPackets
      BY <1>2, Zenon DEF DownPackets
    <2>2. RGot \in Nat /\ \A x \in DownPackets : x.idx \in Nat
      BY DownTypes
    <2>3. \/ p.type # "AckOnly" /\ RGot' = RGot + 1
          \/ p.type = "AckOnly" /\ RGot' = RGot
      <3>1. r_delivered' = Append(r_delivered, p.idx) => Len(r_delivered') = Len(r_delivered) + 1
        BY DEF TypeOK, RequesterTypeOK
      <3> QED
        BY <1>6, <3>1, Zenon DEF RGot
    <2>4. \A k \in DOMAIN down' : k + 1 \in DOMAIN down /\ down'[k] = down[k + 1] /\ 1 < k + 1 /\ k \in Nat
      BY <1>2
    <2>5. p = down[1] /\ 1 \in DOMAIN down
      BY <1>2
    <2>6. UpFirst' = base
          /\ \A x \in SeqNum : base <= UpAcked(x) => UpAcked(x)' = UpAcked(x)
      BY <1>1, <1>2, <1>6, UpAckedAccept, Zenon
    <2> HIDE DEF p
    <2>7. ASSUME NEW x \in DownPackets', RGot' <= x.idx
          PROVE  RGot <= x.idx /\ base <= UpAcked(x.ack_seq)
                 /\ UpAcked(x.ack_seq)' = UpAcked(x.ack_seq)
      <3>1. x \in DownPackets /\ x.idx \in Nat /\ x.ack_seq \in SeqNum
        BY <1>4, <2>2, <2>7, FieldTypes, Zenon
      <3>2. RGot <= x.idx /\ RGot <= p.idx
        BY <1>6, <2>2, <2>3, <2>7, <3>1
      <3>3. CASE p.idx < x.idx \/ (p.idx = x.idx /\ x.type # "AckOnly")
        BY <2>1, <2>6, <3>1, <3>2, <3>3, Zenon DEF UpAcks
      <3>4. CASE p.idx = x.idx /\ x.type = "AckOnly"
        <4>1. p.type = "AckOnly"
          BY <1>6, <2>2, <2>3, <2>7, <3>4
        <4>2. x \in Packets(down')
          BY <1>1, <2>7, <3>4, Zenon DEF DownPackets, DownData
        <4>3. PICK k \in DOMAIN down' : x = down'[k]
          BY <4>2, Zenon DEF Packets
        <4> QED
          BY <2>4, <2>5, <2>6, <3>1, <3>2, <3>4, <4>1, <4>3, Zenon DEF UpAcks, AckOnlyOrder
      <3> QED
        BY <1>6, <2>2, <3>1, <3>2, <3>3, <3>4
    <2>8. base <= UpAcked(e_last_rx) /\ UpAcked(e_last_rx)' = UpAcked(e_last_rx)
      <3>1. base <= UpAcked(e_last_rx)
        BY <1>6, <2>1, <2>2 DEF UpAcks
      <3>2. e_last_rx \in SeqNum
        BY DEF TypeOK, EndpointTypeOK
      <3> QED
        BY <1>1, <2>6, <3>1, <3>2, Zenon DEF UpAcked
    <2>9. ASSUME NEW k \in DOMAIN e_ops', e_ops'[k].kind = "Packet"
          PROVE  UpAcked(e_ops[k].seq)' = UpAcked(e_ops[k].seq)
      <3>1. UpAcked(e_last_rx) <= UpAcked(e_ops[k].seq) /\ e_ops[k].seq \in SeqNum
        BY <1>1, <2>9, FieldTypes, Zenon DEF UpAcks
      <3>2. base <= UpAcked(e_ops[k].seq)
        <4>1. UpAcked(e_last_rx) \in Nat /\ UpAcked(e_ops[k].seq) \in Nat /\ base \in Nat
          BY <3>1, <2>1, UpAckedType, FieldTypes DEF TypeOK, EndpointTypeOK
        <4> QED
          BY <2>8, <3>1, <4>1
      <3> QED
        BY <1>1, <2>6, <3>1, <3>2, Zenon DEF UpAcked
    <2>10. UpFirst' <= EGot
      <3>1. UpAcked(e_last_rx) \in Nat /\ base \in Nat /\ UpAcked(e_last_rx) <= EGot
        BY <2>1, UpAckedType, FieldTypes DEF TypeOK, EndpointTypeOK, UpAcks
      <3> QED
        BY <2>6, <2>8, <3>1, UpTypes
    <2>11. AckOnlyOrder'
      <3>1. \A k \in DOMAIN down' : down'[k] \in DownPackets'
        BY Zenon DEF DownPackets, Packets
      <3>2. \A i, j \in DOMAIN down' : i < j => i + 1 < j + 1
        BY <2>4
      <3>3. SUFFICES ASSUME NEW i \in DOMAIN down', NEW j \in DOMAIN down',
                        i < j, down'[i].type = "AckOnly", down'[j].type = "AckOnly",
                        RGot' <= down'[i].idx, down'[i].idx = down'[j].idx
                     PROVE  UpAcked(down[i].ack_seq)' <= UpAcked(down[j].ack_seq)'
        BY Zenon DEF AckOnlyOrder
      <3> QED
        BY <2>4, <2>7, <3>1, <3>2, <3>3, Zenon DEF UpAcks, AckOnlyOrder
    <2>12. \A x, y \in DownPackets' :
             /\ RGot' <= x.idx
             /\ x.idx < y.idx \/ (x.idx = y.idx /\ y.type # "AckOnly")
             => UpAcked(x.ack_seq)' <= UpAcked(y.ack_seq)'
      <3>1. RGot' \in Nat
        BY <2>2, <2>3
      <3> SUFFICES ASSUME NEW x \in DownPackets', NEW y \in DownPackets', RGot' <= x.idx,
                          x.idx < y.idx \/ (x.idx = y.idx /\ y.type # "AckOnly")
                   PROVE  UpAcked(x.ack_seq)' <= UpAcked(y.ack_seq)'
        OBVIOUS
      <3>2. x \in DownPackets /\ y \in DownPackets
        BY <1>4, Zenon
      <3>3. RGot' <= y.idx
        BY <2>2, <3>1, <3>2
      <3>4. UpAcked(x.ack_seq) <= UpAcked(y.ack_seq)
        BY <2>7, <3>2, Zenon DEF UpAcks
      <3> QED
        BY <2>7, <3>3, <3>4, Zenon
    <2>13. \A x \in DownPackets' : RGot' <= x.idx => UpAcked(x.ack_seq)' <= UpAcked(e_last_rx)'
      BY <1>4, <2>7, <2>8, Zenon DEF UpAcks
    <2>14. /\ UpAcked(e_last_rx)' <= EGot'
           /\ UpFirst' <= EGot'
      BY <1>3, <2>8, <2>10, Zenon DEF UpAcks
    <2>15. \A k \in DOMAIN e_ops' : e_ops'[k].kind = "Packet" =>
             UpAcked(e_last_rx)' <= UpAcked(e_ops[k].seq)' /\ UpAcked(e_ops[k].seq)' <= EGot'
      BY <1>1, <1>3, <2>8, <2>9, Zenon DEF UpAcks
    <2>16. \A i, j \in DOMAIN e_ops' :
             i < j /\ e_ops'[i].kind = "Packet" /\ e_ops'[j].kind = "Packet"
                 => UpAcked(e_ops[i].seq)' <= UpAcked(e_ops[j].seq)'
      BY <1>1, <2>9, Zenon DEF UpAcks
    <2> QED
      BY <2>11, <2>12, <2>13, <2>14, <2>15, <2>16, Zenon DEF UpAcks
  <1> QED
    BY <1>5, <1>6, RReceiveCases, Zenon

\* The number of the packet the endpoint accepts next acknowledges exactly it and
\* what came before.
LEMMA UpAckedNext ==
  ASSUME TypeOK, UpData, UpFirst <= EGot, EGot < r_sent
  PROVE  UpAcked(e_next_rx) = EGot + 1
  <1>1. UpFirst \in Nat /\ EGot \in Nat
    BY UpTypes DEF UpData
  <1>2. r_first_in_resend = (UpFirst - 1) % SeqMod /\ e_next_rx = EGot % SeqMod
    BY <1>1, LastSeqIs DEF UpData
  <1>3. EGot - (UpFirst - 1) \in SeqNum
    <2>1. r_sent <= UpFirst + Window
      BY UpTypes DEF UpData, UpFirst
    <2>2. /\ r_sent \in Nat /\ Window \in Nat /\ Window >= 1
          /\ 2 * Window <= SeqMod /\ SeqMod \in Nat /\ SeqMod > 2
      BY UpTypes
    <2> QED
      BY <1>1, <2>1, <2>2 DEF SeqNum
  <1>4. Distance((UpFirst - 1) % SeqMod, EGot % SeqMod) = EGot - (UpFirst - 1)
    BY <1>1, <1>3, DistanceCounts
  <1>5. UpAcked(e_next_rx) = UpFirst + (EGot - (UpFirst - 1))
    BY <1>2, <1>4 DEF UpAcked
  <1> QED
    BY <1>1, <1>5

\* fetchTLOEHeader.
LEMMA UpAcksEndpointReceive ==
  ASSUME TypeOK, UpData, UpAcks, EReceive PROVE UpAcks'
  <1> DEFINE p == Head(up)
             o == EOpFor(p)
  <1>1. /\ UNCHANGED <<r_sent, r_resend_buffer, r_first_in_resend, r_delivered, e_last_rx>>
        /\ UNCHANGED <<down, e_resending, e_resend_buffer>>
    BY DEF EReceive, reqVars, buildVars, resendVars
  <1>2. /\ UpFirst' = UpFirst /\ RGot' = RGot /\ DownPackets' = DownPackets
        /\ \A x : UpAcked(x)' = UpAcked(x)
    BY <1>1, Zenon DEF UpFirst, RGot, DownPackets, UpAcked
  <1>3. AckOnlyOrder'
    BY <1>1, <1>2, AckOnlyOrderKeep, Zenon DEF UpAcks
  <1>4. UpFirst <= EGot
    BY DEF UpAcks
  <1>5. e_ops \in Seq(Op) /\ p \in Packet /\ o \in Op
    BY <1>4, ReceiveCases, OpType DEF TypeOK, EndpointTypeOK
  <1>6. o.seq = p.seq
    BY DEF EOpFor
  <1>7. ASSUME e_ops' = Append(e_ops, o)
        PROVE  /\ \A k \in DOMAIN e_ops' :
                    \/ k \in DOMAIN e_ops /\ e_ops'[k] = e_ops[k]
                    \/ k = Len(e_ops) + 1 /\ e_ops'[k] = o
               /\ \A j \in DOMAIN e_ops' : ~(Len(e_ops) + 1 < j)
    <2> HIDE DEF o
    <2> QED
      BY <1>5, <1>7
  <1>8. CASE /\ p.idx = EGot /\ EGot < r_sent /\ p.seq = e_next_rx
             /\ o.kind = "Packet" /\ e_ops' = Append(e_ops, o)
             /\ e_delivered' = Append(e_delivered, p.idx)
    <2>1. EGot' = EGot + 1 /\ EGot \in Nat
      BY <1>8 DEF EGot, TypeOK, EndpointTypeOK
    <2>2. UpAcked(o.seq) = EGot + 1
      BY <1>4, <1>6, <1>8, UpAckedNext
    <2> HIDE DEF o, p
    <2>3. UpFirst' <= EGot' /\ UpAcked(e_last_rx)' <= EGot'
          /\ UpAcked(e_last_rx) <= EGot + 1
      <3>1. UpAcked(e_last_rx) <= EGot /\ UpAcked(e_last_rx) \in Nat /\ UpFirst \in Nat
        BY UpAckedType DEF UpAcks, TypeOK, EndpointTypeOK
      <3>2. UpAcked(e_last_rx)' = UpAcked(e_last_rx)
        BY <1>1, <1>2, Zenon DEF UpAcked
      <3> QED
        BY <1>2, <1>4, <2>1, <3>1, <3>2
    <2>4. \A k \in DOMAIN e_ops : e_ops[k].kind = "Packet" => UpAcked(e_ops[k].seq) <= EGot + 1
      <3>1. \A k \in DOMAIN e_ops : e_ops[k].kind = "Packet" =>
              UpAcked(e_ops[k].seq) <= EGot /\ UpAcked(e_ops[k].seq) \in Nat
        BY UpAckedType, FieldTypes, Zenon DEF UpAcks
      <3> QED
        BY <2>1, <3>1
    <2>5. EGot + 1 <= EGot + 1
      BY <2>1
    <2>6. ASSUME NEW k \in DOMAIN e_ops', e_ops'[k].kind = "Packet"
          PROVE  /\ UpAcked(e_last_rx) <= UpAcked(e_ops'[k].seq)
                 /\ UpAcked(e_ops'[k].seq) <= EGot'
      <3>1. CASE k \in DOMAIN e_ops /\ e_ops'[k] = e_ops[k]
        BY <2>1, <2>4, <2>6, <3>1, Zenon DEF UpAcks
      <3>2. CASE k = Len(e_ops) + 1 /\ e_ops'[k] = o
        BY <2>1, <2>2, <2>3, <2>5, <3>2, Zenon
      <3> QED
        BY <1>7, <1>8, <3>1, <3>2
    <2>7. ASSUME NEW i \in DOMAIN e_ops', NEW j \in DOMAIN e_ops', i < j,
                 e_ops'[i].kind = "Packet", e_ops'[j].kind = "Packet"
          PROVE  UpAcked(e_ops'[i].seq) <= UpAcked(e_ops'[j].seq)
      <3>1. i \in DOMAIN e_ops /\ e_ops'[i] = e_ops[i]
        BY <1>7, <1>8, <2>7, Zenon
      <3>2. CASE j \in DOMAIN e_ops /\ e_ops'[j] = e_ops[j]
        BY <2>7, <3>1, <3>2, Zenon DEF UpAcks
      <3>3. CASE e_ops'[j] = o
        BY <2>2, <2>4, <2>7, <3>1, <3>3, Zenon
      <3> QED
        BY <1>7, <1>8, <3>2, <3>3
    <2> QED
      BY <1>1, <1>2, <1>3, <2>3, <2>6, <2>7, Zenon DEF UpAcks
  <1>9. CASE UNCHANGED e_delivered /\ e_ops' = e_ops
    <2>1. EGot' = EGot
      BY <1>9, Zenon DEF EGot
    <2> QED
      BY <1>1, <1>2, <1>3, <1>9, <2>1, UpAcksKeep, Zenon
  <1>10. CASE UNCHANGED e_delivered /\ e_ops' = Append(e_ops, o) /\ o.kind # "Packet"
    <2>1. EGot' = EGot
      BY <1>10, Zenon DEF EGot
    <2>2. \A k \in DOMAIN e_ops' : e_ops'[k].kind = "Packet" =>
            k \in DOMAIN e_ops /\ e_ops'[k] = e_ops[k]
      BY <1>7, <1>10, Zenon
    <2> QED
      BY <1>1, <1>2, <1>3, <2>1, <2>2, Zenon DEF UpAcks
  <1>11. o.kind \in {"NAK", "OutOfSequenceACK"} => o.kind # "Packet"
    OBVIOUS
  <1> QED
    BY <1>4, <1>8, <1>9, <1>10, <1>11, ReceiveCases, Zenon

\* The sender's rules on opIn.
LEMMA UpAcksHandleOp ==
  ASSUME TypeOK, UpData, UpAcks, EHandleOp PROVE UpAcks'
  <1> DEFINE op == Head(e_ops)
  <1>1. /\ e_ops # <<>> /\ e_ops' = Tail(e_ops)
        /\ e_last_rx' = IF op.kind = "Packet" THEN op.seq ELSE e_last_rx
        /\ UNCHANGED <<r_sent, r_resend_buffer, r_first_in_resend, r_delivered, e_delivered>>
        /\ UNCHANGED <<down, e_resending, e_resend_buffer>>
    BY Zenon DEF EHandleOp, ELastRx, reqVars
  <1>2. e_ops \in Seq(Op)
    BY DEF TypeOK, EndpointTypeOK
  <1>3. /\ UpFirst' = UpFirst /\ RGot' = RGot /\ EGot' = EGot /\ DownPackets' = DownPackets
        /\ \A x : UpAcked(x)' = UpAcked(x)
    BY <1>1, Zenon DEF UpFirst, RGot, EGot, DownPackets, UpAcked
  <1>4. AckOnlyOrder'
    BY <1>1, <1>3, AckOnlyOrderKeep, Zenon DEF UpAcks
  <1>5. /\ op = e_ops[1] /\ 1 \in DOMAIN e_ops
        /\ \A k \in DOMAIN e_ops' : k + 1 \in DOMAIN e_ops /\ e_ops'[k] = e_ops[k + 1]
                                    /\ 1 < k + 1 /\ k \in Nat
    BY <1>1, <1>2
  <1>6. \A i, j \in DOMAIN e_ops' : i < j => i + 1 < j + 1
    BY <1>5
  <1> HIDE DEF op
  <1>7. /\ UpAcked(e_last_rx) <= UpAcked(e_last_rx') /\ UpAcked(e_last_rx') <= EGot
        /\ e_last_rx' \in SeqNum
        /\ \A k \in DOMAIN e_ops' : e_ops'[k].kind = "Packet" =>
             UpAcked(e_last_rx') <= UpAcked(e_ops'[k].seq) /\ UpAcked(e_ops'[k].seq) <= EGot
    <2>1. CASE op.kind = "Packet"
      BY <1>1, <1>5, <2>1, FieldTypes, Zenon DEF UpAcks
    <2>2. CASE op.kind # "Packet"
      <3>1. UpAcked(e_last_rx) \in Nat /\ e_last_rx \in SeqNum
        BY UpAckedType DEF TypeOK, EndpointTypeOK
      <3>2. UpAcked(e_last_rx) <= UpAcked(e_last_rx)
        BY <3>1
      <3> QED
        BY <1>1, <1>5, <2>2, <3>1, <3>2, Zenon DEF UpAcks
    <2> QED
      BY <2>1, <2>2
  <1>8. UpAcked(e_last_rx)' = UpAcked(e_last_rx')
    BY <1>3, Zenon DEF UpAcked
  <1>9. ASSUME NEW x \in DownPackets, RGot <= x.idx
        PROVE  UpAcked(x.ack_seq) <= UpAcked(e_last_rx')
    <2>1. UpAcked(x.ack_seq) <= UpAcked(e_last_rx)
      BY <1>9, Zenon DEF UpAcks
    <2>2. /\ UpAcked(x.ack_seq) \in Nat /\ UpAcked(e_last_rx) \in Nat
          /\ UpAcked(e_last_rx') \in Nat
      BY <1>7, UpAckedType, FieldTypes DEF TypeOK, EndpointTypeOK
    <2> QED
      BY <1>7, <2>1, <2>2
  <1>10. \A i, j \in DOMAIN e_ops' :
           i < j /\ e_ops'[i].kind = "Packet" /\ e_ops'[j].kind = "Packet"
               => UpAcked(e_ops'[i].seq) <= UpAcked(e_ops'[j].seq)
    BY <1>5, <1>6, Zenon DEF UpAcks
  <1> QED
    BY <1>3, <1>4, <1>7, <1>8, <1>9, <1>10, Zenon DEF UpAcks

\* The builder puts the acknowledgement it owes into every header.
LEMMA UpAcksSend ==
  ASSUME TypeOK, UpData, DownData, UpAcks, ESendPacket \/ ESendAckOnly PROVE UpAcks'
  <1>1. PICK t \in {"Normal", "AckOnly"} :
          /\ down' = Append(down, EHeader(t))
          /\ e_resend_buffer' = e_resend_buffer
             \/ e_resend_buffer' = Append(e_resend_buffer, EHeader(t))
          /\ UNCHANGED <<r_sent, r_resend_buffer, r_first_in_resend, r_delivered, e_delivered>>
          /\ UNCHANGED <<e_ops, e_last_rx, e_resending>>
    BY Zenon DEF ESendPacket, ESendAckOnly, reqVars, recvVars
  <1> DEFINE h == EHeader(t)
  <1>2. h \in Packet /\ h.type = t /\ h.idx = e_sent /\ h.ack_seq = e_last_rx
    BY DownDataHeader
  <1>3. down \in Seq(Packet) /\ e_resend_buffer \in Seq(Packet)
    BY DEF TypeOK, EndpointTypeOK
  <1> HIDE DEF h
  <1>4. /\ UpFirst' = UpFirst /\ RGot' = RGot /\ EGot' = EGot
        /\ \A x : UpAcked(x)' = UpAcked(x)
    BY <1>1, Zenon DEF UpFirst, RGot, EGot, UpAcked
  <1>5. DownPackets' \subseteq DownPackets \cup {h}
    <2>1. /\ Packets(down') = Packets(down) \cup {h}
          /\ Packets(e_resend_buffer') \subseteq Packets(e_resend_buffer) \cup {h}
      <3>1. Packets(Append(down, h)) = Packets(down) \cup {h}
        BY <1>2, <1>3, PacketsAppend
      <3>2. Packets(Append(e_resend_buffer, h)) = Packets(e_resend_buffer) \cup {h}
        BY <1>2, <1>3, PacketsAppend
      <3> QED
        BY <1>1, <3>1, <3>2, Zenon DEF h
    <2> QED
      BY <1>1, <2>1, Zenon DEF DownPackets
  <1>6. \A x \in DownPackets : x.idx \in Nat /\ x.idx <= e_sent
          /\ (x.type # "AckOnly" => x.idx < e_sent)
    BY DownTypes, Zenon DEF DownData
  <1>7. UpAcked(e_last_rx) <= UpAcked(e_last_rx)
    <2>1. UpAcked(e_last_rx) \in Nat
      BY UpAckedType DEF TypeOK, EndpointTypeOK
    <2> QED
      BY <2>1
  <1>8. \A x \in DownPackets' : RGot <= x.idx => UpAcked(x.ack_seq) <= UpAcked(e_last_rx)
    BY <1>2, <1>5, <1>7, Zenon DEF UpAcks
  <1>9. ASSUME NEW x \in DownPackets', NEW y \in DownPackets', RGot <= x.idx,
               x.idx < y.idx \/ (x.idx = y.idx /\ y.type # "AckOnly")
        PROVE  UpAcked(x.ack_seq) <= UpAcked(y.ack_seq)
    <2>1. CASE y = h
      BY <1>2, <1>8, <1>9, <2>1, Zenon
    <2>2. CASE y # h
      <3>1. y \in DownPackets
        BY <1>5, <2>2, Zenon
      <3>2. x # h
        BY <1>2, <1>6, <1>9, <3>1, DownTypes
      <3> QED
        BY <1>5, <1>9, <3>1, <3>2, Zenon DEF UpAcks
    <2> QED
      BY <2>1, <2>2
  <1>10. AckOnlyOrder'
    <2>1. \A k \in DOMAIN down' : \/ k \in DOMAIN down /\ down'[k] = down[k]
                                  \/ k = Len(down) + 1 /\ down'[k] = h
      BY <1>1, <1>2, <1>3 DEF h
    <2>2. \A j \in DOMAIN down' : ~(Len(down) + 1 < j)
      BY <1>1, <1>2, <1>3 DEF h
    <2>3. \A k \in DOMAIN down' : down'[k] \in DownPackets'
      BY Zenon DEF DownPackets, Packets
    <2>4. SUFFICES ASSUME NEW i \in DOMAIN down', NEW j \in DOMAIN down', i < j,
                          down'[i].type = "AckOnly", down'[j].type = "AckOnly",
                          RGot <= down'[i].idx, down'[i].idx = down'[j].idx
                   PROVE  UpAcked(down'[i].ack_seq) <= UpAcked(down'[j].ack_seq)
      BY <1>4, Zenon DEF AckOnlyOrder
    <2>5. CASE down'[j] = h
      BY <1>2, <1>8, <2>3, <2>4, <2>5, Zenon
    <2>6. CASE j \in DOMAIN down /\ down'[j] = down[j]
      <3>1. CASE i \in DOMAIN down /\ down'[i] = down[i]
        BY <2>4, <2>6, <3>1, Zenon DEF UpAcks, AckOnlyOrder
      <3>2. CASE i = Len(down) + 1
        BY <2>2, <2>4, <3>2, Zenon
      <3> QED
        BY <2>1, <3>1, <3>2, Zenon
    <2> QED
      BY <2>1, <2>5, <2>6, Zenon
  <1>11. UpAcked(e_last_rx)' = UpAcked(e_last_rx)
    BY <1>1, <1>4, Zenon DEF UpAcked
  <1> QED
    BY <1>1, <1>4, <1>8, <1>9, <1>10, <1>11, Zenon DEF UpAcks

\* Steps of the requester and of the resend handler that only move packets.
LEMMA UpAcksMove ==
  ASSUME TypeOK, UpData, DownData, UpAcks,
         UNCHANGED vars \/ RSendPacket \/ RGetPacket \/ RResend \/ LoseUp \/ LoseDown
         \/ EDropPacket \/ EStartResend \/ EDoResend \/ EResendTimeout
  PROVE  UpAcks'
  <1>1. UNCHANGED <<r_first_in_resend, r_delivered, e_delivered, e_last_rx, e_ops>>
    BY Zenon DEF vars, RSendPacket, RGetPacket, RResend, LoseUp, LoseDown, EDropPacket,
       EStartResend, EDoResend, EResendTimeout, reqVars, recvVars, buildVars
  <1>2. EGot' = EGot /\ RGot' = RGot
    BY <1>1, Zenon DEF EGot, RGot
  <1>3. UpFirst' = UpFirst
    <2>1. CASE RSendPacket
      <3>1. PICK x : r_resend_buffer' = Append(r_resend_buffer, x)
        BY <2>1, Zenon DEF RSendPacket
      <3>2. Len(r_resend_buffer') = Len(r_resend_buffer) + 1
        BY <3>1 DEF TypeOK, RequesterTypeOK
      <3>3. r_sent' = r_sent + 1
        BY <2>1 DEF RSendPacket
      <3> QED
        BY <3>2, <3>3, UpTypes DEF UpFirst
    <2>2. CASE ~RSendPacket
      <3>1. UNCHANGED <<r_sent, r_resend_buffer>>
        BY <2>2, Zenon DEF vars, RGetPacket, RResend, LoseUp, LoseDown, EDropPacket,
           EStartResend, EDoResend, EResendTimeout, reqVars
      <3> QED
        BY <3>1, Zenon DEF UpFirst
    <2> QED
      BY <2>1, <2>2
  <1>4. /\ DownPackets' \subseteq DownPackets
        /\ \/ down' = down
           \/ down # <<>> /\ down' = Tail(down)
           \/ \E x \in Packet : x.type # "AckOnly" /\ down' = Append(down, x)
    <2>1. CASE LoseDown
      <3>1. /\ down # <<>> /\ down' = Tail(down) /\ down \in Seq(Packet)
            /\ UNCHANGED <<e_resending, e_resend_buffer>>
        BY <2>1, Zenon DEF LoseDown, resendVars, TypeOK
      <3>2. Packets(down') \subseteq Packets(down)
        BY <3>1, PacketsHeadTail
      <3> QED
        BY <3>1, <3>2, Zenon DEF DownPackets
    <2>2. CASE EDropPacket
      <3>1. /\ e_resend_buffer # <<>> /\ e_resend_buffer' = Tail(e_resend_buffer)
            /\ e_resend_buffer \in Seq(Packet) /\ UNCHANGED <<down, e_resending>>
        BY <2>2, Zenon DEF EDropPacket, TypeOK, EndpointTypeOK
      <3>2. Packets(e_resend_buffer') \subseteq Packets(e_resend_buffer)
        BY <3>1, PacketsHeadTail
      <3> QED
        BY <3>1, <3>2, Zenon DEF DownPackets
    <2>3. CASE EStartResend
      <3>1. e_resending' = e_resend_buffer /\ UNCHANGED <<down, e_resend_buffer>>
        BY <2>3, Zenon DEF EStartResend
      <3> QED
        BY <3>1, Zenon DEF DownPackets
    <2>4. CASE EDoResend
      <3> DEFINE x == Head(e_resending)
      <3>1. /\ e_resending # <<>> /\ e_resending' = Tail(e_resending) /\ down' = Append(down, x)
            /\ UNCHANGED e_resend_buffer
            /\ e_resending \in Seq(Packet) /\ down \in Seq(Packet)
        BY <2>4, Zenon DEF EDoResend, TypeOK, EndpointTypeOK
      <3>2. /\ x \in Packet /\ x \in Packets(e_resending)
            /\ Packets(e_resending') \subseteq Packets(e_resending)
        BY <3>1, PacketsHeadTail, HeadTail
      <3> HIDE DEF x
      <3>3. Packets(down') = Packets(down) \cup {x}
        BY <3>1, <3>2, PacketsAppend
      <3>4. x.type # "AckOnly"
        BY <3>2, Zenon DEF DownData
      <3>5. DownPackets' \subseteq DownPackets
        BY <3>1, <3>2, <3>3, Zenon DEF DownPackets
      <3> QED
        BY <3>1, <3>2, <3>4, <3>5, Zenon
    <2>5. CASE UNCHANGED vars \/ RSendPacket \/ RGetPacket \/ RResend \/ LoseUp \/ EResendTimeout
      <3>1. UNCHANGED <<down, e_resending, e_resend_buffer>>
        BY <2>5, Zenon DEF vars, RSendPacket, RGetPacket, RResend, LoseUp, EResendTimeout, resendVars
      <3> QED
        BY <3>1, Zenon DEF DownPackets
    <2> QED
      BY <2>1, <2>2, <2>3, <2>4, <2>5, Zenon
  <1>5. AckOnlyOrder'
    BY <1>1, <1>2, <1>3, <1>4, AckOnlyOrderKeep, Zenon DEF UpAcks
  <1> QED
    BY <1>1, <1>2, <1>3, <1>4, <1>5, UpAcksKeep, Zenon

\* Every step of the protocol keeps UpAcks.
LEMMA UpAcksStep ==
  ASSUME TypeOK, UpData, DownData, UpAcks, DownFirst <= RGot + 1, [Next]_vars
  PROVE  UpAcks'
  BY UpAcksReceive, UpAcksEndpointReceive, UpAcksHandleOp, UpAcksSend, UpAcksMove, Zenon
  DEF Next

-----------------------------------------------------------------------------
(* Acknowledgements of the requester: DownAcks is kept by every step *)

\* What a number acknowledges is a count, and at least what was dropped.
LEMMA DownAckedType ==
  ASSUME TypeOK, DownData, NEW x \in SeqNum
  PROVE  DownAcked(x) \in Nat /\ DownFirst <= DownAcked(x) /\ DownFirst \in Nat
  <1>1. DownFirst \in Nat
    BY DownTypes DEF DownData
  <1>2. Distance(e_first_element, x) \in Nat
    BY DistanceType DEF TypeOK, EndpointTypeOK
  <1> QED
    BY <1>1, <1>2 DEF DownAcked

\* The requester claims what it has received, or one packet more.
LEMMA RClaimsType ==
  ASSUME TypeOK PROVE RClaims \in Nat /\ RGot \in Nat /\ RGot <= RClaims /\ RClaims <= RGot + 1
  BY DownTypes DEF RClaims

\* The requester's last_rx acknowledges what it claims.
LEMMA DownAckedClaims ==
  ASSUME TypeOK, DownData, DownAcks PROVE DownAcked(r_last_rx) = RClaims
  <1>1. DownFirst \in Nat /\ RClaims \in Nat /\ DownFirst <= RClaims
    BY DownTypes, RClaimsType DEF DownData, DownAcks
  <1>2. e_first_element = (DownFirst - 1) % SeqMod /\ r_last_rx = (RClaims - 1) % SeqMod
    BY <1>1, LastSeqIs DEF DownData, DownAcks
  <1>3. (RClaims - 1) - (DownFirst - 1) \in SeqNum
    <2>1. e_sent <= DownFirst + ResendSlots /\ RGot <= e_sent
      BY DownTypes, SMTT(40) DEF DownData, DownFirst
    <2>2. /\ e_sent \in Nat /\ RGot \in Nat /\ RClaims <= RGot + 1
          /\ ResendSlots \in Nat /\ ResendSlip \in Nat /\ ResendSlots >= 1
          /\ DownReach = ResendSlots + ResendSlip
          /\ 2 * DownReach <= SeqMod /\ SeqMod \in Nat /\ SeqMod > 2
      BY DownTypes, RClaimsType
    <2> QED
      BY <1>1, <2>1, <2>2 DEF SeqNum
  <1>4. Distance((DownFirst - 1) % SeqMod, (RClaims - 1) % SeqMod) = (RClaims - 1) - (DownFirst - 1)
    BY <1>1, <1>3, DistanceCounts
  <1>5. DownAcked(r_last_rx) = DownFirst + ((RClaims - 1) - (DownFirst - 1))
    BY <1>2, <1>4 DEF DownAcked
  <1> QED
    BY <1>1, <1>5

\* Steps that move packets around, or lose them, and acknowledge nothing.
LEMMA DownAcksKeep ==
  ASSUME DownAcks, DownFirst' = DownFirst, EGot' = EGot,
         UNCHANGED <<e_first_element, r_last_rx, r_next_rx, r_delivered, e_ackd_seq, e_ops>>,
         UpPackets' \subseteq UpPackets
  PROVE  DownAcks'
  <1>1. \A x : DownAcked(x)' = DownAcked(x)
    BY Zenon DEF DownAcked
  <1>2. RClaims' = RClaims /\ RGot' = RGot
    BY Zenon DEF RClaims, RGot
  <1> QED
    BY <1>1, <1>2, Zenon DEF DownAcks

\* send_packet.
LEMMA DownAcksSend ==
  ASSUME TypeOK, UpData, DownData, DownAcks, RSendPacket PROVE DownAcks'
  <1> DEFINE pkt == [type |-> IF r_sent = 0 /\ ~CompatMode THEN "Open" ELSE "Normal",
                     seq |-> r_next_tx, ack_seq |-> r_last_rx,
                     ack |-> r_last_ack_status, idx |-> r_sent]
  <1>1. pkt \in Packet /\ pkt.idx = r_sent /\ pkt.ack_seq = r_last_rx
    BY DEF TypeOK, RequesterTypeOK, Packet
  <1> HIDE DEF pkt
  <1>2. /\ r_packet_data' = <<pkt>> /\ r_resend_buffer' = Append(r_resend_buffer, pkt)
        /\ UNCHANGED <<r_resend_data, up, e_delivered, e_sent, e_resend_buffer>>
        /\ UNCHANGED <<e_first_element, r_last_rx, r_next_rx, r_delivered, e_ackd_seq, e_ops>>
    BY DEF RSendPacket, recvVars, buildVars, resendVars, pkt
  <1>3. /\ EGot' = EGot /\ RClaims' = RClaims /\ RGot' = RGot /\ DownFirst' = DownFirst
        /\ \A x : DownAcked(x)' = DownAcked(x)
    BY <1>2, Zenon DEF EGot, RClaims, RGot, DownFirst, DownAcked
  <1>4. UpPackets' \subseteq UpPackets \cup {pkt}
    <2>1. Packets(<<pkt>>) = {pkt}
      BY DEF Packets
    <2>2. Packets(Append(r_resend_buffer, pkt)) = Packets(r_resend_buffer) \cup {pkt}
      BY <1>1, PacketsAppend DEF TypeOK, RequesterTypeOK
    <2> QED
      BY <1>2, <2>1, <2>2, Zenon DEF UpPackets
  <1>5. DownAcked(pkt.ack_seq) = RClaims /\ RClaims <= RClaims
    BY <1>1, DownAckedClaims, RClaimsType
  <1>6. \A p \in UpPackets : ~(r_sent <= p.idx)
    <2>1. \A p \in UpPackets : p.idx \in Nat /\ p.idx < r_sent
      BY UpTypes, Zenon DEF UpData
    <2> QED
      BY <2>1, UpTypes
  <1>7. DownAcked(e_ackd_seq)' = DownAcked(e_ackd_seq)
    BY <1>2, <1>3, Zenon DEF DownAcked
  <1>8. \A p \in UpPackets' : EGot <= p.idx =>
          DownAcked(e_ackd_seq) <= DownAcked(p.ack_seq) /\ DownAcked(p.ack_seq) <= RClaims
    BY <1>4, <1>5, Zenon DEF DownAcks
  <1>9. ASSUME NEW p \in UpPackets', NEW q \in UpPackets', EGot <= p.idx, p.idx <= q.idx
        PROVE  DownAcked(p.ack_seq) <= DownAcked(q.ack_seq)
    <2>1. CASE q = pkt
      BY <1>5, <1>8, <1>9, <2>1, Zenon
    <2>2. CASE q # pkt
      <3>1. q \in UpPackets /\ p # pkt
        BY <1>1, <1>4, <1>6, <1>9, <2>2, Zenon
      <3> QED
        BY <1>4, <1>9, <3>1, Zenon DEF DownAcks
    <2> QED
      BY <2>1, <2>2
  <1>10. \A k \in DOMAIN e_ops : e_ops[k].kind = "Packet" =>
           \A p \in UpPackets' :
              EGot <= p.idx => DownAcked(e_ops[k].ack_seq) <= DownAcked(p.ack_seq)
    BY <1>4, <1>5, Zenon DEF DownAcks
  <1> QED
    BY <1>2, <1>3, <1>7, <1>8, <1>9, <1>10, Zenon DEF DownAcks

\* process_packets: what the requester claims grows with what it accepts.
LEMMA DownAcksReceive ==
  ASSUME TypeOK, UpData, DownData, DownAcks, RReceive PROVE DownAcks'
  <1> DEFINE p == Head(down)
  <1>1. /\ UNCHANGED <<r_resend_data, r_packet_data, up, e_delivered, e_sent, e_resend_buffer>>
        /\ UNCHANGED <<e_first_element, e_ackd_seq, e_ops>>
    BY DEF RReceive, recvVars, buildVars, resendVars
  <1>2. /\ EGot' = EGot /\ DownFirst' = DownFirst
        /\ \A x : DownAcked(x)' = DownAcked(x)
    BY <1>1, Zenon DEF EGot, DownFirst, DownAcked
  <1>3. DownFirst \in Nat /\ DownFirst <= RClaims /\ DownFirst <= RGot + 1
    <2>1. DownFirst \in Nat /\ DownFirst <= RClaims
      BY DownTypes DEF DownData, DownAcks
    <2> QED
      BY <2>1, RClaimsType
  <1>4. UpPackets' \subseteq UpPackets
    <2>1. Packets(r_resend_buffer') \subseteq Packets(r_resend_buffer)
      <3>1. CASE UNCHANGED r_resend_buffer
        BY <3>1, Zenon
      <3>2. CASE RAccept(p)
        <4> DEFINE m == RAcked(p)
        <4>1. /\ m <= Len(r_resend_buffer)
              /\ r_resend_buffer' = SubSeq(r_resend_buffer, m + 1, Len(r_resend_buffer))
          BY <3>2 DEF RAccept
        <4>2. p.ack_seq \in SeqNum /\ r_first_in_resend \in SeqNum
          BY <1>3, RReceiveCases DEF Packet, TypeOK, RequesterTypeOK
        <4>3. m = Distance(r_first_in_resend, p.ack_seq)
          BY DEF RAcked, Distance
        <4>4. m \in Nat
          BY <4>2, <4>3, DistanceType
        <4> HIDE DEF m
        <4>5. r_resend_buffer \in Seq(Packet) /\ m \in 0 .. Len(r_resend_buffer)
          BY <4>1, <4>4, UpTypes DEF TypeOK, RequesterTypeOK
        <4> QED
          BY <4>1, <4>5, DropFirst
      <3> QED
        BY <1>3, <3>1, <3>2, RReceiveCases, Zenon
    <2> QED
      BY <1>1, <2>1, Zenon DEF UpPackets
  <1>5. CASE UNCHANGED <<r_next_rx, r_last_rx, r_delivered>>
    BY <1>1, <1>2, <1>4, <1>5, DownAcksKeep, Zenon
  <1>6. CASE \/ /\ r_last_rx' = r_next_rx /\ p.idx = RGot
                /\ r_next_rx' = Incr(r_next_rx) /\ r_delivered' = Append(r_delivered, p.idx)
             \/ /\ r_last_rx' = r_next_rx /\ ~CompatMode
                /\ UNCHANGED <<r_next_rx, r_delivered>>
    <2>1. /\ RGot \in Nat /\ r_next_rx = RGot % SeqMod /\ r_next_rx \in SeqNum
          /\ RClaims \in Nat /\ RClaims <= RGot + 1
      BY DownTypes, RClaimsType DEF DownData, TypeOK, RequesterTypeOK
    <2>2. RClaims' = RGot + 1 /\ (CompatMode => RClaims' = RGot')
      <3>1. CASE /\ r_last_rx' = r_next_rx
                 /\ r_next_rx' = Incr(r_next_rx) /\ r_delivered' = Append(r_delivered, p.idx)
        <4>1. RGot' = RGot + 1
          BY <3>1 DEF RGot, TypeOK, RequesterTypeOK
        <4>2. Incr(r_next_rx) # r_next_rx
          <5>1. Incr(r_next_rx) \in SeqNum /\ Distance(r_next_rx, Incr(r_next_rx)) = 1
            BY <2>1, IncrType, DistanceIncr
          <5>2. Distance(r_next_rx, r_next_rx) = 0
            BY <2>1, DistanceType
          <5>3. 1 # 0
            OBVIOUS
          <5> QED
            BY <5>1, <5>2, <5>3, Zenon
        <4> QED
          BY <3>1, <4>1, <4>2, Zenon DEF RClaims
      <3>2. CASE r_last_rx' = r_next_rx /\ ~CompatMode /\ UNCHANGED <<r_next_rx, r_delivered>>
        BY <3>2, Zenon DEF RClaims, RGot
      <3> QED
        BY <1>6, <3>1, <3>2, Zenon
    <2>3. r_last_rx' = LastSeq(RClaims')
      <3>1. RGot + 1 \in Nat /\ (RGot + 1) - 1 = RGot
        BY <2>1
      <3>2. LastSeq(RGot + 1) = RGot % SeqMod
        BY <3>1, LastSeqIs
      <3> QED
        BY <1>6, <2>1, <2>2, <3>2, Zenon
    <2>4. DownFirst' <= RClaims'
      BY <1>2, <1>3, <2>2
    <2>5. \A x \in SeqNum : DownAcked(x) <= RClaims => DownAcked(x) <= RClaims'
      <3>1. \A x \in SeqNum : DownAcked(x) \in Nat
        BY DownAckedType
      <3> QED
        BY <2>1, <2>2, <3>1
    <2>6. DownAcked(e_ackd_seq)' = DownAcked(e_ackd_seq) /\ e_ackd_seq \in SeqNum
      BY <1>1, <1>2, Zenon DEF DownAcked, TypeOK, EndpointTypeOK
    <2>7. DownAcked(e_ackd_seq)' <= RClaims'
      BY <2>5, <2>6, Zenon DEF DownAcks
    <2>8. \A x \in UpPackets' : EGot <= x.idx =>
            DownAcked(e_ackd_seq) <= DownAcked(x.ack_seq) /\ DownAcked(x.ack_seq) <= RClaims'
      BY <1>4, <2>5, FieldTypes, Zenon DEF DownAcks
    <2>9. \A k \in DOMAIN e_ops : e_ops[k].kind = "Packet" =>
            /\ DownAcked(e_ackd_seq) <= DownAcked(e_ops[k].ack_seq)
            /\ DownAcked(e_ops[k].ack_seq) <= RClaims'
            /\ \A x \in UpPackets' :
                  EGot <= x.idx => DownAcked(e_ops[k].ack_seq) <= DownAcked(x.ack_seq)
      BY <1>4, <2>5, FieldTypes, Zenon DEF DownAcks
    <2> QED
      BY <1>1, <1>2, <1>4, <2>2, <2>3, <2>4, <2>6, <2>7, <2>8, <2>9, Zenon DEF DownAcks
  <1>7. RAccept(p) => r_last_rx' = p.seq
    BY DEF RAccept
  <1>8. p.type = "AckOnly" /\ p \in Packets(down) => ~CompatMode
    BY Zenon DEF DownData, DownPackets
  <1> QED
    BY <1>3, <1>5, <1>6, <1>7, <1>8, RReceiveCases, Zenon

\* fetchTLOEHeader: the acknowledgement of an accepted packet enters the FIFO.
LEMMA DownAcksEndpointReceive ==
  ASSUME TypeOK, UpData, DownData, UpFirst <= EGot, DownAcks, EReceive PROVE DownAcks'
  <1> DEFINE p == Head(up)
             o == EOpFor(p)
  <1>1. /\ UNCHANGED <<r_resend_data, r_packet_data, r_resend_buffer, e_sent, e_resend_buffer>>
        /\ UNCHANGED <<e_first_element, r_last_rx, r_next_rx, r_delivered, e_ackd_seq>>
    BY DEF EReceive, reqVars, buildVars, resendVars
  <1>2. /\ up # <<>> /\ up' = Tail(up) /\ up \in Seq(Packet) /\ p \in Packets(up) /\ p \in Packet
    BY ReceiveCases, Zenon DEF TypeOK
  <1>3. /\ DownFirst' = DownFirst /\ RClaims' = RClaims /\ RGot' = RGot
        /\ \A x : DownAcked(x)' = DownAcked(x)
        /\ DownAcked(e_ackd_seq)' = DownAcked(e_ackd_seq)
    BY <1>1, Zenon DEF DownFirst, RClaims, RGot, DownAcked
  <1>4. UpPackets' \subseteq UpPackets /\ p \in UpPackets
    <2>1. Packets(up') \subseteq Packets(up)
      BY <1>2, PacketsHeadTail
    <2> QED
      BY <1>1, <1>2, <2>1, Zenon DEF UpPackets
  <1>5. e_ops \in Seq(Op) /\ o \in Op /\ o.ack_seq = p.ack_seq
    <2>1. o \in Op
      BY <1>2, OpType DEF TypeOK
    <2>2. o.ack_seq = p.ack_seq
      BY DEF EOpFor
    <2> QED
      BY <2>1, <2>2, Zenon DEF TypeOK, EndpointTypeOK
  <1>6. ASSUME e_ops' = Append(e_ops, o)
        PROVE  /\ \A k \in DOMAIN e_ops' :
                    \/ k \in DOMAIN e_ops /\ e_ops'[k] = e_ops[k]
                    \/ k = Len(e_ops) + 1 /\ e_ops'[k] = o
               /\ \A j \in DOMAIN e_ops' : ~(Len(e_ops) + 1 < j)
    <2> HIDE DEF o
    <2> QED
      BY <1>5, <1>6
  <1>7. CASE UNCHANGED e_delivered /\ e_ops' = e_ops
    <2>1. EGot' = EGot
      BY <1>7, Zenon DEF EGot
    <2> QED
      BY <1>1, <1>3, <1>4, <1>7, <2>1, DownAcksKeep, Zenon
  <1>8. CASE UNCHANGED e_delivered /\ e_ops' = Append(e_ops, o)
             /\ o.kind # "Packet" /\ o.kind # "Ack"
    <2>1. EGot' = EGot
      BY <1>8, Zenon DEF EGot
    <2> HIDE DEF o
    <2>2. \A k \in DOMAIN e_ops' : e_ops'[k].kind = "Packet" =>
            k \in DOMAIN e_ops /\ e_ops'[k] = e_ops[k]
      BY <1>6, <1>8, Zenon
    <2>3. \A k \in DOMAIN e_ops' : e_ops'[k].kind # "Ack"
      BY <1>6, <1>8, Zenon DEF DownAcks
    <2> QED
      BY <1>1, <1>3, <1>4, <2>1, <2>2, <2>3, Zenon DEF DownAcks
  <1>9. CASE /\ p.idx = EGot /\ o.kind = "Packet" /\ e_ops' = Append(e_ops, o)
             /\ e_delivered' = Append(e_delivered, p.idx)
    <2>1. EGot' = EGot + 1 /\ EGot \in Nat
      BY <1>9 DEF EGot, TypeOK, EndpointTypeOK
    <2> HIDE DEF o, p
    <2>2. EGot <= p.idx
      BY <1>9, <2>1
    <2>3. \A x \in UpPackets' : EGot' <= x.idx =>
            EGot <= x.idx /\ DownAcked(o.ack_seq) <= DownAcked(x.ack_seq)
      <3>1. \A x \in UpPackets' : EGot' <= x.idx => EGot <= x.idx /\ p.idx <= x.idx
        <4>1. \A x \in UpPackets' : x.idx \in Nat
          BY <1>4, UpTypes, Zenon
        <4> QED
          BY <1>9, <2>1, <4>1
      <3> QED
        BY <1>4, <1>5, <2>2, <3>1, Zenon DEF DownAcks
    <2>4. DownAcked(e_ackd_seq) <= DownAcked(o.ack_seq) /\ DownAcked(o.ack_seq) <= RClaims
      BY <1>4, <1>5, <2>2, Zenon DEF DownAcks
    <2>5. \A k \in DOMAIN e_ops' : e_ops'[k].kind # "Ack"
      <3>1. o.kind # "Ack"
        BY <1>9
      <3> QED
        BY <1>6, <1>9, <3>1, Zenon DEF DownAcks
    <2>6. \A k \in DOMAIN e_ops' : e_ops'[k].kind = "Packet" =>
            /\ DownAcked(e_ackd_seq) <= DownAcked(e_ops'[k].ack_seq)
            /\ DownAcked(e_ops'[k].ack_seq) <= RClaims
            /\ \A x \in UpPackets' :
                  EGot' <= x.idx => DownAcked(e_ops'[k].ack_seq) <= DownAcked(x.ack_seq)
      BY <1>4, <1>6, <1>9, <2>3, <2>4, Zenon DEF DownAcks
    <2>7. ASSUME NEW i \in DOMAIN e_ops', NEW j \in DOMAIN e_ops', i < j,
                 e_ops'[i].kind = "Packet", e_ops'[j].kind = "Packet"
          PROVE  DownAcked(e_ops'[i].ack_seq) <= DownAcked(e_ops'[j].ack_seq)
      <3>1. i \in DOMAIN e_ops /\ e_ops'[i] = e_ops[i]
        BY <1>6, <1>9, <2>7, Zenon
      <3>2. CASE j \in DOMAIN e_ops /\ e_ops'[j] = e_ops[j]
        BY <2>7, <3>1, <3>2, Zenon DEF DownAcks
      <3>3. CASE e_ops'[j] = o
        BY <1>4, <1>5, <2>2, <2>7, <3>1, <3>3, Zenon DEF DownAcks
      <3> QED
        BY <1>6, <1>9, <3>2, <3>3
    <2> QED
      BY <1>1, <1>3, <1>4, <2>3, <2>5, <2>6, <2>7, Zenon DEF DownAcks
  <1>10. o.kind \in {"NAK", "OutOfSequenceACK"} => o.kind # "Packet" /\ o.kind # "Ack"
    OBVIOUS
  <1> QED
    BY <1>7, <1>8, <1>9, <1>10, ReceiveCases, Zenon

\* setAck of the resend handler.
LEMMA DownAcksHandleOp ==
  ASSUME TypeOK, UpData, DownData, DownAcks, EHandleOp PROVE DownAcks'
  <1> DEFINE op == Head(e_ops)
  <1>1. /\ e_ops # <<>> /\ e_ops' = Tail(e_ops)
        /\ UNCHANGED <<up, r_resend_data, r_packet_data, r_resend_buffer, e_delivered>>
        /\ UNCHANGED <<e_sent, e_resend_buffer, e_first_element, r_last_rx, r_next_rx, r_delivered>>
    BY Zenon DEF EHandleOp, reqVars
  <1>2. e_ops \in Seq(Op)
    BY DEF TypeOK, EndpointTypeOK
  <1>3. /\ DownFirst' = DownFirst /\ RClaims' = RClaims /\ RGot' = RGot /\ EGot' = EGot
        /\ UpPackets' = UpPackets /\ \A x : DownAcked(x)' = DownAcked(x)
        /\ DownAcked(e_ackd_seq)' = DownAcked(e_ackd_seq')
    BY <1>1, Zenon DEF DownFirst, RClaims, RGot, EGot, UpPackets, DownAcked
  <1>4. /\ op = e_ops[1] /\ 1 \in DOMAIN e_ops
        /\ \A k \in DOMAIN e_ops' : k + 1 \in DOMAIN e_ops /\ e_ops'[k] = e_ops[k + 1]
                                    /\ 1 < k + 1 /\ k \in Nat
    BY <1>1, <1>2
  <1>5. \A i, j \in DOMAIN e_ops' : i < j => i + 1 < j + 1
    BY <1>4
  <1>6. \/ op.kind = "Packet" /\ e_ackd_seq' = op.ack_seq
        \/ op.kind # "Packet" /\ e_ackd_seq' = e_ackd_seq
    <2>1. op.kind # "Ack"
      BY <1>4, Zenon DEF DownAcks
    <2>2. op.kind \in {"Packet", "Ack"} => op.kind = "Packet"
      BY <2>1
    <2>3. op.kind = "Packet" => op.kind \in {"Packet", "Ack"}
      OBVIOUS
    <2> QED
      BY <2>2, <2>3, Zenon DEF EHandleOp, EAckdSeq, CarriesAck
  <1> HIDE DEF op
  <1>7. \A i, j \in DOMAIN e_ops' :
          i < j /\ e_ops'[i].kind = "Packet" /\ e_ops'[j].kind = "Packet"
              => DownAcked(e_ops'[i].ack_seq) <= DownAcked(e_ops'[j].ack_seq)
    BY <1>4, <1>5, Zenon DEF DownAcks
  <1>8. /\ DownAcked(e_ackd_seq') <= RClaims
        /\ \A x \in UpPackets : EGot <= x.idx => DownAcked(e_ackd_seq') <= DownAcked(x.ack_seq)
        /\ \A k \in DOMAIN e_ops' : e_ops'[k].kind = "Packet" =>
             DownAcked(e_ackd_seq') <= DownAcked(e_ops'[k].ack_seq)
    <2>1. CASE op.kind = "Packet" /\ e_ackd_seq' = op.ack_seq
      BY <1>4, <2>1, Zenon DEF DownAcks
    <2>2. CASE e_ackd_seq' = e_ackd_seq
      BY <1>4, <2>2, Zenon DEF DownAcks
    <2> QED
      BY <1>6, <2>1, <2>2
  <1>9. /\ \A k \in DOMAIN e_ops' : e_ops'[k].kind # "Ack"
        /\ \A k \in DOMAIN e_ops' : e_ops'[k].kind = "Packet" =>
             /\ DownAcked(e_ops'[k].ack_seq) <= RClaims
             /\ \A x \in UpPackets :
                   EGot <= x.idx => DownAcked(e_ops'[k].ack_seq) <= DownAcked(x.ack_seq)
    BY <1>4, Zenon DEF DownAcks
  <1> QED
    BY <1>1, <1>3, <1>7, <1>8, <1>9, Zenon DEF DownAcks

\* drop_packets: dropping an acknowledged packet moves the origin by one and
\* changes nothing that the numbers still in use acknowledge.
LEMMA DownAcksDrop ==
  ASSUME TypeOK, UpData, DownData, DownAcks, EDropPacket PROVE DownAcks'
  <1>1. /\ e_resend_buffer # <<>> /\ e_resend_buffer' = Tail(e_resend_buffer)
        /\ e_first_element' = Incr(e_first_element) /\ e_ackd_seq # e_first_element
        /\ UNCHANGED <<up, r_resend_data, r_packet_data, r_resend_buffer, e_delivered>>
        /\ UNCHANGED <<e_sent, r_last_rx, r_next_rx, r_delivered, e_ackd_seq, e_ops>>
    BY Zenon DEF EDropPacket, reqVars, recvVars, buildVars
  <1>2. /\ RClaims' = RClaims /\ RGot' = RGot /\ EGot' = EGot /\ UpPackets' = UpPackets
    BY <1>1, Zenon DEF RClaims, RGot, EGot, UpPackets
  <1>3. DownFirst' = DownFirst + 1 /\ DownFirst \in Nat
    <2>1. Len(e_resend_buffer') = Len(e_resend_buffer) - 1
      BY <1>1 DEF TypeOK, EndpointTypeOK
    <2> QED
      BY <1>1, <2>1, DownTypes DEF DownFirst, DownData
  <1>4. e_first_element \in SeqNum /\ e_ackd_seq \in SeqNum /\ Incr(e_first_element) \in SeqNum
    BY IncrType DEF TypeOK, EndpointTypeOK
  <1>5. ASSUME NEW x \in SeqNum, DownAcked(e_ackd_seq) <= DownAcked(x)
        PROVE  DownAcked(x)' = DownAcked(x)
    <2>1. /\ Distance(e_first_element, e_ackd_seq) \in Nat
          /\ Distance(e_first_element, e_ackd_seq) # 0
          /\ Distance(e_first_element, x) \in Nat
      BY <1>1, <1>4, DistanceType
    <2>2. Distance(e_first_element, e_ackd_seq) <= Distance(e_first_element, x)
      BY <1>3, <1>5, <2>1 DEF DownAcked
    <2>3. Distance(e_first_element, Incr(e_first_element)) = 1
      BY <1>4, DistanceIncr
    <2>4. Distance(e_first_element, Incr(e_first_element)) <= Distance(e_first_element, x)
      BY <2>1, <2>2, <2>3
    <2>5. Distance(Incr(e_first_element), x) = Distance(e_first_element, x) - 1
      BY <1>4, <2>3, <2>4, DistanceShift
    <2>6. DownAcked(x)' = DownFirst' + Distance(Incr(e_first_element), x)
      BY <1>1, Zenon DEF DownAcked
    <2> QED
      BY <1>3, <2>1, <2>5, <2>6 DEF DownAcked
  <1>6. DownAcked(e_ackd_seq)' = DownAcked(e_ackd_seq)
    <2>1. DownAcked(e_ackd_seq) \in Nat
      BY <1>4, DownAckedType
    <2>2. DownAcked(e_ackd_seq) <= DownAcked(e_ackd_seq)
      BY <2>1
    <2> QED
      BY <1>1, <1>4, <1>5, <2>2, Zenon DEF DownAcked
  <1>7. DownFirst' <= RClaims
    <2>1. Distance(e_first_element, e_ackd_seq) \in Nat
          /\ Distance(e_first_element, e_ackd_seq) # 0
      BY <1>1, <1>4, DistanceType
    <2>2. DownFirst + Distance(e_first_element, e_ackd_seq) <= RClaims
      BY DEF DownAcks, DownAcked
    <2> QED
      BY <1>3, <2>1, <2>2, RClaimsType
  <1>8. \A x \in UpPackets : EGot <= x.idx => DownAcked(x.ack_seq)' = DownAcked(x.ack_seq)
    BY <1>5, FieldTypes, Zenon DEF DownAcks
  <1>9. \A k \in DOMAIN e_ops : e_ops[k].kind = "Packet" =>
          DownAcked(e_ops[k].ack_seq)' = DownAcked(e_ops[k].ack_seq)
    <2>1. \A k \in DOMAIN e_ops : e_ops[k].kind = "Packet" =>
            \A y : y = e_ops[k].ack_seq => DownAcked(y)' = DownAcked(y)
      BY <1>5, FieldTypes, Zenon DEF DownAcks
    <2> QED
      BY <1>1, <2>1, Zenon DEF DownAcked
  <1>10. \A p, q \in UpPackets :
           EGot <= p.idx /\ p.idx <= q.idx => DownAcked(p.ack_seq)' <= DownAcked(q.ack_seq)'
    <2>1. \A p, q \in UpPackets : EGot <= p.idx /\ p.idx <= q.idx => EGot <= q.idx
      BY UpTypes
    <2> QED
      BY <1>8, <2>1, Zenon DEF DownAcks
  <1> QED
    BY <1>1, <1>2, <1>6, <1>7, <1>8, <1>9, <1>10, ZenonT(60) DEF DownAcks

\* Steps that only move packets.
LEMMA DownAcksMove ==
  ASSUME TypeOK, UpData, DownData, DownAcks,
         UNCHANGED vars \/ RGetPacket \/ RResend \/ LoseUp \/ LoseDown
         \/ ESendPacket \/ ESendAckOnly \/ EStartResend \/ EDoResend \/ EResendTimeout
  PROVE  DownAcks'
  <1>1. /\ UNCHANGED <<e_first_element, r_last_rx, r_next_rx, r_delivered, e_ackd_seq, e_ops>>
        /\ UNCHANGED <<e_delivered, r_resend_buffer>>
    BY Zenon DEF vars, RGetPacket, RResend, LoseUp, LoseDown, ESendPacket, ESendAckOnly,
       EStartResend, EDoResend, EResendTimeout, reqVars, recvVars, buildVars, resendVars
  <1>2. EGot' = EGot
    BY <1>1, Zenon DEF EGot
  <1>3. DownFirst' = DownFirst
    <2>1. CASE ESendPacket
      <3>1. Len(e_resend_buffer') = Len(e_resend_buffer) + 1
        BY <2>1 DEF ESendPacket, TypeOK, EndpointTypeOK
      <3>2. e_sent' = e_sent + 1
        BY <2>1 DEF ESendPacket
      <3> QED
        BY <3>1, <3>2, DownTypes DEF DownFirst
    <2>2. CASE ~ESendPacket
      <3>1. UNCHANGED <<e_sent, e_resend_buffer>>
        BY <2>2, Zenon DEF vars, RGetPacket, RResend, LoseUp, LoseDown, ESendAckOnly,
           EStartResend, EDoResend, EResendTimeout, buildVars, resendVars
      <3> QED
        BY <3>1, Zenon DEF DownFirst
    <2> QED
      BY <2>1, <2>2
  <1>4. UpPackets' \subseteq UpPackets
    <2>1. CASE RGetPacket
      <3>1. up \in Seq(Packet) /\ r_resend_data \in Seq(Packet) /\ r_packet_data \in Seq(Packet)
        BY Zenon DEF TypeOK, RequesterTypeOK
      <3>2. CASE r_resend_data # <<>>
        <4>1. /\ up' = Append(up, Head(r_resend_data)) /\ r_resend_data' = Tail(r_resend_data)
              /\ r_packet_data' = r_packet_data
          BY <2>1, <3>2, Zenon DEF RGetPacket
        <4>2. /\ Head(r_resend_data) \in Packets(r_resend_data) /\ Head(r_resend_data) \in Packet
              /\ Packets(r_resend_data') \subseteq Packets(r_resend_data)
          BY <3>1, <3>2, <4>1, PacketsHeadTail, HeadTail
        <4>3. Packets(up') = Packets(up) \cup {Head(r_resend_data)}
          BY <3>1, <4>1, <4>2, PacketsAppend
        <4> QED
          BY <1>1, <4>1, <4>2, <4>3, Zenon DEF UpPackets
      <3>3. CASE r_resend_data = <<>>
        <4>1. /\ up' = Append(up, Head(r_packet_data)) /\ r_packet_data # <<>>
              /\ r_resend_data' = r_resend_data /\ r_packet_data' = <<>>
          BY <2>1, <3>3, Zenon DEF RGetPacket
        <4>2. Head(r_packet_data) \in Packets(r_packet_data) /\ Head(r_packet_data) \in Packet
          BY <3>1, <4>1, PacketsHeadTail, HeadTail
        <4>3. Packets(up') = Packets(up) \cup {Head(r_packet_data)}
          BY <3>1, <4>1, <4>2, PacketsAppend
        <4> QED
          BY <1>1, <4>1, <4>2, <4>3, PacketsEmpty, Zenon DEF UpPackets
      <3> QED
        BY <3>2, <3>3
    <2>2. CASE RResend
      <3>1. r_resend_data' = r_resend_buffer /\ UNCHANGED <<up, r_packet_data>>
        BY <2>2, Zenon DEF RResend, RResendCopies
      <3> QED
        BY <1>1, <3>1, Zenon DEF UpPackets
    <2>3. CASE LoseUp
      <3>1. /\ up # <<>> /\ up' = Tail(up) /\ up \in Seq(Packet)
            /\ UNCHANGED <<r_resend_data, r_packet_data>>
        BY <2>3, Zenon DEF LoseUp, reqVars, TypeOK
      <3>2. Packets(up') \subseteq Packets(up)
        BY <3>1, PacketsHeadTail
      <3> QED
        BY <1>1, <3>1, <3>2, Zenon DEF UpPackets
    <2>4. CASE UNCHANGED vars \/ LoseDown \/ ESendPacket \/ ESendAckOnly \/ EStartResend
               \/ EDoResend \/ EResendTimeout
      <3>1. UNCHANGED <<up, r_resend_data, r_packet_data>>
        BY <2>4, Zenon DEF vars, LoseDown, ESendPacket, ESendAckOnly, EStartResend, EDoResend,
           EResendTimeout, reqVars
      <3> QED
        BY <1>1, <3>1, Zenon DEF UpPackets
    <2> QED
      BY <2>1, <2>2, <2>3, <2>4, Zenon
  <1> QED
    BY <1>1, <1>2, <1>3, <1>4, DownAcksKeep, Zenon

\* Every step of the protocol keeps DownAcks.
LEMMA DownAcksStep ==
  ASSUME TypeOK, UpData, DownData, UpFirst <= EGot, DownAcks, [Next]_vars
  PROVE  DownAcks'
  BY DownAcksSend, DownAcksReceive, DownAcksEndpointReceive, DownAcksHandleOp, DownAcksDrop,
     DownAcksMove, Zenon DEF Next

\* Init establishes the acknowledgement part of the invariant.
LEMMA AcksInit == Init => UpAcks /\ DownAcks
  <1> SUFFICES ASSUME Init PROVE UpAcks /\ DownAcks
    OBVIOUS
  <1>1. /\ r_resend_buffer = <<>> /\ e_resend_buffer = <<>> /\ r_sent = 0 /\ e_sent = 0
        /\ r_delivered = <<>> /\ e_delivered = <<>> /\ e_ops = <<>> /\ down = <<>>
        /\ r_last_rx = MaxSeq /\ r_next_rx = 0 /\ e_last_rx = MaxSeq /\ e_ackd_seq = MaxSeq
        /\ r_first_in_resend = MaxSeq /\ e_first_element = MaxSeq
    BY Zenon DEF Init
  <1>2. Len(<<>>) = 0 /\ 0 - 0 = 0 /\ 0 + 0 = 0 /\ 0 <= 0 /\ DOMAIN <<>> = {}
    BY EmptySeq
  <1>3. EGot = 0 /\ RGot = 0 /\ UpFirst = 0 /\ DownFirst = 0
    BY <1>1, <1>2, Zenon DEF EGot, RGot, UpFirst, DownFirst
  <1>4. /\ MaxSeq \in SeqNum /\ MaxSeq # 0
        /\ LastSeq(0) = MaxSeq
    BY LinkAssumption DEF MaxSeq, SeqNum, LastSeq
  <1>5. Distance(MaxSeq, MaxSeq) = 0
    BY <1>4, DistanceType
  <1>6. UpPackets = {} /\ DownPackets = {}
    BY PacketsEmpty, Zenon DEF Init, UpPackets, DownPackets
  <1>7. RClaims = 0 /\ UpAcked(e_last_rx) = 0 /\ DownAcked(e_ackd_seq) = 0
    BY <1>1, <1>2, <1>3, <1>4, <1>5, Zenon DEF RClaims, UpAcked, DownAcked
  <1>8. AckOnlyOrder
    BY <1>1, <1>2, Zenon DEF AckOnlyOrder
  <1>9. UpAcks
    BY <1>1, <1>2, <1>3, <1>6, <1>7, <1>8, Zenon DEF UpAcks
  <1>10. DownAcks
    BY <1>1, <1>2, <1>3, <1>4, <1>6, <1>7, Zenon DEF DownAcks
  <1> QED
    BY <1>9, <1>10

-----------------------------------------------------------------------------
(* The theorems *)

\* The bounds one half of the invariant gives the other.
LEMMA Bounds ==
  ASSUME TypeOK, LinkInv PROVE UpFirst <= EGot /\ DownFirst <= RGot + 1
  <1>1. DownFirst <= RClaims /\ DownFirst \in Nat
    BY DownTypes DEF LinkInv, DownAcks, DownData
  <1>2. DownFirst <= RGot + 1
    BY <1>1, RClaimsType
  <1> QED
    BY <1>2 DEF LinkInv, UpAcks

\* Numbers on the wire, registers and buffers of both sides agree with the counts
\* they stand for, and acknowledgements in flight never overtake or take back
\* what was received.
THEOREM LinkInvariant == Spec => []LinkInv
  <1>1. Init => LinkInv
    BY DataInit, AcksInit, Zenon DEF LinkInv
  <1>2. TypeOK /\ LinkInv /\ [Next]_vars => LinkInv'
    <2> SUFFICES ASSUME TypeOK, LinkInv, [Next]_vars PROVE LinkInv'
      OBVIOUS
    <2>1. UpFirst <= EGot /\ DownFirst <= RGot + 1
      BY Bounds
    <2> QED
      BY <2>1, UpDataStep, DownDataStep, UpAcksStep, DownAcksStep, Zenon DEF LinkInv
  <1> QED
    BY <1>1, <1>2, LinkTypeCorrect, PTL DEF Spec

\* remove_from_resend never pops an empty buffer: the expect() of connection.rs
\* holds for every packet of the endpoint, in both modes, across losses, resends
\* and the wrap-around of the numbers.
THEOREM AcksNeverExceedSent == Spec => []ExpectHolds
  <1>1. TypeOK /\ LinkInv => ExpectHolds
    <2> SUFFICES ASSUME TypeOK, LinkInv, down # <<>>, Head(down).seq = r_next_rx
                 PROVE  RAcked(Head(down)) <= Len(r_resend_buffer)
      BY DEF ExpectHolds
    <2> DEFINE p == Head(down)
    <2>1. p \in Packets(down) /\ p \in DownPackets
      <3>1. p \in Packets(down)
        BY PacketsHeadTail DEF TypeOK
      <3> QED
        BY <3>1, Zenon DEF DownPackets
    <2>2. RGot <= p.idx
      <3>1. p.idx = RGot /\ RGot \in Nat
        BY <2>1, Bounds, DownInSequence, DownTypes DEF LinkInv
      <3> QED
        BY <3>1
    <2>3. UpAcked(p.ack_seq) <= UpAcked(e_last_rx) /\ UpAcked(e_last_rx) <= EGot /\ EGot <= r_sent
      BY <2>1, <2>2, Zenon DEF LinkInv, UpAcks, UpData
    <2>4. /\ UpAcked(p.ack_seq) \in Nat /\ UpAcked(e_last_rx) \in Nat
          /\ p.ack_seq \in SeqNum
      BY <2>1, UpAckedType, FieldTypes DEF LinkInv, TypeOK, EndpointTypeOK
    <2>5. RAcked(p) = Distance(r_first_in_resend, p.ack_seq)
      BY DEF RAcked, Distance
    <2>6. Distance(r_first_in_resend, p.ack_seq) \in Nat
      BY <2>4, DistanceType DEF TypeOK, RequesterTypeOK
    <2> HIDE DEF p
    <2>7. UpAcked(p.ack_seq) = r_sent - Len(r_resend_buffer) + RAcked(p)
      BY <2>5 DEF UpAcked, UpFirst
    <2>8. RAcked(p) <= Len(r_resend_buffer)
      <3>1. EGot \in Nat /\ r_sent \in Nat /\ Len(r_resend_buffer) \in Nat
        BY UpTypes
      <3> QED
        BY <2>3, <2>4, <2>5, <2>6, <2>7, <3>1
    <2> QED
      BY <2>8 DEF p
  <1> QED
    BY <1>1, LinkInvariant, LinkTypeCorrect, PTL

\* What the endpoint has not accepted is still in the requester's resend buffer.
THEOREM UpNeverLost == Spec => []UpRecoverable
  <1>1. TypeOK /\ LinkInv => UpRecoverable
    <2> SUFFICES ASSUME TypeOK, LinkInv, NEW i \in EGot .. r_sent - 1
                 PROVE  i \in Indices(r_resend_buffer)
      BY DEF UpRecoverable, EGot
    <2>1. i \in r_sent - Len(r_resend_buffer) .. r_sent - 1
      BY Bounds, UpTypes DEF UpFirst
    <2> QED
      BY <2>1, SuffixBounds, UpTypes DEF LinkInv, UpData, TypeOK, RequesterTypeOK
  <1> QED
    BY <1>1, LinkInvariant, LinkTypeCorrect, PTL

\* In compatibility mode, where no ACK-only packet exists, what the requester has
\* not accepted is still in the endpoint's resend buffer.  (In 1.1 mode it is not:
\* see the run link_lost.)
THEOREM DownNeverLost ==
  ASSUME CompatMode PROVE Spec => []DownRecoverable
  <1>1. TypeOK /\ LinkInv => DownRecoverable
    <2> SUFFICES ASSUME TypeOK, LinkInv, NEW i \in RGot .. e_sent - 1
                 PROVE  i \in Indices(e_resend_buffer)
      BY DEF DownRecoverable, RGot
    <2>1. DownFirst <= RGot
      BY Zenon DEF LinkInv, DownAcks
    <2>2. i \in e_sent - Len(e_resend_buffer) .. e_sent - 1
      BY <2>1, DownTypes DEF DownFirst
    <2> QED
      BY <2>2, SuffixBounds, DownTypes DEF LinkInv, DownData, TypeOK, EndpointTypeOK
  <1> QED
    BY <1>1, LinkInvariant, LinkTypeCorrect, PTL

\* The endpoint hands the requester's packets over in order and exactly once: the
\* link implements ReliableLink towards the endpoint, whatever is lost, resent,
\* delayed or wrapped around (fetchTLOEHeader against send_packet and resend).
THEOREM UpDeliveryReliable == Spec => UpReliable
  <1>1. Init => UpChannel!Init
    BY Zenon DEF Init, UpChannel!Init
  <1>2. TypeOK /\ LinkInv /\ [Next]_vars => [UpChannel!Next]_<<r_sent, e_delivered>>
    <2> SUFFICES ASSUME TypeOK, LinkInv, [Next]_vars
                 PROVE  [UpChannel!Next]_<<r_sent, e_delivered>>
      OBVIOUS
    <2>1. CASE RSendPacket
      BY <2>1, Zenon DEF RSendPacket, recvVars, UpChannel!Next, UpChannel!Send
    <2>2. CASE EReceive
      <3>1. r_sent' = r_sent
        BY <2>2 DEF EReceive, reqVars
      <3>2. CASE /\ Head(up).idx = EGot /\ EGot < r_sent
                 /\ e_delivered' = Append(e_delivered, Head(up).idx)
        BY <3>1, <3>2, Zenon DEF UpChannel!Next, UpChannel!Deliver, EGot
      <3>3. CASE UNCHANGED e_delivered
        BY <3>1, <3>3, Zenon
      <3> QED
        BY <2>2, <3>2, <3>3, Bounds, ReceiveCases, Zenon DEF LinkInv
    <2>3. CASE ~RSendPacket /\ ~EReceive
      <3>1. UNCHANGED <<r_sent, e_delivered>>
        BY <2>3, Zenon
        DEF vars, Next, RGetPacket, RResend, RReceive, EHandleOp, ESendPacket, ESendAckOnly,
            EDropPacket, EStartResend, EDoResend, EResendTimeout, LoseUp, LoseDown,
            reqVars, recvVars
      <3> QED
        BY <3>1
    <2> QED
      BY <2>1, <2>2, <2>3
  <1> QED
    BY <1>1, <1>2, LinkInvariant, LinkTypeCorrect, PTL DEF Spec, UpReliable, UpChannel!Spec

\* The same of the endpoint's packets at the requester (process_packets against the
\* builder and the resend handler), ACK-only packets included.
THEOREM DownDeliveryReliable == Spec => DownReliable
  <1>1. Init => DownChannel!Init
    BY Zenon DEF Init, DownChannel!Init
  <1>2. TypeOK /\ LinkInv /\ [Next]_vars => [DownChannel!Next]_<<e_sent, r_delivered>>
    <2> SUFFICES ASSUME TypeOK, LinkInv, [Next]_vars
                 PROVE  [DownChannel!Next]_<<e_sent, r_delivered>>
      OBVIOUS
    <2>1. CASE ESendPacket
      BY <2>1, Zenon DEF ESendPacket, reqVars, DownChannel!Next, DownChannel!Send
    <2>2. CASE RReceive
      <3>1. e_sent' = e_sent
        BY <2>2 DEF RReceive, buildVars
      <3>2. CASE /\ Head(down).idx = RGot /\ RGot < e_sent
                 /\ r_delivered' = Append(r_delivered, Head(down).idx)
        BY <3>1, <3>2, Zenon DEF DownChannel!Next, DownChannel!Deliver, RGot
      <3>3. CASE UNCHANGED r_delivered
        BY <3>1, <3>3, Zenon
      <3> QED
        BY <2>2, <3>2, <3>3, Bounds, RReceiveCases, Zenon DEF LinkInv
    <2>3. CASE ~ESendPacket /\ ~RReceive
      <3>1. UNCHANGED <<e_sent, r_delivered>>
        BY <2>3, Zenon
        DEF vars, Next, RSendPacket, RGetPacket, RResend, EReceive, EHandleOp, ESendAckOnly,
            EDropPacket, EStartResend, EDoResend, EResendTimeout, LoseUp, LoseDown,
            reqVars, buildVars
      <3> QED
        BY <3>1
    <2> QED
      BY <2>1, <2>2, <2>3
  <1> QED
    BY <1>1, <1>2, LinkInvariant, LinkTypeCorrect, PTL DEF Spec, DownReliable, DownChannel!Spec

=============================================================================
