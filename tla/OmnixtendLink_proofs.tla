------------------------- MODULE OmnixtendLink_proofs -------------------------
(***************************************************************************)
(* Theorems about OmnixtendLink, for every value of its constants.         *)
(***************************************************************************)
EXTENDS OmnixtendLink, SequenceTheorems, TLAPS

\* A sequence number that is incremented wraps around inside its range.
LEMMA IncrType == ASSUME NEW s \in SeqNum PROVE Incr(s) \in SeqNum
  BY LinkAssumption DEF SeqNum, Incr

\* The head and the tail of a non-empty queue.
LEMMA HeadTail ==
  ASSUME NEW S, NEW q \in Seq(S), q # <<>>
  PROVE  Head(q) \in S /\ Tail(q) \in Seq(S)
  OBVIOUS

\* Appending an element of S to a queue over S.
LEMMA AppendType ==
  ASSUME NEW S, NEW q \in Seq(S), NEW x \in S
  PROVE  Append(q, x) \in Seq(S)
  OBVIOUS

\* Init establishes the types.
LEMMA TypeInit == Init => TypeOK
  <1> SUFFICES ASSUME Init PROVE TypeOK
    OBVIOUS
  <1>1. MaxSeq \in SeqNum /\ 0 \in SeqNum
    BY LinkAssumption DEF MaxSeq, SeqNum
  <1>2. \A S : <<>> \in Seq(S)
    OBVIOUS
  <1>3. e_slip \in 0 .. ResendSlip /\ r_sent \in Nat /\ e_sent \in Nat
    BY LinkAssumption DEF Init
  <1>4. RequesterTypeOK
    BY <1>1, <1>2, <1>3, Zenon DEF Init, RequesterTypeOK
  <1>5. EndpointTypeOK
    BY <1>1, <1>2, <1>3, Zenon DEF Init, EndpointTypeOK
  <1> QED
    BY <1>2, <1>4, <1>5, Zenon DEF Init, TypeOK

\* A step that leaves a component alone keeps its types.
LEMMA RequesterUnchanged ==
  ASSUME RequesterTypeOK, UNCHANGED reqVars PROVE RequesterTypeOK'
  BY Zenon DEF reqVars, RequesterTypeOK

\* The same of the endpoint's registers.
LEMMA EndpointUnchanged ==
  ASSUME EndpointTypeOK, UNCHANGED <<recvVars, buildVars, resendVars>>
  PROVE  EndpointTypeOK'
  BY Zenon DEF recvVars, buildVars, resendVars, EndpointTypeOK

\* The requester's packets and the endpoint's headers are packets.
LEMMA HeaderType ==
  ASSUME EndpointTypeOK, NEW t \in {"Normal", "AckOnly"}
  PROVE  EHeader(t) \in Packet
  BY DEF EndpointTypeOK, EHeader, Packet

\* What the receiver hands to the sender is an operation.
LEMMA OpType ==
  ASSUME EndpointTypeOK, NEW p \in Packet
  PROVE  EOpFor(p) \in Op
  BY DEF EndpointTypeOK, EOpFor, Packet, Op

\* send_packet keeps the types.
LEMMA SendPacketType ==
  ASSUME TypeOK, RSendPacket PROVE TypeOK'
  <1> DEFINE pkt == [type |-> IF r_sent = 0 /\ ~CompatMode THEN "Open" ELSE "Normal",
                     seq |-> r_next_tx, ack_seq |-> r_last_rx,
                     ack |-> r_last_ack_status, idx |-> r_sent]
  <1>1. pkt \in Packet
    BY DEF TypeOK, RequesterTypeOK, Packet
  <1> HIDE DEF pkt
  <1>2. r_packet_data' = <<pkt>> /\ r_resend_buffer' = Append(r_resend_buffer, pkt)
    BY DEF RSendPacket, pkt
  <1>3. r_packet_data' \in Seq(Packet) /\ r_resend_buffer' \in Seq(Packet)
    BY <1>1, <1>2 DEF TypeOK, RequesterTypeOK
  <1>4. r_next_tx' \in SeqNum
    BY IncrType DEF RSendPacket, TypeOK, RequesterTypeOK
  <1>5. r_sent' \in Nat
    BY DEF RSendPacket, TypeOK, RequesterTypeOK
  <1>6. RequesterTypeOK'
    BY <1>3, <1>4, <1>5, Zenon DEF RSendPacket, TypeOK, RequesterTypeOK
  <1> QED
    BY <1>6, EndpointUnchanged, Zenon DEF RSendPacket, TypeOK

\* get_packet keeps the types.
LEMMA GetPacketType ==
  ASSUME TypeOK, RGetPacket PROVE TypeOK'
  <1>1. up' \in Seq(Packet) /\ r_packet_data' \in Seq(Packet) /\ r_resend_data' \in Seq(Packet)
    <2>1. CASE r_resend_data # <<>>
      <3>1. Head(r_resend_data) \in Packet /\ Tail(r_resend_data) \in Seq(Packet)
        BY <2>1, HeadTail DEF TypeOK, RequesterTypeOK
      <3>2. /\ up' = Append(up, Head(r_resend_data))
            /\ r_resend_data' = Tail(r_resend_data)
            /\ r_packet_data' = r_packet_data
        BY <2>1, Zenon DEF RGetPacket
      <3> QED
        BY <3>1, <3>2 DEF TypeOK, RequesterTypeOK
    <2>2. CASE r_resend_data = <<>>
      <3>1. Head(r_packet_data) \in Packet
        BY <2>2, HeadTail DEF RGetPacket, TypeOK, RequesterTypeOK
      <3> QED
        BY <2>2, <3>1, SMTT(40) DEF RGetPacket, TypeOK, RequesterTypeOK
    <2> QED
      BY <2>1, <2>2
  <1>2. RequesterTypeOK'
    BY <1>1, Zenon DEF RGetPacket, TypeOK, RequesterTypeOK
  <1> QED
    BY <1>1, <1>2, EndpointUnchanged, Zenon DEF RGetPacket, TypeOK

\* resend keeps the types.
LEMMA ResendType ==
  ASSUME TypeOK, RResend PROVE TypeOK'
  <1>1. RequesterTypeOK'
    BY Zenon DEF RResend, RResendCopies, TypeOK, RequesterTypeOK
  <1> QED
    BY <1>1, EndpointUnchanged, Zenon DEF RResend, RResendCopies, TypeOK

\* process_packets keeps the types, whether it accepts the packet or not.
LEMMA ReceiveType ==
  ASSUME TypeOK, RReceive PROVE TypeOK'
  <1> DEFINE p == Head(down)
  <1>1. p \in Packet /\ down' \in Seq(Packet)
    BY HeadTail DEF RReceive, TypeOK
  <1> HIDE DEF p
  <1>2. p.seq \in SeqNum /\ p.ack_seq \in SeqNum /\ p.idx \in Nat
    BY <1>1 DEF Packet
  <1>3. ASSUME RAccept(p) PROVE RequesterTypeOK'
    <2>1. r_next_rx' \in SeqNum
      BY <1>3, IncrType DEF RAccept, TypeOK, RequesterTypeOK
    <2>2. r_delivered' \in Seq(Nat)
      <3>1. \/ r_delivered' = r_delivered
            \/ r_delivered' = Append(r_delivered, p.idx)
        BY <1>3, Zenon DEF RAccept
      <3>2. Append(r_delivered, p.idx) \in Seq(Nat)
        BY <1>2, AppendType, Zenon DEF TypeOK, RequesterTypeOK
      <3> QED
        BY <3>1, <3>2, Zenon DEF TypeOK, RequesterTypeOK
    <2>3. RAcked(p) \in Nat
      BY <1>2, LinkAssumption DEF RAcked, SeqNum, TypeOK, RequesterTypeOK
    <2>4. r_resend_buffer' \in Seq(Packet)
      <3>1. \A k \in RAcked(p) + 1 .. Len(r_resend_buffer) : r_resend_buffer[k] \in Packet
        BY <2>3 DEF TypeOK, RequesterTypeOK
      <3>2. Len(r_resend_buffer) \in Nat /\ r_resend_buffer \in Seq(Packet)
        BY DEF TypeOK, RequesterTypeOK
      <3>3. SubSeq(r_resend_buffer, RAcked(p) + 1, Len(r_resend_buffer)) \in Seq(Packet)
        BY <2>3, <3>1, <3>2, SubSeqProperties
      <3> QED
        BY <1>3, <3>3 DEF RAccept
    <2>5. r_last_ack_status' \in BOOLEAN /\ r_resend_outstanding' \in BOOLEAN
      BY <1>3, Zenon DEF RAccept, TypeOK, RequesterTypeOK
    <2> QED
      BY <1>2, <1>3, <2>1, <2>2, <2>4, <2>5, Zenon
      DEF RReceive, RAccept, TypeOK, RequesterTypeOK
  <1>4. ASSUME RReject(p) PROVE RequesterTypeOK'
    BY <1>4, Zenon DEF RReceive, RReject, TypeOK, RequesterTypeOK
  <1>5. RequesterTypeOK'
    BY <1>3, <1>4, Zenon DEF RReceive, p
  <1> QED
    BY <1>1, <1>5, EndpointUnchanged, Zenon DEF RReceive, TypeOK

\* fetchTLOEHeader keeps the types.
LEMMA EndpointReceiveType ==
  ASSUME TypeOK, EReceive PROVE TypeOK'
  <1> DEFINE p == Head(up)
  <1>1. p \in Packet /\ up' \in Seq(Packet)
    BY HeadTail DEF EReceive, TypeOK
  <1>2. EOpFor(p) \in Op /\ p.idx \in Nat
    BY <1>1, OpType DEF TypeOK, Packet
  <1>3. /\ e_active' \in BOOLEAN
        /\ e_ops' = e_ops \/ e_ops' = Append(e_ops, EOpFor(p))
        /\ e_next_rx' = e_next_rx \/ e_next_rx' = Incr(e_next_rx)
        /\ e_delivered' = e_delivered \/ e_delivered' = Append(e_delivered, p.idx)
    BY Zenon DEF EReceive, recvVars, TypeOK, EndpointTypeOK
  <1> HIDE DEF p
  <1>4. e_ops' \in Seq(Op) /\ e_delivered' \in Seq(Nat)
    <2>1. Append(e_ops, EOpFor(p)) \in Seq(Op) /\ Append(e_delivered, p.idx) \in Seq(Nat)
      BY <1>2, AppendType, Zenon DEF TypeOK, EndpointTypeOK
    <2> QED
      BY <1>3, <2>1, Zenon DEF TypeOK, EndpointTypeOK
  <1>5. e_next_rx' \in SeqNum
    BY <1>3, IncrType DEF TypeOK, EndpointTypeOK
  <1>6. EndpointTypeOK'
    BY <1>3, <1>4, <1>5, Zenon DEF EReceive, TypeOK, EndpointTypeOK, buildVars, resendVars
  <1> QED
    BY <1>1, <1>6, RequesterUnchanged, Zenon DEF EReceive, TypeOK

\* The sender's rules on opIn keep the types.
LEMMA HandleOpType ==
  ASSUME TypeOK, EHandleOp PROVE TypeOK'
  <1> DEFINE op == Head(e_ops)
  <1>1. op \in Op /\ e_ops' \in Seq(Op)
    BY HeadTail DEF EHandleOp, TypeOK, EndpointTypeOK
  <1>2. op.seq \in SeqNum /\ op.ack_seq \in SeqNum
    BY <1>1 DEF Op
  <1>3. /\ e_ack' \in BOOLEAN /\ e_doResend' \in BOOLEAN /\ e_resend_timer' \in BOOLEAN
        /\ e_last_rx' = op.seq \/ e_last_rx' = e_last_rx
        /\ e_ackd_seq' = op.ack_seq \/ e_ackd_seq' = e_ackd_seq
    BY Zenon DEF EHandleOp, ELastRx, EAckdSeq, TypeOK, EndpointTypeOK
  <1> HIDE DEF op
  <1>4. e_last_rx' \in SeqNum /\ e_ackd_seq' \in SeqNum
    BY <1>2, <1>3, Zenon DEF TypeOK, EndpointTypeOK
  <1>5. EndpointTypeOK'
    BY <1>1, <1>3, <1>4, Zenon DEF EHandleOp, TypeOK, EndpointTypeOK
  <1> QED
    BY <1>5, RequesterUnchanged, Zenon DEF EHandleOp, TypeOK

\* The count of packets that may overtake a resend stays in its range.
LEMMA ChooseNormalType ==
  ASSUME EndpointTypeOK, EChooseNormal PROVE e_slip' \in 0 .. ResendSlip
  BY LinkAssumption DEF EndpointTypeOK, EChooseNormal

\* The builder keeps the types, for packets and for bare acknowledgements.
LEMMA EndpointSendType ==
  ASSUME TypeOK, ESendPacket \/ ESendAckOnly PROVE TypeOK'
  <1>1. EHeader("Normal") \in Packet /\ EHeader("AckOnly") \in Packet
    BY HeaderType DEF TypeOK
  <1>2. CASE ESendPacket
    <2>1. down' = Append(down, EHeader("Normal"))
          /\ e_resend_buffer' = Append(e_resend_buffer, EHeader("Normal"))
      BY <1>2 DEF ESendPacket
    <2>2. down' \in Seq(Packet) /\ e_resend_buffer' \in Seq(Packet)
      BY <1>1, <2>1 DEF TypeOK, EndpointTypeOK
    <2>3. e_next_tx' \in SeqNum /\ e_sent' \in Nat
      BY <1>2, IncrType DEF ESendPacket, TypeOK, EndpointTypeOK
    <2>4. e_slip' \in 0 .. ResendSlip
      BY <1>2, ChooseNormalType DEF ESendPacket, TypeOK
    <2>5. EndpointTypeOK'
      BY <1>2, <2>2, <2>3, <2>4, Zenon DEF ESendPacket, TypeOK, EndpointTypeOK, recvVars
    <2> QED
      BY <1>2, <2>2, <2>5, RequesterUnchanged, Zenon DEF ESendPacket, TypeOK
  <1>3. CASE ESendAckOnly
    <2>1. down' = Append(down, EHeader("AckOnly"))
      BY <1>3 DEF ESendAckOnly
    <2>2. down' \in Seq(Packet)
      BY <1>1, <2>1 DEF TypeOK
    <2>3. e_slip' \in 0 .. ResendSlip
      BY <1>3, ChooseNormalType DEF ESendAckOnly, TypeOK
    <2>4. EndpointTypeOK'
      BY <1>3, <2>3, Zenon DEF ESendAckOnly, TypeOK, EndpointTypeOK, recvVars
    <2> QED
      BY <1>3, <2>2, <2>4, RequesterUnchanged, Zenon DEF ESendAckOnly, TypeOK
  <1> QED
    BY <1>2, <1>3

\* The rules of the resend handler keep the types.
LEMMA EndpointResendType ==
  ASSUME TypeOK, EDropPacket \/ EStartResend \/ EDoResend \/ EResendTimeout
  PROVE  TypeOK'
  <1>1. CASE EDropPacket
    <2>1. e_first_element' \in SeqNum
      BY <1>1, IncrType DEF EDropPacket, TypeOK, EndpointTypeOK
    <2>2. e_resend_buffer' \in Seq(Packet)
      BY <1>1, HeadTail DEF EDropPacket, TypeOK, EndpointTypeOK
    <2>3. EndpointTypeOK'
      BY <1>1, <2>1, <2>2, Zenon DEF EDropPacket, TypeOK, EndpointTypeOK, recvVars, buildVars
    <2> QED
      BY <1>1, <2>3, RequesterUnchanged, Zenon DEF EDropPacket, TypeOK
  <1>2. CASE EStartResend
    <2>1. e_slip' \in 0 .. ResendSlip
      BY <1>2, LinkAssumption DEF EStartResend
    <2>2. EndpointTypeOK'
      BY <1>2, <2>1, Zenon DEF EStartResend, TypeOK, EndpointTypeOK, recvVars, buildVars
    <2> QED
      BY <1>2, <2>2, RequesterUnchanged, Zenon DEF EStartResend, TypeOK
  <1>3. CASE EDoResend
    <2>1. Head(e_resending) \in Packet /\ e_resending' \in Seq(Packet)
      BY <1>3, HeadTail DEF EDoResend, TypeOK, EndpointTypeOK
    <2>2. down' = Append(down, Head(e_resending))
      BY <1>3 DEF EDoResend
    <2>3. down' \in Seq(Packet)
      BY <2>1, <2>2 DEF TypeOK
    <2>4. e_slip' \in 0 .. ResendSlip
      BY <1>3, LinkAssumption DEF EDoResend
    <2>5. EndpointTypeOK'
      BY <1>3, <2>1, <2>4, Zenon DEF EDoResend, ETimerAfterResend, TypeOK, EndpointTypeOK, recvVars, buildVars
    <2> QED
      BY <1>3, <2>3, <2>5, RequesterUnchanged, Zenon DEF EDoResend, TypeOK
  <1>4. CASE EResendTimeout
    <2>1. EndpointTypeOK'
      BY <1>4, Zenon DEF EResendTimeout, TypeOK, EndpointTypeOK, recvVars, buildVars
    <2> QED
      BY <1>4, <2>1, RequesterUnchanged, Zenon DEF EResendTimeout, TypeOK
  <1> QED
    BY <1>1, <1>2, <1>3, <1>4

\* Losing a frame keeps the types.
LEMMA LoseType ==
  ASSUME TypeOK, LoseUp \/ LoseDown PROVE TypeOK'
  <1>1. up' \in Seq(Packet) /\ down' \in Seq(Packet)
    BY HeadTail DEF LoseUp, LoseDown, TypeOK
  <1> QED
    BY <1>1, RequesterUnchanged, EndpointUnchanged, Zenon DEF LoseUp, LoseDown, TypeOK

\* Every register, header field and queue of both sides keeps its type
\* (Connection of connection.rs, the registers of the endpoint's modules).
THEOREM LinkTypeCorrect == Spec => []TypeOK
  <1>1. Init => TypeOK
    BY TypeInit
  <1>2. TypeOK /\ [Next]_vars => TypeOK'
    <2> SUFFICES ASSUME TypeOK, [Next]_vars PROVE TypeOK'
      OBVIOUS
    <2>1. CASE UNCHANGED vars
      BY <2>1, RequesterUnchanged, EndpointUnchanged, Zenon DEF vars, TypeOK
    <2>2. CASE Next
      BY <2>2, SendPacketType, GetPacketType, ResendType, ReceiveType,
         EndpointReceiveType, HandleOpType, EndpointSendType, EndpointResendType,
         LoseType, Zenon DEF Next
    <2> QED
      BY <2>1, <2>2
  <1> QED
    BY <1>1, <1>2, PTL DEF Spec

-----------------------------------------------------------------------------
(* The endpoint's resend logic never falls asleep.  ResendArmed looks only at *)
(* stored packets; it is inductive once the connection is known to be active *)
(* and the buffer's content is left out.                                      *)

PendingAckOp == \E k \in DOMAIN e_ops : e_ops[k].kind \in {"Packet", "Ack"}

Armed == e_resend_timer \/ e_doResend \/ e_resending # <<>> \/ PendingAckOp

ArmedInv == e_delivered # <<>> => e_active /\ Armed

\* An operation appended to the FIFO is pending, and the ones before it stay so.
LEMMA PendingAppend ==
  ASSUME NEW o \in Op, e_ops \in Seq(Op), e_ops' = Append(e_ops, o)
  PROVE  /\ PendingAckOp => PendingAckOp'
         /\ o.kind \in {"Packet", "Ack"} => PendingAckOp'
  <1>1. \A k \in DOMAIN e_ops : k \in DOMAIN e_ops' /\ e_ops'[k] = e_ops[k]
    OBVIOUS
  <1>2. Len(e_ops) + 1 \in DOMAIN e_ops' /\ e_ops'[Len(e_ops) + 1] = o
    OBVIOUS
  <1> QED
    BY <1>1, <1>2, Zenon DEF PendingAckOp

\* Removing the head leaves every other operation pending.
LEMMA PendingTail ==
  ASSUME e_ops \in Seq(Op), e_ops # <<>>, e_ops' = Tail(e_ops),
         PendingAckOp, Head(e_ops).kind \notin {"Packet", "Ack"}
  PROVE  PendingAckOp'
  <1>1. PICK k \in DOMAIN e_ops : e_ops[k].kind \in {"Packet", "Ack"}
    BY DEF PendingAckOp
  <1>2. k # 1
    BY <1>1
  <1>3. k - 1 \in DOMAIN e_ops' /\ e_ops'[k - 1] = e_ops[k]
    BY <1>1, <1>2
  <1> QED
    BY <1>1, <1>3, Zenon DEF PendingAckOp

\* A step that touches neither the FIFO nor the resend registers keeps ArmedInv.
LEMMA ArmedUnchanged ==
  ASSUME ArmedInv,
         UNCHANGED <<e_active, e_ops, e_delivered, e_doResend, e_resend_timer, e_resending>>
  PROVE  ArmedInv'
  BY Zenon DEF ArmedInv, Armed, PendingAckOp

\* A received packet keeps ArmedInv: the first accepted one is pending in the FIFO.
LEMMA ArmedReceive ==
  ASSUME TypeOK, ArmedInv, EReceive PROVE ArmedInv'
  <1> DEFINE p == Head(up)
  <1>1. CASE EAcceptsConnection(p)
    <2>1. EOpFor(p) \in Op
      BY HeadTail, OpType DEF EReceive, TypeOK
    <2>2. e_active' = TRUE /\ e_ops' = Append(e_ops, EOpFor(p))
      BY <1>1, Zenon DEF EReceive
    <2>3. UNCHANGED resendVars
      BY DEF EReceive
    <2>4. CASE EOpFor(p).kind = "Packet"
      BY <2>1, <2>2, <2>4, PendingAppend, Zenon DEF ArmedInv, Armed, TypeOK, EndpointTypeOK
    <2>5. CASE EOpFor(p).kind # "Packet"
      <3>1. e_delivered' = e_delivered
        BY <1>1, <2>5, Zenon DEF EReceive
      <3> QED
        BY <2>1, <2>2, <2>3, <3>1, PendingAppend, Zenon
        DEF ArmedInv, Armed, TypeOK, EndpointTypeOK, resendVars
    <2> QED
      BY <2>4, <2>5
  <1>2. CASE ~EAcceptsConnection(p)
    <2>1. UNCHANGED <<recvVars, resendVars>>
      BY <1>2, Zenon DEF EReceive
    <2> QED
      BY <2>1, ArmedUnchanged, Zenon DEF recvVars, resendVars
  <1> QED
    BY <1>1, <1>2

\* An operation that leaves the FIFO starts the timer or asks for a resend.
LEMMA ArmedHandleOp ==
  ASSUME TypeOK, ArmedInv, EHandleOp PROVE ArmedInv'
  <1> DEFINE op == Head(e_ops)
  <1>1. CASE op.kind \in {"Packet", "Ack"}
    <2>1. \/ op.ack /\ e_resend_timer'
          \/ e_resending # <<>> /\ e_resending' = e_resending
          \/ e_doResend'
      BY <1>1, Zenon DEF EHandleOp, CarriesAck
    <2>2. UNCHANGED <<e_active, e_delivered>>
      BY DEF EHandleOp
    <2> QED
      BY <2>1, <2>2, Zenon DEF ArmedInv, Armed
  <1>2. CASE op.kind \notin {"Packet", "Ack"}
    <2>1. PendingAckOp => PendingAckOp'
      BY <1>2, PendingTail, Zenon DEF EHandleOp, TypeOK, EndpointTypeOK
    <2>2. (e_doResend => e_doResend') /\ (e_resend_timer => e_resend_timer')
      BY Zenon DEF EHandleOp
    <2>3. UNCHANGED <<e_active, e_delivered, e_resending>>
      BY DEF EHandleOp
    <2> QED
      BY <2>1, <2>2, <2>3, Zenon DEF ArmedInv, Armed
  <1> QED
    BY <1>1, <1>2

\* The resend handler's own rules pass the duty to resend on.
LEMMA ArmedResend ==
  ASSUME TypeOK, ArmedInv, EStartResend \/ EDoResend \/ EResendTimeout
  PROVE  ArmedInv'
  <1>1. UNCHANGED <<e_active, e_ops, e_delivered>>
    BY DEF EStartResend, EDoResend, EResendTimeout, recvVars
  <1>2. CASE EStartResend
    BY <1>1, <1>2, Zenon DEF EStartResend, ArmedInv, Armed
  <1>3. CASE EDoResend
    <2>1. Len(e_resending) # 1 => Tail(e_resending) # <<>>
      <3>1. e_resending \in Seq(Packet) /\ e_resending # <<>>
        BY <1>3 DEF EDoResend, TypeOK, EndpointTypeOK
      <3>2. Len(Tail(e_resending)) = Len(e_resending) - 1 /\ Len(e_resending) \in Nat
        BY <3>1
      <3>3. Len(e_resending) # 1 => Len(Tail(e_resending)) # 0
        BY <3>2
      <3>4. Tail(e_resending) = <<>> => Len(Tail(e_resending)) = 0
        BY EmptySeq, Zenon
      <3> QED
        BY <3>3, <3>4, Zenon
    <2> QED
      BY <1>1, <1>3, <2>1, Zenon DEF EDoResend, ETimerAfterResend, ArmedInv, Armed
  <1>4. CASE EResendTimeout
    <2>1. e_resending' = e_resending
      BY <1>4 DEF EResendTimeout
    <2>2. e_active => e_doResend' \/ e_resending # <<>>
      BY <1>4, Zenon DEF EResendTimeout
    <2> QED
      BY <1>1, <2>1, <2>2, Zenon DEF ArmedInv, Armed
  <1> QED
    BY <1>2, <1>3, <1>4

\* From the first accepted packet on, a stored packet of the endpoint always has
\* a running timer, a requested or running resend, or an operation about to
\* start one (setAck, start_resend, do_resend, forwardTimeout): no schedule of
\* acknowledgements, NAKs, timeouts and resends switches retransmission off.
THEOREM ResendNeverSleeps == Spec => []ResendArmed
  <1>1. Init => ArmedInv
    BY Zenon DEF Init, ArmedInv
  <1>2. TypeOK /\ ArmedInv /\ [Next]_vars => ArmedInv'
    <2> SUFFICES ASSUME TypeOK, ArmedInv, [Next]_vars PROVE ArmedInv'
      OBVIOUS
    <2>1. CASE UNCHANGED vars
      BY <2>1, ArmedUnchanged, Zenon DEF vars, recvVars, resendVars
    <2>2. CASE RSendPacket \/ RGetPacket \/ RResend \/ RReceive \/ LoseUp \/ LoseDown
      BY <2>2, ArmedUnchanged, Zenon
      DEF RSendPacket, RGetPacket, RResend, RReceive, LoseUp, LoseDown, recvVars, resendVars
    <2>3. CASE ESendPacket \/ ESendAckOnly \/ EDropPacket
      BY <2>3, ArmedUnchanged, Zenon DEF ESendPacket, ESendAckOnly, EDropPacket, recvVars
    <2> QED
      BY <2>1, <2>2, <2>3, ArmedReceive, ArmedHandleOp, ArmedResend, Zenon DEF Next
  <1>3. ArmedInv => ResendArmed
    BY Zenon DEF ArmedInv, Armed, PendingAckOp, ResendArmed
  <1> QED
    BY <1>1, <1>2, <1>3, LinkTypeCorrect, PTL DEF Spec

=============================================================================
