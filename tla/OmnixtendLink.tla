---------------------------- MODULE OmnixtendLink ----------------------------
(***************************************************************************)
(* The OmniXtend link layer of one connection: the requester library       *)
(* (host_software/omnixtend-rs, connection.rs and tick.rs) and the memory  *)
(* endpoint (OmnixtendReceiver, OmnixtendSender, OmnixtendSenderPacket-    *)
(* Builder and OmnixtendSenderResend) exchange Ethernet frames over a      *)
(* point-to-point wire that keeps their order and may lose them.  Both     *)
(* sides number their packets modulo 2^22, acknowledge cumulatively and    *)
(* go back to the first unacknowledged packet after a NAK or a timeout.    *)
(*                                                                         *)
(* Variables of the requester start with r_, of the endpoint with e_.      *)
(* Timeouts are choices: a timer that runs may expire at any time.  What a *)
(* packet carries for the layers above is its index in the order in which  *)
(* its sender numbered it (field idx, a history value no guard reads).     *)
(***************************************************************************)
EXTENDS Integers, Sequences

CONSTANTS
    CompatMode,    \* OMNIXTEND 1.0 endpoints: no Open packet, no ACK-only packet
    SeqMod,        \* number of sequence numbers (2^22)
    Window,        \* bound on the requester's unacknowledged packets
    ResendSlots,   \* packets that fit the endpoint's resend buffer
    ResendSlip,    \* new packets that may overtake a resend that has started
    WireCap,       \* bound on the frames on the wire, per direction
    OpCap,         \* depth of the receiver-to-sender FIFO of the endpoint
    MaxUp,         \* bound on the packets the requester numbers
    MaxDown        \* bound on the packets the endpoint numbers

ASSUME LinkAssumption ==
    /\ CompatMode \in BOOLEAN
    /\ SeqMod \in Nat /\ SeqMod > 2
    /\ Window \in Nat \ {0} /\ ResendSlots \in Nat \ {0}
    /\ 2 * Window <= SeqMod /\ ResendSlip \in Nat
    /\ 2 * (ResendSlots + ResendSlip) <= SeqMod
    /\ WireCap \in Nat \ {0} /\ OpCap \in Nat \ {0}
    /\ MaxUp \in Nat /\ MaxDown \in Nat

VARIABLES
    r_next_rx, r_last_rx, r_next_tx, r_we_acked, r_first_in_resend,
    r_last_ack_status, r_send_outstanding, r_resend_outstanding,
    r_packet_data,     \* the packet built and not yet taken by the socket
    r_resend_data,     \* copies queued by resend()
    r_resend_buffer,   \* packets sent and not yet acknowledged
    e_active,          \* the connection's status differs from IDLE
    e_next_rx,         \* OmnixtendReceiver
    e_ops,             \* operations on their way from receiver to sender
    e_ack, e_last_rx, e_last_acked, e_next_tx, \* PacketBuilder
    e_ackd_seq, e_first_element, e_doResend, e_resend_timer,  \* SenderResend
    e_resend_buffer,   \* packets between packet_starts.first and write_pointer
    e_resending,       \* packets between resend_pointer_cur and _end
    e_slip,            \* new packets that may still overtake that resend
    up, down,          \* the wire, towards the endpoint and towards the requester
    r_sent, e_sent,              \* history: packets numbered by each side
    r_delivered, e_delivered     \* history: indices handed to the layer above

reqVars == <<r_next_rx, r_last_rx, r_next_tx, r_we_acked, r_first_in_resend,
             r_last_ack_status, r_send_outstanding, r_resend_outstanding,
             r_packet_data, r_resend_data, r_resend_buffer,
             r_sent, r_delivered>>
recvVars == <<e_active, e_next_rx, e_ops, e_delivered>>
buildVars == <<e_ack, e_last_rx, e_last_acked, e_next_tx, e_sent>>
resendVars == <<e_ackd_seq, e_first_element, e_doResend, e_resend_timer,
                e_resend_buffer, e_resending, e_slip>>
vars == <<reqVars, recvVars, buildVars, resendVars, up, down>>

-----------------------------------------------------------------------------
(* Sequence numbers *)

SeqNum == 0 .. SeqMod - 1
MaxSeq == SeqMod - 1

\* Faulty variant: no wrap-around.
IncrNoWrap(s) == s + 1

Incr(s) == (s + 1) % SeqMod

\* s is a number the receiver expecting next has already seen.
Behind(next, s) == (next - s) % SeqMod < SeqMod \div 2

Packet == [type : {"Open", "Normal", "AckOnly"}, seq : SeqNum, ack_seq : SeqNum,
           ack : BOOLEAN, idx : Nat]

Op == [kind : {"Packet", "Ack", "NAK", "OutOfSequenceACK"}, seq : SeqNum,
       ack_seq : SeqNum, ack : BOOLEAN]

Init ==
    /\ r_next_rx = 0 /\ r_next_tx = 0
    /\ r_last_rx = MaxSeq /\ r_we_acked = MaxSeq /\ r_first_in_resend = MaxSeq
    /\ r_last_ack_status = FALSE
    /\ r_send_outstanding = TRUE /\ r_resend_outstanding = FALSE
    /\ r_packet_data = <<>> /\ r_resend_data = <<>> /\ r_resend_buffer = <<>>
    /\ e_active = FALSE /\ e_next_rx = 0 /\ e_ops = <<>>
    /\ e_ack = FALSE /\ e_last_rx = MaxSeq /\ e_last_acked = MaxSeq
    /\ e_next_tx = 0
    /\ e_ackd_seq = MaxSeq /\ e_first_element = MaxSeq
    /\ e_doResend = FALSE /\ e_resend_timer = FALSE
    /\ e_resend_buffer = <<>> /\ e_resending = <<>> /\ e_slip = 0
    /\ up = <<>> /\ down = <<>>
    /\ r_sent = 0 /\ e_sent = 0 /\ r_delivered = <<>> /\ e_delivered = <<>>

-----------------------------------------------------------------------------
(* The requester: Tick and Connection *)

\* The part of send_required that the link layer itself raises.  Messages of
\* the application and the heartbeat may ask for a packet at any time.
RSendRequired == r_send_outstanding \/ r_we_acked # r_last_rx

\* check_send and send_packet: number a packet, keep a copy for resends and
\* put it where the socket finds it.
RSendPacket ==
    /\ r_packet_data = <<>>
    /\ r_sent < MaxUp /\ Len(r_resend_buffer) < Window
    /\ LET pkt == [type |-> IF r_sent = 0 /\ ~CompatMode THEN "Open" ELSE "Normal",
                   seq |-> r_next_tx, ack_seq |-> r_last_rx,
                   ack |-> r_last_ack_status, idx |-> r_sent]
       IN  /\ r_packet_data' = <<pkt>>
           /\ r_resend_buffer' = Append(r_resend_buffer, pkt)
    /\ r_send_outstanding' = FALSE
    /\ r_next_tx' = Incr(r_next_tx)
    /\ r_we_acked' = r_last_rx
    /\ r_sent' = r_sent + 1
    /\ UNCHANGED <<r_next_rx, r_last_rx, r_first_in_resend, r_last_ack_status,
                   r_resend_outstanding, r_resend_data, r_delivered,
                   recvVars, buildVars, resendVars, up, down>>

\* get_packet: the socket takes queued resends before the new packet.
RGetPacket ==
    /\ Len(up) < WireCap
    /\ \/ /\ r_resend_data # <<>>
          /\ up' = Append(up, Head(r_resend_data))
          /\ r_resend_data' = Tail(r_resend_data)
          /\ UNCHANGED r_packet_data
       \/ /\ r_resend_data = <<>> /\ r_packet_data # <<>>
          /\ up' = Append(up, Head(r_packet_data))
          /\ r_packet_data' = <<>>
          /\ UNCHANGED r_resend_data
    /\ UNCHANGED <<r_next_rx, r_last_rx, r_next_tx, r_we_acked, r_first_in_resend,
                   r_last_ack_status, r_send_outstanding, r_resend_outstanding,
                   r_resend_buffer, r_sent, r_delivered,
                   recvVars, buildVars, resendVars, down>>

\* Faulty variant: the oldest packet is left out.
RCopiesButFirst == Tail(r_resend_buffer)

RResendCopies == r_resend_buffer

\* check_resend and resend: after a NAK, or when nothing was heard for the
\* resend timeout, queue a copy of every unacknowledged packet.
RResend ==
    /\ r_resend_buffer # <<>> /\ r_resend_data = <<>>
    /\ r_resend_data' = RResendCopies
    /\ r_resend_outstanding' = FALSE
    /\ UNCHANGED <<r_next_rx, r_last_rx, r_next_tx, r_we_acked, r_first_in_resend,
                   r_last_ack_status, r_send_outstanding, r_packet_data,
                   r_resend_buffer, r_sent, r_delivered,
                   recvVars, buildVars, resendVars, up, down>>

\* remove_from_resend pops one packet per number up to the one the endpoint
\* acknowledged.
RAcked(p) == (p.ack_seq - r_first_in_resend) % SeqMod

\* Faulty variant: any packet that is not a duplicate is taken.
RTakesAhead(p) == p.seq = r_next_rx \/ ~Behind(r_next_rx, p.seq)

RInSequence(p) == p.seq = r_next_rx

\* process_packets on the packet expected next.  Popping an empty resend buffer
\* fails the expect() and ends the thread, hence the guard.
RAccept(p) ==
    /\ RInSequence(p)
    /\ RAcked(p) <= Len(r_resend_buffer)
    /\ r_last_rx' = p.seq
    /\ r_first_in_resend' = p.ack_seq
    /\ r_resend_buffer' = SubSeq(r_resend_buffer, RAcked(p) + 1, Len(r_resend_buffer))
    /\ r_resend_outstanding' = (r_resend_outstanding \/ ~p.ack)
    /\ IF p.type = "AckOnly"
       THEN UNCHANGED <<r_last_ack_status, r_next_rx, r_delivered>>
       ELSE /\ r_last_ack_status' = TRUE
            /\ r_next_rx' = Incr(r_next_rx)
            /\ r_delivered' = Append(r_delivered, p.idx)
    /\ UNCHANGED r_send_outstanding

\* process_packets on any other: a gap asks for a NAK (process_replicated),
\* a duplicate is ignored (process_out_of_sequence).
RReject(p) ==
    /\ ~RInSequence(p)
    /\ IF ~Behind(r_next_rx, p.seq) /\ p.type # "AckOnly"
       THEN r_last_ack_status' = FALSE /\ r_send_outstanding' = TRUE
       ELSE UNCHANGED <<r_last_ack_status, r_send_outstanding>>
    /\ UNCHANGED <<r_last_rx, r_next_rx, r_resend_outstanding, r_resend_buffer,
                   r_first_in_resend, r_delivered>>

RReceive ==
    /\ down # <<>>
    /\ down' = Tail(down)
    /\ RAccept(Head(down)) \/ RReject(Head(down))
    /\ UNCHANGED <<r_next_tx, r_we_acked, r_packet_data, r_resend_data, r_sent,
                   recvVars, buildVars, resendVars, up>>

-----------------------------------------------------------------------------
(* The endpoint *)

\* parse_pkt_header and fetchTLOEHeader.  In 1.1 mode a packet for an unknown
\* connection is dropped unless it is Open with number 0.
EAcceptsConnection(p) ==
    \/ e_active
    \/ CompatMode
    \/ p.type = "Open" /\ p.seq = 0

\* Faulty variant: a gap in the numbers goes unnoticed.
EOpIgnoringGaps(p) ==
    [kind |-> IF p.seq # e_next_rx /\ Behind(e_next_rx, p.seq) THEN "OutOfSequenceACK"
              ELSE IF p.type = "AckOnly" THEN "Ack" ELSE "Packet",
     seq |-> p.seq, ack_seq |-> p.ack_seq, ack |-> p.ack]

EOpFor(p) ==
    [kind |-> IF p.seq = e_next_rx
              THEN IF p.type = "AckOnly" THEN "Ack" ELSE "Packet"
              ELSE IF Behind(e_next_rx, p.seq) THEN "OutOfSequenceACK" ELSE "NAK",
     seq |-> p.seq, ack_seq |-> p.ack_seq, ack |-> p.ack]

EReceive ==
    /\ up # <<>>
    /\ Len(e_ops) < OpCap
    /\ up' = Tail(up)
    /\ LET p == Head(up) IN
       IF EAcceptsConnection(p)
       THEN /\ e_active' = TRUE
            /\ e_ops' = Append(e_ops, EOpFor(p))
            /\ IF EOpFor(p).kind = "Packet"
               THEN /\ e_next_rx' = Incr(e_next_rx)
                    /\ e_delivered' = Append(e_delivered, p.idx)
               ELSE UNCHANGED <<e_next_rx, e_delivered>>
       ELSE UNCHANGED recvVars
    /\ UNCHANGED <<reqVars, buildVars, resendVars, down>>

\* Faulty variants: a packet refused for a gap, or an old one, is acknowledged.
ELastRxAfterNAK(op) == IF op.kind \in {"Packet", "NAK"} THEN op.seq ELSE e_last_rx
ELastRxAfterDuplicate(op) ==
    IF op.kind \in {"Packet", "OutOfSequenceACK"} THEN op.seq ELSE e_last_rx

ELastRx(op) == IF op.kind = "Packet" THEN op.seq ELSE e_last_rx

CarriesAck(op) == op.kind \in {"Packet", "Ack"}

\* Faulty variant: one packet too many counts as acknowledged.
EAckdOneMore(op) == IF CarriesAck(op) THEN Incr(op.ack_seq) ELSE e_ackd_seq

EAckdSeq(op) == IF CarriesAck(op) THEN op.ack_seq ELSE e_ackd_seq

\* OmnixtendSender's rules on opIn, update_rx_seq of the builder and setAck of
\* the resend handler.  A duplicate changes nothing.
EHandleOp ==
    /\ e_ops # <<>>
    /\ e_ops' = Tail(e_ops)
    /\ LET op == Head(e_ops)
       IN  /\ e_ack' = IF op.kind = "Packet" THEN TRUE
                       ELSE IF op.kind = "NAK" THEN FALSE ELSE e_ack
           /\ e_last_rx' = ELastRx(op)
           /\ e_ackd_seq' = EAckdSeq(op)
           /\ e_doResend' = (e_doResend \/ (CarriesAck(op) /\ ~op.ack /\ e_resending = <<>>))
           /\ e_resend_timer' = (e_resend_timer \/ (CarriesAck(op) /\ op.ack))
    /\ UNCHANGED <<reqVars, e_active, e_next_rx, e_delivered, e_last_acked, e_next_tx,
                   e_sent, e_first_element, e_resend_buffer, e_resending, e_slip,
                   up, down>>

EHeader(type) ==
    [type |-> type, seq |-> e_next_tx, ack_seq |-> e_last_rx, ack |-> e_ack, idx |-> e_sent]

\* chooseResend is more urgent than chooseNormal, so a resend that has started
\* is overtaken only while its first flits are on their way to the arbiter.
EChooseNormal ==
    /\ Len(down) < WireCap
    /\ e_resending # <<>> => e_slip > 0
    /\ e_slip' = IF e_resending # <<>> THEN e_slip - 1 ELSE e_slip

\* A packet with messages or credits (and, in compat mode, an empty packet that
\* only acknowledges): numbered, stored for resends, sent.
ESendPacket ==
    /\ e_active
    /\ e_sent < MaxDown
    /\ Len(e_resend_buffer) < ResendSlots
    /\ EChooseNormal
    /\ down' = Append(down, EHeader("Normal"))
    /\ e_resend_buffer' = Append(e_resend_buffer, EHeader("Normal"))
    /\ e_next_tx' = Incr(e_next_tx)
    /\ e_last_acked' = e_last_rx
    /\ e_sent' = e_sent + 1
    /\ UNCHANGED <<reqVars, recvVars, e_ack, e_last_rx, e_ackd_seq, e_first_element,
                   e_doResend, e_resend_timer, e_resending, up>>

\* An acknowledgement has been due for the whole ACK timeout (ensure_timeout_
\* active, update_timeouts) and is sent without data: the packet carries the
\* number the endpoint's next packet will have, is not stored for resends and
\* does not use the number up.  Nothing is sent while that number is 0.
ESendAckOnly ==
    /\ ~CompatMode
    /\ e_active /\ e_last_rx # e_last_acked /\ e_next_tx # 0
    /\ EChooseNormal
    /\ down' = Append(down, EHeader("AckOnly"))
    /\ e_last_acked' = e_last_rx
    /\ UNCHANGED <<reqVars, recvVars, e_ack, e_last_rx, e_next_tx, e_sent,
                   e_ackd_seq, e_first_element, e_doResend, e_resend_timer,
                   e_resend_buffer, e_resending, up>>

\* drop_packets: one acknowledged packet leaves the resend buffer per step.
EDropPacket ==
    /\ e_active /\ e_ackd_seq # e_first_element
    /\ e_resend_buffer # <<>>
    /\ e_first_element' = Incr(e_first_element)
    /\ e_resend_buffer' = Tail(e_resend_buffer)
    /\ UNCHANGED <<reqVars, recvVars, buildVars, e_ackd_seq, e_doResend,
                   e_resend_timer, e_resending, e_slip, up, down>>

\* start_resend
EStartResend ==
    /\ e_active /\ e_doResend /\ e_resending = <<>>
    /\ e_resend_buffer # <<>>
    /\ e_doResend' = FALSE
    /\ e_resending' = e_resend_buffer
    /\ e_slip' = ResendSlip
    /\ UNCHANGED <<reqVars, recvVars, buildVars, e_ackd_seq, e_first_element,
                   e_resend_timer, e_resend_buffer, up, down>>

\* Faulty variant: the timer is only restarted by acknowledgements.
ETimerNotRestarted == e_resend_timer

ETimerAfterResend == e_resend_timer \/ Len(e_resending) = 1

\* do_resend, a packet at a time; the last one restarts the timer.
EDoResend ==
    /\ e_resending # <<>> /\ Len(down) < WireCap
    /\ down' = Append(down, Head(e_resending))
    /\ e_resending' = Tail(e_resending)
    /\ e_slip' = 0
    /\ e_resend_timer' = ETimerAfterResend
    /\ UNCHANGED <<reqVars, recvVars, buildVars, e_ackd_seq, e_first_element,
                   e_doResend, e_resend_buffer, up>>

\* forwardTimeout: the resend timer expires.
EResendTimeout ==
    /\ e_resend_timer
    /\ e_resend_timer' = FALSE
    /\ e_doResend' = (e_doResend \/ (e_active /\ e_resending = <<>>))
    /\ UNCHANGED <<reqVars, recvVars, buildVars, e_ackd_seq, e_first_element,
                   e_resend_buffer, e_resending, e_slip, up, down>>

-----------------------------------------------------------------------------
(* The wire loses a frame instead of handing it over.  Frames keep their      *)
(* order, so it is enough to decide this when the frame would arrive and its *)
(* receiver could take it.                                                    *)

LoseUp ==
    /\ up # <<>> /\ Len(e_ops) < OpCap
    /\ up' = Tail(up)
    /\ UNCHANGED <<reqVars, recvVars, buildVars, resendVars, down>>

LoseDown ==
    /\ down # <<>>
    /\ down' = Tail(down)
    /\ UNCHANGED <<reqVars, recvVars, buildVars, resendVars, up>>

Next ==
    \/ RSendPacket \/ RGetPacket \/ RResend \/ RReceive
    \/ EReceive \/ EHandleOp \/ ESendPacket \/ ESendAckOnly
    \/ EDropPacket \/ EStartResend \/ EDoResend \/ EResendTimeout
    \/ LoseUp \/ LoseDown

Spec == Init /\ [][Next]_vars

\* Every process keeps running; a timer that runs expires; the wire does not
\* lose every copy of a packet that is sent again and again.
Fairness ==
    /\ WF_vars(RGetPacket) /\ WF_vars(RResend) /\ WF_vars(RReceive)
    /\ WF_vars(RSendRequired /\ RSendPacket)
    /\ WF_vars(EHandleOp) /\ WF_vars(EDropPacket)
    /\ WF_vars(EStartResend) /\ WF_vars(EDoResend) /\ WF_vars(EResendTimeout)
    /\ \A i \in 0 .. MaxUp - 1 : SF_vars(EReceive /\ Head(up).idx = i)
    /\ \A i \in 0 .. MaxDown - 1 : SF_vars(RReceive /\ Head(down).idx = i)

FairSpec == Spec /\ Fairness

-----------------------------------------------------------------------------
(* Properties *)

RequesterTypeOK ==
    /\ r_next_rx \in SeqNum /\ r_last_rx \in SeqNum /\ r_next_tx \in SeqNum
    /\ r_we_acked \in SeqNum /\ r_first_in_resend \in SeqNum
    /\ r_last_ack_status \in BOOLEAN
    /\ r_send_outstanding \in BOOLEAN /\ r_resend_outstanding \in BOOLEAN
    /\ r_packet_data \in Seq(Packet) /\ r_resend_data \in Seq(Packet)
    /\ r_resend_buffer \in Seq(Packet)
    /\ r_sent \in Nat /\ r_delivered \in Seq(Nat)

EndpointTypeOK ==
    /\ e_active \in BOOLEAN /\ e_next_rx \in SeqNum /\ e_ops \in Seq(Op)
    /\ e_ack \in BOOLEAN /\ e_last_rx \in SeqNum /\ e_last_acked \in SeqNum
    /\ e_next_tx \in SeqNum
    /\ e_ackd_seq \in SeqNum /\ e_first_element \in SeqNum
    /\ e_doResend \in BOOLEAN /\ e_resend_timer \in BOOLEAN
    /\ e_resend_buffer \in Seq(Packet) /\ e_resending \in Seq(Packet)
    /\ e_slip \in 0 .. ResendSlip
    /\ e_sent \in Nat /\ e_delivered \in Seq(Nat)

\* Registers and fields hold values of their width, queues hold packets.
TypeOK ==
    /\ RequesterTypeOK
    /\ EndpointTypeOK
    /\ up \in Seq(Packet) /\ down \in Seq(Packet)

UpChannel == INSTANCE ReliableLink WITH sent <- r_sent, delivered <- e_delivered
DownChannel == INSTANCE ReliableLink WITH sent <- e_sent, delivered <- r_delivered

\* The endpoint hands the requester's packets to its TileLink handlers in order
\* and exactly once, whatever is lost, resent or wrapped around.
UpReliable == UpChannel!Spec

\* The same of the endpoint's packets at the requester (process_packets).
DownReliable == DownChannel!Spec

\* remove_from_resend never pops an empty buffer: what the endpoint acknowledges
\* was sent and not acknowledged before.
ExpectHolds ==
    down # <<>> /\ Head(down).seq = r_next_rx => RAcked(Head(down)) <= Len(r_resend_buffer)

Indices(buf) == {buf[k].idx : k \in DOMAIN buf}

\* A packet of the requester that the endpoint has not accepted is still in the
\* requester's resend buffer: no loss is beyond repair.
UpRecoverable == Len(e_delivered) .. r_sent - 1 \subseteq Indices(r_resend_buffer)

\* A packet of the endpoint that the requester has not accepted is still in the
\* endpoint's resend buffer.
DownRecoverable == Len(r_delivered) .. e_sent - 1 \subseteq Indices(e_resend_buffer)

\* Once a packet of the requester was accepted, the endpoint's resend logic
\* never falls asleep on stored packets: the timer runs, a resend is asked for or under way, or an operation that restarts one
\* of them is about to be handled.
ResendArmed ==
    e_resend_buffer # <<>> /\ e_delivered # <<>> =>
        \/ e_resend_timer \/ e_doResend \/ e_resending # <<>>
        \/ \E k \in DOMAIN e_ops : e_ops[k].kind \in {"Packet", "Ack"}

\* Every packet the requester numbers reaches the endpoint.
UpDelivered == \A k \in 1 .. MaxUp : r_sent >= k ~> Len(e_delivered) >= k

\* Every packet the endpoint numbers reaches the requester.
DownDelivered == \A k \in 1 .. MaxDown : e_sent >= k ~> Len(r_delivered) >= k

\* No guard reads these three; leaving them out of the view of a safety run is
\* sound.
SafetyView == <<r_next_rx, r_last_rx, r_next_tx, r_first_in_resend, r_last_ack_status,
                r_packet_data, r_resend_data, r_resend_buffer, r_sent, r_delivered,
                recvVars, buildVars, resendVars, up, down>>

=============================================================================
