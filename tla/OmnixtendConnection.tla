------------------------ MODULE OmnixtendConnection ------------------------
(***************************************************************************)
(* Opening and closing of a connection in OmniXtend 1.1 mode: a Connection *)
(* object of omnixtend-rs, the slot the endpoint keeps for it and the      *)
(* lossy Ethernet between them.  A requester makes one Connection after    *)
(* the other; life numbers them.  The threads that use the object are the  *)
(* front end's: OmnixtendTui composes these actions with them.             *)
(*                                                                         *)
(* Packets are numbered from 0 and the numbers do not wrap here (that and  *)
(* acknowledgement-only packets are the subject of OmnixtendLink): the     *)
(* number of the last packet received is one less than the number of the   *)
(* next, and SequenceNumber::max(), "nothing yet", is -1.  A resend, which *)
(* a NAK or a timer starts, may start at any time.                         *)
(***************************************************************************)
EXTENDS Integers, Sequences, FiniteSets

CONSTANTS
    Threads,       \* threads of the front end that perform operations
    Lifetimes,     \* Connection objects made, one after the other
    MaxTx,         \* packets a requester numbers in one lifetime
    MaxRx,         \* packets the endpoint numbers before its Close
    WireCap        \* packets on the wire in one direction

ASSUME ConnectionAssumption ==
    /\ Lifetimes \in Nat \ {0} /\ WireCap \in Nat \ {0}
    /\ MaxTx \in Nat /\ MaxTx > 2 /\ MaxRx \in Nat /\ MaxRx >= MaxTx

VARIABLES
    life,          \* Connection objects made so far; the last one is in use
    r_state,       \* connection_state
    r_next_tx, r_next_rx,
    r_first,       \* first_in_resend: the last number acknowledged
    r_buffer,      \* resend_buffer
    r_resend_data, \* resend_data
    r_packet_data, \* packet_data, at most one packet
    r_ops,         \* operations_outstanding: requests that wait for a packet
    r_outstanding, \* threads counted by num_outstanding
    r_answered,    \* threads whose response lies in operation_completions
    r_received,    \* a packet half processed: set_connection_state_receive has
                   \* loaded the state and not stored it; <<>> if none is
    e_status, e_life,      \* con_state of the slot, and whose it is
    e_next_rx, e_next_tx,
    e_buffer,      \* resend buffer of the slot
    e_resending,   \* what a running resend has still to send
    e_slip,        \* a new packet may still overtake the running resend
    e_requests,    \* requests taken in and not answered
    up, down       \* the wires

reqVars == <<life, r_state, r_next_tx, r_next_rx, r_first, r_buffer, r_resend_data,
             r_packet_data, r_ops, r_outstanding, r_answered, r_received>>
slotVars == <<e_status, e_life, e_next_rx, e_next_tx, e_buffer, e_resending, e_slip,
              e_requests>>
conVars == <<reqVars, slotVars, up, down>>

ConnectionState == {"Idle", "Enabled", "Opened", "Active", "ClosedByHost",
                    "ClosedByHostIndicated", "ClosedByClient"}
SlotStatus == {"IDLE", "ACTIVE", "CLOSED_BY_HOST_WAITING_FOR_REQUESTS", "CLOSED_BY_HOST"}
Packet == [kind : {"Open", "Normal", "Close"}, seq : Nat, ack : Nat \cup {-1},
           ops : SUBSET Threads, life : 1 .. Lifetimes]
None == -1

ConnectionInit ==
    /\ life = 0 /\ r_state = "Idle"
    /\ r_next_tx = 0 /\ r_next_rx = 0 /\ r_first = None
    /\ r_buffer = <<>> /\ r_resend_data = <<>> /\ r_packet_data = <<>>
    /\ r_ops = {} /\ r_outstanding = {} /\ r_answered = {} /\ r_received = <<>>
    /\ e_status = "IDLE" /\ e_life = 0 /\ e_next_rx = 0 /\ e_next_tx = 0
    /\ e_buffer = <<>> /\ e_resending = <<>> /\ e_slip = FALSE /\ e_requests = {}
    /\ up = <<>> /\ down = <<>>

-----------------------------------------------------------------------------
(* The requester.                                                          *)

\* The fields of a new object.
Fresh ==
    /\ r_next_tx' = 0 /\ r_next_rx' = 0 /\ r_first' = None
    /\ r_buffer' = <<>> /\ r_resend_data' = <<>> /\ r_packet_data' = <<>>
    /\ r_ops' = {} /\ r_outstanding' = {} /\ r_answered' = {} /\ r_received' = <<>>

\* Connection::new and establish_connection
NewConnection ==
    /\ life < Lifetimes
    /\ life' = life + 1
    /\ r_state' = "Enabled"
    /\ Fresh
    /\ UNCHANGED <<slotVars, up, down>>

\* The object is dropped; nothing of it is left.
DropConnection ==
    /\ r_received = <<>>
    /\ r_state' = "Idle"
    /\ Fresh
    /\ UNCHANGED <<life, slotVars, up, down>>

\* Faulty variant: the Close does not wait for the operations.
SayCloseAnyway == TRUE

\* determine_connection_state: what the packet says and the state afterwards.
\* A Close waits until no operation is outstanding.
MaySayClose == r_outstanding = {}

SendKind ==
    IF r_state = "Enabled" THEN "Open"
    ELSE IF r_state \in {"ClosedByHost", "ClosedByClient"} /\ MaySayClose THEN "Close"
    ELSE "Normal"

\* Faulty variant: the host's Close is not answered.
SendStateUnanswered ==
    CASE r_state = "Enabled" -> "Opened"
      [] r_state \in {"ClosedByHost", "ClosedByClient"} /\ MaySayClose -> "Idle"
      [] OTHER -> r_state

SendState ==
    CASE r_state = "Enabled" -> "Opened"
      [] r_state = "ClosedByHost" /\ MaySayClose -> "ClosedByHostIndicated"
      [] r_state = "ClosedByClient" /\ MaySayClose -> "Idle"
      [] OTHER -> r_state

\* Tick::check_send.  There is always a reason to send, at the latest the
\* heartbeat; packets with nothing to say leave two numbers for a request and
\* the Close.  A request may be left for the next packet: it does not fit, or
\* perform has counted it and not yet put it into operations_outstanding.
SendPacket ==
    /\ r_received = <<>>
    /\ r_state # "Idle" /\ r_packet_data = <<>>
    /\ r_next_tx < MaxTx
    /\ \E ops \in SUBSET r_ops :
         /\ SendKind # "Normal" \/ ops # {} \/ r_next_tx < MaxTx - 2
         /\ LET p == [kind |-> SendKind, seq |-> r_next_tx, ack |-> r_next_rx - 1,
                      ops |-> ops, life |-> life]
            IN  r_packet_data' = <<p>> /\ r_buffer' = Append(r_buffer, p)
         /\ r_ops' = r_ops \ ops
    /\ r_state' = SendState
    /\ r_next_tx' = r_next_tx + 1
    /\ UNCHANGED <<life, r_next_rx, r_first, r_resend_data, r_outstanding, r_answered,
                   r_received, slotVars, up, down>>

\* Tick::check_resend
Resend ==
    /\ r_received = <<>>
    /\ r_buffer # <<>> /\ r_resend_data = <<>>
    /\ r_resend_data' = r_buffer
    /\ UNCHANGED <<life, r_state, r_next_tx, r_next_rx, r_first, r_buffer, r_packet_data,
                   r_ops, r_outstanding, r_answered, r_received, slotVars, up, down>>

\* Faulty variant: a new packet overtakes the resent ones.
NewPacketsFirst ==
    /\ r_received = <<>> /\ Len(up) < WireCap
    /\ IF r_packet_data # <<>>
       THEN /\ up' = Append(up, Head(r_packet_data))
            /\ r_packet_data' = <<>>
            /\ UNCHANGED r_resend_data
       ELSE /\ r_resend_data # <<>>
            /\ up' = Append(up, Head(r_resend_data))
            /\ r_resend_data' = Tail(r_resend_data)
            /\ UNCHANGED r_packet_data
    /\ UNCHANGED <<life, r_state, r_next_tx, r_next_rx, r_first, r_buffer, r_ops,
                   r_outstanding, r_answered, r_received, slotVars, down>>

\* get_packet, and the packet goes to the wire: resends first.
GetPacket ==
    /\ r_received = <<>> /\ Len(up) < WireCap
    /\ IF r_resend_data # <<>>
       THEN /\ up' = Append(up, Head(r_resend_data))
            /\ r_resend_data' = Tail(r_resend_data)
            /\ UNCHANGED r_packet_data
       ELSE /\ r_packet_data # <<>>
            /\ up' = Append(up, Head(r_packet_data))
            /\ r_packet_data' = <<>>
            /\ UNCHANGED r_resend_data
    /\ UNCHANGED <<life, r_state, r_next_tx, r_next_rx, r_first, r_buffer, r_ops,
                   r_outstanding, r_answered, r_received, slotVars, down>>

\* remove_from_resend pops one packet for every number up to the one that is
\* acknowledged and expects to find it.
AckFits(p) == r_first <= p.ack /\ p.ack - r_first <= Len(r_buffer)

\* process_packets up to the load in set_connection_state_receive.  A packet
\* out of sequence is ignored (or answered with a NAK, a packet that says
\* nothing here).
ProcessPacket ==
    /\ r_received = <<>> /\ down # <<>>
    /\ LET p == Head(down)
       IN  IF p.seq = r_next_rx
           THEN /\ AckFits(p)
                /\ r_next_rx' = r_next_rx + 1
                /\ r_buffer' = SubSeq(r_buffer, p.ack - r_first + 1, Len(r_buffer))
                /\ r_first' = p.ack
                /\ r_received' = <<[state |-> r_state, kind |-> p.kind, ops |-> p.ops]>>
           ELSE UNCHANGED <<r_next_rx, r_buffer, r_first, r_received>>
    /\ down' = Tail(down)
    /\ UNCHANGED <<life, r_state, r_next_tx, r_resend_data, r_packet_data, r_ops,
                   r_outstanding, r_answered, slotVars, up>>

\* What set_connection_state_receive stores, given the state it loaded.
ReceiveState(loaded, kind) ==
    IF kind = "Close"
    THEN IF loaded = "ClosedByHostIndicated" THEN "Idle" ELSE "ClosedByClient"
    ELSE IF loaded = "Opened" \/ (kind = "Open" /\ loaded = "Idle") THEN "Active"
    ELSE r_state

\* The rest of process_packet: the state is stored and the responses in the
\* packet are handed to the threads that wait for them.
StoreReceived ==
    /\ r_received # <<>>
    /\ LET g == Head(r_received)
       IN  /\ r_state' = ReceiveState(g.state, g.kind)
           /\ r_answered' = r_answered \cup g.ops
    /\ r_received' = <<>>
    /\ UNCHANGED <<life, r_next_tx, r_next_rx, r_first, r_buffer, r_resend_data,
                   r_packet_data, r_ops, r_outstanding, slotVars, up, down>>

\* A request gets a number and leaves one for the Close.
NumberLeft == r_next_tx < MaxTx - 1

\* Faulty variant: num_outstanding is not incremented.
PerformUncounted(t) ==
    /\ r_ops' = r_ops \cup {t}
    /\ UNCHANGED <<life, r_state, r_next_tx, r_next_rx, r_first, r_buffer, r_resend_data,
                   r_packet_data, r_outstanding, r_answered, r_received, slotVars, up, down>>

\* Operations::perform up to wait_for_response, and its return.
Perform(t) ==
    /\ r_outstanding' = r_outstanding \cup {t}
    /\ r_ops' = r_ops \cup {t}
    /\ UNCHANGED <<life, r_state, r_next_tx, r_next_rx, r_first, r_buffer, r_resend_data,
                   r_packet_data, r_answered, r_received, slotVars, up, down>>

Return(t) ==
    /\ t \in r_answered
    /\ r_answered' = r_answered \ {t}
    /\ r_outstanding' = r_outstanding \ {t}
    /\ UNCHANGED <<life, r_state, r_next_tx, r_next_rx, r_first, r_buffer, r_resend_data,
                   r_packet_data, r_ops, r_received, slotVars, up, down>>

\* close_connection refuses states in which nothing was received.
CannotClose ==
    \/ r_state \in {"Idle", "Enabled"}
    \/ r_state = "Opened" /\ r_next_rx = 0

\* It waits until packet 0 is acknowledged, "to avoid a situation where a
\* resend contains the start flag again".
OpenAcked == r_first # None

\* initiate_close_connection loads the state and stores it in another step.
StoreClosedByHost ==
    /\ r_state' = "ClosedByHost"
    /\ UNCHANGED <<life, r_next_tx, r_next_rx, r_first, r_buffer, r_resend_data,
                   r_packet_data, r_ops, r_outstanding, r_answered, r_received,
                   slotVars, up, down>>

-----------------------------------------------------------------------------
(* The endpoint.                                                           *)

\* The packets that stay in the resend buffer when ack is acknowledged: the
\* oldest ones leave it.
Unacked(ack) ==
    LET acked == {k \in DOMAIN e_buffer : e_buffer[k].seq <= ack}
    IN  SubSeq(e_buffer, Cardinality(acked) + 1, Len(e_buffer))

IsFirst(p) == p.kind = "Open" /\ p.seq = 0

\* parse_pkt_header, fetchTLOEHeader and handle_connection_change, which runs
\* before the next header is complete: an Open takes the free slot, any other
\* packet for it is dropped; a packet of the connection is taken in when it
\* is the next one.
SlotReceive ==
    /\ up # <<>>
    /\ up' = Tail(up)
    /\ LET p == Head(up)
           new == e_status = "IDLE"
           expected == IF new THEN 0 ELSE e_next_rx
       IN  IF (new => IsFirst(p)) /\ p.seq = expected
           THEN /\ e_status' = IF new THEN "ACTIVE"
                               ELSE IF p.kind = "Close"
                               THEN "CLOSED_BY_HOST_WAITING_FOR_REQUESTS" ELSE e_status
                /\ e_life' = IF new THEN p.life ELSE e_life
                /\ e_next_rx' = expected + 1
                /\ e_buffer' = Unacked(p.ack)
                /\ e_requests' = e_requests \cup p.ops
           ELSE UNCHANGED <<e_status, e_life, e_next_rx, e_buffer, e_requests>>
    /\ UNCHANGED <<reqVars, e_next_tx, e_resending, e_slip, down>>

\* Faulty variant: the resend buffer is not emptied.
FreeSlotKeepsBuffer ==
    /\ e_status' = "IDLE"
    /\ e_next_tx' = 0
    /\ UNCHANGED <<e_life, e_next_rx, e_buffer, e_resending>>

\* The slot is freed: reset_connection of the packet builder, do_reset of the
\* resend handler, which leaves a running resend alone.
FreeSlot ==
    /\ e_status' = "IDLE"
    /\ e_next_tx' = 0
    /\ e_buffer' = <<>>
    /\ UNCHANGED <<e_life, e_next_rx, e_resending>>

\* chooseResend is more urgent than chooseNormal (see OmnixtendLink).
ChooseNormal ==
    /\ Len(down) < WireCap
    /\ e_resending # <<>> => e_slip
    /\ e_slip' = FALSE

SlotPacket(kind, ops) ==
    [kind |-> kind, seq |-> e_next_tx, ack |-> e_next_rx - 1, ops |-> ops, life |-> e_life]

\* A packet with responses, or with credits only: numbered, stored, sent.
\* Those with credits only leave a number for every response.
SlotSend ==
    /\ e_status \in {"ACTIVE", "CLOSED_BY_HOST_WAITING_FOR_REQUESTS"}
    /\ \E ops \in SUBSET e_requests :
         /\ ops # {} \/ e_next_tx <= MaxRx - MaxTx
         /\ LET p == SlotPacket("Normal", ops)
            IN  down' = Append(down, p) /\ e_buffer' = Append(e_buffer, p)
         /\ e_requests' = e_requests \ ops
    /\ ChooseNormal
    /\ e_next_tx' = e_next_tx + 1
    /\ UNCHANGED <<reqVars, e_status, e_life, e_next_rx, e_resending, up>>

\* update_closed_by_host: no probe of a cache machine is outstanding.
NoRequests ==
    /\ e_status = "CLOSED_BY_HOST_WAITING_FOR_REQUESTS"
    /\ e_status' = "CLOSED_BY_HOST"
    /\ UNCHANGED <<reqVars, e_life, e_next_rx, e_next_tx, e_buffer, e_resending, e_slip,
                   e_requests, up, down>>

\* check_connection_can_send, send_header_part2, finalize_packet and
\* connection_can_be_closed: the next packet is the Close, with the responses
\* that are ready, and the slot is free.
SlotClose ==
    /\ e_status = "CLOSED_BY_HOST"
    /\ ChooseNormal
    /\ \E ops \in SUBSET e_requests :
         /\ down' = Append(down, SlotPacket("Close", ops))
         /\ e_requests' = e_requests \ ops
    /\ FreeSlot
    /\ UNCHANGED <<reqVars, up>>

\* start_resend and do_resend
StartResend ==
    /\ e_status # "IDLE" /\ e_resending = <<>> /\ e_buffer # <<>>
    /\ e_resending' = e_buffer
    /\ e_slip' = TRUE
    /\ UNCHANGED <<reqVars, e_status, e_life, e_next_rx, e_next_tx, e_buffer, e_requests,
                   up, down>>

DoResend ==
    /\ e_resending # <<>> /\ Len(down) < WireCap
    /\ down' = Append(down, Head(e_resending))
    /\ e_resending' = Tail(e_resending)
    /\ e_slip' = FALSE
    /\ UNCHANGED <<reqVars, e_status, e_life, e_next_rx, e_next_tx, e_buffer, e_requests, up>>

\* Nothing of an earlier connection is left in the network or in the slot.
Quiet ==
    /\ up = <<>> /\ down = <<>> /\ e_resending = <<>> /\ e_requests = {}

\* close_connection_pcie: the operator frees the slot with the config tool's
\* reset_con once the requester is gone and the network has come to rest.
CloseOverPcie ==
    /\ Quiet /\ e_status # "IDLE"
    /\ FreeSlot
    /\ UNCHANGED <<reqVars, e_slip, e_requests, up, down>>

SlotNext == SlotReceive \/ SlotSend \/ NoRequests \/ SlotClose \/ StartResend \/ DoResend

\* The wire loses a packet.
Lose ==
    /\ \/ up # <<>> /\ up' = Tail(up) /\ UNCHANGED down
       \/ down # <<>> /\ down' = Tail(down) /\ UNCHANGED up
    /\ UNCHANGED <<reqVars, slotVars>>
=============================================================================
