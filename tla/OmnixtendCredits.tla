--------------------------- MODULE OmnixtendCredits ---------------------------
(***************************************************************************)
(* Flow control of one connection.  A message may be sent on a TileLink    *)
(* channel when the sender holds a credit for each of its flits; the       *)
(* receiver returns the credits once it has taken the message out of its   *)
(* buffer, in the header of any packet, one channel and a power of two at  *)
(* a time.  The requester (credits.rs, operations.rs, channels.rs) sends   *)
(* on A, C and E, the endpoint (TilelinkOutputCreditHandling) on B and D;  *)
(* OmnixtendCreditHandler returns the credits for A, C and E.              *)
(*                                                                         *)
(* The link layer delivers packets once and in order (OmnixtendLink).  The *)
(* requester has Threads application threads that perform an operation     *)
(* each and the network thread, which receives packets, answers probes and *)
(* sends packets.  Both wait for credits in a loop.                        *)
(***************************************************************************)
EXTENDS Integers, Sequences, FiniteSets

CONSTANTS
    DefaultCredits,   \* both sides assume these without being told (128, compat 0)
    StartCredits,     \* the endpoint grants these in its first packets (1024)
    HostCredits,      \* the requester grants these in its first packets (2^28)
    CounterMax,       \* the endpoint's counters end here (2^24 - 1)
    Threads,          \* number of application threads
    Ops,              \* operations the applications perform
    Answers,          \* answers to probes
    WriteLens,        \* flits of data of a write
    LineLens,         \* flits of data of a cache line or a read
    Machines,         \* cache machines of the endpoint (4)
    OutCap,           \* depth of a FIFO in front of the endpoint's credit check
    WireCap,          \* bound on the packets in flight, per direction
    MaxBegun          \* bound on the operations and probes begun

Thread == 1 .. Threads
ChanSeq == <<"A", "B", "C", "D", "E">>
Channel == {ChanSeq[i] : i \in 1 .. 5}
UpChan == {"A", "C", "E"}     \* OmnixtendChannelsReceive
DownChan == {"B", "D"}        \* OmnixtendChannelsSend

RequestOp == {"ReadLen", "WriteLen", "WritePartial", "AcquireBlock", "AcquirePerm",
              "Release", "ReleaseData"}
AnswerOp == {"ProbeAck", "ProbeAckData"}
ResponseOp == {"AccessAck", "AccessAckData", "Grant", "GrantData", "ReleaseAck"}
MsgOp == RequestOp \cup AnswerOp \cup ResponseOp \cup {"GrantAck", "ProbeBlock"}

ASSUME CreditsAssumption ==
    /\ DefaultCredits \in Nat /\ StartCredits \in Nat /\ HostCredits \in Nat
    /\ CounterMax \in Nat /\ DefaultCredits + StartCredits <= CounterMax
    /\ Threads \in Nat /\ Ops \subseteq RequestOp /\ Answers \subseteq AnswerOp
    /\ WriteLens \subseteq Nat \ {0} /\ LineLens \subseteq Nat \ {0}
    /\ Machines \in Nat /\ OutCap \in Nat \ {0} /\ WireCap \in Nat \ {0}
    /\ MaxBegun \in Nat

VARIABLES
    r_send,        \* Connection::credits_send, for A, C and E
    r_receive,     \* Connection::credits_receive, for all channels
    r_app,         \* application threads: position and operation
    r_probes,      \* probes received and not yet looked at
    r_answer,      \* the answer the network thread waits to send
    r_out,         \* Operations::operations_outstanding
    up, down,      \* packets in flight
    e_in,          \* receive buffers of TilelinkInputChannelHandler
    e_returned,    \* credits_in_fifo of the credit handler
    e_counter,     \* credit_counters of the credit handler, for A, C and E
    e_remove,      \* credits_remove_fifo
    e_builder,     \* the credit field of the packet being built, if any
    e_out,         \* messages waiting for credits, for B and D
    e_send,        \* credit_counters of TilelinkOutputCreditHandling
    e_flits,       \* messages waiting for a packet
    begun          \* history: operations and probes begun

reqVars == <<r_send, r_receive, r_app, r_probes, r_answer, r_out>>
epVars == <<e_in, e_returned, e_counter, e_remove, e_builder, e_out, e_send, e_flits>>
vars == <<reqVars, up, down, epVars, begun>>

-----------------------------------------------------------------------------
(* The size of a message, as each side computes it *)

ChannelOf(op) ==
    CASE op \in {"ReadLen", "WriteLen", "WritePartial", "AcquireBlock", "AcquirePerm"} -> "A"
      [] op = "ProbeBlock" -> "B"
      [] op \in {"Release", "ReleaseData"} \cup AnswerOp -> "C"
      [] op \in ResponseOp -> "D"
      [] op = "GrantAck" -> "E"

\* TLOperations::credits, for what the requester sends
TakenFlits(m) ==
    CASE m.op = "GrantAck" -> 1
      [] m.op \in {"ReadLen", "AcquireBlock", "AcquirePerm", "Release", "ProbeAck"} -> 2
      [] m.op \in {"WriteLen", "ReleaseData", "ProbeAckData"} -> 2 + m.len
      [] m.op = "WritePartial" -> 2 + (IF m.len < 8 THEN 1 ELSE m.len \div 8) + m.len

\* Faulty variant: the sink flit of a grant is forgotten.
GiveBackWithoutSink(m) == IF m.op \in {"AccessAckData", "GrantData"} THEN 1 + m.len ELSE 1

\* handle_chan_b and handle_chan_d, for what the requester receives
GivenBackFlits(m) ==
    CASE m.op \in {"AccessAck", "ReleaseAck"} -> 1
      [] m.op \in {"ProbeBlock", "Grant"} -> 2
      [] m.op = "AccessAckData" -> 1 + m.len
      [] m.op = "GrantData" -> 2 + m.len

DataAndMask == {"WritePartial"}
DataOnly == {"AccessAckData"}
DataAnd8Bytes == {"WriteLen", "ReleaseData", "ProbeAckData", "GrantData"}
Only8Bytes == {"ReadLen", "AcquireBlock", "AcquirePerm", "Release", "ProbeAck",
               "ProbeBlock", "Grant"}

\* Faulty variant: the address of a message with data is not counted.
DataWithoutAddress(m) == IF m.op \in DataOnly \cup DataAnd8Bytes THEN m.len ELSE 1

\* getFlitsThisMessage, and the lengths the handlers give to what they send
FlitsThisMessage(m) ==
    CASE m.op \in DataAndMask -> 1 + m.len + (IF m.len < 8 THEN 1 ELSE m.len \div 8)
      [] m.op \in DataOnly -> m.len
      [] m.op \in DataAnd8Bytes -> 1 + m.len
      [] m.op \in Only8Bytes -> 1
      [] OTHER -> 0

EndpointFlits(m) == FlitsThisMessage(m) + 1

\* The amount a credit field of exponent k stands for, 2^k.
TwoTo(k) == LET power[i \in 0 .. k] == IF i = 0 THEN 1 ELSE 2 * power[i - 1] IN power[k]

\* The largest power of two in a counter.
Log2(n) == CHOOSE k \in 0 .. n : n < TwoTo(k + 1) /\ TwoTo(k) <= n

NoCredit == [chan |-> "INVALID", credit |-> 0]
CreditField == [chan : Channel, credit : Nat] \cup {NoCredit}

Init ==
    /\ r_send = [c \in UpChan |-> DefaultCredits]
    /\ r_receive = [c \in Channel |-> HostCredits]
    /\ r_app = [t \in Thread |-> [pc |-> "idle", op |-> "ReadLen", len |-> 1]]
    /\ r_probes = 0 /\ r_answer = <<>> /\ r_out = <<>>
    /\ up = <<>> /\ down = <<>>
    /\ e_in = [c \in UpChan |-> <<>>]
    /\ e_returned = <<>>
    /\ e_counter = [c \in UpChan |-> StartCredits]
    /\ e_remove = <<>> /\ e_builder = <<>>
    /\ e_out = [c \in DownChan |-> <<>>]
    /\ e_send = [c \in DownChan |-> DefaultCredits]
    /\ e_flits = <<>>
    /\ begun = 0

-----------------------------------------------------------------------------
(* The requester *)

LensOf(op) == IF op \in {"WriteLen", "WritePartial"} THEN WriteLens ELSE LineLens

\* An application thread calls Operations::perform.
RBegin(t) ==
    /\ r_app[t].pc = "idle" /\ begun < MaxBegun
    /\ \E op \in Ops : \E len \in LensOf(op) :
          r_app' = [r_app EXCEPT ![t] = [pc |-> "take", op |-> op, len |-> len]]
    /\ begun' = begun + 1
    /\ UNCHANGED <<r_send, r_receive, r_probes, r_answer, r_out, up, down, epVars>>

\* Faulty variant: the last credit is never used.
TakesAllButOne(available, amount) == available > amount

\* Credits::take
Sufficient(available, amount) == available >= amount

Take(m) ==
    /\ Sufficient(r_send[ChannelOf(m.op)], TakenFlits(m))
    /\ r_send' = [r_send EXCEPT ![ChannelOf(m.op)] = @ - TakenFlits(m)]
    /\ r_out' = Append(r_out, m)

\* get_credits succeeds.  Nobody answers a GrantAck.
RTake(t) ==
    /\ r_app[t].pc = "take"
    /\ Take([op |-> r_app[t].op, len |-> r_app[t].len, src |-> t])
    /\ r_app' = [r_app EXCEPT ![t].pc = IF r_app[t].op = "GrantAck" THEN "idle" ELSE "wait"]
    /\ UNCHANGED <<r_receive, r_probes, r_answer, up, down, epVars, begun>>

\* process_probes has an answer for a probe.
RProcessProbe ==
    /\ r_answer = <<>> /\ r_probes > 0
    /\ r_probes' = r_probes - 1
    /\ \E op \in Answers : \E len \in LineLens :
          r_answer' = <<[op |-> op, len |-> len, src |-> 0]>>
    /\ UNCHANGED <<r_send, r_receive, r_app, r_out, up, down, epVars, begun>>

\* The network thread gets the credits for the answer; until then it does
\* nothing else.
RAnswer ==
    /\ r_answer # <<>>
    /\ Take(Head(r_answer))
    /\ r_answer' = <<>>
    /\ UNCHANGED <<r_receive, r_app, r_probes, up, down, epVars, begun>>

\* Credits::get_highest: the first of the channels with the most credits.
RHighest ==
    LET i == CHOOSE i \in 1 .. 5 : \A j \in 1 .. 5 :
                 \/ r_receive[ChanSeq[i]] > r_receive[ChanSeq[j]]
                 \/ r_receive[ChanSeq[i]] = r_receive[ChanSeq[j]] /\ i <= j
    IN  IF r_receive[ChanSeq[i]] = 0 THEN NoCredit
        ELSE [chan |-> ChanSeq[i], credit |-> Log2(r_receive[ChanSeq[i]])]

\* check_send and send_packet, when there are messages or credits to send.
RSendPacket ==
    /\ r_answer = <<>> /\ Len(up) < WireCap
    /\ r_out # <<>> \/ \E c \in Channel : r_receive[c] # 0
    /\ LET field == RHighest IN
       /\ up' = Append(up, [msgs |-> r_out, field |-> field])
       /\ r_receive' = IF field = NoCredit THEN r_receive
                       ELSE [r_receive EXCEPT ![field.chan] = @ - TwoTo(field.credit)]
    /\ r_out' = <<>>
    /\ UNCHANGED <<r_send, r_app, r_probes, r_answer, down, epVars, begun>>

Sum(s) == LET upto[i \in 0 .. Len(s)] == IF i = 0 THEN 0 ELSE upto[i - 1] + s[i]
          IN  upto[Len(s)]

FlitsOn(msgs, c, Flits(_)) ==
    Sum([k \in 1 .. Len(msgs) |-> IF ChannelOf(msgs[k].op) = c THEN Flits(msgs[k]) ELSE 0])

Responses(msgs) == {msgs[k] : k \in {j \in DOMAIN msgs : msgs[j].op \in ResponseOp}}
Probes(msgs) == {k \in DOMAIN msgs : msgs[k].op = "ProbeBlock"}

\* An application thread whose response m arrived: a grant is acknowledged.
Completed(a, m) ==
    IF m.op \in {"Grant", "GrantData"}
    THEN [pc |-> "take", op |-> "GrantAck", len |-> 0]
    ELSE [a EXCEPT !.pc = "idle"]

\* process_packet: the header's credits are for sending, those for the messages
\* of the packet are to be returned.
RReceive ==
    /\ r_answer = <<>> /\ down # <<>>
    /\ down' = Tail(down)
    /\ LET pkt == Head(down) IN
       /\ r_send' = IF pkt.field = NoCredit THEN r_send
                    ELSE [r_send EXCEPT ![pkt.field.chan] = @ + TwoTo(pkt.field.credit)]
       /\ r_receive' = [c \in Channel |->
                           r_receive[c] + FlitsOn(pkt.msgs, c, GivenBackFlits)]
       /\ r_probes' = r_probes + Cardinality(Probes(pkt.msgs))
       /\ r_app' = [t \in Thread |->
                       IF \E m \in Responses(pkt.msgs) : m.src = t
                       THEN Completed(r_app[t], CHOOSE m \in Responses(pkt.msgs) : m.src = t)
                       ELSE r_app[t]]
    /\ UNCHANGED <<r_answer, r_out, up, epVars, begun>>

-----------------------------------------------------------------------------
(* The endpoint *)

Least(a, b) == IF a < b THEN a ELSE b

\* Faulty variant: the sum leaves the width of the counter.
UnboundedPlus(a, b) == a + b

\* boundedPlus
BoundedPlus(a, b) == Least(a + b, CounterMax)

\* The messages of a packet that are for channel c, in their order.
OnChannel(msgs, c) ==
    LET upto[i \in 0 .. Len(msgs)] ==
            IF i = 0 THEN <<>>
            ELSE IF ChannelOf(msgs[i].op) = c THEN Append(upto[i - 1], msgs[i])
            ELSE upto[i - 1]
    IN  upto[Len(msgs)]

\* The receiver passes the messages on to their channels and the credits to
\* add_credits, which stops at the end of the counter.
EReceive ==
    /\ up # <<>>
    /\ up' = Tail(up)
    /\ LET pkt == Head(up) IN
       /\ e_in' = [c \in UpChan |-> e_in[c] \o OnChannel(pkt.msgs, c)]
       /\ e_send' = IF pkt.field.chan \in DownChan
                    THEN [e_send EXCEPT ![pkt.field.chan] =
                             BoundedPlus(@, TwoTo(pkt.field.credit))]
                    ELSE e_send
    /\ UNCHANGED <<reqVars, down, e_returned, e_counter, e_remove, e_builder, e_out,
                   e_flits, begun>>

ResponseTo(m) ==
    CASE m.op = "ReadLen" -> <<[m EXCEPT !.op = "AccessAckData"]>>
      [] m.op \in {"WriteLen", "WritePartial"} -> <<[m EXCEPT !.op = "AccessAck"]>>
      [] m.op = "AcquireBlock" -> <<[m EXCEPT !.op = "GrantData"]>>
      [] m.op = "AcquirePerm" -> <<[m EXCEPT !.op = "Grant"]>>
      [] m.op \in {"Release", "ReleaseData"} -> <<[m EXCEPT !.op = "ReleaseAck"]>>
      [] OTHER -> <<>>

\* A TileLink handler takes a message out of its receive buffer, which returns
\* the credits, and responds to it.
EProcess(c) ==
    /\ e_in[c] # <<>>
    /\ LET m == Head(e_in[c]) IN
       /\ ResponseTo(m) # <<>> => Len(e_out["D"]) < OutCap
       /\ e_in' = [e_in EXCEPT ![c] = Tail(@)]
       /\ e_returned' = Append(e_returned, [chan |-> c, flits |-> EndpointFlits(m)])
       /\ e_out' = [e_out EXCEPT !["D"] = @ \o ResponseTo(m)]
    /\ UNCHANGED <<reqVars, up, down, e_counter, e_remove, e_builder, e_send, e_flits, begun>>

Count(msgs, ops) == Cardinality({k \in DOMAIN msgs : msgs[k].op \in ops})
CountIn(pkts, ops) == Sum([k \in 1 .. Len(pkts) |-> Count(pkts[k].msgs, ops)])

\* Faulty variant: a cache machine goes on without the answer to its probe.
NoneUnanswered == 0

\* The cache machines that probe this requester and have no answer yet.  Such a
\* machine does not begin another request (wait_for_ack, start_processing).
Unanswered ==
    Len(e_out["B"]) + Count(e_flits, {"ProbeBlock"}) + CountIn(down, {"ProbeBlock"})
    + r_probes + Len(r_answer)
    + Count(r_out, AnswerOp) + CountIn(up, AnswerOp) + Count(e_in["C"], AnswerOp)

\* A cache machine probes the requester on behalf of another one.
EProbe ==
    /\ begun < MaxBegun /\ Unanswered < Machines /\ Len(e_out["B"]) < OutCap
    /\ e_out' = [e_out EXCEPT !["B"] = Append(@, [op |-> "ProbeBlock", len |-> 0, src |-> 0])]
    /\ begun' = begun + 1
    /\ UNCHANGED <<reqVars, up, down, e_in, e_returned, e_counter, e_remove, e_builder,
                   e_send, e_flits>>

\* take_credits and forward_data
ETakeCredits(c) ==
    /\ e_out[c] # <<>>
    /\ LET m == Head(e_out[c]) IN
       /\ e_send[c] >= EndpointFlits(m)
       /\ e_send' = [e_send EXCEPT ![c] = @ - EndpointFlits(m)]
       /\ e_flits' = Append(e_flits, m)
    /\ e_out' = [e_out EXCEPT ![c] = Tail(@)]
    /\ UNCHANGED <<reqVars, up, down, e_in, e_returned, e_counter, e_remove, e_builder, begun>>

\* calculate_sendable_credits and calculate_maximum: the first of the channels with the highest exponent.
EHighest ==
    LET some == {c \in UpChan : e_counter[c] # 0}
        order == [c \in UpChan |-> CHOOSE i \in 1 .. 5 : ChanSeq[i] = c]
        exponent == [c \in some |-> Log2(e_counter[c])]
        best == CHOOSE c \in some : \A d \in some :
                    \/ exponent[c] > exponent[d]
                    \/ exponent[c] = exponent[d] /\ order[c] <= order[d]
    IN  IF some = {} THEN NoCredit ELSE [chan |-> best, credit |-> exponent[best]]

\* Faulty variant: the next packet may ask before the counter is reduced.
RequestAtAnyTime == TRUE

\* update_counter prefers removals and needs a cycle for one, the rest of a
\* packet takes more than that.
RemovalDone == e_remove = <<>>

\* setup_packet_sending asks the credit handler for what the packet may return.
ESetupPacket ==
    /\ e_builder = <<>> /\ RemovalDone
    /\ e_flits # <<>> \/ \E c \in UpChan : e_counter[c] # 0
    /\ LET field == EHighest IN
       /\ e_builder' = <<field>>
       /\ e_remove' = IF field = NoCredit THEN e_remove ELSE Append(e_remove, field)
    /\ UNCHANGED <<reqVars, up, down, e_in, e_returned, e_counter, e_out, e_send, e_flits, begun>>

\* send_header_part2 to finalize_packet
ESendPacket ==
    /\ e_builder # <<>> /\ Len(down) < WireCap
    /\ down' = Append(down, [msgs |-> e_flits, field |-> Head(e_builder)])
    /\ e_flits' = <<>>
    /\ e_builder' = <<>>
    /\ UNCHANGED <<reqVars, up, e_in, e_returned, e_counter, e_remove, e_out, e_send, begun>>

\* update_counter, in the width of the counter
EUpdateCounter ==
    /\ \/ /\ e_remove # <<>>
          /\ e_counter' = [e_counter EXCEPT ![Head(e_remove).chan] =
                              (@ - TwoTo(Head(e_remove).credit)) % (CounterMax + 1)]
          /\ e_remove' = Tail(e_remove)
          /\ UNCHANGED e_returned
       \/ /\ e_remove = <<>> /\ e_returned # <<>>
          /\ e_counter' = [e_counter EXCEPT ![Head(e_returned).chan] =
                              (@ + Head(e_returned).flits) % (CounterMax + 1)]
          /\ e_returned' = Tail(e_returned)
          /\ UNCHANGED e_remove
    /\ UNCHANGED <<reqVars, up, down, e_in, e_builder, e_out, e_send, e_flits, begun>>

System ==
    \/ \E t \in Thread : RTake(t)
    \/ RProcessProbe \/ RAnswer \/ RSendPacket \/ RReceive
    \/ EReceive \/ ESetupPacket \/ ESendPacket \/ EUpdateCounter
    \/ \E c \in UpChan : EProcess(c)
    \/ \E c \in DownChan : ETakeCredits(c)

Next == System \/ (\E t \in Thread : RBegin(t)) \/ EProbe

Spec == Init /\ [][Next]_vars

\* As long as a thread or a rule can go on, one of them does; operations and
\* probes need not begin.
Fairness == WF_vars(System)

FairSpec == Spec /\ Fairness

-----------------------------------------------------------------------------
(* Properties *)

Msg == [op : MsgOp, len : Nat, src : Nat]
Packet == [msgs : Seq(Msg), field : CreditField]

\* Counters are in range, queues hold messages and packets.
TypeOK ==
    /\ r_send \in [UpChan -> Nat] /\ r_receive \in [Channel -> Nat]
    /\ r_app \in [Thread -> [pc : {"idle", "take", "wait"}, op : MsgOp, len : Nat]]
    /\ r_probes \in Nat /\ r_answer \in Seq(Msg) /\ r_out \in Seq(Msg)
    /\ up \in Seq(Packet) /\ down \in Seq(Packet)
    /\ e_in \in [UpChan -> Seq(Msg)] /\ e_out \in [DownChan -> Seq(Msg)]
    /\ e_returned \in Seq([chan : UpChan, flits : Nat])
    /\ e_counter \in [UpChan -> 0 .. CounterMax] /\ e_send \in [DownChan -> 0 .. CounterMax]
    /\ e_remove \in Seq([chan : UpChan, credit : Nat])
    /\ e_builder \in Seq(CreditField) /\ e_flits \in Seq(Msg)
    /\ begun \in Nat

\* What update_counter is about to take off a counter is there: the unsigned
\* counter never wraps below zero.
NoUnderflow ==
    e_remove # <<>> => e_counter[Head(e_remove).chan] >= TwoTo(Head(e_remove).credit)

InField(f, c) == IF f.chan = c THEN TwoTo(f.credit) ELSE 0
Credit(fields, c) == Sum([k \in 1 .. Len(fields) |-> InField(fields[k], c)])
InFields(pkts, c) == Sum([k \in 1 .. Len(pkts) |-> InField(pkts[k].field, c)])
InPackets(pkts, c, Flits(_)) ==
    Sum([k \in 1 .. Len(pkts) |-> FlitsOn(pkts[k].msgs, c, Flits)])
Returned(c) ==
    Sum([k \in 1 .. Len(e_returned) |->
            IF e_returned[k].chan = c THEN e_returned[k].flits ELSE 0])

\* Credits of channel c that the requester may still use or has used and not
\* got back.
UpCredits(c) ==
    r_send[c] + FlitsOn(r_out, c, TakenFlits) + InPackets(up, c, TakenFlits)
    + FlitsOn(e_in[c], c, EndpointFlits) + Returned(c)
    + e_counter[c] - Credit(e_remove, c) + Credit(e_builder, c) + InFields(down, c)

\* No credit of the requester's channels is lost or made up, so the flits in a
\* receive buffer of the endpoint never exceed the TotalStartCredits it has room
\* for, and a message of that size can be sent again and again.
CreditsConserved == \A c \in UpChan : UpCredits(c) = DefaultCredits + StartCredits

\* The endpoint can always get back to a full counter: what it lacks is with
\* the requester or on its way.
DownCredits(c) ==
    e_send[c] + FlitsOn(e_flits, c, EndpointFlits) + InPackets(down, c, GivenBackFlits)
    + r_receive[c] + InFields(up, c)

\* The endpoint's credits do not drain away although its counters saturate.
SendCreditsComeBack == \A c \in DownChan : DownCredits(c) >= Least(CounterMax, HostCredits)

\* The network thread never waits for credits when it answers a probe.  It would
\* wait for ever: the packet that brings them is received by the same thread.
\* Nothing in the code enforces this.  It holds as long as the credits that the
\* requester starts with cover every answer and release that comes before the
\* first credits for C, and fails in compat mode, where it starts with none.
AnswerHasCredits ==
    r_answer # <<>> => Sufficient(r_send["C"], TakenFlits(Head(r_answer)))

\* An operation of an application thread comes to its end, although probes arrive
\* meanwhile; subject to the limit stated at AnswerHasCredits.
OperationCompletes == \A t \in Thread : r_app[t].pc # "idle" ~> r_app[t].pc = "idle"

=============================================================================
