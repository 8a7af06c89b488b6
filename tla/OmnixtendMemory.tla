---------------------------- MODULE OmnixtendMemory ----------------------------
(***************************************************************************)
(* The memory path of the endpoint.  TilelinkHandlerTLUH takes the         *)
(* requests of channel A apart and starts one of three burst handlers      *)
(* (Read-, Write- and RMWBurstHandler).  Each turns its requests into AXI  *)
(* bursts and repacks flits into beats or beats into flits; AXIMerger puts *)
(* the bursts of the ports onto one AXI interface.  The responses are      *)
(* merged with those of the TL-C handler into channel D.                   *)
(*                                                                         *)
(* Addresses count flits, a beat holds FlitsPerBeat of them.  The content  *)
(* of a flit is a cell: its value, and as history the request that wrote   *)
(* it and the place of the flit in that request.  Requests are numbered in *)
(* the order in which they are accepted; the fields id and pos of FIFO     *)
(* entries, and addr where the code has none, are history that no guard    *)
(* reads.                                                                  *)
(***************************************************************************)
EXTENDS Integers, Sequences, FiniteSets

CONSTANTS
    FlitsPerBeat,     \* FLITS_PER_AXI_BEAT (8)
    MaxBeats,         \* MaximumAXIBeats (64), the beats of 4 KiB
    MaskFlits,        \* data flits that one mask flit covers (8)
    Outstanding,      \* requests a handler holds (16)
    Depth,            \* depth of a plain FIFO (2)
    Words,            \* flits of memory
    Values,           \* a flit holds 0 .. Values - 1
    Programs          \* sequences of requests that may arrive

Handler == {"read", "write", "rmw"}
ReadPort == {"read", "rmw"}
WritePort == {"write", "rmw"}
Slot == 0 .. FlitsPerBeat - 1
Arithmetic == {"MIN", "MAX", "MINU", "MAXU", "ADD"}
Logic == {"AND", "OR", "XOR", "SWAP"}
PutOp == {"PutFullData", "PutPartialData"}
RMWOp == {"ArithmeticData", "LogicalData"}
Cell == [by : Nat, pos : Nat, val : 0 .. Values - 1]
Request == [op : {"Get", "Intent", "AcquireBlock"} \cup PutOp \cup RMWOp,
            addr : 0 .. Words - 1, size : Nat, mask : Seq(BOOLEAN),
            calc : Arithmetic \cup Logic, val : 0 .. Values - 1]

TwoTo(k) == LET power[i \in 0 .. k] == IF i = 0 THEN 1 ELSE 2 * power[i - 1] IN power[k]
IsPowerOfTwo(n) == \E k \in 0 .. n : n = TwoTo(k)

Flits(q) == TwoTo(q.size)

\* Beats, bursts and values are powers of two, the counter of flits per mask has
\* four bits, and requests lie in memory.
ASSUME MemoryAssumption ==
    /\ FlitsPerBeat \in Nat /\ IsPowerOfTwo(FlitsPerBeat)
    /\ MaxBeats \in Nat \ {0, 1, 2} /\ IsPowerOfTwo(MaxBeats)
    /\ MaskFlits \in 1 .. 15
    /\ Outstanding \in Nat \ {0} /\ Depth \in Nat \ {0}
    /\ Words \in Nat /\ Words % FlitsPerBeat = 0
    /\ Values \in Nat /\ IsPowerOfTwo(Values)
    /\ \A p \in Programs : p \in Seq(Request)
    /\ \A p \in Programs : \A i \in DOMAIN p : p[i].addr + Flits(p[i]) <= Words

VARIABLES
    todo,        \* requests that have not arrived
    req,         \* history: the requests accepted
    before,      \* history: the requests answered when a request was accepted
    u,           \* state, flit_cntr and mask_cntr of TilelinkHandlerTLUH
    waiting,     \* outstanding_transactions_buffer_rd, _wr and _hint
    sending,     \* forward_read_active
    out,         \* output_fifo_read, output_fifo_write, flits_tlc_in_fifo
    forwarding,  \* active_forward
    tlc,         \* requests the TL-C handler works on
    prep,        \* outstanding_requests, beat_prepare and addr_buf of a handler
    beats,       \* outstanding_beats of a handler
    pos,         \* flit_counter, beat_cntr and last_cntr of a handler
    buf,         \* beat_buffer of a handler
    mask,        \* mask_buffer of a handler
    data_in,     \* data_in of a handler
    mask_in,     \* mask_in and mask_cntr of the write handler
    responses,   \* outstanding_responses and responses_received of the write handler
    done,        \* request_done of the write handler
    writeback,   \* writeback_fifo and writeback_buffer of the RMW handler
    data_out,    \* data_out of a handler
    rd,          \* AXI read requests and beats of a port
    wr,          \* AXI write requests and beats of a port
    write_order, \* write_order of the merger
    aw,          \* write requests the memory has accepted
    queue,       \* beats the memory has accepted, per port
    mem,         \* the memory
    answer,      \* what the requester got for a request
    current,     \* the request whose response is arriving
    answered     \* requests with a complete response

hist == <<todo, req, before>>
tluh == <<u, waiting, sending, out, forwarding, tlc>>
handlers == <<prep, beats, pos, buf, mask, data_in, mask_in, responses, done, writeback, data_out>>
axi == <<rd, wr, write_order, aw, queue, mem>>
requester == <<answer, current, answered>>
vars == <<hist, tluh, handlers, axi, requester>>

-----------------------------------------------------------------------------
(* Sizes and contents *)

\* isAligned; sizes below a flit are not told apart.
Denied(q) == q.addr % Flits(q) # 0

\* calculateTransferSize
Beats(q) == IF Flits(q) >= FlitsPerBeat THEN Flits(q) \div FlitsPerBeat ELSE 1

\* escapeAddrForAXI
BeatAddr(addr) == addr - (addr % FlitsPerBeat)

FirstSlot(addr) == addr % FlitsPerBeat

\* Faulty variant: one response is expected whatever the size.
OneBurst(q) == 1

Bursts(q) == (Beats(q) - 1) \div MaxBeats + 1

Zero == [by |-> 0, pos |-> 0, val |-> 0]
NoBeat == [s \in Slot |-> Zero]
NoMask == [s \in Slot |-> FALSE]

\* Data flits of a request have different values.
Datum(id, k) == [by |-> id, pos |-> k, val |-> (req[id].val + k) % Values]

\* What follows the address of a request: c flits have been taken.
IsMaskFlit(c) == c % (MaskFlits + 1) = 0
MaskFlit(q, c) ==
    [j \in 0 .. MaskFlits - 1 |->
        LET k == (c \div (MaskFlits + 1)) * MaskFlits + j
        IN  k < Flits(q) /\ q.mask[k + 1]]
PartialIndex(c) == (c \div (MaskFlits + 1)) * MaskFlits + (c % (MaskFlits + 1)) - 1

\* prepared_length - 1
DataFlits(q) ==
    IF q.op = "PutPartialData"
    THEN Flits(q) + (Flits(q) + MaskFlits - 1) \div MaskFlits
    ELSE Flits(q)

Signed(v) == IF 2 * v >= Values THEN v - Values ELSE v
Bit(v, k) == (v \div TwoTo(k)) % 2
Width == CHOOSE w \in 0 .. Values : TwoTo(w) = Values
Bitwise(old, new, f) ==
    LET low[k \in 0 .. Width] ==
            IF k = 0 THEN 0
            ELSE low[k - 1] + f[Bit(old, k - 1)][Bit(new, k - 1)] * TwoTo(k - 1)
    IN  low[Width]
Xor == [a \in 0 .. 1 |-> [b \in 0 .. 1 |-> (a + b) % 2]]
Or == [a \in 0 .. 1 |-> [b \in 0 .. 1 |-> IF a + b > 0 THEN 1 ELSE 0]]
And == [a \in 0 .. 1 |-> [b \in 0 .. 1 |-> a * b]]

\* A minimum or maximum takes the new value.
Takes(calc, old, new) ==
    CASE calc = "MIN" -> Signed(new) < Signed(old)
      [] calc = "MAX" -> Signed(old) < Signed(new)
      [] calc = "MINU" -> new < old
      [] calc = "MAXU" -> old < new

\* What an atomic operation leaves in memory, if keep is left otherwise.
Result(calc, keep, old, new) ==
    CASE calc = "ADD" -> (old + new) % Values
      [] calc = "XOR" -> Bitwise(old, new, Xor)
      [] calc = "OR" -> Bitwise(old, new, Or)
      [] calc = "AND" -> Bitwise(old, new, And)
      [] calc = "SWAP" -> new
      [] OTHER -> IF Takes(calc, old, new) THEN new ELSE keep

\* Faulty variant: the operation works on the writeback buffer.
WrittenFromBuffer(calc, held, old, new) == Result(calc, held, held, new)

\* writeback_data: a minimum or maximum that is not replaced keeps what the
\* writeback buffer holds.
Written(calc, held, old, new) == Result(calc, held, old, new)

Init ==
    /\ todo \in Programs
    /\ req = <<>> /\ before = <<>>
    /\ u = [state |-> "IDLE", cntr |-> 0, mask_cntr |-> 0]
    /\ waiting = [k \in {"rd", "wr", "hint"} |-> <<>>]
    /\ sending = FALSE
    /\ out = [k \in {"READ", "WRITE", "TLC"} |-> <<>>]
    /\ forwarding = "IDLE" /\ tlc = <<>>
    /\ prep = [h \in Handler |-> [requests |-> <<>>, left |-> 0, addr |-> 0]]
    /\ beats = [h \in Handler |-> <<>>]
    /\ pos = [h \in Handler |-> [flit |-> 0, slot |-> 0, last |-> 0]]
    /\ buf = [h \in Handler |-> NoBeat]
    /\ mask = [h \in WritePort |-> NoMask]
    /\ data_in = [h \in WritePort |-> <<>>]
    /\ mask_in = [fifo |-> <<>>, cntr |-> 0]
    /\ responses = [fifo |-> <<>>, received |-> 0]
    /\ done = 0
    /\ writeback = [fifo |-> <<>>, buffer |-> NoBeat]
    /\ data_out = [h \in ReadPort |-> <<>>]
    /\ rd = [p \in ReadPort |-> [addr |-> <<>>, data |-> <<>>]]
    /\ wr = [p \in WritePort |-> [addr |-> <<>>, data |-> <<>>, resp |-> <<>>]]
    /\ write_order = <<>> /\ aw = <<>>
    /\ queue = [p \in WritePort |-> <<>>]
    /\ mem = [a \in 0 .. Words - 1 |-> [by |-> 0, pos |-> a, val |-> 1 % Values]]
    /\ answer = <<>> /\ current = 0 /\ answered = {}

-----------------------------------------------------------------------------
(* TilelinkHandlerTLUH: requests *)

Accept(op) ==
    /\ u.state = "IDLE" /\ todo # <<>>
    /\ Head(todo).op \in op
    /\ todo' = Tail(todo)
    /\ req' = Append(req, Head(todo))
    /\ before' = Append(before, answered)
    /\ answer' = Append(answer, <<>>)
    /\ UNCHANGED <<current, answered, axi>>

\* The method start of a burst handler.  The RMW handler asks for the bursts of
\* a denied request, too.
Start(h, q, id) ==
    /\ Len(beats[h]) < Outstanding
    /\ beats' = [beats EXCEPT ![h] =
                    Append(@, [denied |-> Denied(q), flits |-> Flits(q),
                               slot |-> FirstSlot(q.addr), id |-> id])]
    /\ IF Denied(q) /\ h # "rmw" THEN UNCHANGED prep
       ELSE /\ Len(prep[h].requests) < Outstanding
            /\ prep' = [prep EXCEPT ![h].requests =
                           Append(@, [addr |-> BeatAddr(q.addr), beats |-> Beats(q), id |-> id])]

Wait(buffer, w) ==
    /\ Len(waiting[buffer]) < Outstanding
    /\ waiting' = [waiting EXCEPT ![buffer] = Append(@, w)]

\* startRead
StartRead ==
    /\ Accept({"Get"})
    /\ Start("read", Head(todo), Len(req) + 1)
    /\ Wait("rd", [from |-> "read", id |-> Len(req) + 1, flits |-> Flits(Head(todo))])
    /\ UNCHANGED <<u, sending, out, forwarding, tlc, pos, buf, mask, data_in, mask_in,
                   responses, done, writeback, data_out>>

\* startWrite
StartWrite ==
    /\ Accept(PutOp)
    /\ LET q == Head(todo) IN
       /\ Start("write", q, Len(req) + 1)
       /\ Wait("wr", Len(req) + 1)
       /\ Len(responses.fifo) < Outstanding
       /\ responses' = [responses EXCEPT !.fifo =
                           Append(@, [denied |-> Denied(q), bursts |-> Bursts(q),
                                      id |-> Len(req) + 1])]
       /\ u' = [state |-> IF q.op = "PutFullData" THEN "DATA_FORWARD" ELSE "DATA_FORWARD_PARTIAL",
                cntr |-> DataFlits(q), mask_cntr |-> 0]
    /\ UNCHANGED <<sending, out, forwarding, tlc, pos, buf, mask, data_in, mask_in,
                   done, writeback, data_out>>

\* startRMW
StartRMW ==
    /\ Accept(RMWOp)
    /\ Start("rmw", Head(todo), Len(req) + 1)
    /\ Wait("rd", [from |-> "rmw", id |-> Len(req) + 1, flits |-> Flits(Head(todo))])
    /\ u' = [u EXCEPT !.state = "DATA_FORWARD_RMW", !.cntr = DataFlits(Head(todo))]
    /\ UNCHANGED <<sending, out, forwarding, tlc, pos, buf, mask, data_in, mask_in,
                   responses, done, writeback, data_out>>

\* startHint
StartHint ==
    /\ Accept({"Intent"})
    /\ Wait("hint", Len(req) + 1)
    /\ UNCHANGED <<u, sending, out, forwarding, tlc, handlers>>

\* Acquires are passed on to the TL-C handler.
ForwardToTLC ==
    /\ Accept({"AcquireBlock"})
    /\ Len(tlc) < Depth
    /\ tlc' = Append(tlc, Len(req) + 1)
    /\ UNCHANGED <<u, waiting, sending, out, forwarding, handlers>>

Put(h, cell) ==
    /\ Len(data_in[h]) < Depth
    /\ data_in' = [data_in EXCEPT ![h] = Append(@, cell)]

PutMask(id, k, bits) ==
    /\ Len(mask_in.fifo) < Depth
    /\ mask_in' = [mask_in EXCEPT !.fifo = Append(@, [id |-> id, from |-> k, bits |-> bits])]

Everything == [j \in 0 .. MaskFlits - 1 |-> TRUE]

\* forward_write_data: the next flit of the request accepted last
ForwardData ==
    /\ u.state # "IDLE"
    /\ LET id == Len(req)
           q == req[id]
           taken == DataFlits(q) - u.cntr
           first == u.mask_cntr = 0
           end == IF u.state = "DATA_FORWARD" THEN MaskFlits - 1 ELSE MaskFlits
       IN  /\ \/ /\ u.state = "DATA_FORWARD"
                 /\ IF first THEN PutMask(id, taken, Everything) ELSE UNCHANGED mask_in
                 /\ Put("write", Datum(id, taken))
              \/ /\ u.state = "DATA_FORWARD_PARTIAL" /\ first
                 /\ PutMask(id, PartialIndex(taken) + 1, MaskFlit(q, taken))
                 /\ UNCHANGED data_in
              \/ /\ u.state = "DATA_FORWARD_PARTIAL" /\ ~first
                 /\ Put("write", Datum(id, PartialIndex(taken)))
                 /\ UNCHANGED mask_in
              \/ /\ u.state = "DATA_FORWARD_RMW"
                 /\ Put("rmw", Datum(id, taken))
                 /\ UNCHANGED mask_in
           /\ u' = [state |-> IF u.cntr = 1 THEN "IDLE" ELSE u.state,
                    cntr |-> u.cntr - 1,
                    mask_cntr |-> IF u.state # "DATA_FORWARD_RMW" /\ u.mask_cntr = end
                                  THEN 0 ELSE (u.mask_cntr + 1) % 16]
    /\ UNCHANGED <<hist, waiting, sending, out, forwarding, tlc, prep, beats, pos,
                   buf, mask, responses, done, writeback, data_out, axi, requester>>

-----------------------------------------------------------------------------
(* Burst handlers *)

Take(f, h) == [f EXCEPT ![h] = Tail(@)]

\* prepare_request: a burst ends after 4 KiB.
PrepareRequest(h) ==
    /\ prep[h].requests # <<>>
    /\ LET p == prep[h]
           left == IF p.left = 0 THEN Head(p.requests).beats ELSE p.left
           addr == IF p.left = 0 THEN Head(p.requests).addr ELSE p.addr
           more == left > MaxBeats
           burst == [addr |-> addr, beats |-> IF more THEN MaxBeats ELSE left,
                     id |-> Head(p.requests).id]
       IN  /\ prep' = [prep EXCEPT ![h] =
                          [requests |-> IF more THEN p.requests ELSE Tail(p.requests),
                           left |-> IF more THEN left - MaxBeats ELSE 0,
                           addr |-> addr + MaxBeats * FlitsPerBeat]]
           /\ IF h \in ReadPort
              THEN /\ Len(rd[h].addr) < Depth
                   /\ rd' = [rd EXCEPT ![h].addr = Append(@, burst)]
              ELSE UNCHANGED rd
           /\ IF h \in WritePort
              THEN /\ Len(wr[h].addr) < Depth
                   /\ wr' = [wr EXCEPT ![h].addr = Append(@, burst)]
              ELSE UNCHANGED wr
    /\ UNCHANGED <<hist, tluh, beats, pos, buf, mask, data_in, mask_in, responses,
                   done, writeback, data_out, write_order, aw, queue, mem, requester>>

\* The request a handler works on, and its position when it takes a flit.
Job(h) == Head(beats[h])
First(h) == pos[h].flit = 0
FlitLeft(h) == (IF First(h) THEN Job(h).flits ELSE pos[h].flit) - 1
NextSlot(h) == IF First(h) THEN Job(h).slot ELSE (pos[h].slot + 1) % FlitsPerBeat
Place(h) == Job(h).flits - 1 - FlitLeft(h)
Location(h) == req[Job(h).id].addr + Place(h)
Finish(h) == beats' = IF FlitLeft(h) = 0 THEN Take(beats, h) ELSE beats

\* Faulty variant: only the end of the request ends a burst.
LastOfRequest(h) == FlitLeft(h) = 0

\* The beat ends, the burst ends, and last_cntr, which is compared before it is
\* reset for a new request.
BeatDone(h) == FlitLeft(h) = 0 \/ NextSlot(h) + 1 = FlitsPerBeat
BurstDone(h) == FlitLeft(h) = 0 \/ pos[h].last = MaxBeats - 1

\* Faulty variant: the counter of beats runs on.
LastCntrRunsOn(h) == IF BeatDone(h) THEN pos[h].last + 1 ELSE pos[h].last

LastCntr(h) ==
    LET base == IF First(h) THEN 0 ELSE pos[h].last
    IN  IF ~BeatDone(h) THEN base
        ELSE IF pos[h].last = MaxBeats - 1 THEN 0 ELSE base + 1

SendFlit(h, id, k, last, cell) ==
    data_out' = [data_out EXCEPT ![h] =
                    Append(@, [id |-> id, pos |-> k, last |-> last, cell |-> cell])]

\* retrieve_beat of the read handler
ReadRetrieveBeat ==
    /\ beats["read"] # <<>> /\ ~Job("read").denied /\ Len(data_out["read"]) < Depth
    /\ LET slot == IF First("read") THEN Job("read").slot ELSE pos["read"].slot
           fetch == First("read") \/ pos["read"].slot = 0
           beat == IF fetch THEN Head(rd["read"].data).cells ELSE buf["read"]
       IN  /\ fetch => rd["read"].data # <<>>
           /\ rd' = IF fetch THEN [rd EXCEPT !["read"].data = Tail(@)] ELSE rd
           /\ buf' = [buf EXCEPT !["read"] = beat]
           /\ SendFlit("read", Job("read").id, Place("read"), FlitLeft("read") = 0, beat[slot])
           /\ pos' = [pos EXCEPT !["read"] = [flit |-> FlitLeft("read"),
                                              slot |-> (slot + 1) % FlitsPerBeat, last |-> 0]]
    /\ Finish("read")
    /\ UNCHANGED <<hist, tluh, prep, mask, data_in, mask_in, responses, done,
                   writeback, wr, write_order, aw, queue, mem, requester>>

\* drop_denied of the read handler: a denied read is answered with zeros.
ReadDropDenied ==
    /\ beats["read"] # <<>> /\ Job("read").denied /\ Len(data_out["read"]) < Depth
    /\ SendFlit("read", Job("read").id, Place("read"), FlitLeft("read") = 0, Zero)
    /\ pos' = [pos EXCEPT !["read"].flit = FlitLeft("read")]
    /\ Finish("read")
    /\ UNCHANGED <<hist, tluh, prep, buf, mask, data_in, mask_in, responses, done,
                   writeback, axi, requester>>

SendBeat(p, id, a, beat, strb, last) ==
    /\ Len(wr[p].data) < Depth
    /\ wr' = [wr EXCEPT ![p].data = Append(@, [id |-> id, addr |-> BeatAddr(a), data |-> beat,
                                               strb |-> strb, last |-> last])]

\* prepare_beat
WritePrepareBeat ==
    /\ beats["write"] # <<>> /\ ~Job("write").denied
    /\ data_in["write"] # <<>> /\ mask_in.fifo # <<>>
    /\ LET slot == NextSlot("write")
           k == IF First("write") THEN 0 ELSE (mask_in.cntr + 1) % MaskFlits
           beat == [buf["write"] EXCEPT ![slot] = Head(data_in["write"])]
           strb == [mask["write"] EXCEPT ![slot] = Head(mask_in.fifo).bits[k]]
       IN  /\ buf' = [buf EXCEPT !["write"] = beat]
           /\ mask_in' = [fifo |-> IF k + 1 = MaskFlits \/ FlitLeft("write") = 0
                                   THEN Tail(mask_in.fifo) ELSE mask_in.fifo,
                          cntr |-> k]
           /\ pos' = [pos EXCEPT !["write"] = [flit |-> FlitLeft("write"), slot |-> slot,
                                               last |-> LastCntr("write")]]
           /\ IF BeatDone("write")
              THEN /\ SendBeat("write", Job("write").id, Location("write"), beat, strb,
                            BurstDone("write"))
                   /\ mask' = [mask EXCEPT !["write"] = NoMask]
              ELSE /\ mask' = [mask EXCEPT !["write"] = strb]
                   /\ UNCHANGED wr
    /\ data_in' = Take(data_in, "write")
    /\ Finish("write")
    /\ UNCHANGED <<hist, tluh, prep, responses, done, writeback, data_out, rd,
                   write_order, aw, queue, mem, requester>>

\* Faulty variant: the mask of denied data stays in its FIFO.
MaskStays(k) == FALSE

\* When drop_denied drops a mask flit.
DropsMask(k) == k = 0

\* drop_denied of the write handler
WriteDropDenied ==
    /\ beats["write"] # <<>> /\ Job("write").denied /\ data_in["write"] # <<>>
    /\ LET k == IF First("write") THEN 0 ELSE (mask_in.cntr + 1) % MaskFlits
       IN  /\ DropsMask(k) => mask_in.fifo # <<>>
           /\ mask_in' = [fifo |-> IF DropsMask(k) THEN Tail(mask_in.fifo) ELSE mask_in.fifo,
                          cntr |-> k]
    /\ data_in' = Take(data_in, "write")
    /\ pos' = [pos EXCEPT !["write"].flit = FlitLeft("write")]
    /\ Finish("write")
    /\ UNCHANGED <<hist, tluh, prep, buf, mask, responses, done, writeback,
                   data_out, axi, requester>>

\* set_done: a response for each burst of the request
WriteSetDone ==
    /\ responses.fifo # <<>> /\ ~Head(responses.fifo).denied
    /\ wr["write"].resp # <<>> /\ done < Depth
    /\ wr' = [wr EXCEPT !["write"].resp = Tail(@)]
    /\ IF responses.received + 1 = Head(responses.fifo).bursts
       THEN /\ done' = done + 1
            /\ responses' = [fifo |-> Tail(responses.fifo), received |-> 0]
       ELSE /\ responses' = [responses EXCEPT !.received = @ + 1]
            /\ UNCHANGED done
    /\ UNCHANGED <<hist, tluh, prep, beats, pos, buf, mask, data_in, mask_in,
                   writeback, data_out, rd, write_order, aw, queue, mem, requester>>

\* set_done_dropped
WriteSetDoneDropped ==
    /\ responses.fifo # <<>> /\ Head(responses.fifo).denied /\ done < Depth
    /\ done' = done + 1
    /\ responses' = [responses EXCEPT !.fifo = Tail(@)]
    /\ UNCHANGED <<hist, tluh, prep, beats, pos, buf, mask, data_in, mask_in,
                   writeback, data_out, axi, requester>>

\* retrieve_beat of the RMW handler
RMWRetrieveBeat ==
    /\ beats["rmw"] # <<>> /\ ~Job("rmw").denied /\ Len(writeback.fifo) < Depth
    /\ LET slot == NextSlot("rmw")
           fetch == First("rmw") \/ slot = 0
           beat == IF fetch THEN Head(rd["rmw"].data).cells ELSE buf["rmw"]
       IN  /\ fetch => rd["rmw"].data # <<>>
           /\ rd' = IF fetch THEN [rd EXCEPT !["rmw"].data = Tail(@)] ELSE rd
           /\ buf' = [buf EXCEPT !["rmw"] = beat]
           /\ writeback' = [writeback EXCEPT !.fifo =
                  Append(@, [slot |-> slot, old |-> beat[slot].val,
                             id |-> Job("rmw").id, addr |-> Location("rmw"),
                             beat |-> BeatDone("rmw"), burst |-> BurstDone("rmw"),
                             last |-> FlitLeft("rmw") = 0])]
           /\ pos' = [pos EXCEPT !["rmw"] = [flit |-> FlitLeft("rmw"), slot |-> slot,
                                             last |-> LastCntr("rmw")]]
    /\ Finish("rmw")
    /\ UNCHANGED <<hist, tluh, prep, mask, data_in, mask_in, responses, done,
                   data_out, wr, write_order, aw, queue, mem, requester>>

WritebackReady ==
    /\ writeback.fifo # <<>> /\ data_in["rmw"] # <<>> /\ Len(data_out["rmw"]) < Depth
    /\ Head(writeback.fifo).beat => Len(wr["rmw"].data) < Depth

\* writeback_data: the response carries what is written.
RMWWritebackData ==
    /\ WritebackReady
    /\ LET w == Head(writeback.fifo)
           new == Head(data_in["rmw"])
           held == writeback.buffer[w.slot].val
           cell == [by |-> w.id, pos |-> new.pos,
                    val |-> Written(req[w.id].calc, held, w.old, new.val)]
           beat == [writeback.buffer EXCEPT ![w.slot] = cell]
           strb == [mask["rmw"] EXCEPT ![w.slot] = TRUE]
       IN  /\ writeback' = [fifo |-> Tail(writeback.fifo), buffer |-> beat]
           /\ SendFlit("rmw", w.id, new.pos, w.last, cell)
           /\ IF w.beat
              THEN /\ SendBeat("rmw", w.id, w.addr, beat, strb, w.burst)
                   /\ mask' = [mask EXCEPT !["rmw"] = NoMask]
              ELSE /\ mask' = [mask EXCEPT !["rmw"] = strb]
                   /\ UNCHANGED wr
    /\ data_in' = Take(data_in, "rmw")
    /\ UNCHANGED <<hist, tluh, prep, beats, pos, buf, mask_in, responses, done,
                   rd, write_order, aw, queue, mem, requester>>

\* drop_denied of the RMW handler, preempted by writeback_data
RMWDropDenied ==
    /\ beats["rmw"] # <<>> /\ Job("rmw").denied /\ ~WritebackReady
    /\ data_in["rmw"] # <<>> /\ Len(data_out["rmw"]) < Depth
    /\ SendFlit("rmw", Job("rmw").id, Place("rmw"), FlitLeft("rmw") = 0, Zero)
    /\ pos' = [pos EXCEPT !["rmw"].flit = FlitLeft("rmw")]
    /\ data_in' = Take(data_in, "rmw")
    /\ Finish("rmw")
    /\ UNCHANGED <<hist, tluh, prep, buf, mask, mask_in, responses, done,
                   writeback, axi, requester>>

\* drop_response: nobody waits for the writes of an atomic.
RMWDropResponse ==
    /\ wr["rmw"].resp # <<>>
    /\ wr' = [wr EXCEPT !["rmw"].resp = Tail(@)]
    /\ UNCHANGED <<hist, tluh, handlers, rd, write_order, aw, queue, mem, requester>>

-----------------------------------------------------------------------------
(* AXIMerger and the memory *)

\* fullfill_write; the TL-C handler's port is left out.
FullfillWrite(p) ==
    /\ wr[p].addr # <<>> /\ Len(aw) < Depth
    /\ wr' = [wr EXCEPT ![p].addr = Tail(@)]
    /\ write_order' = Append(write_order, p)
    /\ aw' = Append(aw, [port |-> p, addr |-> Head(wr[p].addr).addr,
                         beats |-> Head(wr[p].addr).beats, id |-> Head(wr[p].addr).id])
    /\ UNCHANGED <<hist, tluh, handlers, rd, queue, mem, requester>>

\* A beat of the oldest burst has been transferred.
Advance(bursts) ==
    LET b == Head(bursts)
    IN  IF b.beats = 1 THEN Tail(bursts)
        ELSE [bursts EXCEPT ![1] = [b EXCEPT !.addr = b.addr + FlitsPerBeat, !.beats = b.beats - 1]]

\* forward_write_data of the merger; the memory takes the beats in the order of
\* the write requests.
ForwardWriteData ==
    /\ write_order # <<>> /\ aw # <<>> /\ wr[Head(write_order)].data # <<>>
    /\ LET p == Head(write_order)
           d == Head(wr[p].data)
           burst == Head(aw)
           final == burst.beats = 1
       IN  /\ wr' = [wr EXCEPT ![p].data = Tail(@)]
           /\ write_order' = IF d.last THEN Tail(write_order) ELSE write_order
           /\ aw' = Advance(aw)
           /\ queue' = [queue EXCEPT ![burst.port] =
                           Append(@, [addr |-> burst.addr, id |-> burst.id, data |-> d.data,
                                      strb |-> d.strb, final |-> final])]
    /\ UNCHANGED <<hist, tluh, handlers, rd, mem, requester>>

\* The memory performs the writes of a port in order and responds to a burst.
MemWrite(p) ==
    /\ queue[p] # <<>>
    /\ LET b == Head(queue[p]) IN
       /\ mem' = [a \in DOMAIN mem |->
                     IF a - b.addr \in Slot /\ b.strb[a - b.addr]
                     THEN b.data[a - b.addr] ELSE mem[a]]
       /\ wr' = IF b.final
                THEN [wr EXCEPT ![p].resp = Append(@, [id |-> b.id, addr |-> b.addr])]
                ELSE wr
    /\ queue' = [queue EXCEPT ![p] = Tail(@)]
    /\ UNCHANGED <<hist, tluh, handlers, rd, write_order, aw, requester>>

\* The memory reads a beat of the oldest burst of a port.
MemRead(p) ==
    /\ rd[p].addr # <<>> /\ Len(rd[p].data) < Depth
    /\ LET b == Head(rd[p].addr) IN
       rd' = [rd EXCEPT ![p] =
                 [addr |-> Advance(@.addr),
                  data |-> Append(@.data, [id |-> b.id, addr |-> b.addr,
                                          cells |-> [s \in Slot |-> mem[b.addr + s]]])]]
    /\ UNCHANGED <<hist, tluh, handlers, wr, write_order, aw, queue, mem, requester>>

-----------------------------------------------------------------------------
(* TilelinkHandlerTLUH: responses *)

Output(k, flits) ==
    /\ Len(out[k]) < Depth
    /\ out' = [out EXCEPT ![k] = @ \o flits]

StartFlit(id, len) == [start |-> TRUE, id |-> id, pos |-> 0, last |-> len = 0, cell |-> Zero]
DataFlit(d) == [start |-> FALSE, id |-> d.id, pos |-> d.pos, last |-> d.last, cell |-> d.cell]

\* enqueue_response_rd: the oldest of the reads and atomics
EnqueueResponseRd ==
    /\ waiting["rd"] # <<>>
    /\ LET w == Head(waiting["rd"])
           d == Head(data_out[w.from])
       IN  /\ data_out[w.from] # <<>>
           /\ \/ /\ ~sending
                 /\ Output("READ", <<StartFlit(w.id, w.flits)>>)
                 /\ sending' = TRUE
                 /\ UNCHANGED <<waiting, data_out>>
              \/ /\ sending
                 /\ Output("READ", <<DataFlit(d)>>)
                 /\ data_out' = Take(data_out, w.from)
                 /\ waiting' = IF d.last THEN Take(waiting, "rd") ELSE waiting
                 /\ sending' = ~d.last
    /\ UNCHANGED <<hist, u, forwarding, tlc, prep, beats, pos, buf, mask, data_in,
                   mask_in, responses, done, writeback, axi, requester>>

\* enqueue_response_wr
EnqueueResponseWr ==
    /\ done > 0 /\ waiting["wr"] # <<>>
    /\ Output("WRITE", <<StartFlit(Head(waiting["wr"]), 0)>>)
    /\ done' = done - 1
    /\ waiting' = Take(waiting, "wr")
    /\ UNCHANGED <<hist, u, sending, forwarding, tlc, prep, beats, pos, buf, mask,
                   data_in, mask_in, responses, writeback, data_out, axi, requester>>

\* enqueue_response_hint, less urgent than enqueue_response_wr
EnqueueResponseHint ==
    /\ done = 0 /\ waiting["hint"] # <<>>
    /\ Output("WRITE", <<StartFlit(Head(waiting["hint"]), 0)>>)
    /\ waiting' = Take(waiting, "hint")
    /\ UNCHANGED <<hist, u, sending, forwarding, tlc, handlers, axi, requester>>

\* The TL-C handler grants a block.
TLCRespond ==
    /\ tlc # <<>>
    /\ LET flits == Flits(req[Head(tlc)])
       IN  Output("TLC", <<StartFlit(Head(tlc), flits)>>
                         \o [k \in 1 .. flits |-> DataFlit([id |-> Head(tlc), pos |-> k - 1,
                                                            last |-> k = flits, cell |-> Zero])])
    /\ tlc' = Tail(tlc)
    /\ UNCHANGED <<hist, u, waiting, sending, forwarding, handlers, axi, requester>>

\* Faulty variant: any source may send the next flit.
AnySource(k) == TRUE

\* A source sends a whole message.
MayForward(k) == forwarding \in {"IDLE", k}

\* forward_read, forward_write and forward_tlc; the requester reads the flits
\* that follow a message's first one as its data.
Forward(k) ==
    /\ out[k] # <<>> /\ MayForward(k)
    /\ LET f == Head(out[k])
           id == IF f.start THEN f.id ELSE current
       IN  /\ forwarding' = IF f.last THEN "IDLE" ELSE k
           /\ current' = id
           /\ answer' = IF f.start THEN answer ELSE [answer EXCEPT ![id] = Append(@, f.cell)]
           /\ answered' = IF f.last THEN answered \cup {id} ELSE answered
    /\ out' = Take(out, k)
    /\ UNCHANGED <<hist, u, waiting, sending, tlc, handlers, axi>>

-----------------------------------------------------------------------------
Next ==
    \/ StartRead \/ StartWrite \/ StartRMW \/ StartHint \/ ForwardToTLC \/ ForwardData
    \/ \E h \in Handler : PrepareRequest(h)
    \/ ReadRetrieveBeat \/ ReadDropDenied
    \/ WritePrepareBeat \/ WriteDropDenied \/ WriteSetDone \/ WriteSetDoneDropped
    \/ RMWRetrieveBeat \/ RMWWritebackData \/ RMWDropDenied \/ RMWDropResponse
    \/ \E p \in WritePort : FullfillWrite(p) \/ MemWrite(p)
    \/ ForwardWriteData
    \/ \E p \in ReadPort : MemRead(p)
    \/ EnqueueResponseRd \/ EnqueueResponseWr \/ EnqueueResponseHint \/ TLCRespond
    \/ \E k \in {"READ", "WRITE", "TLC"} : Forward(k)

Spec == Init /\ [][Next]_vars

\* As long as a rule of the endpoint can fire, one does.
Fairness == WF_vars(Next)

FairSpec == Spec /\ Fairness

-----------------------------------------------------------------------------
(* Properties *)

\* Cells are cells and counters are in range.
TypeOK ==
    /\ mem \in [0 .. Words - 1 -> Cell]
    /\ \A id \in DOMAIN answer : answer[id] \in Seq(Cell)
    /\ answered \subseteq DOMAIN req
    /\ \A h \in Handler : /\ buf[h] \in [Slot -> Cell]
                          /\ pos[h] \in [flit : 0 .. Words, slot : Slot, last : 0 .. MaxBeats - 1]

\* Request id writes location a.
Writes(id, a) ==
    LET q == req[id]
        k == a - q.addr
    IN  /\ q.op \in PutOp \cup RMWOp /\ ~Denied(q)
        /\ k \in 0 .. Flits(q) - 1
        /\ q.op = "PutPartialData" => q.mask[k + 1]

\* The cell is what its writer meant for location a.
Meant(c, a) ==
    IF c.by = 0 THEN c.pos = a
    ELSE c.by \in DOMAIN req /\ Writes(c.by, a) /\ c.pos = a - req[c.by].addr

\* A write that began after request by was answered, and is itself one of ids,
\* has replaced what by left in location a.
Superseded(by, a, ids) ==
    \E w \in ids : /\ req[w].op \in PutOp /\ Writes(w, a)
                   /\ by = 0 \/ (by # w /\ by \in before[w])

\* A read returns, for each of its flits, what was meant for that location, and
\* nothing that was replaced before the read arrived.
ReadsFresh ==
    \A id \in answered : req[id].op = "Get" /\ ~Denied(req[id]) =>
        /\ Len(answer[id]) = Flits(req[id])
        /\ \A k \in DOMAIN answer[id] :
              LET a == req[id].addr + k - 1
              IN  Meant(answer[id][k], a) /\ ~Superseded(answer[id][k].by, a, before[id])

\* Memory holds only what some request meant for the location, denied and masked
\* flits leave no trace, and an acknowledged write is not undone by older ones.
WritesKept == \A a \in DOMAIN mem : Meant(mem[a], a) /\ ~Superseded(mem[a].by, a, answered)

SamePage(b) ==
    b.addr \div (MaxBeats * FlitsPerBeat)
        = (b.addr + b.beats * FlitsPerBeat - 1) \div (MaxBeats * FlitsPerBeat)

\* No burst crosses a 4 KiB boundary, and the beat marked last is the last one
\* of the burst the memory expects.
BurstsWellFormed ==
    /\ \A p \in ReadPort : \A i \in DOMAIN rd[p].addr : SamePage(rd[p].addr[i])
    /\ \A i \in DOMAIN aw : SamePage(aw[i])
    /\ write_order # <<>> /\ aw # <<>> /\ wr[Head(write_order)].data # <<>> =>
          /\ Head(aw).port = Head(write_order)
          /\ Head(wr[Head(write_order)].data).last <=> Head(aw).beats = 1

\* An atomic operation replaces the content of a location by its result on that
\* content.
AtomicsApplied ==
    [][\A a \in DOMAIN mem :
          LET by == mem'[a].by
          IN  mem'[a] # mem[a] /\ by # 0 /\ req[by].op \in RMWOp =>
                 mem'[a].val = Result(req[by].calc, mem[a].val, mem[a].val,
                                      Datum(by, mem'[a].pos).val)]_vars

\* Every request is answered.
RequestsAnswered == <>(todo = <<>> /\ answered = DOMAIN req)

=============================================================================
