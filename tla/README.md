# OmniXtend endpoint and requester library in TLA+

OmniXtend carries TileLink messages over Ethernet. The repository holds a memory
endpoint in Bluespec (`src/src`, `src/libraries/OmniXtend`) and a requester
library in Rust (`src/host_software/omnixtend-rs`). They speak the same protocol
but were written separately, run at very different speeds, and are tested
against each other on a simulated, loss-free wire. This project models both
sides, checks them on small instances with TLC, and proves the safety properties
of the link layer, the coherence protocol, flow control, the opening and closing of
connections and the burst handlers for every value of the constants with TLAPS.

`PROJECT.json` lists the components, the runs, the source lines behind every
definition, the hazards, the findings and the theorems.

## 1. The system

| Component | State | Operations | Correct when |
|---|---|---|---|
| Requester link layer (`connection.rs`, `tick.rs`, `sequence_number.rs`) | next number to send and to receive, last number received and acknowledged, copies of unacknowledged packets, queued resends | `send_packet`, `get_packet`, `process_packets`, `resend`, `remove_from_resend` | packets reach the endpoint once and in order; an acknowledgement never empties the buffer |
| Endpoint receiver (`OmnixtendReceiver`) | connection status, next number expected | parse a header; accept, refuse (NAK) or ignore a packet | the same, seen from the other end |
| Endpoint sender (`OmnixtendSender`, `...PacketBuilder`, `...Resend`, `TimeoutHandler`) | number to acknowledge, next number, resend buffer, resend request and timer | handle what the receiver saw, build a packet or a bare acknowledgement, drop what is acknowledged, resend | responses arrive once and in order; a lost packet is still stored; resending never stops |
| Flow control (`credits.rs`, `operations.rs`, `channels.rs`; `OmnixtendCreditHandler`, `TilelinkOutputCreditHandling`, `TilelinkInputChannelHandler`) | credits per channel on both sides, credits to return | take credits, return them in packet headers | no credit is lost or invented; nobody waits for ever |
| Requester cache (`cache.rs`) | permission and content of lines, probes | acquire, insert, read, write, release, answer a probe | with the next row: one writer or many readers; the newest value is read |
| Endpoint coherence (`TilelinkCacheMachine`, `TilelinkReleaseMachine`, `TilelinkHandlerTLC`) | per line: state, requester served, probes outstanding, queue of requests | probe, collect answers, grant, wait for GrantAck; take releases | every acquire is answered |
| Memory path (`TilelinkHandlerTLUH`, the three burst handlers, `AXIMerger`) | requests, beats, masks and responses under way | split requests into AXI bursts, repack flits and beats, atomics, merge responses | reads return what was written; denied requests leave no trace; every request is answered |
| Opening and closing (`connection.rs`, `OmnixtendReceiver`, packet builder, resend handler; `reset_con` of the configuration tool) | connection state on both sides, the slot and what it has stored | Open, Close, PCIe reset | both sides agree on the connection; a slot is opened once per connection and freed without open requests |
| Terminal front end (`omnixtend-tui`) | map of connections, queue of commands, threads | connect, read, write, release, disconnect, quit | the program ends when the user quits |
| Around it: top level and BRAM variant, AXI stream accumulator, status registers, bitload, simulator, testbenches | | | not modelled, see section 8 |

How they interact. An application thread of the requester calls the cache or an
operation; this takes credits and queues a TileLink message. The network thread
packs messages into numbered packets, receives packets, hands credits, probes and
responses on, and answers probes. The endpoint's receiver checks the number,
hands messages through credit accounting to the TL-UH and TL-C handlers and tells
the sender what to acknowledge. Responses and probes wait for the requester's
credits, are packed and numbered, kept for resends and sent. All parts of the
endpoint are rules that fire concurrently and meet in FIFOs.

What is hard. Frames may be lost; acknowledgements inside resent packets are old;
numbers wrap around; two threads of the requester share cache, credits and
queues; the application holds locks while it waits for the network; probes cross
releases and grants; memory answers late and reads may overtake writes; each side
computes message sizes by itself. `PROJECT.json` lists the hazards line by line.

## 2. Modules

| Module | Models | Lines of behaviour to look at |
|---|---|---|
| `ReliableLink` | abstract: one direction of a link that delivers in order, once | |
| `OmnixtendLink` | link layer of one connection, both ends and the wire | `RSendPacket`, `RReceive`, `EReceive`, `EHandleOp`, `ESendPacket`, `ESendAckOnly`, `EDropPacket`, `EStartResend`, `EDoResend`, `EResendTimeout` |
| `OmnixtendLink_proofs` | theorems: types, the resend timer | |
| `OmnixtendLink_order_proofs` | the invariant of the numbers, and that each step keeps its two data parts | |
| `OmnixtendLink_acks_proofs` | that each step keeps its acknowledgement parts; theorems: in order and once, nothing lost, no empty buffer popped | |
| `OmnixtendCoherence` | one cache line, several requesters with two threads each, the machine serving it | requester actions by thread, `StartProcessing` ... `WaitForAck` of the machine |
| `OmnixtendCoherence_proofs` | theorems: types, one token per transaction, answers find their machine | |
| `OmnixtendCoherence_values_proofs` | theorems: one writer, newest value | |
| `OmnixtendCredits` | flow control of one connection, both directions | `RTake`, `RAnswer`, `RSendPacket`, `EProcess`, `ETakeCredits`, `ESetupPacket`, `EUpdateCounter` |
| `OmnixtendCredits_proofs` | theorems: types, conservation, no underflow, circulation | |
| `OmnixtendConnection` | opening and closing: a library object, the endpoint's slot, lossy wires | `SendPacket`, `GetPacket`, `ProcessPacket`, `StoreReceived`, `SlotReceive`, `SlotSend`, `SlotClose`, `CloseOverPcie` |
| `OmnixtendTui` | composes it with the threads of the terminal front end | `ConnectionThread`, `Connect`, `Operate`, `Disconnect`, `Quit`, `Step` |
| `OmnixtendTui_proofs` | theorems: types, the ends agree, no empty buffer popped, a slot is freed without requests and opened once | |
| `OmnixtendMemory`, `MCMemory` | TL-UH handler, burst handlers, merger; request programs for TLC | one action per rule |
| `OmnixtendMemory_proofs` | theorems: types, beats and bursts agree | |

Each layer takes from the one below only what that one is shown to provide:
`OmnixtendCredits` and `OmnixtendCoherence` assume packets that arrive once and in
order, which is what `OmnixtendLink` is shown to implement (`UpReliable`,
`DownReliable`); the memory inside `OmnixtendCoherence` is a variable plus writes
under way.

Operators that carry the comment "Faulty variant" are never used by the
specifications. Each is the form a definition would have after a plausible
mistake; `PROJECT.json` says which property finds it.

### OmnixtendLink

Variables `r_...` are fields of `Connection`, `e_...` registers of the endpoint;
`up` and `down` are the wire. A packet is its type, number, acknowledgement and,
as a history value, the index `idx` in the order in which its sender numbered it.
Timeouts are choices: a running timer may expire at any time, which includes the
code's fixed times. The requester asks for a packet at any time, for messages of
its application and for the heartbeat. The endpoint's FIFO between receiver and
sender is `e_ops`; its arbiter prefers resends, but a packet already on its way
may overtake one that has just started (`e_slip`).

Loss is decided when a frame would arrive; since the wire keeps frames in order
this gives the same behaviours as loss at any time.

### OmnixtendCoherence

`c_pc` is the position of the application thread between the steps at which
another thread can see a difference: "wait" for a grant, "insert" after the
GrantAck is queued and before the entry is in the map, "release" while it holds the
lock on the entry. `c_blocked` says that the network thread waits for this lock.
The machine's variables have the names of its registers. The line's content is a
version number. `Prompt` names a timing assumption that the code relies on and
does not enforce: a round trip over the network takes longer than the
application's way from GrantAck to insertion and than a memory write.

### OmnixtendCredits

Messages are an operation and a length in flits. The requester's sizes
(`TakenFlits`, `GivenBackFlits`) and the endpoint's (`EndpointFlits`) are
translated from their own code, so that their agreement is checked and not
assumed. A packet carries one credit field: a channel and an exponent. `Machines`
is the endpoint's number of cache machines. Each has at most one unanswered probe at
a requester, since it begins another request only after all answers have arrived;
`Unanswered` counts them from where the probes and their answers are.

`AnswerHasCredits` is about the thread that both receives credits and waits for them.
Its limit is not in the code but in its numbers. In 1.1 mode the requester starts with
128 credits for C; four machines and lines of 8 bytes (`cache.rs` acquires no others)
make 12 for the answers due at a time, and the endpoint's 1024 further ones come in
its second packet unless the requester has used up those for A meanwhile. Where the
answers, and releases, that come before the first credits for C need more than
`DefaultCredits`, the property and `OperationCompletes` fail: for example
`DefaultCredits = 7`, `LineLens = {2}` and `MaxBegun = 3`, two probes in one packet
and an operation. Lines of 256 bytes would take the code there (4 * 34 = 136).

### OmnixtendMemory

Addresses count flits. A flit's content is a cell: a value and, as history, the
request that wrote it and the flit's place in that request. The request number `id`
in the entries of FIFOs, their address where the code has none (beats, masks,
responses), and `pos` are history as well: no guard reads them. The memory behind the
AXI bus is external: it performs the writes of a port in order, answers a burst
after its last beat, and serves reads and writes, and the two ports, in any
order. Requests come in programs, short sequences chosen in `MCMemory` for what
they make meet.

### OmnixtendConnection and OmnixtendTui

`life` numbers the `Connection` objects a requester makes one after the other;
`r_...` are the fields of the one in use, `e_...` what the endpoint keeps for the
slot. Numbers do not wrap and bare acknowledgements are left out: that is the
subject of `OmnixtendLink`. What matters here is which packets of an old
connection are still around: copies queued by `resend`, packets on the wire, and a
resend of the endpoint, which runs on when its slot is freed (`e_resending`).

A packet is received in two steps, because `set_connection_state_receive` loads
the state and stores it later (`r_received`), and so is a Close of the
application (`initiate`, `store`). Sending is one step: only the tick sends, and
what it reads before the state it stores (the number of outstanding operations)
can only be changed by a thread that registers an operation, which then counts
as registered after the packet.

`OmnixtendTui` has one position `pc[t]` for each thread that can be inside
`disconnect`: the operation thread for the command, the main thread after the
quit. "late" marks an operation whose thread had found the connection active and
registered it after the Close was sent. A thread inside `disconnect` holds the
guard on the map's entry, which keeps `retain` and `remove` out (`MapFree`). The
loop in which the main thread waits after the quit is the code's: it goes on
while a connection *is* idle (`KeepsWaiting`). The draw thread, the terminal and
the parsing of commands are left out; the network's two threads and queues are
part of the wires.

`Patient` names what the runs assume of the user: to connect to the same
endpoint again only after the last connection has left the network and the
endpoint's slot, if need be by a reset over PCIe. Nothing in the code enforces
it; see section 6.

## 3. Runs

| Run | Question | Result |
|---|---|---|
| `link_11` | 1.1 mode with bare acknowledgements: are requests delivered once and in order, still stored until accepted, and is no unsent packet acknowledged? | holds |
| `link_compat` | compat mode, the endpoint's numbers wrap: the same for responses; does resending stay armed? | holds |
| `link_live` | does every packet of either side arrive? (compat mode) | holds |
| `link_lost` | does every response arrive in 1.1 mode? | violated, finding 1 |
| `coherence` | three requesters, releases, aligned and unaligned line: one writer, newest value, answers find their machine | holds under `Prompt` |
| `coherence_live` | two requesters, no releases: is every acquire answered? | holds |
| `coherence_race` | one writer without `Prompt`? | violated, finding 2 |
| `coherence_release` | is every acquire answered with releases? | violated, finding 3 |
| `credits` | credits conserved, counters in range, no wait of the network thread for credits that only it receives, operations complete | holds where the initial credits cover the answers |
| `tui` | two connections one after the other, lossy wires, commands, quit at any time: do the ends agree, is a slot opened once and freed without requests, does the program end? | holds under `Patient` |
| `memory` | programs of reads, writes, masked writes, denied requests, atomics | holds |
| `memory_min` | is a minimum that keeps the old value applied? | violated, finding 4 |

Bounds.

- *Link.* `SeqMod = 6` with 7 packets makes the numbers of one direction wrap while
  packets of the other are lost and resent. A window of two (or two resend slots
  and one overtaking packet) is the least with a gap between the lost packet and
  the newest. `2 * Window <= SeqMod` and its counterpart are the code's 2^21 and
  2^22. Histories are bounded by `MaxUp` and `MaxDown`, queues by `WireCap` and
  `OpCap`. `SafetyView` leaves out three flags that no guard reads.
- *Coherence.* Three requesters are needed for one writer and two others that are
  probed. Versions count modulo 3: `View` identifies states by the age of a copy,
  so that "older" is never mistaken for "newest" within the copies that can exist.
- *Credits.* `DefaultCredits = 3` is the answer with data of the one cache machine,
  to the last credit, and with `StartCredits = 8` exactly the largest message, a
  masked write of eight flits; as in the code the endpoint grants a multiple of what
  is there from the start. Two may begin: an operation and a probe whose answer takes
  all credits for C, or a second probe while the credits of the first answer are
  still under way. `CounterMax` is smaller than what the requester grants, so that
  saturation happens. The write and the acquire with probes cover all channels and
  all kinds of size. Probes are answered with data, the larger answer. The instance
  with two machines and `MaxBegun = 3`, that is two probes in one packet and an
  operation, is too large with everything else; `AnswerHasCredits` and
  `OperationCompletes` hold in it, too, with `DefaultCredits = 6`, `StartCredits = 4`,
  `Ops = {"WritePartial", "AcquirePerm"}`, `WriteLens = {4}` and `HostCredits = 0`
  (without the requester's grants).
- *Connection.* Two lifetimes, since the hazard is what the first leaves to the
  second; three commands are enough for connect, disconnect, connect and for
  connect, operation, disconnect. Three packets of the requester are the Open, a
  packet with a request (or none) and the Close; the endpoint has a number for
  every answer and one without. One packet on the wire per direction: more of
  them wait in the senders' queues, which lose nothing, and the order is the same.
  `Endpoint` and `Loss` stop with the program, when nobody looks any more.
- *Memory.* Two flits per beat and four beats per burst; the largest request has
  two bursts, as in the code. Four flits per mask flit, so that a masked write
  needs two. FIFOs have their depth of two.

Deadlock is not checked: applications may stop asking, bounded histories end, and
the programs of the memory module end. What must go on is stated as a liveness
property.

Fairness. The requester's threads and the endpoint's rules are scheduled for
ever, hence weak fairness of what they do once begun; starting an operation is
not fair. In `OmnixtendLink` the wire is strongly fair for each packet: one that
is sent again and again is not lost every time. In `OmnixtendCredits` and
`OmnixtendMemory` it is enough that *some* enabled step of the system is taken:
what is checked there is that no state without progress exists. In `OmnixtendTui`
only the operation and main threads are fair (they are scheduled, and the timeout
of `close_connection` expires) and the second half of a reception; neither the
wire nor the endpoint is assumed to do anything. `QuitEnds` therefore has the
premise that the operations a thread waits for are answered.

## 4. What is proved

All results hold for every value of the constants that satisfies the module's
assumption; where a theorem needs more, its statement says so. The inductive
invariants were checked with TLC, on the instances of section 3, before they were
proved.

### Link layer

`LinkAssumption`: windows are at most half of the number range (2^21 and 2^22 in
the code) and there are more than two numbers.

- `LinkTypeCorrect`: `Spec => []TypeOK`. One lemma per action; `TypeOK` is
  inductive. The arithmetic is that `Incr` stays in the range of the numbers and
  that `e_slip` does not pass below zero.
- `ResendNeverSleeps`: `Spec => []ResendArmed`. `ResendArmed` is not inductive: it
  only speaks about states with stored packets, while the timer is set or lost
  also when nothing is stored. `ArmedInv` drops that condition: from the first
  accepted packet on, the timer runs, a resend is asked for or under way, or the
  operation that starts one is still in the FIFO; and the connection is active
  once a packet was accepted, which `forwardTimeout` needs to turn an expiry into
  a resend.
- `LinkInvariant`: `Spec => []LinkInv`. The guards compare remainders modulo
  `SeqMod`; the properties speak about counts. `LinkInv` ties them together, in
  four parts.
  - `UpData` and `DownData`, one per direction: every copy of a packet, on the wire,
    queued for a resend or stored, carries the remainder of its index, and its index
    is less than half of the range behind what the receiver expects; so a packet
    whose number is the expected one *is* the expected one. This bound is inductive
    only together with the order on the wire (`Spread`: a packet is never followed
    by one that is a window older) and with the shape of the resend buffer (the
    newest packets, without a gap).
  - `UpAcks` and `DownAcks`: an acknowledgement the other side can still take is
    never beyond what was accepted and never before one taken earlier. It has to
    hold of all copies, since a resent packet carries an acknowledgement from the
    past; of the operations between receiver and sender; and, for bare
    acknowledgements, of those with the same number in their order on the wire
    (`AckOnlyOrder`).
  - `RClaims` is what the requester acknowledges. In 1.1 mode this is one packet
    more than it received when the last thing it took was a bare acknowledgement:
    finding 1, as a term of the invariant. `DownAcks` says that it is never more
    than one.
- From it follow `AcksNeverExceedSent` (`ExpectHolds`), `UpNeverLost`
  (`UpRecoverable`), and `DownNeverLost` (`DownRecoverable`), the last one in compat
  mode only: in 1.1 mode run `link_lost` refutes it.
- `UpDeliveryReliable`, `DownDeliveryReliable`: both directions implement
  `ReliableLink`, in both modes. Initial states map to initial states; every step is
  a step of the channel or leaves its two variables unchanged.

### Coherence

- `TypeCorrect`: `Spec => []TypeOK`. `Types` strengthens it with the kind of message
  each queue holds, so that every field an action reads exists.
- `TokenInvariant`: `Spec => []TokenInv`. Nothing numbers transactions in the code;
  the machine knows from its state what a message belongs to. `TokenInv` says why
  this works: per connection there is at most one acquire, one grant or GrantAck,
  one release or ReleaseAck, one probe or answer, and where it is determines the
  machine's state and the thread's position. `MachineOK` adds what the machine's
  bookkeeping of probed connections means. `AnswersAwaited` (`AnswerAwaited`) is a
  consequence. None of these needs `Prompt`.
- `OneWriter`: `Prompt` implies `Spec => []SingleWriter`. `PermInv` speaks about
  permissions that are granted and not yet inserted (`May`) as well as about
  entries, and says of every connection, while a request is served, that it has
  at most what the request leaves it or is going to be probed (`Capping`); an answer
  with data ends the probing, which is right since it comes from the only writer.
- `CopiesAreNewest`: `Prompt` implies `Spec => []LatestValue`. `DataInv` says of every
  copy, grant and answer that it carries the newest version, and that somebody has
  it (`Backed`): memory with its writes under way, an owner, or the machine.

`Prompt` cannot be left out: without it run `coherence_race` has a counterexample.
The number of connections is arbitrary.

### Flow control

`CreditsAssumption`: the credits both sides start with fit into the endpoint's
counter (1152 and 2^24 - 1 in the code).

- `TypeCorrect`: `Spec => []TypeOK`. `Types` adds the direction and channel of every
  message, without which a credit could be counted for the wrong channel, and that
  one removal and one packet under construction exist at most.
- `CountersNeverWrap`: `Spec => []NoUnderflow`. `calculate_sendable_credits` reads the
  counter, `update_counter` subtracts later. Together with `Types` it is inductive
  because the field is computed only while no removal is outstanding
  (`RemovalDone`) and, until it is, other rules only add.
- `CreditsAreConserved`: `Spec => []CreditsConserved`. Each action moves credits
  between the summands of `UpCredits`. It needs `NoUnderflow`, for the subtraction,
  and is itself what keeps the counter from saturating: the sum is at most
  `CounterMax`. Where a message passes from one side to the other it needs that both
  sides compute the same size (`TakenFlits` and `EndpointFlits`), which is a lemma
  over all operations and lengths.
- `SendCreditsCirculate`: `Spec => []SendCreditsComeBack`, in the other direction,
  where counters do saturate.

The sums over queues are recursive functions. What they compute when a queue grows
or shrinks (`Sum`, `OnChannel`, `TwoTo`) is proved by taking the least index at
which the claim fails, a set of naturals, instead of by the library's induction
theorems.

### Opening and closing

All five theorems assume `Patient`, as the run does: a user who connects again while
packets of the last connection are under way can make the requester panic (section
6). With `Patient = FALSE` in `tui.cfg` TLC refutes `TypeOK`, `ExpectHolds` and
`SlotAgreement`; it finds no violation of `ReleasedIdle` and `OpenOnce`, but the
invariant that proves them does not hold then. The theorems are for any number of
connections, packets and commands and any room on the wires, through losses and
resends on both sides.

- `TypeCorrect`: `Spec => []TypeOK`.
- `ResendBufferExpect`: `Spec => []ExpectHolds`.
- `EndsAgree`: `Spec => []SlotAgreement`.
- `SlotReleasedIdle`: `Spec => []ReleasedIdle`.
- `OpenedOnce`: `Spec => OpenOnce`.

They follow from one inductive invariant, `TuiInv`. The properties look at states
of the object and of the slot; what makes them true is where the copies of a packet
are and which thread stands where, so most of the invariant is about those.

- `ThreadsOK`: a thread that is inside an operation or inside `disconnect` has the
  connection in the map, and it counts as outstanding exactly while it waits.
  `Dropped`: nothing is left of an object that was removed.
- `UpOrder` and `DownOrder` are about all copies of a packet, on a wire, queued for a
  resend or stored: one number stands for one packet, acknowledgements grow with
  the numbers, and no packet acknowledges what the slot has not taken in. The
  resend buffer of the object holds the newest packets without a gap. `ExpectHolds`
  is a consequence.
- `Closing` says what a Close has waited for: the acknowledgement of packet 0 and the
  operations. `CloseSent` must not be read off `r_state`, which a second thread in
  `disconnect` may overwrite. It is read off the resend buffer and the slot; and
  the invariant says that a state stored late finds every thread past the point
  where it could begin an operation.
- `FirstGone`: no copy of the Open is behind a Close, in the order resend queue, new
  packet, wire. It is what the wait of `close_connection` is for, and it needs
  `get_packet` to send resends first: together they give `OpenOnce`.
- `Closed`: the endpoint's Close is sent by freeing the slot, so whoever has received
  it finds the slot free.
- `Requests`: the request or the response of a thread is in one place at a time, of
  the six between `perform` and `wait_for_response`, resent copies that will be
  refused aside. With `Closing` this gives `ReleasedIdle`.

### Memory path

`MemoryAssumption`: the flits of a beat, the beats of a burst and the values of a flit
are powers of two (8, 64 and 2^64 in the code), a burst may have more than two
beats, a mask flit covers at most 15 data flits (8; its counter has four bits), and
requests lie in memory. Nothing is assumed about the number, kind, size and order of
the requests of a program, nor about the depth of FIFOs.

- `TypeCorrect`: `Spec => []TypeOK`. `Types` adds what every FIFO entry must be for the
  rule that takes it: a flit left of the request, a slot of the beat, a bit of the
  mask, a response for a request that was accepted, a beat inside memory. For the
  last one a request that is a power of two long, aligned or not, has to be cut into
  beats that stay in memory.
- `BurstsMeetBeats`: `Spec => [](AtomicsAligned => BurstsWellFormed)`. A handler asks for
  the bursts of a request in one rule (`prepare_request`, which counts beats down and
  cuts after `MaxBeats`) and marks the last beats of bursts in another one
  (`prepare_beat` or `retrieve_beat`, which count flits, slots and beats up). The two
  run at their own speed, several requests apart, and the merger relies on their
  agreement: it moves on to the next port when a beat is marked. `BurstsInv` says, for
  each port:
  - `FlowOK`: beats (sent, written back, still to be put together) and bursts
    (accepted by memory, asked for, still to be asked for) are each in the order of
    requests and addresses, and the locations whose beat and whose burst has not
    reached memory are the same. It is stated with intervals of locations (spans);
    the head of one side then has to be the head of the other.
  - `MarksOK` and `AsksOK`: beats are marked, and bursts end, where `EndsBurst` says
    that a burst of the request ends.
  - `JobsOK`: the three counters of a handler tell where the next flit lies; in
    particular `last_cntr`, which is compared before it is reset for a new request,
    is never left at its limit by the request before.
  - `PagesOK`: no burst crosses a page, and what is left of a long request begins with
    one, since an aligned request is either within a page or made of whole pages.
  - `OrderOK`: the merger's `write_order` lists the ports of the accepted bursts.

`AtomicsAligned` says that no atomic accepted so far is misaligned. It cannot be left
out: the RMW handler asks for the bursts of a denied atomic and sends no beats
(section 6).

## 5. What is only model-checked

- Liveness under fairness: `UpDelivered`, `DownDelivered`, `AcquireAnswered`,
  `OperationCompletes`, `RequestsAnswered`, `QuitEnds`. It is outside of the prover's
  reach.
- `AnswerHasCredits`. It depends on the numbers (section 2), so there is nothing to
  prove for all of them.
- `WritesKept`, `ReadsFresh` and `AtomicsApplied` of `OmnixtendMemory`. They do not hold
  for all programs: an atomic is answered before its write has reached memory, so a
  write that follows it to the same location can be undone, and two atomics can read
  the same content. The run has no program with such a pair.

## 6. Findings

1. *Acknowledged before it is sent* (`link_lost`). A bare acknowledgement carries
   the number of the endpoint's next packet; the requester stores it as received
   and acknowledges it. The endpoint then drops this packet from its resend
   buffer as soon as it is sent, and its loss is never repaired.
2. *Grant and probe race* (`coherence_race`). GrantAck is queued before the line is
   in the cache. A probe that arrives in between is answered as if the line were
   not cached, and two requesters end up with a writable copy.
3. *Release and probe* (`coherence_release`). The application holds the lock on an
   entry while it waits for the ReleaseAck; the network thread needs the lock to
   answer a probe before it can receive anything.
4. *Minimum and maximum* (`memory_min`). When the operand does not replace the
   old value the handler writes back an old content of its buffer.

More were met while the runs were being set up. They are in the hazard list with
the property that shows them; the passing runs leave out what triggers them.

- A denied acquire leaves the cache machine waiting (`Alignments = {FALSE}`); a
  ProbeAckData that arrives while probes are being sent leaves later probes unsent
  (three requesters under fairness).
- Two atomics to one location can both read the old content; a denied atomic
  still announces a write burst and blocks the writes behind it.
- The network thread waits in `get_credits` for credits that only itself can
  receive, once it has more to answer than the initial credits cover (section 2). In
  compat mode (`DefaultCredits = 0`) one probe is enough: the endpoint's first packet
  returns credits for A; when it also brings a probe, the thread waits for credits for
  C, and the next packet, which brings them, is never received. `AnswerHasCredits` and
  `OperationCompletes` fail.
- Without `Patient`, `ExpectHolds` of `OmnixtendTui` fails: the user disconnects
  before the endpoint's first packet has arrived (`close_connection` refuses, the
  object is removed) and connects again; that first packet acknowledges the old
  Open, and `remove_from_resend` panics on its empty buffer
  (`connection.rs`, line 540). The connection thread is gone from then on.
- After the quit two threads may be inside `disconnect`. The later one stores
  ClosedByHost over ClosedByHostIndicated, a second Close is sent, and the ends no
  longer agree; this is why `SlotAgreement` ends with the quit.
- The draw thread ends the other threads when drawing fails. If a connection is
  idle then, nobody removes it and the main thread's loop does not end.

## 7. Plan

Done: link layer, coherence of a line, flow control, memory path, opening and
closing with the terminal front end; all safety properties proved, those of section
5 aside.

1. The simulator's front end: frames cut into flits and put together again, several
   requesters behind one port.
2. The endpoint's resend ring buffer at flit level: pointers, full and empty,
   storing during a resend, implementing `e_resend_buffer`.
3. `OmnixtendCoherence`: AcquirePerm, several lines and the choice among machines.
4. Proofs: `WritesKept` and `ReadsFresh` for programs in which nothing follows an
   atomic to its location.

## 8. Not modelled

- The search for a free slot among several, a Close that the endpoint starts
  (no code does), and compat mode, which has neither Open nor Close.
- Top level wiring, clock crossings, the BRAM variant and the AXI stream
  accumulator: they pass whole items through FIFOs that the modules already have
  as queues.
- Status registers and the other commands of the configuration tool: they observe
  only.
- The terminal itself, its draw thread and the parsing of commands; bitload,
  simulator and testbenches: input and output around the same library object.
- Contents of messages beyond what decides control; accesses below a flit.
