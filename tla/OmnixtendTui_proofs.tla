-------------------------- MODULE OmnixtendTui_proofs --------------------------
(***************************************************************************)
(* Theorems about OmnixtendTui with the connections of OmnixtendConnection *)
(* for any number of connections, packets and commands, provided that the  *)
(* user is Patient.                                                        *)
(***************************************************************************)
EXTENDS OmnixtendTui, FiniteSetTheorems, SequenceTheorems, TLAPS

Packets(q) == {q[k] : k \in DOMAIN q}

\* Every copy of a packet that is on its way or can still be sent.
UpPackets == Packets(up) \cup Packets(r_resend_data) \cup Packets(r_packet_data)
             \cup Packets(r_buffer)
DownPackets == Packets(down) \cup Packets(e_resending) \cup Packets(e_buffer)

\* The slot was opened by the current connection.
SlotOpened == e_life = life

\* How many packets of the current connection the slot has taken in.
Taken == IF SlotOpened THEN e_next_rx ELSE 0

\* The positions of the threads.
Places == [operation |-> {"loop", "perform", "wait", "late", "leave", "done"} \cup Disconnecting,
           main |-> {"run", "leave", "spin", "done"} \cup Disconnecting]

Received == [state : ConnectionState, kind : {"Normal", "Close"}, ops : SUBSET Threads]

Types ==
    /\ life \in Nat /\ r_state \in ConnectionState
    /\ r_next_tx \in 0 .. MaxTx /\ r_next_rx \in Nat /\ r_first \in Int
    /\ r_buffer \in Seq(Packet) /\ r_resend_data \in Seq(Packet)
    /\ r_packet_data \in Seq(Packet) /\ Len(r_packet_data) <= 1
    /\ r_received \in Seq(Received) /\ Len(r_received) <= 1
    /\ r_ops \subseteq Threads /\ r_answered \subseteq Threads /\ r_outstanding \subseteq Threads
    /\ e_status \in SlotStatus /\ e_life \in Nat /\ e_life <= life /\ life <= Lifetimes
    /\ e_next_rx \in 0 .. MaxTx /\ e_next_tx \in Nat
    /\ e_buffer \in Seq(Packet) /\ e_resending \in Seq(Packet)
    /\ e_requests \subseteq Threads
    /\ up \in Seq(Packet) /\ down \in Seq(Packet)
    /\ Len(up) <= WireCap /\ Len(down) <= WireCap
    /\ in_map \in BOOLEAN /\ quit \in BOOLEAN
    /\ in_map => life > 0
    /\ e_status # "IDLE" => e_life > 0

\* A thread is in the program's text; it counts as outstanding while it waits;
\* while it uses the connection the connection is in the map.  Before the quit
\* the main thread only waits for it.
ThreadsOK ==
    /\ pc \in [Threads -> Places["operation"] \cup Places["main"]]
    /\ \A t \in Threads :
          /\ pc[t] \in Places[t]
          /\ t \in r_outstanding <=> Waits(t)
          /\ pc[t] \in Disconnecting \cup {"perform", "wait", "late"} => in_map
    /\ ~quit => pc["main"] = "run"

\* Nothing is left of an object that was dropped.
Dropped ==
    ~in_map =>
        /\ r_next_tx = 0 /\ r_next_rx = 0 /\ r_first = None
        /\ r_buffer = <<>> /\ r_resend_data = <<>> /\ r_packet_data = <<>>
        /\ r_ops = {} /\ r_outstanding = {} /\ r_answered = {} /\ r_received = <<>>

\* The packets of the requester: the resend buffer holds the newest ones, what
\* is acknowledged was taken in, and a number stands for one packet.
UpOrder ==
    /\ \A p \in UpPackets : p.life = life /\ p.seq < MaxTx
    /\ \A p, q \in UpPackets : p.seq = q.seq => p = q
    /\ in_map =>
          /\ \A p \in UpPackets : p.seq < r_next_tx
          /\ Taken <= r_next_tx /\ -1 <= r_first /\ r_first < Taken
          /\ r_first + Len(r_buffer) + 1 = r_next_tx
          /\ \A k \in DOMAIN r_buffer : r_buffer[k].seq = r_first + k

\* The packets of the endpoint: none before the slot is opened, and those that
\* the requester can still accept acknowledge no less than the ones before.
DownOrder ==
    /\ \A p \in DownPackets : SlotOpened /\ p.ack < Taken /\ p.kind \in {"Normal", "Close"}
    /\ \A p, q \in DownPackets :
          (p.seq = q.seq => p = q) /\ (p.seq < q.seq => p.ack <= q.ack)
    /\ \A p \in DownPackets : r_next_rx <= p.seq => r_first <= p.ack
    /\ r_next_rx > 0 => SlotOpened
    /\ e_status # "IDLE" =>
          SlotOpened /\ r_next_rx <= e_next_tx /\ \A p \in DownPackets : p.seq < e_next_tx
    /\ e_status = "IDLE" => e_buffer = <<>> /\ e_next_tx = 0

\* The requester has sent a Close.
CloseSent ==
    \/ \E p \in Packets(r_buffer) : p.kind = "Close"
    \/ SlotOpened /\ e_status # "ACTIVE"

\* A thread that has done what it can to close the connection.
Past(t) == pc[t] \in {"idle", "leave", "spin", "done"}

\* The Close of the requester waits for the acknowledgement of packet 0 and for
\* the operations.  A state stored later over the one the Close led to does no
\* harm, since then no thread begins an operation any more.
Closing ==
    in_map =>
        /\ r_state \in {"Enabled", "Opened", "Active"} => ~CloseSent
        /\ r_received # <<>> => r_next_rx > 0
        /\ r_received # <<>> /\ Head(r_received).state = "Opened" => ~CloseSent
        /\ r_state = "Active" => r_next_rx > 0
        /\ r_state \in {"ClosedByHost", "ClosedByClient"} \/ CloseSent => r_first # None
        /\ r_state = "ClosedByHost" \/ CloseSent => \E t \in Threads : Past(t)
        /\ r_state = "ClosedByHost" /\ CloseSent => \A t \in Threads : Past(t)
        /\ \A t \in Threads :
              /\ pc[t] \in {"initiate", "store"} => r_first # None
              /\ pc[t] \in {"wait", "flushing"} => ~CloseSent

\* The Close of the endpoint leaves the slot free, for good.
Closed ==
    /\ (\E p \in DownPackets : p.kind = "Close") => e_status = "IDLE"
    /\ in_map /\ r_state \in {"Idle", "ClosedByClient"} => SlotOpened /\ e_status = "IDLE"
    /\ r_received # <<>> /\ Head(r_received).kind = "Close" => SlotOpened /\ e_status = "IDLE"

HasClose(q) == \E k \in DOMAIN q : q[k].kind = "Close"
HasFirst(q) == \E k \in DOMAIN q : q[k].seq = 0

\* No copy of packet 0 is behind a Close, and none is left when the slot has
\* taken in the Close, which the slot's status remembers.
FirstGone ==
    /\ \A i, j \in DOMAIN up : i < j /\ up[i].kind = "Close" => up[j].seq # 0
    /\ HasClose(up) => ~HasFirst(r_resend_data) /\ ~HasFirst(r_packet_data)
    /\ HasClose(r_resend_data) => ~HasFirst(r_resend_data) /\ ~HasFirst(r_packet_data)
    /\ HasClose(r_buffer) => ~HasFirst(r_packet_data)
    /\ SlotOpened /\ e_status # "ACTIVE" => \A p \in UpPackets : p.seq # 0
    /\ \A p \in UpPackets : p.kind = "Close" /\ p.seq < Taken => e_status # "ACTIVE"

\* Where the request or the response of thread t is.
InUp(t) == \E p \in UpPackets : Taken <= p.seq /\ t \in p.ops
InDown(t) == \E p \in DownPackets : r_next_rx <= p.seq /\ t \in p.ops
InReceived(t) == r_received # <<>> /\ t \in Head(r_received).ops

\* It is in one place at a time, and only while the thread waits.
OnePlace(t) ==
    /\ t \in r_ops => ~InUp(t) /\ t \notin e_requests /\ ~InDown(t) /\ ~InReceived(t)
                      /\ t \notin r_answered /\ t \in r_outstanding
    /\ InUp(t) => t \notin e_requests /\ ~InDown(t) /\ ~InReceived(t) /\ t \notin r_answered
                  /\ t \in r_outstanding
    /\ t \in e_requests => ~InDown(t) /\ ~InReceived(t) /\ t \notin r_answered
                           /\ t \in r_outstanding
    /\ InDown(t) => ~InReceived(t) /\ t \notin r_answered /\ t \in r_outstanding
    /\ InReceived(t) => t \notin r_answered /\ t \in r_outstanding
    /\ t \in r_answered => t \in r_outstanding
    /\ \A p, q \in UpPackets :
          Taken <= p.seq /\ Taken <= q.seq /\ t \in p.ops /\ t \in q.ops => p = q
    /\ \A p, q \in DownPackets :
          r_next_rx <= p.seq /\ r_next_rx <= q.seq /\ t \in p.ops /\ t \in q.ops => p = q

Requests ==
    /\ in_map => \A t \in Threads : OnePlace(t)
    /\ ~in_map => e_requests = {} /\ \A p \in UpPackets : Taken <= p.seq => p.ops = {}
    /\ ~SlotOpened => e_requests = {}

TuiInv ==
    /\ Types /\ ThreadsOK /\ Dropped /\ UpOrder /\ DownOrder
    /\ Closing /\ Closed /\ FirstGone /\ Requests

-----------------------------------------------------------------------------
(* Queues *)

\* The head and the tail of a queue that is not empty.
LEMMA HeadTail ==
  ASSUME NEW S, NEW q \in Seq(S), q # <<>>
  PROVE  /\ Head(q) \in S /\ Tail(q) \in Seq(S)
         /\ Packets(Tail(q)) \subseteq Packets(q) /\ Head(q) \in Packets(q)
         /\ Len(Tail(q)) = Len(q) - 1
  BY DEF Packets

\* An empty queue holds nothing.
LEMMA PacketsEmpty == Packets(<<>>) = {}
  BY DEF Packets

\* A queue over S holds elements of S.
LEMMA PacketsType ==
  ASSUME NEW S, NEW q \in Seq(S)
  PROVE  Packets(q) \subseteq S
  BY DEF Packets

\* A queue with one more element.
LEMMA PacketsAppend ==
  ASSUME NEW S, NEW q \in Seq(S), NEW x \in S
  PROVE  /\ Append(q, x) \in Seq(S) /\ Len(Append(q, x)) = Len(q) + 1
         /\ Packets(Append(q, x)) = Packets(q) \cup {x}
  <1> DEFINE t == Append(q, x)
  <1>1. /\ t \in Seq(S) /\ Len(t) = Len(q) + 1
        /\ \A k \in DOMAIN q : k \in DOMAIN t /\ t[k] = q[k]
        /\ Len(q) + 1 \in DOMAIN t /\ t[Len(q) + 1] = x
        /\ \A k \in DOMAIN t : k \in DOMAIN q \/ k = Len(q) + 1
    OBVIOUS
  <1> HIDE DEF t
  <1>2. Packets(t) = Packets(q) \cup {x}
    BY <1>1, Zenon DEF Packets
  <1> QED
    BY <1>1, <1>2 DEF t

\* A queue with one element.
LEMMA PacketsOne ==
  ASSUME NEW S, NEW x \in S
  PROVE  <<x>> \in Seq(S) /\ Len(<<x>>) = 1 /\ Packets(<<x>>) = {x}
  BY DEF Packets

\* A queue that lost its first m elements.
LEMMA DropFirst ==
  ASSUME NEW S, NEW q \in Seq(S), NEW m \in 0 .. Len(q)
  PROVE  /\ SubSeq(q, m + 1, Len(q)) \in Seq(S)
         /\ Len(SubSeq(q, m + 1, Len(q))) = Len(q) - m
         /\ \A k \in 1 .. Len(q) - m : SubSeq(q, m + 1, Len(q))[k] = q[k + m]
         /\ Packets(SubSeq(q, m + 1, Len(q))) \subseteq Packets(q)
  <1> DEFINE t == SubSeq(q, m + 1, Len(q))
  <1>1. \A k \in m + 1 .. Len(q) : q[k] \in S
    OBVIOUS
  <1>2. /\ t \in Seq(S) /\ Len(t) = Len(q) - m
        /\ \A k \in 1 .. Len(q) - m : t[k] = q[k + m]
    BY <1>1, SubSeqProperties
  <1> HIDE DEF t
  <1>3. Packets(t) \subseteq Packets(q)
    <2>1. \A k \in DOMAIN t : k + m \in DOMAIN q /\ t[k] = q[k + m]
      BY <1>2
    <2> QED
      BY <2>1, Zenon DEF Packets
  <1> QED
    BY <1>2, <1>3 DEF t

\* Whether a queue holds a Close, or packet 0.
LEMMA HasPackets ==
  ASSUME NEW q
  PROVE  /\ HasClose(q) <=> \E p \in Packets(q) : p.kind = "Close"
         /\ HasFirst(q) <=> \E p \in Packets(q) : p.seq = 0
  BY Zenon DEF HasClose, HasFirst, Packets

\* What is dropped from the slot's resend buffer is not added to it.
LEMMA UnackedType ==
  ASSUME Types, NEW a
  PROVE  Unacked(a) \in Seq(Packet) /\ Packets(Unacked(a)) \subseteq Packets(e_buffer)
  <1> DEFINE acked == {k \in DOMAIN e_buffer : e_buffer[k].seq <= a}
             D == 1 .. Len(e_buffer)
  <1>1. e_buffer \in Seq(Packet) /\ Len(e_buffer) \in Nat /\ DOMAIN e_buffer = D
    BY DEF Types
  <1>2. IsFiniteSet(D) /\ Cardinality(D) = Len(e_buffer)
    <2>1. IsFiniteSet(D) /\ Cardinality(D) = IF 1 > Len(e_buffer) THEN 0 ELSE Len(e_buffer) - 1 + 1
      BY <1>1, FS_Interval, 1 \in Int, Len(e_buffer) \in Int
    <2> QED
      BY <1>1, <2>1
  <1>3. acked \subseteq D
    BY <1>1, Zenon
  <1> HIDE DEF acked, D
  <1>4. Cardinality(acked) \in Nat /\ Cardinality(acked) <= Len(e_buffer)
    BY <1>2, <1>3, FS_Subset, FS_CardinalityType
  <1>5. Unacked(a) = SubSeq(e_buffer, Cardinality(acked) + 1, Len(e_buffer))
    BY Zenon DEF Unacked, acked
  <1>6. Cardinality(acked) \in 0 .. Len(e_buffer)
    BY <1>1, <1>4
  <1> QED
    BY <1>1, <1>5, <1>6, DropFirst

-----------------------------------------------------------------------------
(* Types *)

\* The fields of a packet.
LEMMA FieldTypes ==
  ASSUME NEW p \in Packet
  PROVE  /\ p.seq \in Nat /\ p.ack \in Int /\ -1 <= p.ack
         /\ p.ops \subseteq Threads /\ p.life \in 1 .. Lifetimes
         /\ p.kind \in {"Open", "Normal", "Close"}
  BY DEF Packet

\* All packets are packets.
LEMMA AllPackets == ASSUME Types PROVE UpPackets \subseteq Packet /\ DownPackets \subseteq Packet
  <1>1. /\ Packets(up) \subseteq Packet /\ Packets(r_resend_data) \subseteq Packet
        /\ Packets(r_packet_data) \subseteq Packet /\ Packets(r_buffer) \subseteq Packet
        /\ Packets(down) \subseteq Packet /\ Packets(e_resending) \subseteq Packet
        /\ Packets(e_buffer) \subseteq Packet
    BY PacketsType DEF Types
  <1> QED
    BY <1>1, Zenon DEF UpPackets, DownPackets

\* The counts are numbers.
LEMMA Numbers ==
  ASSUME Types
  PROVE  /\ life \in Nat /\ Lifetimes \in Nat /\ e_life \in Nat /\ e_life <= life
         /\ r_next_tx \in Nat /\ r_next_rx \in Nat /\ r_first \in Int
         /\ e_next_rx \in Nat /\ e_next_tx \in Nat /\ MaxTx \in Nat
         /\ Taken \in Nat /\ None = -1
  BY ConnectionAssumption DEF Types, Taken, None

-----------------------------------------------------------------------------
(* Frames: parts of the invariant that a step does not touch *)

\* Threads and map.
LEMMA ThreadsFrame ==
  ASSUME ThreadsOK, UNCHANGED <<pc, in_map, quit, r_outstanding>> PROVE ThreadsOK'
  BY Zenon DEF ThreadsOK, Waits

\* A step of an object in the map.
LEMMA DroppedFrame == ASSUME in_map' PROVE Dropped'
  BY Zenon DEF Dropped

\* A step that leaves the object alone.
LEMMA DroppedSame ==
  ASSUME Dropped, UNCHANGED in_map,
         UNCHANGED <<r_next_tx, r_next_rx, r_first, r_buffer, r_resend_data, r_packet_data,
                     r_ops, r_outstanding, r_answered, r_received>>
  PROVE  Dropped'
  BY Zenon DEF Dropped

\* Copies of packets may be made or lost.
LEMMA UpFrame ==
  ASSUME UpOrder, UpPackets' \subseteq UpPackets,
         UNCHANGED <<life, in_map, r_next_tx, r_first, r_buffer, e_life, e_next_rx>>
  PROVE  UpOrder'
  <1>1. Taken' = Taken
    BY Zenon DEF Taken, SlotOpened
  <1> QED
    BY <1>1, Zenon DEF UpOrder

\* The same of the endpoint's packets.
LEMMA DownFrame ==
  ASSUME DownOrder, DownPackets' \subseteq DownPackets,
         UNCHANGED <<life, r_next_rx, r_first, e_life, e_next_rx, e_next_tx, e_status, e_buffer>>
  PROVE  DownOrder'
  <1>1. Taken' = Taken /\ SlotOpened' = SlotOpened
    BY Zenon DEF Taken, SlotOpened
  <1> QED
    BY <1>1, Zenon DEF DownOrder

\* Nothing that closing depends on changes.
LEMMA ClosingFrame ==
  ASSUME Closing,
         UNCHANGED <<in_map, r_state, r_received, r_next_rx, r_first, r_buffer, pc, life,
                     e_life, e_status>>
  PROVE  Closing'
  <1>1. CloseSent' = CloseSent /\ \A t \in Threads : Past(t)' = Past(t)
    BY Zenon DEF CloseSent, SlotOpened, Past
  <1> QED
    BY <1>1, Zenon DEF Closing

\* The same of the endpoint's Close.
LEMMA ClosedFrame ==
  ASSUME Closed, DownPackets' \subseteq DownPackets,
         UNCHANGED <<in_map, r_state, r_received, life, e_life, e_status>>
  PROVE  Closed'
  <1>1. SlotOpened' = SlotOpened
    BY Zenon DEF SlotOpened
  <1> QED
    BY <1>1, Zenon DEF Closed

\* No packet moves.
LEMMA FirstFrame ==
  ASSUME FirstGone,
         UNCHANGED <<up, r_resend_data, r_packet_data, r_buffer, life, e_life, e_status, e_next_rx>>
  PROVE  FirstGone'
  <1>1. UpPackets' = UpPackets /\ Taken' = Taken /\ SlotOpened' = SlotOpened
    BY Zenon DEF UpPackets, Taken, SlotOpened
  <1> QED
    BY <1>1, Zenon DEF FirstGone

\* No request moves.
LEMMA RequestsFrame ==
  ASSUME Requests, UpPackets' \subseteq UpPackets, DownPackets' \subseteq DownPackets,
         UNCHANGED <<in_map, r_ops, r_outstanding, r_answered, r_received, r_next_rx, life,
                     e_life, e_next_rx, e_requests>>
  PROVE  Requests'
  <1>1. Taken' = Taken /\ SlotOpened' = SlotOpened
    BY Zenon DEF Taken, SlotOpened
  <1>2. ASSUME NEW t \in Threads, OnePlace(t) PROVE OnePlace(t)'
    <2>1. /\ InUp(t)' => InUp(t)
          /\ InDown(t)' => InDown(t)
          /\ InReceived(t)' <=> InReceived(t)
      BY <1>1, Zenon DEF InUp, InDown, InReceived
    <2> QED
      BY <1>1, <1>2, <2>1, Zenon DEF OnePlace
  <1> QED
    BY <1>1, <1>2, Zenon DEF Requests

-----------------------------------------------------------------------------
(* Initial states *)

\* Init establishes the invariant.
LEMMA InvInit == Init => TuiInv
  <1> SUFFICES ASSUME Init PROVE TuiInv
    OBVIOUS
  <1> USE DEF Init, ConnectionInit
  <1>1. UpPackets = {} /\ DownPackets = {}
    BY PacketsEmpty DEF UpPackets, DownPackets
  <1>2. \A S : <<>> \in Seq(S)
    OBVIOUS
  <1>3. Types
    <2>1. /\ 0 \in Nat /\ 0 \in 0 .. MaxTx /\ None \in Int /\ 0 <= Lifetimes /\ Len(<<>>) = 0
          /\ 0 <= 1 /\ 0 <= WireCap /\ 0 <= 0
      BY ConnectionAssumption DEF None
    <2> QED
      BY <1>2, <2>1, Zenon DEF Types, ConnectionState, SlotStatus
  <1>4. ThreadsOK
    BY TuiAssumption DEF ThreadsOK, Places, Waits, Disconnecting
  <1>5. UpOrder /\ DownOrder /\ Dropped /\ Closing
    BY <1>1 DEF UpOrder, DownOrder, Dropped, Closing
  <1>6. Closed /\ FirstGone
    BY <1>1 DEF Closed, FirstGone, HasClose
  <1>7. Requests
    BY <1>1 DEF Requests
  <1> QED
    BY <1>3, <1>4, <1>5, <1>6, <1>7 DEF TuiInv

-----------------------------------------------------------------------------
(* Steps of a thread that leave the connection alone *)

\* Nothing but positions changes.
LEMMA PlacesFrame ==
  ASSUME TuiInv, UNCHANGED <<conVars, in_map>>, quit' \in BOOLEAN, ThreadsOK', Closing'
  PROVE  TuiInv'
  <1>1. UpPackets' = UpPackets /\ DownPackets' = DownPackets
    BY Zenon DEF conVars, reqVars, slotVars, UpPackets, DownPackets
  <1>2. Types'
    BY Zenon DEF conVars, reqVars, slotVars, TuiInv, Types
  <1>3. Dropped'
    BY DroppedSame, Zenon DEF conVars, reqVars, TuiInv
  <1>4. UpOrder' /\ DownOrder'
    BY <1>1, UpFrame, DownFrame, Zenon DEF conVars, reqVars, slotVars, TuiInv
  <1>5. Closed' /\ FirstGone' /\ Requests'
    BY <1>1, ClosedFrame, FirstFrame, RequestsFrame, Zenon DEF conVars, reqVars, slotVars, TuiInv
  <1> QED
    BY <1>2, <1>3, <1>4, <1>5, Zenon DEF TuiInv

\* The positions of both threads.
LEMMA PlaceTypes ==
  ASSUME ThreadsOK
  PROVE  /\ "operation" \in Threads /\ "main" \in Threads
         /\ pc["main"] \in {"run", "leave", "spin", "done"} \cup Disconnecting
         /\ pc["operation"] \in {"loop", "perform", "wait", "late", "leave", "done"}
                                \cup Disconnecting
         /\ Places["main"] = {"run", "leave", "spin", "done"} \cup Disconnecting
         /\ Places["operation"] = {"loop", "perform", "wait", "late", "leave", "done"}
                                  \cup Disconnecting
         /\ \A t \in Threads : t = "operation" \/ t = "main"
         /\ Disconnecting \subseteq Places["main"] /\ Disconnecting \subseteq Places["operation"]
  <1>1. "operation" \in Threads /\ "main" \in Threads /\ \A t \in Threads : t = "operation" \/ t = "main"
    BY TuiAssumption
  <1>2. /\ Places["main"] = {"run", "leave", "spin", "done"} \cup Disconnecting
        /\ Places["operation"] = {"loop", "perform", "wait", "late", "leave", "done"}
                                  \cup Disconnecting
    BY DEF Places
  <1> QED
    BY <1>1, <1>2, Zenon DEF ThreadsOK

\* One thread goes to another place.
LEMMA Moves ==
  ASSUME ThreadsOK, NEW t \in Threads, NEW place \in Places[t],
         pc' = [pc EXCEPT ![t] = place]
  PROVE  /\ pc' \in [Threads -> Places["operation"] \cup Places["main"]]
         /\ pc'[t] = place /\ \A s \in Threads : s # t => pc'[s] = pc[s]
         /\ \A s \in Threads : pc'[s] \in Places[s]
  <1>1. place \in Places["operation"] \cup Places["main"]
    BY PlaceTypes, Zenon
  <1>2. pc \in [Threads -> Places["operation"] \cup Places["main"]]
    BY DEF ThreadsOK
  <1>3. /\ pc' \in [Threads -> Places["operation"] \cup Places["main"]]
        /\ pc'[t] = place /\ \A s \in Threads : s # t => pc'[s] = pc[s]
    BY <1>1, <1>2
  <1> QED
    BY <1>3, Zenon DEF ThreadsOK

\* It counts as outstanding when it waits there.
LEMMA MovesThreads ==
  ASSUME ThreadsOK, NEW t \in Threads, NEW place \in Places[t],
         pc' = [pc EXCEPT ![t] = place], UNCHANGED <<in_map, quit>>,
         t \in r_outstanding' <=> place \in {"wait", "late", "flushing", "late_flush"},
         \A s \in Threads : s # t => (s \in r_outstanding' <=> s \in r_outstanding),
         place \in Disconnecting \cup {"perform", "wait", "late"} => in_map,
         t = "main" => quit
  PROVE  ThreadsOK'
  <1>1. /\ pc' \in [Threads -> Places["operation"] \cup Places["main"]]
        /\ pc'[t] = place /\ \A s \in Threads : s # t => pc'[s] = pc[s]
        /\ \A s \in Threads : pc'[s] \in Places[s]
    BY Moves, Zenon
  <1>2. ASSUME NEW s \in Threads
        PROVE  /\ s \in r_outstanding' <=> Waits(s)'
               /\ pc'[s] \in Disconnecting \cup {"perform", "wait", "late"} => in_map'
    <2>1. CASE s = t
      BY <1>1, <2>1, Zenon DEF ThreadsOK, Waits
    <2>2. CASE s # t
      BY <1>1, <2>2, Zenon DEF ThreadsOK, Waits
    <2> QED
      BY <2>1, <2>2
  <1>3. ~quit' => pc'["main"] = "run"
    BY <1>1, PlaceTypes, Zenon DEF ThreadsOK
  <1> QED
    BY <1>1, <1>2, <1>3, Zenon DEF ThreadsOK

\* A step that looks at the connection only keeps the invariant.
LEMMA MovesInv ==
  ASSUME TuiInv, NEW t \in Threads, NEW place \in Places[t],
         pc' = [pc EXCEPT ![t] = place], UNCHANGED <<conVars, in_map, quit>>,
         pc[t] \notin {"wait", "late", "flushing", "late_flush"},
         place \notin {"wait", "late", "flushing", "late_flush"},
         place \in Disconnecting \cup {"perform"} => in_map,
         place \in {"initiate", "store"} => r_first # None,
         Past(t) => place \in {"idle", "leave", "spin", "done"},
         t = "main" => quit
  PROVE  TuiInv'
  <1>1. /\ pc' \in [Threads -> Places["operation"] \cup Places["main"]]
        /\ pc'[t] = place /\ \A s \in Threads : s # t => pc'[s] = pc[s]
        /\ \A s \in Threads : pc'[s] \in Places[s]
    BY Moves, Zenon DEF TuiInv
  <1>2. ThreadsOK'
    <2>1. r_outstanding' = r_outstanding /\ t \notin r_outstanding
      BY Zenon DEF TuiInv, ThreadsOK, Waits, conVars, reqVars
    <2> QED
      BY <2>1, MovesThreads, Zenon DEF TuiInv
  <1>3. Closing'
    <2>1. CloseSent' = CloseSent
      BY Zenon DEF CloseSent, SlotOpened, conVars, reqVars, slotVars
    <2>2. \A s \in Threads : Past(s) => Past(s)'
      BY <1>1, Zenon DEF Past
    <2>3. /\ UNCHANGED <<in_map, r_state, r_received, r_next_rx, r_first>>
      BY Zenon DEF conVars, reqVars
    <2>4. ASSUME in_map, NEW s \in Threads
          PROVE  /\ pc'[s] \in {"initiate", "store"} => r_first # None
                 /\ pc'[s] \in {"wait", "flushing"} => ~CloseSent
      <3>1. CASE s = t
        BY <1>1, <3>1, Zenon
      <3>2. CASE s # t
        BY <1>1, <2>4, <3>2, Zenon DEF TuiInv, Closing
      <3> QED
        BY <3>1, <3>2
    <2>5. /\ (\E s \in Threads : Past(s)) => \E s \in Threads : Past(s)'
          /\ (\A s \in Threads : Past(s)) => \A s \in Threads : Past(s)'
      BY <2>2, Zenon
    <2>6. CASE in_map
      <3>1. /\ r_state' \in {"Enabled", "Opened", "Active"} => ~CloseSent'
            /\ r_received' # <<>> => r_next_rx' > 0
            /\ r_received' # <<>> /\ Head(r_received').state = "Opened" => ~CloseSent'
            /\ r_state' = "Active" => r_next_rx' > 0
            /\ r_state' \in {"ClosedByHost", "ClosedByClient"} \/ CloseSent' => r_first' # None
        BY <2>1, <2>3, <2>6, Zenon DEF TuiInv, Closing
      <3>2. /\ r_state' = "ClosedByHost" \/ CloseSent' => \E s \in Threads : Past(s)'
            /\ r_state' = "ClosedByHost" /\ CloseSent' => \A s \in Threads : Past(s)'
        BY <2>1, <2>3, <2>5, <2>6, Zenon DEF TuiInv, Closing
      <3> QED
        BY <2>1, <2>3, <2>4, <2>6, <3>1, <3>2, Zenon DEF Closing
    <2>7. CASE ~in_map
      <3>1. ~in_map'
        BY <2>3, <2>7
      <3> QED
        BY <3>1 DEF Closing
    <2> QED
      BY <2>6, <2>7
  <1>4. quit' \in BOOLEAN
    BY Zenon DEF TuiInv, Types
  <1> QED
    BY <1>2, <1>3, <1>4, PlacesFrame, Zenon

\* The commands that only start something.
LEMMA CommandInv ==
  ASSUME TuiInv, Operate \/ Disconnect PROVE TuiInv'
  <1>1. /\ pc["operation"] = "loop" /\ in_map /\ UNCHANGED <<conVars, in_map, quit>>
        /\ \/ pc' = [pc EXCEPT !["operation"] = "perform"]
           \/ pc' = [pc EXCEPT !["operation"] = "flush"]
    BY Zenon DEF Operate, Disconnect, TakeCommand, Goto, IsActive
  <1>2. /\ "operation" \in Threads /\ "perform" \in Places["operation"]
        /\ "flush" \in Places["operation"] /\ ~Past("operation")
    BY <1>1, PlaceTypes DEF TuiInv, Disconnecting, Past
  <1>3. CASE pc' = [pc EXCEPT !["operation"] = "perform"]
    BY <1>1, <1>2, <1>3, MovesInv DEF Disconnecting
  <1>4. CASE pc' = [pc EXCEPT !["operation"] = "flush"]
    BY <1>1, <1>2, <1>4, MovesInv DEF Disconnecting
  <1> QED
    BY <1>1, <1>3, <1>4

\* The steps of a thread inside disconnect that only look at the connection.
LEMMA DisconnectInv ==
  ASSUME TuiInv, NEW t \in Threads,
         Flush(t) \/ NoFlush(t) \/ CloseStep(t) \/ CloseTimeout(t)
  PROVE  TuiInv'
  <1>1. UNCHANGED <<conVars, in_map, quit>>
    BY Zenon DEF Flush, NoFlush, CloseStep, CloseTimeout
  <1>2. PICK place \in {"release", "closing", "acked", "initiate", "store", "idle", "leave"} :
          /\ pc' = [pc EXCEPT ![t] = place]
          /\ pc[t] \in {"flush", "closing", "acked", "initiate", "idle"}
          /\ pc[t] = "idle" => place = "leave"
          /\ place = "initiate" => r_first # None
          /\ place = "store" => pc[t] = "initiate"
    BY DEF Flush, NoFlush, CloseStep, CloseTimeout, Goto, OpenAcked
  <1>3. in_map /\ pc[t] \in Disconnecting
    BY <1>2 DEF TuiInv, ThreadsOK, Disconnecting
  <1>4. place = "store" => r_first # None
    BY <1>2, <1>3, Zenon DEF TuiInv, Closing
  <1>5. place \in Places[t] /\ (t = "main" => quit)
    <2>1. place \in Disconnecting \/ place = "leave"
      BY <1>2 DEF Disconnecting
    <2>2. "run" \notin Disconnecting
      BY DEF Disconnecting
    <2> QED
      BY <1>3, <2>1, <2>2, PlaceTypes, Zenon DEF TuiInv, ThreadsOK
  <1>6. Past(t) => pc[t] = "idle"
    BY <1>2 DEF Past
  <1> QED
    BY <1>1, <1>2, <1>3, <1>4, <1>5, <1>6, MovesInv

\* The main thread, and the end of the operation thread.
LEMMA EndInv ==
  ASSUME TuiInv, MainDisconnect \/ MainDisconnected \/ MainStop \/ OperationStop
  PROVE  TuiInv'
  <1>1. /\ UNCHANGED <<conVars, in_map, quit>> /\ Threads = {"operation", "main"}
        /\ "run" \notin Disconnecting /\ "flush" \in Disconnecting
    BY TuiAssumption DEF MainDisconnect, MainDisconnected, MainStop, OperationStop, Disconnecting
  <1>2. CASE OperationStop
    BY <1>1, <1>2, PlaceTypes, MovesInv DEF OperationStop, Goto, Disconnecting, TuiInv
  <1>3. CASE MainDisconnect \/ MainDisconnected \/ MainStop
    <2>1. PICK place \in {"flush", "spin", "done"} :
            /\ pc' = [pc EXCEPT !["main"] = place]
            /\ pc["main"] \in {"run", "leave", "spin"}
            /\ place = "flush" => in_map /\ pc["main"] = "run"
            /\ pc["main"] = "run" => quit
      BY <1>3 DEF MainDisconnect, MainDisconnected, MainStop, Goto
    <2>2. quit /\ place \in Places["main"] /\ "main" \in Threads
      BY <1>1, <2>1, PlaceTypes DEF TuiInv, ThreadsOK
    <2>3. place \in Disconnecting => place = "flush"
      BY <2>1 DEF Disconnecting
    <2>4. Past("main") => pc["main"] # "run"
      BY DEF Past
    <2> QED
      BY <1>1, <2>1, <2>2, <2>3, <2>4, MovesInv
  <1> QED
    BY <1>2, <1>3

\* The user quits.
LEMMA QuitInv == ASSUME TuiInv, Quit PROVE TuiInv'
  <1>1. UNCHANGED <<conVars, in_map, pc>> /\ quit' = TRUE
    BY DEF Quit
  <1>2. ThreadsOK'
    BY <1>1, Zenon DEF TuiInv, ThreadsOK, Waits, conVars, reqVars
  <1>3. Closing'
    BY <1>1, ClosingFrame, Zenon DEF TuiInv, conVars, reqVars, slotVars
  <1> QED
    BY <1>1, <1>2, <1>3, PlacesFrame, Zenon

-----------------------------------------------------------------------------
(* Steps of a thread that change the connection *)

\* What closing depends on, apart from states and positions.
LEMMA CloseSentSame ==
  ASSUME UNCHANGED <<r_buffer, life, e_life, e_status>>
  PROVE  CloseSent' = CloseSent /\ SlotOpened' = SlotOpened
  BY Zenon DEF CloseSent, SlotOpened

\* initiate_close_connection stores the state.
LEMMA CloseStoreInv ==
  ASSUME TuiInv, NEW t \in Threads, CloseStore(t) PROVE TuiInv'
  <1>1. /\ pc[t] = "store" /\ pc' = [pc EXCEPT ![t] = "idle"] /\ r_state' = "ClosedByHost"
        /\ UNCHANGED <<in_map, quit, life, r_next_tx, r_next_rx, r_first, r_buffer, r_resend_data,
                       r_packet_data, r_ops, r_outstanding, r_answered, r_received, up, down>>
        /\ UNCHANGED slotVars
    BY Zenon DEF CloseStore, StoreClosedByHost, Goto
  <1>2. in_map /\ r_first # None /\ t \notin r_outstanding
    BY <1>1 DEF TuiInv, ThreadsOK, Closing, Disconnecting, Waits
  <1>3. "idle" \in Places[t] /\ (t = "main" => quit)
    <2>1. "idle" \in Disconnecting /\ pc[t] # "run"
      BY <1>1 DEF Disconnecting
    <2> QED
      BY <2>1, PlaceTypes, Zenon DEF TuiInv, ThreadsOK
  <1>4. UpPackets' = UpPackets /\ DownPackets' = DownPackets
    BY <1>1, Zenon DEF slotVars, UpPackets, DownPackets
  <1>5. Types' /\ Dropped'
    <2>1. "ClosedByHost" \in ConnectionState
      BY DEF ConnectionState
    <2> QED
      BY <1>1, <2>1, DroppedSame, Zenon DEF slotVars, TuiInv, Types
  <1>6. ThreadsOK'
    BY <1>1, <1>2, <1>3, MovesThreads DEF TuiInv
  <1>7. UpOrder' /\ DownOrder' /\ FirstGone' /\ Requests'
    BY <1>1, <1>4, UpFrame, DownFrame, FirstFrame, RequestsFrame, Zenon DEF slotVars, TuiInv
  <1>8. CloseSent' = CloseSent /\ SlotOpened' = SlotOpened /\ UNCHANGED e_status
    BY <1>1, CloseSentSame, Zenon DEF slotVars
  <1>9. Closed'
    BY <1>1, <1>4, <1>8, Zenon DEF TuiInv, Closed
  <1>10. Closing'
    <2>1. pc'[t] = "idle" /\ \A s \in Threads : s # t => pc'[s] = pc[s]
      BY <1>1, <1>3, Moves, Zenon DEF TuiInv
    <2>2. Past(t)' /\ \A s \in Threads : Past(s) => Past(s)'
      BY <2>1, Zenon DEF Past
    <2>3. CloseSent => \A s \in Threads : Past(s)'
      <3>1. ASSUME CloseSent PROVE \E s \in Threads : s # t /\ Past(s)
        <4>1. ~Past(t)
          BY <1>1 DEF Past
        <4> QED
          BY <1>2, <3>1, <4>1, Zenon DEF TuiInv, Closing
      <3> QED
        BY <2>2, <3>1, PlaceTypes, Zenon DEF TuiInv
    <2>4. ASSUME NEW s \in Threads
          PROVE  /\ pc'[s] \in {"initiate", "store"} => r_first # None
                 /\ pc'[s] \in {"wait", "flushing"} => ~CloseSent
      <3>1. CASE s = t
        BY <2>1, <3>1, Zenon
      <3>2. CASE s # t
        BY <1>2, <2>1, <3>2, Zenon DEF TuiInv, Closing
      <3> QED
        BY <3>1, <3>2
    <2>5. /\ r_received' # <<>> => r_next_rx' > 0
          /\ r_received' # <<>> /\ Head(r_received').state = "Opened" => ~CloseSent'
          /\ r_state' \notin {"Enabled", "Opened", "Active"}
      BY <1>1, <1>2, <1>8, Zenon DEF TuiInv, Closing
    <2> QED
      BY <1>1, <1>2, <1>8, <2>2, <2>3, <2>4, <2>5, Zenon DEF Closing
  <1> QED
    BY <1>5, <1>6, <1>7, <1>9, <1>10, Zenon DEF TuiInv

\* Operations::perform.
LEMMA BeginInv ==
  ASSUME TuiInv, NEW t \in Threads, Begin(t) PROVE TuiInv'
  <1>1. /\ pc[t] \in {"perform", "release"} /\ r_outstanding' = r_outstanding \cup {t}
        /\ r_ops' = r_ops \cup {t}
        /\ UNCHANGED <<in_map, quit, life, r_state, r_next_tx, r_next_rx, r_first, r_buffer,
                       r_resend_data, r_packet_data, r_answered, r_received, up, down>>
        /\ UNCHANGED slotVars
    BY Zenon DEF Begin, Perform
  <1>2. PICK place \in {"late", "wait", "late_flush", "flushing"} :
          /\ pc' = [pc EXCEPT ![t] = place]
          /\ pc[t] = "perform" => place \in {"late", "wait"}
          /\ pc[t] = "release" => place \in {"late_flush", "flushing"}
          /\ place \in {"wait", "flushing"} => ~SaidClose
    BY <1>1 DEF Begin, Goto
  <1>3. in_map /\ t \notin r_outstanding
    BY <1>1 DEF TuiInv, ThreadsOK, Disconnecting, Waits
  <1>4. place \in Places[t] /\ (t = "main" => quit)
    <2>1. /\ "late_flush" \in Disconnecting /\ "flushing" \in Disconnecting
          /\ pc[t] # "run" /\ "perform" \notin Disconnecting
      BY <1>1 DEF Disconnecting
    <2> QED
      BY <1>1, <1>2, <2>1, PlaceTypes DEF TuiInv, ThreadsOK
  <1>5. UpPackets' = UpPackets /\ DownPackets' = DownPackets
    BY <1>1, Zenon DEF slotVars, UpPackets, DownPackets
  <1>6. CloseSent' = CloseSent /\ SlotOpened' = SlotOpened /\ Taken' = Taken
    BY <1>1, CloseSentSame, Zenon DEF slotVars, Taken, SlotOpened
  <1>7. Types'
    <2>1. r_outstanding' \subseteq Threads /\ r_ops' \subseteq Threads
      BY <1>1, Zenon DEF TuiInv, Types
    <2> QED
      BY <1>1, <2>1, Zenon DEF slotVars, TuiInv, Types
  <1>8. ThreadsOK'
    BY <1>1, <1>2, <1>3, <1>4, MovesThreads DEF TuiInv
  <1>9. Dropped'
    BY <1>1, <1>3, DroppedFrame
  <1>10. UpOrder' /\ DownOrder' /\ FirstGone' /\ Closed'
    BY <1>1, <1>5, UpFrame, DownFrame, FirstFrame, ClosedFrame, Zenon DEF slotVars, TuiInv
  <1>11. Closing'
    <2>1. pc'[t] = place /\ \A s \in Threads : s # t => pc'[s] = pc[s]
      BY <1>2, <1>4, Moves, Zenon DEF TuiInv
    <2>2. ~Past(t)
      BY <1>1 DEF Past
    <2>3. \A s \in Threads : Past(s) => Past(s)'
      BY <2>1, <2>2, Zenon DEF Past
    <2>4. r_state # "ClosedByHost" \/ ~CloseSent
      BY <1>3, <2>2, Zenon DEF TuiInv, Closing
    <2>5. place \in {"wait", "flushing"} => ~CloseSent
      BY <1>2, <1>3, <2>4 DEF SaidClose, TuiInv, Closing
    <2>6. ASSUME NEW s \in Threads
          PROVE  /\ pc'[s] \in {"initiate", "store"} => r_first # None
                 /\ pc'[s] \in {"wait", "flushing"} => ~CloseSent
      <3>1. CASE s = t
        BY <1>2, <2>1, <2>5, <3>1
      <3>2. CASE s # t
        BY <1>3, <2>1, <3>2, Zenon DEF TuiInv, Closing
      <3> QED
        BY <3>1, <3>2
    <2>7. (\E s \in Threads : Past(s)) => \E s \in Threads : Past(s)'
      BY <2>3, Zenon
    <2>8. /\ r_state' \in {"Enabled", "Opened", "Active"} => ~CloseSent'
          /\ r_received' # <<>> => r_next_rx' > 0
          /\ r_received' # <<>> /\ Head(r_received').state = "Opened" => ~CloseSent'
          /\ r_state' = "Active" => r_next_rx' > 0
          /\ r_state' \in {"ClosedByHost", "ClosedByClient"} \/ CloseSent' => r_first' # None
          /\ r_state' = "ClosedByHost" \/ CloseSent' => \E s \in Threads : Past(s)
      BY <1>1, <1>3, <1>6, Zenon DEF TuiInv, Closing
    <2> QED
      BY <1>1, <1>6, <2>4, <2>6, <2>7, <2>8, Zenon DEF Closing
  <1>12. Requests'
    <2>1. \A s \in Threads : OnePlace(s)
      BY <1>3, Zenon DEF TuiInv, Requests
    <2>2. \A s \in Threads :
             /\ InUp(s)' <=> InUp(s)
             /\ InDown(s)' <=> InDown(s)
             /\ InReceived(s)' <=> InReceived(s)
      BY <1>1, <1>5, <1>6, Zenon DEF InUp, InDown, InReceived
    <2>3. ASSUME NEW s \in Threads PROVE OnePlace(s)'
      <3>1. /\ r_next_rx' = r_next_rx /\ e_requests' = e_requests /\ r_answered' = r_answered
            /\ s \in r_outstanding => s \in r_outstanding'
            /\ s # t => (s \in r_ops' <=> s \in r_ops)
            /\ t \in r_outstanding'
        BY <1>1, Zenon DEF slotVars
      <3>2. CASE s = t
        BY <1>3, <1>5, <1>6, <2>1, <2>2, <3>1, <3>2, Zenon DEF OnePlace
      <3>3. CASE s # t
        BY <1>5, <1>6, <2>1, <2>2, <3>1, <3>3, Zenon DEF OnePlace
      <3> QED
        BY <3>2, <3>3
    <2>4. in_map' /\ (~SlotOpened' => e_requests' = {})
      BY <1>1, <1>3, <1>6, Zenon DEF TuiInv, Requests, slotVars
    <2> QED
      BY <2>3, <2>4, Zenon DEF Requests
  <1> QED
    BY <1>7, <1>8, <1>9, <1>10, <1>11, <1>12, Zenon DEF TuiInv

\* wait_for_response returns.
LEMMA FinishInv ==
  ASSUME TuiInv, NEW t \in Threads, Finish(t) PROVE TuiInv'
  <1>1. /\ Waits(t) /\ t \in r_answered
        /\ r_outstanding' = r_outstanding \ {t} /\ r_answered' = r_answered \ {t}
        /\ UNCHANGED <<in_map, quit, life, r_state, r_next_tx, r_next_rx, r_first, r_buffer,
                       r_resend_data, r_packet_data, r_ops, r_received, up, down>>
        /\ UNCHANGED slotVars
    BY Zenon DEF Finish, Return, Waits
  <1>2. PICK place \in {"loop", "closing"} :
          /\ pc' = [pc EXCEPT ![t] = place]
          /\ place = "loop" => pc[t] \in {"wait", "late"}
    BY <1>1 DEF Finish, Goto
  <1>3. in_map
    BY <1>1 DEF TuiInv, ThreadsOK, Disconnecting, Waits
  <1>4. place \in Places[t] /\ (t = "main" => quit)
    <2>1. /\ "closing" \in Disconnecting /\ pc[t] # "run"
          /\ "wait" \notin Disconnecting /\ "late" \notin Disconnecting
      BY <1>1 DEF Disconnecting, Waits
    <2> QED
      BY <1>2, <2>1, PlaceTypes DEF TuiInv, ThreadsOK
  <1>5. UpPackets' = UpPackets /\ DownPackets' = DownPackets
    BY <1>1, Zenon DEF slotVars, UpPackets, DownPackets
  <1>6. CloseSent' = CloseSent /\ SlotOpened' = SlotOpened /\ Taken' = Taken
    BY <1>1, CloseSentSame, Zenon DEF slotVars, Taken, SlotOpened
  <1>7. Types'
    <2>1. r_outstanding' \subseteq Threads /\ r_answered' \subseteq Threads
      BY <1>1, Zenon DEF TuiInv, Types
    <2> QED
      BY <1>1, <2>1, Zenon DEF slotVars, TuiInv, Types
  <1>8. ThreadsOK'
    BY <1>1, <1>2, <1>3, <1>4, MovesThreads DEF TuiInv
  <1>9. Dropped'
    BY <1>1, <1>3, DroppedFrame
  <1>10. UpOrder' /\ DownOrder' /\ FirstGone' /\ Closed'
    BY <1>1, <1>5, UpFrame, DownFrame, FirstFrame, ClosedFrame, Zenon DEF slotVars, TuiInv
  <1>11. Closing'
    <2>1. pc'[t] = place /\ \A s \in Threads : s # t => pc'[s] = pc[s]
      BY <1>2, <1>4, Moves, Zenon DEF TuiInv
    <2>2. ~Past(t)
      BY <1>1 DEF Past, Waits
    <2>3. \A s \in Threads : Past(s) => Past(s)'
      BY <2>1, <2>2, Zenon DEF Past
    <2>4. r_state # "ClosedByHost" \/ ~CloseSent
      BY <1>3, <2>2, Zenon DEF TuiInv, Closing
    <2>5. ASSUME NEW s \in Threads
          PROVE  /\ pc'[s] \in {"initiate", "store"} => r_first # None
                 /\ pc'[s] \in {"wait", "flushing"} => ~CloseSent
      <3>1. CASE s = t
        BY <1>2, <2>1, <3>1
      <3>2. CASE s # t
        BY <1>3, <2>1, <3>2, Zenon DEF TuiInv, Closing
      <3> QED
        BY <3>1, <3>2
    <2>6. (\E s \in Threads : Past(s)) => \E s \in Threads : Past(s)'
      BY <2>3, Zenon
    <2>7. /\ r_state' \in {"Enabled", "Opened", "Active"} => ~CloseSent'
          /\ r_received' # <<>> => r_next_rx' > 0
          /\ r_received' # <<>> /\ Head(r_received').state = "Opened" => ~CloseSent'
          /\ r_state' = "Active" => r_next_rx' > 0
          /\ r_state' \in {"ClosedByHost", "ClosedByClient"} \/ CloseSent' => r_first' # None
          /\ r_state' = "ClosedByHost" \/ CloseSent' => \E s \in Threads : Past(s)
      BY <1>1, <1>3, <1>6, Zenon DEF TuiInv, Closing
    <2> QED
      BY <1>1, <1>6, <2>4, <2>5, <2>6, <2>7, Zenon DEF Closing
  <1>12. Requests'
    <2>1. \A s \in Threads : OnePlace(s)
      BY <1>3, Zenon DEF TuiInv, Requests
    <2>2. \A s \in Threads :
             /\ InUp(s)' <=> InUp(s)
             /\ InDown(s)' <=> InDown(s)
             /\ InReceived(s)' <=> InReceived(s)
      BY <1>1, <1>5, <1>6, Zenon DEF InUp, InDown, InReceived
    <2>3. ASSUME NEW s \in Threads PROVE OnePlace(s)'
      <3>1. /\ r_next_rx' = r_next_rx /\ e_requests' = e_requests /\ r_ops' = r_ops
            /\ s # t => (s \in r_outstanding' <=> s \in r_outstanding)
            /\ s # t => (s \in r_answered' <=> s \in r_answered)
            /\ t \notin r_answered'
        BY <1>1, Zenon DEF slotVars
      <3>2. CASE s = t
        <4>1. t \in r_answered /\ OnePlace(t)
          BY <1>1, <2>1
        <4>2. t \notin r_ops /\ ~InUp(t) /\ t \notin e_requests /\ ~InDown(t) /\ ~InReceived(t)
          BY <4>1, Zenon DEF OnePlace
        <4>3. /\ \A p, q \in UpPackets :
                    Taken <= p.seq /\ Taken <= q.seq /\ t \in p.ops /\ t \in q.ops => p = q
              /\ \A p, q \in DownPackets :
                    r_next_rx <= p.seq /\ r_next_rx <= q.seq /\ t \in p.ops /\ t \in q.ops => p = q
          BY <4>1, Zenon DEF OnePlace
        <4> QED
          BY <1>5, <1>6, <2>2, <3>1, <3>2, <4>2, <4>3, Zenon DEF OnePlace
      <3>3. CASE s # t
        BY <1>5, <1>6, <2>1, <2>2, <3>1, <3>3, Zenon DEF OnePlace
      <3> QED
        BY <3>2, <3>3
    <2>4. in_map' /\ (~SlotOpened' => e_requests' = {})
      BY <1>1, <1>3, <1>6, Zenon DEF TuiInv, Requests, slotVars
    <2> QED
      BY <2>3, <2>4, Zenon DEF Requests
  <1> QED
    BY <1>7, <1>8, <1>9, <1>10, <1>11, <1>12, Zenon DEF TuiInv

-----------------------------------------------------------------------------
(* The life of an object *)

\* An object that is dropped has no thread waiting and no request under way.
LEMMA DropInv ==
  ASSUME TuiInv, pc["operation"] \in {"loop", "leave"}, MapFree, DropConnection,
         in_map' = FALSE, UNCHANGED quit,
         UNCHANGED pc \/ pc' = [pc EXCEPT !["operation"] = "loop"]
  PROVE  TuiInv'
  <1>1. /\ r_next_tx' = 0 /\ r_next_rx' = 0 /\ r_first' = None
        /\ r_buffer' = <<>> /\ r_resend_data' = <<>> /\ r_packet_data' = <<>>
        /\ r_ops' = {} /\ r_outstanding' = {} /\ r_answered' = {} /\ r_received' = <<>>
        /\ r_state' = "Idle" /\ UNCHANGED <<life, up, down>> /\ UNCHANGED slotVars
    BY DEF DropConnection, Fresh
  <1>2. r_outstanding = {} /\ \A t \in Threads :
          pc[t] \notin Disconnecting \cup {"perform", "wait", "late"}
    <2>1. /\ "loop" \notin Disconnecting /\ "leave" \notin Disconnecting
          /\ "wait" \notin Disconnecting /\ "late" \notin Disconnecting
          /\ "perform" \notin Disconnecting
          /\ "flushing" \in Disconnecting /\ "late_flush" \in Disconnecting
      BY DEF Disconnecting
    <2>2. pc["main"] \notin Disconnecting \cup {"perform", "wait", "late"}
      BY <2>1, PlaceTypes DEF MapFree, TuiInv
    <2>3. \A t \in Threads : pc[t] \notin Disconnecting \cup {"perform", "wait", "late"}
      BY <2>1, <2>2, PlaceTypes DEF TuiInv
    <2>4. \A t \in Threads : ~Waits(t)
      BY <2>1, <2>3, Zenon DEF Waits
    <2>5. r_outstanding \subseteq Threads
      BY DEF TuiInv, Types
    <2> QED
      BY <2>3, <2>4, <2>5, Zenon DEF TuiInv, ThreadsOK
  <1>3. UpPackets' \subseteq UpPackets /\ DownPackets' = DownPackets
    BY <1>1, PacketsEmpty, Zenon DEF slotVars, UpPackets, DownPackets
  <1>4. Taken' = Taken /\ SlotOpened' = SlotOpened
    BY <1>1, Zenon DEF slotVars, Taken, SlotOpened
  <1>5. Types'
    <2>1. /\ 0 \in Nat /\ 0 \in 0 .. MaxTx /\ None \in Int /\ Len(<<>>) = 0 /\ 0 <= 1
          /\ \A S : <<>> \in Seq(S)
      BY ConnectionAssumption DEF None
    <2> QED
      BY <1>1, <2>1, Zenon DEF TuiInv, Types, slotVars, ConnectionState
  <1>6. ThreadsOK'
    <2>1. "loop" \in Places["operation"] /\ "loop" \notin Disconnecting
      BY PlaceTypes DEF TuiInv, Disconnecting
    <2>2. CASE UNCHANGED pc
      BY <1>1, <1>2, <2>2, Zenon DEF TuiInv, ThreadsOK, Waits
    <2>3. CASE pc' = [pc EXCEPT !["operation"] = "loop"]
      <3>1. /\ pc' \in [Threads -> Places["operation"] \cup Places["main"]]
            /\ pc'["operation"] = "loop" /\ \A s \in Threads : s # "operation" => pc'[s] = pc[s]
            /\ \A s \in Threads : pc'[s] \in Places[s]
        BY <2>1, <2>3, Moves, PlaceTypes, Zenon DEF TuiInv
      <3>2. ASSUME NEW s \in Threads
            PROVE  pc'[s] \notin Disconnecting \cup {"perform", "wait", "late"} /\ ~Waits(s)'
        <4>1. CASE s = "operation"
          BY <2>1, <3>1, <4>1 DEF Waits
        <4>2. CASE s # "operation"
          BY <1>2, <3>1, <4>2, Zenon DEF Waits, Disconnecting
        <4> QED
          BY <4>1, <4>2
      <3>3. ~quit' => pc'["main"] = "run"
        BY <3>1, PlaceTypes DEF TuiInv, ThreadsOK
      <3> QED
        BY <1>1, <3>1, <3>2, <3>3, Zenon DEF ThreadsOK
    <2> QED
      BY <2>2, <2>3
  <1>7. Dropped'
    BY <1>1, Zenon DEF Dropped
  <1>8. UpOrder'
    BY <1>1, <1>3, Zenon DEF TuiInv, UpOrder
  <1>9. DownOrder'
    <2>1. \A p \in DownPackets : None <= p.ack
      BY AllPackets, FieldTypes DEF None, TuiInv
    <2>2. e_next_tx \in Nat /\ ~(0 > 0) /\ \A n \in Nat : 0 <= n
      BY DEF TuiInv, Types
    <2> QED
      BY <1>1, <1>3, <1>4, <2>1, <2>2, Zenon DEF TuiInv, DownOrder, slotVars
  <1>10. Closing' /\ Closed'
    BY <1>1, <1>3, <1>4, Zenon DEF TuiInv, Closing, Closed, slotVars
  <1>11. FirstGone'
    <2>1. ~HasClose(<<>>) /\ ~HasFirst(<<>>)
      BY DEF HasClose, HasFirst
    <2> QED
      BY <1>1, <1>3, <1>4, <2>1, Zenon DEF TuiInv, FirstGone, slotVars
  <1>12. Requests'
    <2>1. CASE in_map
      <3>1. \A t \in Threads : ~InUp(t) /\ t \notin e_requests
        BY <1>2, <2>1, Zenon DEF TuiInv, Requests, OnePlace
      <3>2. e_requests = {} /\ \A p \in UpPackets : p.ops \subseteq Threads
        BY <3>1, AllPackets, FieldTypes DEF TuiInv, Types
      <3> QED
        BY <1>1, <1>3, <1>4, <3>1, <3>2, Zenon DEF Requests, InUp, slotVars
    <2>2. CASE ~in_map
      BY <1>1, <1>3, <1>4, <2>2, Zenon DEF TuiInv, Requests, slotVars
    <2> QED
      BY <2>1, <2>2
  <1> QED
    BY <1>5, <1>6, <1>7, <1>8, <1>9, <1>10, <1>11, <1>12, Zenon DEF TuiInv

\* retain and remove.
LEMMA RemoveInv == ASSUME TuiInv, Retain \/ Remove PROVE TuiInv'
  <1>1. CASE Retain
    BY <1>1, DropInv DEF Retain
  <1>2. CASE Remove
    BY <1>2, DropInv DEF Remove, Goto
  <1> QED
    BY <1>1, <1>2

-----------------------------------------------------------------------------
(* Copies of packets *)

\* A step that only makes, moves or loses copies.
LEMMA CopiesFrame ==
  ASSUME TuiInv,
         UNCHANGED <<life, r_state, r_next_tx, r_next_rx, r_first, r_buffer, r_ops, r_outstanding,
                     r_answered, r_received, e_status, e_life, e_next_rx, e_next_tx, e_buffer,
                     e_requests, pc, in_map, quit>>,
         up' \in Seq(Packet), Len(up') <= WireCap, down' \in Seq(Packet), Len(down') <= WireCap,
         r_resend_data' \in Seq(Packet), r_packet_data' \in Seq(Packet), Len(r_packet_data') <= 1,
         e_resending' \in Seq(Packet),
         UpPackets' \subseteq UpPackets, DownPackets' \subseteq DownPackets, Dropped', FirstGone'
  PROVE  TuiInv'
  <1>1. Types'
    BY Zenon DEF TuiInv, Types
  <1>2. ThreadsOK' /\ UpOrder' /\ DownOrder'
    BY ThreadsFrame, UpFrame, DownFrame, Zenon DEF TuiInv
  <1>3. Closing' /\ Closed' /\ Requests'
    BY ClosingFrame, ClosedFrame, RequestsFrame, Zenon DEF TuiInv
  <1> QED
    BY <1>1, <1>2, <1>3, Zenon DEF TuiInv

\* A queue that lost its head has no new Close and no new packet 0.
LEMMA TailHas ==
  ASSUME NEW q \in Seq(Packet), q # <<>>
  PROVE  /\ HasClose(Tail(q)) => HasClose(q)
         /\ HasFirst(Tail(q)) => HasFirst(q)
         /\ Head(q).kind = "Close" => HasClose(q)
         /\ Head(q).seq = 0 => HasFirst(q)
  BY HeadTail, HasPackets, Zenon

\* The endpoint reads a packet, or the wire to it loses one.
LEMMA UpTail ==
  ASSUME FirstGone, up \in Seq(Packet), up # <<>>, up' = Tail(up)
  PROVE  /\ \A i, j \in DOMAIN up' : i < j /\ up'[i].kind = "Close" => up'[j].seq # 0
         /\ HasClose(up') => HasClose(up)
  <1>1. \A i \in DOMAIN up' : i \in Nat /\ i + 1 \in DOMAIN up /\ up'[i] = up[i + 1]
    OBVIOUS
  <1>2. \A i, j \in DOMAIN up' : i < j => i + 1 < j + 1
    BY <1>1
  <1>3. HasClose(up') => HasClose(up)
    BY TailHas
  <1>4. ASSUME NEW i \in DOMAIN up', NEW j \in DOMAIN up', i < j, up'[i].kind = "Close"
        PROVE  up'[j].seq # 0
    <2>1. /\ i + 1 \in DOMAIN up /\ j + 1 \in DOMAIN up /\ i + 1 < j + 1
          /\ up[i + 1].kind = "Close"
      BY <1>1, <1>2, <1>4
    <2>2. up[j + 1].seq # 0
      BY <2>1, Zenon DEF FirstGone
    <2> QED
      BY <1>1, <2>2
  <1> QED
    BY <1>3, <1>4, Zenon

\* The wires lose a packet, and the connection thread one of a stale connection.
LEMMA LoseInv ==
  ASSUME TuiInv, (Lose \/ (down # <<>> /\ down' = Tail(down) /\ UNCHANGED <<reqVars, slotVars, up>>)),
         UNCHANGED tuiVars
  PROVE  TuiInv'
  <1>1. /\ \/ up # <<>> /\ up' = Tail(up) /\ UNCHANGED down
           \/ down # <<>> /\ down' = Tail(down) /\ UNCHANGED up
        /\ UNCHANGED <<reqVars, slotVars>> /\ UNCHANGED <<pc, in_map, quit>>
    BY Zenon DEF Lose, tuiVars
  <1>2. /\ up \in Seq(Packet) /\ down \in Seq(Packet) /\ Len(up) <= WireCap /\ Len(down) <= WireCap
        /\ WireCap \in Nat
    BY ConnectionAssumption DEF TuiInv, Types
  <1>3. /\ up' \in Seq(Packet) /\ Len(up') <= WireCap /\ Packets(up)' \subseteq Packets(up)
        /\ down' \in Seq(Packet) /\ Len(down') <= WireCap /\ Packets(down)' \subseteq Packets(down)
    <2>1. ASSUME NEW q \in Seq(Packet), q # <<>>, Len(q) <= WireCap
          PROVE  /\ Tail(q) \in Seq(Packet) /\ Len(Tail(q)) <= WireCap
                 /\ Packets(Tail(q)) \subseteq Packets(q)
      <3>1. Len(Tail(q)) = Len(q) - 1 /\ Len(q) \in Nat
        BY <2>1, HeadTail
      <3> QED
        BY <1>2, <2>1, <3>1, HeadTail
    <2>2. Packets(up)' = Packets(up') /\ Packets(down)' = Packets(down')
      BY DEF Packets
    <2> QED
      BY <1>1, <1>2, <2>1, <2>2, Zenon
  <1>4. UpPackets' \subseteq UpPackets /\ DownPackets' \subseteq DownPackets
    BY <1>1, <1>3, Zenon DEF UpPackets, DownPackets, reqVars, slotVars
  <1>5. Dropped'
    BY <1>1, DroppedSame, Zenon DEF TuiInv, reqVars
  <1>6. FirstGone'
    <2>1. CASE UNCHANGED up
      BY <1>1, <2>1, FirstFrame, Zenon DEF TuiInv, reqVars, slotVars
    <2>2. CASE up # <<>> /\ up' = Tail(up)
      <3>1. Taken' = Taken /\ SlotOpened' = SlotOpened
        BY <1>1, Zenon DEF Taken, SlotOpened, reqVars, slotVars
      <3> QED
        BY <1>1, <1>2, <1>4, <2>2, <3>1, UpTail, Zenon DEF TuiInv, FirstGone, reqVars, slotVars
    <2> QED
      BY <1>1, <2>1, <2>2
  <1> QED
    BY <1>1, <1>3, <1>4, <1>5, <1>6, CopiesFrame, Zenon DEF TuiInv, Types, reqVars, slotVars

\* start_resend and do_resend.
LEMMA SlotResendInv ==
  ASSUME TuiInv, StartResend \/ DoResend, UNCHANGED tuiVars PROVE TuiInv'
  <1>1. UNCHANGED <<reqVars, e_status, e_life, e_next_rx, e_next_tx, e_buffer, e_requests, up, pc,
                    in_map, quit>>
    BY Zenon DEF StartResend, DoResend, tuiVars
  <1>2. /\ down \in Seq(Packet) /\ Len(down) <= WireCap /\ e_buffer \in Seq(Packet)
        /\ e_resending \in Seq(Packet) /\ WireCap \in Nat
    BY ConnectionAssumption DEF TuiInv, Types
  <1>3. /\ down' \in Seq(Packet) /\ Len(down') <= WireCap /\ e_resending' \in Seq(Packet)
        /\ Packets(down)' \subseteq Packets(down) \cup Packets(e_resending)
        /\ Packets(e_resending)' \subseteq Packets(e_resending) \cup Packets(e_buffer)
    <2>1. CASE StartResend
      BY <1>2, <2>1, Zenon DEF StartResend
    <2>2. CASE DoResend
      <3>1. /\ e_resending # <<>> /\ down' = Append(down, Head(e_resending))
            /\ e_resending' = Tail(e_resending) /\ Len(down) < WireCap
        BY <2>2, Zenon DEF DoResend
      <3>2. /\ Head(e_resending) \in Packet /\ Tail(e_resending) \in Seq(Packet)
            /\ Packets(Tail(e_resending)) \subseteq Packets(e_resending)
            /\ Head(e_resending) \in Packets(e_resending)
        BY <1>2, <3>1, HeadTail
      <3>3. /\ down' \in Seq(Packet) /\ Len(down') = Len(down) + 1
            /\ Packets(down)' = Packets(down) \cup {Head(e_resending)}
        BY <1>2, <3>1, <3>2, PacketsAppend
      <3>4. Len(down') <= WireCap
        BY <1>2, <3>1, <3>3
      <3> QED
        BY <3>1, <3>2, <3>3, <3>4, Zenon
    <2> QED
      BY <2>1, <2>2
  <1>4. UpPackets' = UpPackets /\ DownPackets' \subseteq DownPackets
    BY <1>1, <1>3, Zenon DEF UpPackets, DownPackets, reqVars
  <1>5. Dropped' /\ FirstGone'
    BY <1>1, DroppedSame, FirstFrame, Zenon DEF TuiInv, reqVars
  <1> QED
    BY <1>1, <1>3, <1>4, <1>5, CopiesFrame, Zenon DEF TuiInv, Types, reqVars

\* get_packet hands a packet to the wire.
LEMMA GetPacketInv ==
  ASSUME TuiInv, in_map, GetPacket, UNCHANGED tuiVars PROVE TuiInv'
  <1>1. /\ UNCHANGED <<life, r_state, r_next_tx, r_next_rx, r_first, r_buffer, r_ops,
                       r_outstanding, r_answered, r_received, down, pc, in_map, quit>>
        /\ UNCHANGED slotVars
    BY Zenon DEF GetPacket, tuiVars
  <1>2. /\ up \in Seq(Packet) /\ Len(up) <= WireCap /\ WireCap \in Nat
        /\ r_resend_data \in Seq(Packet)
        /\ r_packet_data \in Seq(Packet) /\ Len(r_packet_data) <= 1
    BY ConnectionAssumption DEF TuiInv, Types
  <1>3. PICK h \in Packet :
          /\ up' = Append(up, h) /\ Len(up) < WireCap
          /\ \/ /\ r_resend_data # <<>> /\ h = Head(r_resend_data)
                /\ r_resend_data' = Tail(r_resend_data) /\ r_packet_data' = r_packet_data
             \/ /\ r_resend_data = <<>> /\ r_packet_data # <<>> /\ h = Head(r_packet_data)
                /\ r_packet_data' = <<>> /\ r_resend_data' = <<>>
    <2>1. CASE r_resend_data # <<>>
      BY <1>2, <2>1, HeadTail, Zenon DEF GetPacket
    <2>2. CASE r_resend_data = <<>>
      BY <1>2, <2>2, HeadTail, Zenon DEF GetPacket
    <2> QED
      BY <2>1, <2>2
  <1>4. /\ up' \in Seq(Packet) /\ Len(up') = Len(up) + 1 /\ Len(up') <= WireCap
        /\ Packets(up') = Packets(up) \cup {h}
        /\ \A k \in DOMAIN up : up'[k] = up[k]
        /\ up'[Len(up) + 1] = h
        /\ \A i, j \in DOMAIN up' : i < j => i \in DOMAIN up /\ (j \in DOMAIN up \/ j = Len(up) + 1)
    BY <1>2, <1>3, PacketsAppend
  <1>5. /\ r_resend_data' \in Seq(Packet) /\ r_packet_data' \in Seq(Packet)
        /\ Len(r_packet_data') <= 1
        /\ Packets(r_resend_data') \subseteq Packets(r_resend_data)
        /\ Packets(r_packet_data') \subseteq Packets(r_packet_data)
        /\ h \in Packets(r_resend_data) \cup Packets(r_packet_data)
    <2>1. CASE r_resend_data # <<>>
      BY <1>2, <1>3, <2>1, HeadTail, Zenon
    <2>2. CASE r_resend_data = <<>>
      <3>1. <<>> \in Seq(Packet) /\ Len(<<>>) <= 1
        OBVIOUS
      <3> QED
        BY <1>2, <1>3, <2>2, <3>1, HeadTail, PacketsEmpty, Zenon
    <2> QED
      BY <2>1, <2>2
  <1>6. UpPackets' \subseteq UpPackets /\ DownPackets' = DownPackets
    BY <1>1, <1>4, <1>5, Zenon DEF UpPackets, DownPackets, slotVars
  <1>7. Dropped'
    BY <1>1, DroppedFrame
  <1>8. FirstGone'
    <2>1. Taken' = Taken /\ SlotOpened' = SlotOpened
      BY <1>1, Zenon DEF Taken, SlotOpened, slotVars
    <2>2. /\ HasClose(up) => ~HasFirst(r_resend_data) /\ ~HasFirst(r_packet_data)
          /\ HasClose(r_resend_data) => ~HasFirst(r_resend_data) /\ ~HasFirst(r_packet_data)
          /\ HasClose(r_buffer) => ~HasFirst(r_packet_data)
      BY Zenon DEF TuiInv, FirstGone
    <2>3. HasClose(up) => h.seq # 0
      BY <1>5, <2>2, HasPackets, Zenon
    <2>4. \A i, j \in DOMAIN up' : i < j /\ up'[i].kind = "Close" => up'[j].seq # 0
      BY <1>4, <2>3, Zenon DEF TuiInv, FirstGone, HasClose
    <2>5. /\ HasFirst(r_resend_data') => HasFirst(r_resend_data)
          /\ HasFirst(r_packet_data') => HasFirst(r_packet_data)
          /\ HasClose(r_resend_data') => HasClose(r_resend_data)
      BY <1>5, HasPackets, Zenon
    <2>6. HasClose(up') => ~HasFirst(r_resend_data') /\ ~HasFirst(r_packet_data')
      <3>1. HasClose(up') => HasClose(up) \/ h.kind = "Close"
        BY <1>4, HasPackets, Zenon
      <3>2. CASE r_resend_data # <<>>
        <4>1. h.kind = "Close" => HasClose(r_resend_data)
          BY <1>2, <1>3, <3>2, TailHas, Zenon
        <4> QED
          BY <2>2, <2>5, <3>1, <4>1, Zenon
      <3>3. CASE r_resend_data = <<>>
        <4>1. ~HasFirst(<<>>)
          BY DEF HasFirst
        <4> QED
          BY <1>3, <3>3, <4>1, Zenon
      <3> QED
        BY <3>2, <3>3
    <2> QED
      BY <1>1, <1>6, <2>1, <2>2, <2>4, <2>5, <2>6, Zenon DEF TuiInv, FirstGone, slotVars
  <1> QED
    BY <1>1, <1>4, <1>5, <1>6, <1>7, <1>8, CopiesFrame, Zenon DEF TuiInv, Types, slotVars

\* A Close that is somewhere was sent, so packet 0 is acknowledged.
LEMMA CloseCopies ==
  ASSUME TuiInv, in_map, NEW p \in UpPackets, p.kind = "Close"
  PROVE  CloseSent /\ r_first # None
  <1>1. p.seq \in Nat
    BY AllPackets, FieldTypes DEF TuiInv
  <1>2. CASE p.seq < Taken
    <2>1. SlotOpened
      BY <1>1, <1>2 DEF Taken
    <2> QED
      BY <1>2, <2>1, Zenon DEF TuiInv, FirstGone, CloseSent, Closing
  <1>3. CASE ~(p.seq < Taken)
    <2>1. /\ r_first < Taken /\ p.seq < r_next_tx /\ r_first + Len(r_buffer) + 1 = r_next_tx
          /\ \A k \in DOMAIN r_buffer : r_buffer[k].seq = r_first + k
      BY Zenon DEF TuiInv, UpOrder
    <2>2. /\ r_first \in Int /\ Taken \in Nat /\ r_next_tx \in Nat /\ Len(r_buffer) \in Nat
          /\ DOMAIN r_buffer = 1 .. Len(r_buffer)
      BY Numbers DEF TuiInv, Types
    <2>3. p.seq - r_first \in DOMAIN r_buffer /\ r_buffer[p.seq - r_first].seq = p.seq
      BY <1>1, <1>3, <2>1, <2>2
    <2>4. r_buffer[p.seq - r_first] \in Packets(r_buffer)
      BY <2>3, Zenon DEF Packets
    <2>5. r_buffer[p.seq - r_first] = p
      BY <2>3, <2>4, Zenon DEF TuiInv, UpOrder, UpPackets
    <2>6. CloseSent
      BY <2>4, <2>5, Zenon DEF CloseSent
    <2> QED
      BY <2>6, Zenon DEF TuiInv, Closing
  <1> QED
    BY <1>2, <1>3

\* check_resend.
LEMMA ResendInv ==
  ASSUME TuiInv, in_map, Resend, UNCHANGED tuiVars PROVE TuiInv'
  <1>1. /\ UNCHANGED <<life, r_state, r_next_tx, r_next_rx, r_first, r_buffer, r_packet_data, r_ops,
                       r_outstanding, r_answered, r_received, up, down, pc, in_map, quit>>
        /\ UNCHANGED slotVars /\ r_resend_data' = r_buffer
    BY Zenon DEF Resend, tuiVars
  <1>2. UpPackets' \subseteq UpPackets /\ DownPackets' = DownPackets
    BY <1>1, Zenon DEF UpPackets, DownPackets, slotVars
  <1>3. Dropped'
    BY <1>1, DroppedFrame
  <1>4. FirstGone'
    <2>1. Taken' = Taken /\ SlotOpened' = SlotOpened
      BY <1>1, Zenon DEF Taken, SlotOpened, slotVars
    <2>2. HasClose(up) \/ HasClose(r_buffer) => ~HasFirst(r_buffer)
      <3>1. HasClose(up) \/ HasClose(r_buffer) => r_first # None
        BY CloseCopies, HasPackets, Zenon DEF UpPackets
      <3>2. r_first # None => \A k \in DOMAIN r_buffer : r_buffer[k].seq # 0
        <4>1. -1 <= r_first /\ \A k \in DOMAIN r_buffer : r_buffer[k].seq = r_first + k
          BY Zenon DEF TuiInv, UpOrder
        <4>2. r_first \in Int /\ DOMAIN r_buffer = 1 .. Len(r_buffer)
          BY DEF TuiInv, Types
        <4> QED
          BY <4>1, <4>2 DEF None
      <3> QED
        BY <3>1, <3>2, Zenon DEF HasFirst
    <2> QED
      BY <1>1, <1>2, <2>1, <2>2, Zenon DEF TuiInv, FirstGone, slotVars
  <1> QED
    BY <1>1, <1>2, <1>3, <1>4, CopiesFrame, Zenon DEF TuiInv, Types, slotVars

-----------------------------------------------------------------------------
(* The slot and the object when nothing is on its way *)

\* No copy of a packet is left of a dropped object when the network is quiet.
LEMMA NothingLeft ==
  ASSUME TuiInv, ~in_map, Quiet
  PROVE  /\ UpPackets = {} /\ Packets(down) = {} /\ Packets(e_resending) = {}
         /\ e_status = "IDLE" => DownPackets = {}
  <1>1. /\ up = <<>> /\ down = <<>> /\ e_resending = <<>>
        /\ r_buffer = <<>> /\ r_resend_data = <<>> /\ r_packet_data = <<>>
    BY Zenon DEF Quiet, TuiInv, Dropped
  <1>2. e_status = "IDLE" => e_buffer = <<>>
    BY Zenon DEF TuiInv, DownOrder
  <1> QED
    BY <1>1, <1>2, PacketsEmpty, Zenon DEF UpPackets, DownPackets

\* close_connection_pcie frees the slot of an object that is gone.
LEMMA OperatorInv == ASSUME TuiInv, Operator PROVE TuiInv'
  <1>1. /\ ~in_map /\ Quiet /\ e_status # "IDLE" /\ e_status' = "IDLE" /\ e_next_tx' = 0
        /\ e_buffer' = <<>> /\ UNCHANGED <<e_life, e_next_rx, e_resending, e_requests>>
        /\ UNCHANGED <<up, down, pc, in_map, quit>> /\ UNCHANGED reqVars
    BY Zenon DEF Operator, CloseOverPcie, FreeSlot, tuiVars
  <1>2. UpPackets' = {} /\ DownPackets' = {} /\ UpPackets = {}
    <2>1. UpPackets = {} /\ Packets(down) = {} /\ Packets(e_resending) = {}
      BY <1>1, NothingLeft, Zenon
    <2> QED
      BY <1>1, <2>1, PacketsEmpty, Zenon DEF UpPackets, DownPackets, reqVars
  <1>3. ~in_map'
    BY <1>1
  <1>4. Types'
    <2>1. <<>> \in Seq(Packet) /\ 0 \in Nat /\ "IDLE" \in SlotStatus
      BY DEF SlotStatus
    <2> QED
      BY <1>1, <2>1, Zenon DEF TuiInv, Types, reqVars
  <1>5. ThreadsOK' /\ Dropped'
    BY <1>1, ThreadsFrame, DroppedSame, Zenon DEF TuiInv, reqVars
  <1>6. UpOrder' /\ Closing'
    BY <1>2, <1>3, Zenon DEF UpOrder, Closing
  <1>7. r_next_rx' = 0 /\ r_received' = <<>> /\ SlotOpened' = SlotOpened /\ Taken' = Taken
    BY <1>1, Zenon DEF TuiInv, Dropped, reqVars, SlotOpened, Taken
  <1>8. DownOrder' /\ Closed'
    <2>1. ~(0 > 0)
      OBVIOUS
    <2> QED
      BY <1>1, <1>2, <1>3, <1>7, <2>1, Zenon DEF DownOrder, Closed
  <1>9. FirstGone'
    <2>1. up' = <<>> /\ r_resend_data' = <<>> /\ r_packet_data' = <<>> /\ r_buffer' = <<>>
      BY <1>1, Zenon DEF TuiInv, Dropped, Quiet, reqVars
    <2>2. ~HasClose(<<>>) /\ ~HasFirst(<<>>)
      BY DEF HasClose, HasFirst
    <2>3. \A i \in DOMAIN up' : FALSE
      BY <2>1
    <2> QED
      BY <1>2, <2>1, <2>2, <2>3, Zenon DEF FirstGone
  <1>10. Requests'
    BY <1>1, <1>2, <1>3, Zenon DEF Requests, Quiet
  <1> QED
    BY <1>4, <1>5, <1>6, <1>8, <1>9, <1>10, Zenon DEF TuiInv

\* The user connects again when the last connection has left.
LEMMA ConnectInv == ASSUME TuiInv, Patient, Connect PROVE TuiInv'
  <1>1. /\ pc["operation"] = "loop" /\ ~in_map /\ Quiet /\ e_status = "IDLE"
        /\ life < Lifetimes /\ life' = life + 1 /\ r_state' = "Enabled"
        /\ r_next_tx' = 0 /\ r_next_rx' = 0 /\ r_first' = None
        /\ r_buffer' = <<>> /\ r_resend_data' = <<>> /\ r_packet_data' = <<>>
        /\ r_ops' = {} /\ r_outstanding' = {} /\ r_answered' = {} /\ r_received' = <<>>
        /\ in_map' = TRUE /\ UNCHANGED <<up, down, pc, quit>> /\ UNCHANGED slotVars
    BY DEF Connect, TakeCommand, NewConnection, Fresh
  <1>2. UpPackets' = {} /\ DownPackets' = {}
    <2>1. /\ UpPackets = {} /\ DownPackets = {}
      BY <1>1, NothingLeft, Zenon
    <2> QED
      BY <1>1, <2>1, PacketsEmpty, Zenon DEF UpPackets, DownPackets, slotVars
  <1>3. ~SlotOpened' /\ Taken' = 0
    <2>1. e_life \in Nat /\ life \in Nat /\ e_life <= life /\ e_life' = e_life
      BY <1>1 DEF TuiInv, Types, slotVars
    <2>2. e_life' # life'
      BY <1>1, <2>1
    <2> QED
      BY <2>2, Zenon DEF SlotOpened, Taken
  <1>4. ~CloseSent'
    BY <1>1, <1>3, PacketsEmpty, Zenon DEF CloseSent
  <1>5. Types'
    <2>1. /\ life' \in Nat /\ life' > 0 /\ e_life <= life' /\ life' <= Lifetimes
      BY <1>1, Numbers DEF TuiInv
    <2>2. /\ 0 \in Nat /\ 0 \in 0 .. MaxTx /\ None \in Int /\ Len(<<>>) = 0 /\ 0 <= 1
          /\ \A S : <<>> \in Seq(S)
      BY ConnectionAssumption DEF None
    <2>3. "Enabled" \in ConnectionState
      BY DEF ConnectionState
    <2> QED
      BY <1>1, <2>1, <2>2, <2>3, Zenon DEF TuiInv, Types, slotVars
  <1>6. ThreadsOK' /\ Dropped'
    <2>1. r_outstanding = {}
      BY <1>1, Zenon DEF TuiInv, Dropped
    <2> QED
      BY <1>1, <2>1, Zenon DEF TuiInv, ThreadsOK, Dropped, Waits
  <1>7. UpOrder'
    <2>1. /\ 0 <= 0 /\ -1 <= None /\ None < 0 /\ None + Len(<<>>) + 1 = 0
          /\ \A k \in DOMAIN r_buffer' : FALSE
      BY <1>1 DEF None
    <2> QED
      BY <1>1, <1>2, <1>3, <2>1, Zenon DEF UpOrder
  <1>8. DownOrder' /\ Closed'
    <2>1. ~(0 > 0) /\ e_buffer = <<>> /\ e_next_tx = 0
      BY <1>1 DEF TuiInv, DownOrder
    <2>2. "Enabled" \notin {"Idle", "ClosedByClient"}
      OBVIOUS
    <2> QED
      BY <1>1, <1>2, <2>1, <2>2, Zenon DEF DownOrder, Closed, slotVars
  <1>9. Closing'
    <2>1. "initiate" \in Disconnecting /\ "store" \in Disconnecting
      BY DEF Disconnecting
    <2>2. \A t \in Threads : pc'[t] \notin {"initiate", "store"}
      BY <1>1, <2>1, Zenon DEF TuiInv, ThreadsOK
    <2> QED
      BY <1>1, <1>4, <2>2 DEF Closing
  <1>10. FirstGone'
    <2>1. ~HasClose(<<>>) /\ ~HasFirst(<<>>)
      BY DEF HasClose, HasFirst
    <2>2. up' = <<>>
      BY <1>1 DEF Quiet
    <2>3. \A i \in DOMAIN up' : FALSE
      BY <2>2
    <2> QED
      BY <1>1, <1>2, <1>3, <2>1, <2>2, <2>3, Zenon DEF FirstGone
  <1>11. Requests'
    <2>1. e_requests' = {}
      BY <1>1, Zenon DEF Quiet, slotVars
    <2>2. \A t \in Threads : ~InUp(t)' /\ ~InDown(t)' /\ ~InReceived(t)'
      BY <1>1, <1>2, Zenon DEF InUp, InDown, InReceived
    <2> QED
      BY <1>1, <1>2, <2>1, <2>2, Zenon DEF Requests, OnePlace
  <1> QED
    BY <1>5, <1>6, <1>7, <1>8, <1>9, <1>10, <1>11, Zenon DEF TuiInv

-----------------------------------------------------------------------------
(* The slot *)

\* update_closed_by_host.
LEMMA NoRequestsInv == ASSUME TuiInv, NoRequests, UNCHANGED tuiVars PROVE TuiInv'
  <1>1. /\ e_status # "IDLE" /\ e_status # "ACTIVE" /\ e_status' # "IDLE" /\ e_status' # "ACTIVE"
        /\ e_status' \in SlotStatus /\ UNCHANGED reqVars
        /\ UNCHANGED <<e_life, e_next_rx, e_next_tx, e_buffer, e_resending, e_requests, up, down, pc,
                       in_map, quit>>
    BY DEF NoRequests, SlotStatus, tuiVars
  <1>2. UpPackets' = UpPackets /\ DownPackets' = DownPackets
    BY <1>1, Zenon DEF UpPackets, DownPackets, reqVars
  <1>3. Taken' = Taken /\ SlotOpened' = SlotOpened
    BY <1>1, Zenon DEF Taken, SlotOpened, reqVars
  <1>4. CloseSent' <=> CloseSent
    BY <1>1, <1>3, Zenon DEF CloseSent, reqVars
  <1>5. Types' /\ ThreadsOK' /\ Dropped' /\ UpOrder' /\ Requests'
    BY <1>1, <1>2, ThreadsFrame, DroppedSame, UpFrame, RequestsFrame, Zenon
       DEF TuiInv, Types, reqVars
  <1>6. DownOrder' /\ Closed' /\ FirstGone'
    BY <1>1, <1>2, <1>3, Zenon DEF TuiInv, DownOrder, Closed, FirstGone, reqVars
  <1>7. Closing'
    <2>1. \A t \in Threads : Past(t)' <=> Past(t)
      BY <1>1, Zenon DEF Past
    <2> QED
      BY <1>1, <1>4, <2>1, Zenon DEF TuiInv, Closing, reqVars
  <1> QED
    BY <1>5, <1>6, <1>7, Zenon DEF TuiInv

\* The slot numbers and sends a packet with some of the responses; a Close
\* frees it.
LEMMA SlotPacketInv ==
  ASSUME TuiInv, e_status # "IDLE", NEW kind \in {"Normal", "Close"}, NEW ops \in SUBSET e_requests,
         Len(down) < WireCap, down' = Append(down, SlotPacket(kind, ops)),
         e_requests' = e_requests \ ops,
         UNCHANGED reqVars, UNCHANGED <<e_life, e_next_rx, e_resending, up, pc, in_map, quit>>,
         \/ /\ kind = "Normal" /\ e_status' = e_status /\ e_next_tx' = e_next_tx + 1
            /\ e_buffer' = Append(e_buffer, SlotPacket(kind, ops))
         \/ /\ kind = "Close" /\ e_status # "ACTIVE" /\ e_status' = "IDLE" /\ e_next_tx' = 0
            /\ e_buffer' = <<>>
  PROVE  TuiInv'
  <1> DEFINE p == SlotPacket(kind, ops)
  <1>1. SlotOpened /\ Taken = e_next_rx
    BY Zenon DEF TuiInv, DownOrder, Taken
  <1>2. SlotOpened' /\ Taken' = Taken
    BY <1>1, Zenon DEF SlotOpened, Taken, reqVars
  <1>3. /\ p \in Packet /\ p.seq = e_next_tx /\ p.ack = Taken - 1 /\ p.ops = ops /\ p.kind = kind
    <2>1. e_next_rx - 1 \in Nat \cup {-1} /\ e_life \in 1 .. Lifetimes /\ e_next_tx \in Nat
      <3>1. e_life > 0 /\ life <= Lifetimes
        BY Zenon DEF TuiInv, Types
      <3>2. /\ e_next_rx \in Nat /\ e_next_tx \in Nat /\ e_life \in Nat /\ life \in Nat
            /\ Lifetimes \in Nat /\ e_life <= life
        BY Numbers DEF TuiInv
      <3> QED
        BY <3>1, <3>2
    <2>2. ops \in SUBSET Threads
      BY DEF TuiInv, Types
    <2> QED
      BY <1>1, <2>1, <2>2 DEF SlotPacket, Packet
  <1> HIDE DEF p
  <1>4. /\ down' \in Seq(Packet) /\ Len(down') <= WireCap
        /\ Packets(down)' = Packets(down) \cup {p}
        /\ e_buffer' \in Seq(Packet) /\ Packets(e_buffer)' \subseteq Packets(e_buffer) \cup {p}
    <2>1. down \in Seq(Packet) /\ e_buffer \in Seq(Packet) /\ WireCap \in Nat
      BY ConnectionAssumption DEF TuiInv, Types
    <2>2. /\ down' \in Seq(Packet) /\ Len(down') = Len(down) + 1
          /\ Packets(down)' = Packets(down) \cup {p}
      BY <1>3, <2>1, PacketsAppend DEF p
    <2>3. e_buffer' \in Seq(Packet) /\ Packets(e_buffer)' \subseteq Packets(e_buffer) \cup {p}
      <3>1. CASE e_buffer' = <<>>
        BY <3>1, PacketsEmpty
      <3>2. CASE e_buffer' = Append(e_buffer, p)
        BY <1>3, <2>1, <3>2, PacketsAppend
      <3> QED
        BY <3>1, <3>2 DEF p
    <2> QED
      BY <2>1, <2>2, <2>3
  <1>5. UpPackets' = UpPackets /\ DownPackets' \subseteq DownPackets \cup {p}
    BY <1>4, Zenon DEF UpPackets, DownPackets, reqVars
  <1>6. Types'
    <2>1. e_next_tx' \in Nat
      BY DEF TuiInv, Types
    <2>2. e_status' \in SlotStatus /\ (e_status' # "IDLE" => e_life > 0)
      BY DEF TuiInv, Types, SlotStatus
    <2>3. e_requests' \subseteq Threads
      BY Zenon DEF TuiInv, Types
    <2> QED
      BY <1>4, <2>1, <2>2, <2>3, Zenon DEF TuiInv, Types, reqVars
  <1>7. ThreadsOK' /\ Dropped' /\ UpOrder'
    BY <1>5, ThreadsFrame, DroppedSame, UpFrame, Zenon DEF TuiInv, reqVars
  <1>8. DownOrder'
    <2>1. /\ e_next_tx \in Nat /\ r_next_rx \in Nat /\ r_first \in Int /\ Taken \in Nat
          /\ \A q \in DownPackets : q.seq \in Nat /\ q.ack \in Int
      BY AllPackets, FieldTypes, Numbers DEF TuiInv
    <2>2. r_next_rx <= e_next_tx /\ \A q \in DownPackets : q.seq < e_next_tx /\ q.ack < Taken
      BY Zenon DEF TuiInv, DownOrder
    <2>3. /\ \A q \in DownPackets : q.seq # p.seq /\ q.seq < p.seq /\ ~(p.seq < q.seq) /\ q.ack <= p.ack
          /\ p.ack < Taken /\ ~(p.seq < p.seq)
      BY <1>3, <2>1, <2>2
    <2>4. r_first <= p.ack
      <3>1. CASE in_map
        BY <1>3, <2>1, <3>1 DEF TuiInv, UpOrder
      <3>2. CASE ~in_map
        <4>1. r_first = -1
          BY <3>2 DEF TuiInv, Dropped, None
        <4> QED
          BY <1>3, <2>1, <4>1
      <3> QED
        BY <3>1, <3>2
    <2>5. e_status' # "IDLE" =>
            r_next_rx <= e_next_tx' /\ p.seq < e_next_tx' /\ \A q \in DownPackets : q.seq < e_next_tx'
      BY <1>3, <2>1, <2>2
    <2>6. UNCHANGED <<r_next_rx, r_first>>
      BY DEF reqVars
    <2>7. \A q, r \in DownPackets' :
             (q.seq = r.seq => q = r) /\ (q.seq < r.seq => q.ack <= r.ack)
      BY <1>5, <2>3, Zenon DEF TuiInv, DownOrder
    <2>8. \A q \in DownPackets' :
             q.ack < Taken /\ q.kind \in {"Normal", "Close"} /\ (r_next_rx <= q.seq => r_first <= q.ack)
      BY <1>3, <1>5, <2>3, <2>4, Zenon DEF TuiInv, DownOrder
    <2>9. e_status' = "IDLE" => e_buffer' = <<>> /\ e_next_tx' = 0
      OBVIOUS
    <2>10. e_status' # "IDLE" =>
             r_next_rx' <= e_next_tx' /\ \A q \in DownPackets' : q.seq < e_next_tx'
      BY <1>5, <2>5, <2>6, Zenon
    <2>11. \A q \in DownPackets' :
             /\ q.ack < Taken' /\ q.kind \in {"Normal", "Close"}
             /\ r_next_rx' <= q.seq => r_first' <= q.ack
      BY <1>2, <2>6, <2>8, Zenon
    <2> QED
      BY <1>2, <2>7, <2>9, <2>10, <2>11, Zenon DEF DownOrder
  <1>9. Closing'
    <2>1. CloseSent' <=> CloseSent
      BY <1>1, <1>2 DEF CloseSent, reqVars
    <2>2. \A t \in Threads : Past(t)' <=> Past(t)
      BY Zenon DEF Past
    <2> QED
      BY <2>1, <2>2, Zenon DEF TuiInv, Closing, reqVars
  <1>10. Closed'
    <2>1. CASE kind = "Normal"
      BY <1>3, <1>5, <2>1 DEF TuiInv, Closed, reqVars
    <2>2. CASE kind = "Close"
      BY <1>2, <2>2 DEF TuiInv, Closed, reqVars
    <2> QED
      BY <2>1, <2>2
  <1>11. FirstGone'
    <2>1. (e_status' # "ACTIVE") <=> (e_status # "ACTIVE")
      OBVIOUS
    <2> QED
      BY <1>1, <1>2, <1>5, <2>1, Zenon DEF TuiInv, FirstGone, reqVars
  <1>12. Requests'
    <2>1. ASSUME in_map, NEW t \in Threads PROVE OnePlace(t)'
      <3>1. OnePlace(t)
        BY <2>1, Zenon DEF TuiInv, Requests
      <3>2. /\ InUp(t)' <=> InUp(t)
            /\ InReceived(t)' <=> InReceived(t)
            /\ InDown(t)' => InDown(t) \/ t \in ops
            /\ UNCHANGED <<r_ops, r_answered, r_outstanding, r_next_rx>>
        BY <1>2, <1>3, <1>5, Zenon DEF InUp, InReceived, InDown, reqVars
      <3>3. CASE t \in ops
        <4>1. /\ t \in e_requests /\ t \notin e_requests' /\ t \notin r_ops /\ ~InUp(t) /\ ~InDown(t)
              /\ ~InReceived(t) /\ t \notin r_answered /\ t \in r_outstanding
          BY <3>1, <3>3, Zenon DEF OnePlace
        <4>2. \A q \in DownPackets' : r_next_rx <= q.seq /\ t \in q.ops => q = p
          BY <1>5, <4>1, Zenon DEF InDown
        <4>3. \A q, r \in UpPackets :
                 Taken <= q.seq /\ Taken <= r.seq /\ t \in q.ops /\ t \in r.ops => q = r
          BY <3>1, Zenon DEF OnePlace
        <4> QED
          BY <1>2, <1>5, <3>2, <4>1, <4>2, <4>3, Zenon DEF OnePlace
      <3>4. CASE t \notin ops
        <4>1. (t \in e_requests' <=> t \in e_requests) /\ t \notin p.ops
          BY <1>3, <3>4
        <4> QED
          BY <1>2, <1>5, <3>1, <3>2, <3>4, <4>1, Zenon DEF OnePlace
      <3> QED
        BY <3>3, <3>4
    <2>2. in_map' => in_map
      OBVIOUS
    <2> QED
      BY <1>2, <1>5, <2>1, <2>2, Zenon DEF TuiInv, Requests
  <1> QED
    BY <1>6, <1>7, <1>8, <1>9, <1>10, <1>11, <1>12, Zenon DEF TuiInv

\* The slot sends a packet, or its Close.
LEMMA SlotSendInv ==
  ASSUME TuiInv, SlotSend \/ SlotClose, UNCHANGED tuiVars PROVE TuiInv'
  <1>1. UNCHANGED reqVars /\ UNCHANGED <<e_life, e_next_rx, e_resending, up, pc, in_map, quit>>
    BY Zenon DEF SlotSend, SlotClose, FreeSlot, tuiVars
  <1>2. CASE SlotSend
    <2>1. PICK ops \in SUBSET e_requests :
            /\ down' = Append(down, SlotPacket("Normal", ops))
            /\ e_buffer' = Append(e_buffer, SlotPacket("Normal", ops))
            /\ e_requests' = e_requests \ ops
      BY <1>2 DEF SlotSend
    <2>2. /\ e_status # "IDLE" /\ e_status' = e_status /\ e_next_tx' = e_next_tx + 1
          /\ Len(down) < WireCap
      BY <1>2 DEF SlotSend, ChooseNormal
    <2> QED
      BY <1>1, <2>1, <2>2, SlotPacketInv, Zenon
  <1>3. CASE SlotClose
    <2>1. PICK ops \in SUBSET e_requests :
            /\ down' = Append(down, SlotPacket("Close", ops))
            /\ e_requests' = e_requests \ ops
      BY <1>3, Zenon DEF SlotClose
    <2>2. /\ e_status # "IDLE" /\ e_status # "ACTIVE" /\ e_status' = "IDLE" /\ e_next_tx' = 0
          /\ e_buffer' = <<>> /\ Len(down) < WireCap
      BY <1>3 DEF SlotClose, ChooseNormal, FreeSlot
    <2> QED
      BY <1>1, <2>1, <2>2, SlotPacketInv, Zenon
  <1> QED
    BY <1>2, <1>3

\* The slot takes in the packet that it expects.
LEMMA TakeIn ==
  ASSUME TuiInv, NEW p \in UpPackets, p.seq = Taken, Taken' = Taken + 1, SlotOpened',
         e_requests' = e_requests \cup p.ops, UpPackets' \subseteq UpPackets,
         DownPackets' \subseteq DownPackets, UNCHANGED reqVars, UNCHANGED in_map
  PROVE  UpOrder' /\ Requests'
  <1>1. /\ Taken \in Nat /\ r_next_tx \in Nat /\ r_first \in Int
        /\ \A q \in UpPackets : q.seq \in Nat
    BY AllPackets, FieldTypes, Numbers DEF TuiInv
  <1>2. \A q \in UpPackets : Taken + 1 <= q.seq => Taken <= q.seq /\ q # p
    BY <1>1
  <1>3. Taken <= p.seq
    BY <1>1
  <1>4. UpOrder'
    <2>1. in_map => Taken + 1 <= r_next_tx /\ r_first < Taken + 1
      BY <1>1 DEF TuiInv, UpOrder
    <2> QED
      BY <2>1, Zenon DEF TuiInv, UpOrder, reqVars
  <1>5. ASSUME in_map, NEW t \in Threads PROVE OnePlace(t)'
    <2>1. OnePlace(t)
      BY <1>5, Zenon DEF TuiInv, Requests
    <2>2. /\ InUp(t)' => \E q \in UpPackets : Taken <= q.seq /\ t \in q.ops /\ q # p
          /\ InUp(t)' => InUp(t)
          /\ InReceived(t)' <=> InReceived(t)
          /\ InDown(t)' => InDown(t)
          /\ UNCHANGED <<r_ops, r_answered, r_outstanding, r_next_rx>>
      BY <1>2, Zenon DEF InUp, InReceived, InDown, reqVars
    <2>3. /\ \A q, r \in UpPackets' :
                Taken' <= q.seq /\ Taken' <= r.seq /\ t \in q.ops /\ t \in r.ops => q = r
          /\ \A q, r \in DownPackets' :
                r_next_rx' <= q.seq /\ r_next_rx' <= r.seq /\ t \in q.ops /\ t \in r.ops => q = r
      BY <1>2, <2>1, <2>2, Zenon DEF OnePlace
    <2>4. CASE t \in p.ops
      <3>1. InUp(t) /\ ~InUp(t)'
        BY <1>3, <2>1, <2>2, <2>4, Zenon DEF InUp, OnePlace
      <3>2. t \notin r_ops /\ ~InDown(t) /\ ~InReceived(t) /\ t \notin r_answered /\ t \in r_outstanding
        BY <2>1, <3>1, Zenon DEF OnePlace
      <3> QED
        BY <2>2, <2>3, <3>1, <3>2, Zenon DEF OnePlace
    <2>5. CASE t \notin p.ops
      <3>1. t \in e_requests' <=> t \in e_requests
        BY <2>5
      <3> QED
        BY <2>1, <2>2, <2>3, <3>1, Zenon DEF OnePlace
    <2> QED
      BY <2>4, <2>5
  <1>6. Requests'
    <2>1. CASE in_map
      BY <1>5, <2>1 DEF Requests
    <2>2. CASE ~in_map
      <3>1. e_requests' = {} /\ \A q \in UpPackets' : Taken' <= q.seq => q.ops = {}
        BY <1>2, <1>3, <2>2, Zenon DEF TuiInv, Requests
      <3>2. ~in_map'
        BY <2>2
      <3> QED
        BY <3>1, <3>2, Zenon DEF Requests
    <2> QED
      BY <2>1, <2>2
  <1> QED
    BY <1>4, <1>6

\* The slot is taken by an Open.
LEMMA OpenInv ==
  ASSUME TuiInv, up # <<>>, up' = Tail(up), e_status = "IDLE", IsFirst(Head(up)),
         e_status' = "ACTIVE", e_life' = Head(up).life, e_next_rx' = 1,
         e_buffer' = Unacked(Head(up).ack), e_requests' = e_requests \cup Head(up).ops,
         UNCHANGED reqVars, UNCHANGED <<e_next_tx, e_resending, down, pc, in_map, quit>>
  PROVE  TuiInv' /\ e_life' # e_life
  <1> DEFINE p == Head(up)
  <1>1. /\ up \in Seq(Packet) /\ p \in Packet /\ up' \in Seq(Packet) /\ p \in Packets(up)
        /\ Packets(up)' \subseteq Packets(up) /\ Len(up') <= WireCap
    <2>1. up \in Seq(Packet) /\ Len(up) <= WireCap /\ WireCap \in Nat
      BY ConnectionAssumption DEF TuiInv, Types
    <2>2. Len(Tail(up)) = Len(up) - 1 /\ Len(up) \in Nat
      BY <2>1, HeadTail
    <2>3. Packets(up)' = Packets(Tail(up))
      BY DEF Packets
    <2> QED
      BY <2>1, <2>2, <2>3, HeadTail
  <1>2. p \in UpPackets /\ UpPackets' \subseteq UpPackets
    BY <1>1, Zenon DEF UpPackets, reqVars
  <1>3. p.seq = 0 /\ p.kind = "Open"
    BY DEF IsFirst
  <1> HIDE DEF p
  <1>4. ~SlotOpened /\ Taken = 0 /\ p.life = life
    <2>1. ~SlotOpened
      BY <1>2, <1>3 DEF TuiInv, FirstGone
    <2> QED
      BY <1>2, <2>1, Zenon DEF TuiInv, UpOrder, Taken
  <1>5. SlotOpened' /\ Taken' = 1 /\ e_life' = life /\ e_life' # e_life
    BY <1>4, Zenon DEF SlotOpened, Taken, reqVars, p
  <1>6. DownPackets = {} /\ DownPackets' = {} /\ e_buffer' \in Seq(Packet)
    <2>1. DownPackets = {}
      BY <1>4, Zenon DEF TuiInv, DownOrder
    <2>2. Packets(e_buffer)' \subseteq Packets(e_buffer) /\ e_buffer' \in Seq(Packet)
      BY UnackedType, Packets(e_buffer)' = Packets(e_buffer'), Zenon DEF TuiInv, Packets
    <2> QED
      BY <2>1, <2>2, Zenon DEF DownPackets
  <1>7. Types'
    <2>1. /\ e_next_rx' \in 0 .. MaxTx /\ "ACTIVE" \in SlotStatus
      BY ConnectionAssumption DEF SlotStatus
    <2>2. e_life' \in Nat /\ e_life' <= life /\ e_life' > 0
      BY <1>1, <1>4, <1>5, FieldTypes, Numbers DEF TuiInv
    <2>3. e_requests' \subseteq Threads
      BY <1>1, FieldTypes DEF TuiInv, Types, p
    <2> QED
      BY <1>1, <1>6, <2>1, <2>2, <2>3, Zenon DEF TuiInv, Types, reqVars
  <1>8. ThreadsOK' /\ Dropped'
    BY ThreadsFrame, DroppedSame, Zenon DEF TuiInv, reqVars
  <1>9. UpOrder' /\ Requests'
    <2>1. Taken' = Taken + 1 /\ p.seq = Taken /\ DownPackets' \subseteq DownPackets
      BY <1>3, <1>4, <1>5, <1>6
    <2> QED
      BY <1>2, <1>5, <2>1, TakeIn, Zenon DEF p
  <1>10. DownOrder'
    <2>1. r_next_rx \in Nat /\ e_next_tx = 0 /\ ~(r_next_rx > 0)
      BY <1>4, Numbers DEF TuiInv, DownOrder
    <2>2. r_next_rx <= e_next_tx
      BY <2>1
    <2>3. "ACTIVE" # "IDLE"
      OBVIOUS
    <2> QED
      BY <1>5, <1>6, <2>2, <2>3, Zenon DEF DownOrder, reqVars
  <1>11. Closing'
    <2>1. CloseSent' <=> CloseSent
      BY <1>4 DEF CloseSent, reqVars
    <2>2. \A t \in Threads : Past(t)' <=> Past(t)
      BY Zenon DEF Past
    <2> QED
      BY <2>1, <2>2, Zenon DEF TuiInv, Closing, reqVars
  <1>12. Closed'
    BY <1>4, <1>6, Zenon DEF TuiInv, Closed, reqVars
  <1>13. FirstGone'
    <2>1. /\ \A i, j \in DOMAIN up' : i < j /\ up'[i].kind = "Close" => up'[j].seq # 0
          /\ HasClose(up') => HasClose(up)
      BY <1>1, UpTail, Zenon DEF TuiInv
    <2>2. \A q \in UpPackets' : q.kind = "Close" /\ q.seq < Taken' => FALSE
      <3>1. ASSUME NEW q \in UpPackets', q.kind = "Close", q.seq < Taken' PROVE FALSE
        <4>1. q \in UpPackets /\ q.seq \in Nat
          BY <1>2, AllPackets, FieldTypes DEF TuiInv
        <4>2. q.seq = p.seq
          BY <1>3, <1>5, <3>1, <4>1
        <4>3. q = p
          BY <1>2, <4>1, <4>2, Zenon DEF TuiInv, UpOrder
        <4> QED
          BY <1>3, <3>1, <4>3
      <3> QED
        BY <3>1, Zenon
    <2> QED
      BY <2>1, <2>2, Zenon DEF TuiInv, FirstGone, reqVars
  <1> QED
    BY <1>5, <1>7, <1>8, <1>9, <1>10, <1>11, <1>12, <1>13, Zenon DEF TuiInv

\* The slot takes in a packet of its connection.
LEMMA NextPacketInv ==
  ASSUME TuiInv, up # <<>>, up' = Tail(up), e_status # "IDLE", Head(up).seq = e_next_rx,
         e_status' = IF Head(up).kind = "Close"
                     THEN "CLOSED_BY_HOST_WAITING_FOR_REQUESTS" ELSE e_status,
         e_next_rx' = e_next_rx + 1,
         e_buffer' = Unacked(Head(up).ack), e_requests' = e_requests \cup Head(up).ops,
         UNCHANGED reqVars, UNCHANGED <<e_life, e_next_tx, e_resending, down, pc, in_map, quit>>
  PROVE  TuiInv'
  <1> DEFINE p == Head(up)
  <1>1. /\ up \in Seq(Packet) /\ p \in Packet /\ up' \in Seq(Packet) /\ p \in Packets(up)
        /\ Packets(up)' \subseteq Packets(up) /\ Len(up') <= WireCap
    <2>1. up \in Seq(Packet) /\ Len(up) <= WireCap /\ WireCap \in Nat
      BY ConnectionAssumption DEF TuiInv, Types
    <2>2. Len(Tail(up)) = Len(up) - 1 /\ Len(up) \in Nat
      BY <2>1, HeadTail
    <2>3. Packets(up)' = Packets(Tail(up))
      BY DEF Packets
    <2> QED
      BY <2>1, <2>2, <2>3, HeadTail
  <1>2. p \in UpPackets /\ UpPackets' \subseteq UpPackets
    BY <1>1, Zenon DEF UpPackets, reqVars
  <1> HIDE DEF p
  <1>3. SlotOpened /\ SlotOpened' /\ Taken = e_next_rx /\ p.seq = Taken /\ Taken' = Taken + 1
    <2>1. SlotOpened
      BY DEF TuiInv, DownOrder
    <2>2. SlotOpened'
      BY <2>1, Zenon DEF SlotOpened, reqVars
    <2> QED
      BY <2>1, <2>2, Zenon DEF Taken, p
  <1>4. DownPackets' \subseteq DownPackets /\ e_buffer' \in Seq(Packet)
    <2>1. Packets(e_buffer)' \subseteq Packets(e_buffer) /\ e_buffer' \in Seq(Packet)
      BY UnackedType, Packets(e_buffer)' = Packets(e_buffer'), Zenon DEF TuiInv, Packets
    <2> QED
      BY <2>1, Zenon DEF DownPackets
  <1>5. /\ e_status' # "IDLE" /\ e_status' \in SlotStatus
        /\ e_status # "ACTIVE" => e_status' # "ACTIVE"
        /\ p.kind = "Close" => e_status' # "ACTIVE"
        /\ p.kind # "Close" => e_status' = e_status
    BY DEF p, SlotStatus, TuiInv, Types
  <1>6. Types'
    <2>1. e_next_rx' \in 0 .. MaxTx
      <3>1. p.seq < MaxTx
        BY <1>2, Zenon DEF TuiInv, UpOrder
      <3> QED
        BY <1>3, <3>1, Numbers DEF TuiInv
    <2>2. e_requests' \subseteq Threads
      BY <1>1, FieldTypes DEF TuiInv, Types, p
    <2> QED
      BY <1>1, <1>4, <1>5, <2>1, <2>2, Zenon DEF TuiInv, Types, reqVars
  <1>7. ThreadsOK' /\ Dropped'
    BY ThreadsFrame, DroppedSame, Zenon DEF TuiInv, reqVars
  <1>8. UpOrder' /\ Requests'
    BY <1>2, <1>3, <1>4, TakeIn, Zenon DEF p
  <1>9. DownOrder'
    <2>1. Taken \in Nat /\ \A q \in DownPackets : q.ack \in Int
      BY AllPackets, FieldTypes, Numbers DEF TuiInv
    <2>2. \A q \in DownPackets : q.ack < Taken
      BY Zenon DEF TuiInv, DownOrder
    <2>3. \A q \in DownPackets' : q.ack < Taken'
      BY <1>3, <1>4, <2>1, <2>2
    <2> QED
      BY <1>3, <1>4, <1>5, <2>3, Zenon DEF TuiInv, DownOrder, reqVars
  <1>10. Closing'
    <2>1. in_map => (CloseSent' <=> CloseSent)
      <3>1. CASE p.kind = "Close"
        <4>1. in_map => CloseSent
          BY <1>2, <3>1, CloseCopies, Zenon
        <4>2. CloseSent'
          BY <1>3, <1>5, <3>1, Zenon DEF CloseSent
        <4> QED
          BY <4>1, <4>2
      <3>2. CASE p.kind # "Close"
        BY <1>3, <1>5, <3>2, Zenon DEF CloseSent, reqVars
      <3> QED
        BY <3>1, <3>2
    <2>2. \A t \in Threads : Past(t)' <=> Past(t)
      BY Zenon DEF Past
    <2>3. in_map' => in_map
      OBVIOUS
    <2> QED
      BY <2>1, <2>2, <2>3, Zenon DEF TuiInv, Closing, reqVars
  <1>11. Closed'
    BY <1>4, Zenon DEF TuiInv, Closed, reqVars
  <1>12. FirstGone'
    <2>1. /\ \A i, j \in DOMAIN up' : i < j /\ up'[i].kind = "Close" => up'[j].seq # 0
          /\ HasClose(up') => HasClose(up)
      BY <1>1, UpTail, Zenon DEF TuiInv
    <2>2. \A q \in UpPackets' : q.kind = "Close" /\ q.seq < Taken' => e_status' # "ACTIVE"
      <3>1. ASSUME NEW q \in UpPackets', q.kind = "Close", q.seq < Taken' PROVE e_status' # "ACTIVE"
        <4>1. q \in UpPackets /\ q.seq \in Nat /\ Taken \in Nat
          BY <1>2, AllPackets, FieldTypes, Numbers DEF TuiInv
        <4>2. CASE q.seq < Taken
          BY <1>5, <3>1, <4>1, <4>2, Zenon DEF TuiInv, FirstGone
        <4>3. CASE ~(q.seq < Taken)
          <5>1. q.seq = p.seq
            BY <1>3, <3>1, <4>1, <4>3
          <5>2. q = p
            BY <1>2, <4>1, <5>1, Zenon DEF TuiInv, UpOrder
          <5> QED
            BY <1>5, <3>1, <5>2
        <4> QED
          BY <4>2, <4>3
      <3> QED
        BY <3>1, Zenon
    <2>3. p.kind = "Close" => \A q \in UpPackets' : q.seq # 0
      <3> SUFFICES ASSUME p.kind = "Close" PROVE \A q \in UpPackets' : q.seq # 0
        BY Zenon
      <3>1. HasClose(up) /\ 1 \in DOMAIN up /\ up[1].kind = "Close"
        BY <1>1, TailHas DEF p
      <3>2. \A q \in Packets(up') : q.seq # 0
        <4>1. \A i \in DOMAIN up' : i + 1 \in DOMAIN up /\ up'[i] = up[i + 1] /\ 1 < i + 1
          BY <1>1
        <4>2. \A i \in DOMAIN up' : up[i + 1].seq # 0
          BY <3>1, <4>1, Zenon DEF TuiInv, FirstGone
        <4> QED
          BY <4>1, <4>2, Zenon DEF Packets
      <3>3. ~HasFirst(r_resend_data) /\ ~HasFirst(r_packet_data)
        BY <3>1, Zenon DEF TuiInv, FirstGone
      <3>4. \A q \in Packets(r_buffer) : q.seq # 0
        <4>1. CASE in_map
          <5>1. r_first # None
            BY <1>2, <4>1, CloseCopies, Zenon
          <5>2. -1 <= r_first /\ \A k \in DOMAIN r_buffer : r_buffer[k].seq = r_first + k
            BY <4>1, Zenon DEF TuiInv, UpOrder
          <5>3. r_first \in Int /\ DOMAIN r_buffer = 1 .. Len(r_buffer)
            BY DEF TuiInv, Types
          <5>4. \A k \in DOMAIN r_buffer : r_buffer[k].seq # 0
            BY <5>1, <5>2, <5>3 DEF None
          <5> QED
            BY <5>4, Zenon DEF Packets
        <4>2. CASE ~in_map
          BY <4>2, PacketsEmpty, Zenon DEF TuiInv, Dropped
        <4> QED
          BY <4>1, <4>2
      <3> QED
        BY <3>2, <3>3, <3>4, HasPackets, Zenon DEF UpPackets, reqVars
    <2>4. SlotOpened' /\ e_status' # "ACTIVE" => \A q \in UpPackets' : q.seq # 0
      BY <1>2, <1>3, <1>5, <2>3, Zenon DEF TuiInv, FirstGone
    <2> QED
      BY <2>1, <2>2, <2>4, Zenon DEF TuiInv, FirstGone, reqVars
  <1> QED
    BY <1>6, <1>7, <1>8, <1>9, <1>10, <1>11, <1>12, Zenon DEF TuiInv

\* parse_pkt_header to handle_connection_change.  An Open is taken in once.
LEMMA SlotReceiveInv ==
  ASSUME TuiInv, SlotReceive, UNCHANGED tuiVars
  PROVE  TuiInv' /\ (e_status = "IDLE" /\ e_status' = "ACTIVE" => e_life' # e_life)
  <1> DEFINE p == Head(up)
             taken == (e_status = "IDLE" => IsFirst(p))
                      /\ p.seq = IF e_status = "IDLE" THEN 0 ELSE e_next_rx
  <1>1. /\ up # <<>> /\ up' = Tail(up) /\ UNCHANGED reqVars
        /\ UNCHANGED <<e_next_tx, e_resending, e_slip, down, pc, in_map, quit>>
    BY Zenon DEF SlotReceive, tuiVars
  <1>2. CASE ~taken
    <2>1. UNCHANGED <<reqVars, slotVars>> /\ UNCHANGED down
      BY <1>2, Zenon DEF SlotReceive, slotVars
    <2>2. Lose
      BY <1>1, <2>1, Zenon DEF Lose
    <2>3. TuiInv'
      BY <2>2, LoseInv
    <2> QED
      BY <2>1, <2>3 DEF slotVars
  <1>3. CASE taken /\ e_status = "IDLE"
    <2>1. /\ e_status' = "ACTIVE" /\ e_life' = p.life /\ e_next_rx' = 1 /\ IsFirst(p)
          /\ e_buffer' = Unacked(p.ack) /\ e_requests' = e_requests \cup p.ops
      BY <1>3 DEF SlotReceive
    <2> QED
      BY <1>1, <1>3, <2>1, OpenInv, Zenon
  <1>4. CASE taken /\ e_status # "IDLE"
    <2>1. /\ p.seq = e_next_rx /\ e_life' = e_life /\ e_next_rx' = e_next_rx + 1
          /\ e_status' = IF p.kind = "Close" THEN "CLOSED_BY_HOST_WAITING_FOR_REQUESTS" ELSE e_status
          /\ e_buffer' = Unacked(p.ack) /\ e_requests' = e_requests \cup p.ops
      BY <1>4, Zenon DEF SlotReceive
    <2> QED
      BY <1>1, <1>4, <2>1, NextPacketInv, Zenon
  <1> QED
    BY <1>2, <1>3, <1>4, Zenon

-----------------------------------------------------------------------------
(* The object *)

\* remove_from_resend: what stays in the resend buffer when number a is
\* acknowledged.
LEMMA AckDrops ==
  ASSUME TuiInv, in_map, NEW a \in Int, r_first <= a, a - r_first <= Len(r_buffer)
  PROVE  LET b == SubSeq(r_buffer, a - r_first + 1, Len(r_buffer))
         IN  /\ b \in Seq(Packet) /\ Packets(b) \subseteq Packets(r_buffer)
             /\ a + Len(b) + 1 = r_next_tx
             /\ \A k \in DOMAIN b : b[k].seq = a + k
             /\ \A c \in Packets(r_buffer) : c \in Packets(b) \/ c.seq <= a
  <1> DEFINE m == a - r_first
             b == SubSeq(r_buffer, m + 1, Len(r_buffer))
  <1>1. /\ r_buffer \in Seq(Packet) /\ Len(r_buffer) \in Nat /\ r_first \in Int
        /\ DOMAIN r_buffer = 1 .. Len(r_buffer) /\ r_next_tx \in Nat
    BY Numbers DEF TuiInv, Types
  <1>2. m \in 0 .. Len(r_buffer) /\ m \in Int /\ a = r_first + m
    BY <1>1
  <1> HIDE DEF m
  <1>3. /\ b \in Seq(Packet) /\ Len(b) = Len(r_buffer) - m
        /\ \A k \in 1 .. Len(r_buffer) - m : b[k] = r_buffer[k + m]
        /\ Packets(b) \subseteq Packets(r_buffer)
    BY <1>1, <1>2, DropFirst
  <1> HIDE DEF b
  <1>4. DOMAIN b = 1 .. Len(r_buffer) - m
    BY <1>3
  <1>5. /\ r_first + Len(r_buffer) + 1 = r_next_tx
        /\ \A k \in DOMAIN r_buffer : r_buffer[k].seq = r_first + k
    BY Zenon DEF TuiInv, UpOrder
  <1>6. a + Len(b) + 1 = r_next_tx
    <2>1. Len(b) = Len(r_buffer) - m /\ r_first + Len(r_buffer) + 1 = r_next_tx
      BY <1>3, <1>5, Zenon
    <2> QED
      BY <1>1, <1>2, <2>1
  <1>7. ASSUME NEW k \in DOMAIN b PROVE b[k].seq = a + k
    <2>1. k \in Int /\ k + m \in DOMAIN r_buffer /\ b[k] = r_buffer[k + m]
      BY <1>1, <1>2, <1>3, <1>4
    <2>2. b[k].seq = r_first + (k + m)
      BY <1>5, <2>1
    <2> QED
      BY <1>1, <1>2, <2>1, <2>2
  <1>8. ASSUME NEW c \in Packets(r_buffer) PROVE c \in Packets(b) \/ c.seq <= a
    <2>1. PICK k \in DOMAIN r_buffer : c = r_buffer[k]
      BY Zenon DEF Packets
    <2>2. c.seq = r_first + k /\ k \in 1 .. Len(r_buffer)
      BY <1>1, <1>5, <2>1
    <2>3. CASE k <= m
      BY <1>1, <1>2, <2>2, <2>3
    <2>4. CASE ~(k <= m)
      <3>1. k - m \in DOMAIN b /\ (k - m) + m = k /\ k - m \in 1 .. Len(r_buffer) - m
        BY <1>1, <1>2, <1>4, <2>2, <2>4
      <3>2. b[k - m] = c
        BY <1>3, <2>1, <3>1
      <3> QED
        BY <3>1, <3>2, Zenon DEF Packets
    <2> QED
      BY <2>3, <2>4
  <1> QED
    BY <1>3, <1>6, <1>7, <1>8 DEF b, m

\* process_packets accepts a packet.
LEMMA AcceptInv ==
  ASSUME TuiInv, in_map, r_received = <<>>, down # <<>>, Head(down).seq = r_next_rx,
         AckFits(Head(down)), r_next_rx' = r_next_rx + 1,
         r_buffer' = SubSeq(r_buffer, Head(down).ack - r_first + 1, Len(r_buffer)),
         r_first' = Head(down).ack,
         r_received' = <<[state |-> r_state, kind |-> Head(down).kind, ops |-> Head(down).ops]>>,
         down' = Tail(down),
         UNCHANGED <<life, r_state, r_next_tx, r_resend_data, r_packet_data, r_ops,
                     r_outstanding, r_answered, up, pc, in_map, quit>>,
         UNCHANGED slotVars
  PROVE  TuiInv'
  <1> DEFINE p == Head(down)
             g == [state |-> r_state, kind |-> p.kind, ops |-> p.ops]
  <1>1. /\ down \in Seq(Packet) /\ p \in Packet /\ down' \in Seq(Packet) /\ p \in Packets(down)
        /\ Packets(down)' \subseteq Packets(down) /\ Len(down') <= WireCap
    <2>1. down \in Seq(Packet) /\ Len(down) <= WireCap /\ WireCap \in Nat
      BY ConnectionAssumption DEF TuiInv, Types
    <2>2. Len(Tail(down)) = Len(down) - 1 /\ Len(down) \in Nat
      BY <2>1, HeadTail
    <2>3. Packets(down)' = Packets(Tail(down))
      BY DEF Packets
    <2> QED
      BY <2>1, <2>2, <2>3, HeadTail
  <1>2. p \in DownPackets /\ DownPackets' \subseteq DownPackets
    BY <1>1, Zenon DEF DownPackets, slotVars
  <1>3. g.state = r_state /\ g.kind = p.kind /\ g.ops = p.ops /\ r_received' = <<g>>
    OBVIOUS
  <1>4. p.seq = r_next_rx /\ r_first <= p.ack /\ p.ack - r_first <= Len(r_buffer) /\ r_first' = p.ack
    BY DEF AckFits
  <1>5. p.seq \in Nat /\ p.ack \in Int /\ -1 <= p.ack /\ p.ops \subseteq Threads
    BY <1>1, FieldTypes
  <1>6. /\ r_buffer' \in Seq(Packet) /\ Packets(r_buffer)' \subseteq Packets(r_buffer)
        /\ r_first' + Len(r_buffer') + 1 = r_next_tx
        /\ \A k \in DOMAIN r_buffer' : r_buffer'[k].seq = r_first' + k
        /\ \A c \in Packets(r_buffer) : c \in Packets(r_buffer)' \/ c.seq <= p.ack
    <2>1. Packets(r_buffer)' = Packets(r_buffer')
      BY DEF Packets
    <2> QED
      BY <1>4, <1>5, <2>1, AckDrops
  <1>7. g \in Received
    <2>1. p.kind \in {"Normal", "Close"}
      BY <1>2, Zenon DEF TuiInv, DownOrder
    <2> QED
      BY <1>5, <2>1 DEF Received, TuiInv, Types
  <1> HIDE DEF p, g
  <1>8. r_first \in Int /\ Taken \in Nat /\ r_next_rx \in Nat /\ r_next_tx \in Nat
    BY Numbers DEF TuiInv
  <1>9. /\ SlotOpened /\ SlotOpened' /\ Taken' = Taken /\ p.ack < Taken
    BY <1>2, Zenon DEF TuiInv, DownOrder, SlotOpened, Taken, slotVars
  <1>10. UpPackets' \subseteq UpPackets
    BY <1>6, Zenon DEF UpPackets
  <1>12. Types'
    <2>1. r_received' \in Seq(Received) /\ Len(r_received') <= 1
      BY <1>3, <1>7
    <2>2. r_next_rx' \in Nat /\ r_first' \in Int
      BY <1>4, <1>5, <1>8
    <2> QED
      BY <1>1, <1>6, <2>1, <2>2, Zenon DEF TuiInv, Types, slotVars
  <1>13. ThreadsOK' /\ Dropped'
    BY ThreadsFrame, DroppedFrame, Zenon DEF TuiInv
  <1>14. UpOrder'
    <2>1. -1 <= r_first' /\ r_first' < Taken
      BY <1>4, <1>5, <1>9, Zenon
    <2> QED
      BY <1>6, <1>9, <1>10, <2>1, Zenon DEF TuiInv, UpOrder
  <1>15. DownOrder'
    <2>1. \A q \in DownPackets : q.seq \in Nat
      BY AllPackets, FieldTypes DEF TuiInv
    <2>2. \A q \in DownPackets : r_next_rx' <= q.seq => r_first' <= q.ack
      <3>1. \A q \in DownPackets : r_next_rx' <= q.seq => p.seq < q.seq
        BY <1>4, <1>8, <2>1
      <3> QED
        BY <1>2, <1>4, <3>1, Zenon DEF TuiInv, DownOrder
    <2>3. e_status # "IDLE" => r_next_rx' <= e_next_tx
      <3>1. e_status # "IDLE" => p.seq < e_next_tx
        BY <1>2, Zenon DEF TuiInv, DownOrder
      <3> QED
        BY <1>4, <1>8, <3>1, Numbers DEF TuiInv
    <2> QED
      BY <1>2, <1>9, <2>2, <2>3, Zenon DEF TuiInv, DownOrder, slotVars
  <1>16. Closing'
    <2>1. CloseSent' <=> CloseSent
      <3>1. CloseSent' => CloseSent
        BY <1>6, <1>9, Zenon DEF CloseSent, slotVars
      <3>2. ASSUME NEW c \in Packets(r_buffer), c.kind = "Close" PROVE CloseSent'
        <4>1. CASE c.seq <= p.ack
          <5>1. c \in UpPackets /\ c.seq \in Nat
            BY AllPackets, FieldTypes DEF UpPackets, TuiInv
          <5>2. c.seq < Taken
            BY <1>5, <1>8, <1>9, <4>1, <5>1
          <5>3. e_status # "ACTIVE"
            BY <3>2, <5>1, <5>2, Zenon DEF TuiInv, FirstGone
          <5> QED
            BY <1>9, <5>3, Zenon DEF CloseSent, slotVars
        <4>2. CASE c \in Packets(r_buffer)'
          BY <3>2, <4>2, Zenon DEF CloseSent
        <4> QED
          BY <1>6, <4>1, <4>2
      <3>3. SlotOpened /\ e_status # "ACTIVE" => CloseSent'
        BY <1>9, Zenon DEF CloseSent, slotVars
      <3> QED
        BY <3>1, <3>2, <3>3, Zenon DEF CloseSent
    <2>2. r_first # None => r_first' # None
      BY <1>4, <1>5, <1>8 DEF None, TuiInv, UpOrder
    <2>3. r_next_rx' > 0
      BY <1>8
    <2>4. \A t \in Threads : Past(t)' <=> Past(t)
      BY Zenon DEF Past
    <2>5. Head(r_received').state = r_state
      BY <1>3
    <2> QED
      BY <2>1, <2>2, <2>3, <2>4, <2>5, Zenon DEF TuiInv, Closing
  <1>17. Closed'
    <2>1. Head(r_received').kind = p.kind
      BY <1>3
    <2> QED
      BY <1>2, <1>9, <2>1, Zenon DEF TuiInv, Closed, slotVars
  <1>18. FirstGone'
    <2>1. HasClose(r_buffer') => HasClose(r_buffer)
      <3>1. Packets(r_buffer)' = Packets(r_buffer')
        BY DEF Packets
      <3> QED
        BY <1>6, <3>1, HasPackets, Zenon
    <2> QED
      BY <1>9, <1>10, <2>1, Zenon DEF TuiInv, FirstGone, slotVars
  <1>19. Requests'
    <2>1. \A q \in DownPackets : q.seq \in Nat
      BY AllPackets, FieldTypes DEF TuiInv
    <2>2. \A q \in DownPackets : r_next_rx' <= q.seq => r_next_rx <= q.seq /\ q # p
      BY <1>4, <1>8, <2>1
    <2>3. r_next_rx <= p.seq
      BY <1>4, <1>8
    <2>4. ASSUME NEW t \in Threads PROVE OnePlace(t)'
      <3>1. OnePlace(t)
        BY Zenon DEF TuiInv, Requests
      <3>2. Head(r_received').ops = p.ops /\ r_received' # <<>> /\ ~InReceived(t)
        BY <1>3 DEF InReceived
      <3>3. /\ InUp(t)' => InUp(t)
            /\ InDown(t)' => \E q \in DownPackets : r_next_rx <= q.seq /\ t \in q.ops /\ q # p
            /\ InDown(t)' => InDown(t)
            /\ InReceived(t)' <=> t \in p.ops
            /\ e_requests' = e_requests
        BY <1>2, <1>9, <1>10, <2>2, <3>2, Zenon DEF InUp, InDown, InReceived, slotVars
      <3>4. /\ \A q, r \in UpPackets' :
                  Taken' <= q.seq /\ Taken' <= r.seq /\ t \in q.ops /\ t \in r.ops => q = r
            /\ \A q, r \in DownPackets' :
                  r_next_rx' <= q.seq /\ r_next_rx' <= r.seq /\ t \in q.ops /\ t \in r.ops => q = r
        BY <1>2, <1>9, <1>10, <2>2, <3>1, Zenon DEF OnePlace
      <3>5. CASE t \in p.ops
        <4>1. InDown(t) /\ ~InDown(t)'
          BY <1>2, <2>3, <3>1, <3>3, <3>5, Zenon DEF InDown, OnePlace
        <4>2. t \notin r_ops /\ ~InUp(t) /\ t \notin e_requests /\ t \notin r_answered /\ t \in r_outstanding
          BY <3>1, <4>1, Zenon DEF OnePlace
        <4> QED
          BY <3>3, <3>4, <4>1, <4>2, Zenon DEF OnePlace
      <3>6. CASE t \notin p.ops
        BY <3>1, <3>3, <3>4, <3>6, Zenon DEF OnePlace
      <3> QED
        BY <3>5, <3>6
    <2> QED
      BY <1>9, <2>4, Zenon DEF Requests
  <1> QED
    BY <1>12, <1>13, <1>14, <1>15, <1>16, <1>17, <1>18, <1>19, Zenon DEF TuiInv

\* process_packets.
LEMMA ProcessPacketInv ==
  ASSUME TuiInv, in_map, ProcessPacket, UNCHANGED tuiVars PROVE TuiInv'
  <1>1. /\ r_received = <<>> /\ down # <<>> /\ down' = Tail(down) /\ UNCHANGED slotVars
        /\ UNCHANGED <<life, r_state, r_next_tx, r_resend_data, r_packet_data, r_ops,
                       r_outstanding, r_answered, up, pc, in_map, quit>>
    BY Zenon DEF ProcessPacket, tuiVars
  <1>2. CASE Head(down).seq = r_next_rx
    BY <1>1, <1>2, AcceptInv, Zenon DEF ProcessPacket
  <1>3. CASE Head(down).seq # r_next_rx
    <2>1. UNCHANGED reqVars
      BY <1>1, <1>3, Zenon DEF ProcessPacket, reqVars
    <2> QED
      BY <1>1, <2>1, LoseInv, Zenon
  <1> QED
    BY <1>2, <1>3

\* The rest of process_packet.
LEMMA StoreReceivedInv ==
  ASSUME TuiInv, StoreReceived, UNCHANGED tuiVars PROVE TuiInv'
  <1> DEFINE g == Head(r_received)
  <1>1. /\ r_received # <<>> /\ r_state' = ReceiveState(g.state, g.kind)
        /\ r_answered' = r_answered \cup g.ops /\ r_received' = <<>> /\ UNCHANGED slotVars
        /\ UNCHANGED <<life, r_next_tx, r_next_rx, r_first, r_buffer, r_resend_data,
                       r_packet_data, r_ops, r_outstanding, up, down, pc, in_map, quit>>
    BY Zenon DEF StoreReceived, tuiVars
  <1>2. in_map
    BY <1>1 DEF TuiInv, Dropped
  <1>3. /\ g \in Received /\ g.state \in ConnectionState /\ g.kind \in {"Normal", "Close"}
        /\ g.ops \subseteq Threads
    <2>1. g \in Received
      BY <1>1, HeadTail DEF TuiInv, Types
    <2> QED
      BY <2>1 DEF Received
  <1>4. /\ r_state' \in ConnectionState
        /\ \/ g.kind = "Close" /\ r_state' \in {"Idle", "ClosedByClient"}
           \/ g.kind = "Normal" /\ g.state = "Opened" /\ r_state' = "Active"
           \/ g.kind = "Normal" /\ r_state' = r_state
    BY <1>1, <1>3 DEF ReceiveState, ConnectionState, TuiInv, Types
  <1> HIDE DEF g
  <1>5. UpPackets' = UpPackets /\ DownPackets' = DownPackets
    BY <1>1, Zenon DEF UpPackets, DownPackets, slotVars
  <1>6. /\ Taken' = Taken /\ SlotOpened' = SlotOpened /\ CloseSent' = CloseSent
        /\ e_status' = e_status /\ e_requests' = e_requests
    BY <1>1, CloseSentSame, Zenon DEF Taken, SlotOpened, slotVars
  <1>7. Types'
    <2>1. r_answered' \subseteq Threads /\ <<>> \in Seq(Received) /\ Len(<<>>) <= 1
      BY <1>1, <1>3 DEF TuiInv, Types
    <2> QED
      BY <1>1, <1>4, <2>1, Zenon DEF TuiInv, Types, slotVars
  <1>8. ThreadsOK' /\ Dropped' /\ UpOrder' /\ DownOrder' /\ FirstGone'
    BY <1>1, <1>2, <1>5, ThreadsFrame, DroppedFrame, UpFrame, DownFrame, FirstFrame, Zenon
       DEF TuiInv, slotVars
  <1>9. g.kind = "Close" => SlotOpened /\ e_status = "IDLE" /\ CloseSent
    <2>1. g.kind = "Close" => SlotOpened /\ e_status = "IDLE"
      BY <1>1, Zenon DEF TuiInv, Closed, g
    <2> QED
      BY <2>1 DEF CloseSent
  <1>10. Closed'
    <2>1. g.kind # "Close" => r_state' = r_state \/ r_state' = "Active"
      BY <1>4
    <2>2. "Active" \notin {"Idle", "ClosedByClient"}
      OBVIOUS
    <2> QED
      BY <1>1, <1>2, <1>5, <1>6, <1>9, <2>1, <2>2, Zenon DEF TuiInv, Closed
  <1>11. Closing'
    <2>1. \A t \in Threads : Past(t)' <=> Past(t)
      BY <1>1, Zenon DEF Past
    <2>2. /\ r_next_rx > 0
          /\ g.state = "Opened" => ~CloseSent
          /\ CloseSent => r_first # None
          /\ CloseSent => \E t \in Threads : Past(t)
      BY <1>1, <1>2, Zenon DEF TuiInv, Closing, g
    <2>3. \A t \in Threads :
              /\ pc[t] \in {"initiate", "store"} => r_first # None
              /\ pc[t] \in {"wait", "flushing"} => ~CloseSent
      BY <1>2, Zenon DEF TuiInv, Closing
    <2>4. CASE g.kind = "Close" /\ r_state' \in {"Idle", "ClosedByClient"}
      <3>1. r_state' \notin {"Enabled", "Opened", "Active"} /\ r_state' # "ClosedByHost"
        BY <2>4
      <3> QED
        BY <1>1, <1>6, <1>9, <2>1, <2>2, <2>3, <2>4, <3>1, Zenon DEF Closing
    <2>5. CASE g.kind = "Normal" /\ g.state = "Opened" /\ r_state' = "Active"
      <3>1. "Active" \notin {"ClosedByHost", "ClosedByClient"} /\ "Active" # "ClosedByHost"
        OBVIOUS
      <3> QED
        BY <1>1, <1>6, <2>1, <2>2, <2>3, <2>5, <3>1, Zenon DEF Closing
    <2>6. CASE g.kind = "Normal" /\ r_state' = r_state
      BY <1>1, <1>2, <1>6, <2>1, <2>6, Zenon DEF TuiInv, Closing
    <2> QED
      BY <1>4, <2>4, <2>5, <2>6
  <1>12. Requests'
    <2>1. ASSUME NEW t \in Threads PROVE OnePlace(t)'
      <3>1. OnePlace(t)
        BY <1>2, Zenon DEF TuiInv, Requests
      <3>2. /\ InUp(t)' <=> InUp(t)
            /\ InDown(t)' <=> InDown(t)
            /\ ~InReceived(t)' /\ (InReceived(t) <=> t \in g.ops)
            /\ t \in r_answered' <=> t \in r_answered \/ t \in g.ops
            /\ UNCHANGED <<r_ops, r_outstanding, r_next_rx>>
        BY <1>1, <1>5, <1>6, Zenon DEF InUp, InDown, InReceived, g
      <3>3. CASE t \in g.ops
        <4>1. /\ t \notin r_ops /\ ~InUp(t) /\ t \notin e_requests /\ ~InDown(t) /\ t \in r_outstanding
          BY <3>1, <3>2, <3>3, Zenon DEF OnePlace
        <4>2. /\ \A q, r \in UpPackets :
                    Taken <= q.seq /\ Taken <= r.seq /\ t \in q.ops /\ t \in r.ops => q = r
              /\ \A q, r \in DownPackets :
                    r_next_rx <= q.seq /\ r_next_rx <= r.seq /\ t \in q.ops /\ t \in r.ops => q = r
          BY <3>1, Zenon DEF OnePlace
        <4> QED
          BY <1>5, <1>6, <3>2, <4>1, <4>2, Zenon DEF OnePlace
      <3>4. CASE t \notin g.ops
        BY <1>5, <1>6, <3>1, <3>2, <3>4, Zenon DEF OnePlace
      <3> QED
        BY <3>3, <3>4
    <2>2. in_map'
      BY <1>1, <1>2
    <2> QED
      BY <1>6, <2>1, <2>2, Zenon DEF TuiInv, Requests
  <1> QED
    BY <1>7, <1>8, <1>10, <1>11, <1>12, Zenon DEF TuiInv

\* Tick::check_send.
LEMMA SendPacketInv ==
  ASSUME TuiInv, in_map, SendPacket, UNCHANGED tuiVars PROVE TuiInv'
  <1>1. /\ r_received = <<>> /\ r_state # "Idle" /\ r_packet_data = <<>> /\ r_next_tx < MaxTx
        /\ r_state' = SendState /\ r_next_tx' = r_next_tx + 1 /\ UNCHANGED slotVars
        /\ UNCHANGED <<life, r_next_rx, r_first, r_resend_data, r_outstanding, r_answered,
                       r_received, up, down, pc, in_map, quit>>
    BY Zenon DEF SendPacket, tuiVars
  <1>2. PICK ops \in SUBSET r_ops :
          /\ r_packet_data' = <<[kind |-> SendKind, seq |-> r_next_tx, ack |-> r_next_rx - 1,
                                 ops |-> ops, life |-> life]>>
          /\ r_buffer' = Append(r_buffer, [kind |-> SendKind, seq |-> r_next_tx,
                                           ack |-> r_next_rx - 1, ops |-> ops, life |-> life])
          /\ r_ops' = r_ops \ ops
    BY Zenon DEF SendPacket
  <1> DEFINE p == [kind |-> SendKind, seq |-> r_next_tx, ack |-> r_next_rx - 1,
                   ops |-> ops, life |-> life]
  <1>3. /\ p \in Packet /\ p.seq = r_next_tx /\ p.ops = ops /\ p.kind = SendKind /\ p.life = life
    <2>1. r_next_rx - 1 \in Nat \cup {-1} /\ life \in 1 .. Lifetimes /\ r_next_tx \in Nat
      BY Numbers DEF TuiInv, Types
    <2>2. ops \in SUBSET Threads /\ SendKind \in {"Open", "Normal", "Close"}
      BY DEF TuiInv, Types, SendKind
    <2> QED
      BY <2>1, <2>2 DEF Packet
  <1>4. r_packet_data' = <<p>> /\ r_buffer' = Append(r_buffer, p)
    BY <1>2
  <1> HIDE DEF p
  <1>5. /\ r_next_tx \in Nat /\ r_first \in Int /\ Taken \in Nat /\ MaxTx \in Nat
        /\ r_buffer \in Seq(Packet) /\ Len(r_buffer) \in Nat
        /\ \A q \in UpPackets : q.seq \in Nat
    <2>1. /\ r_next_tx \in Nat /\ r_first \in Int /\ Taken \in Nat /\ MaxTx \in Nat
          /\ \A q \in UpPackets : q.seq \in Nat
      BY AllPackets, FieldTypes, Numbers DEF TuiInv
    <2>2. r_buffer \in Seq(Packet)
      BY DEF TuiInv, Types
    <2> QED
      BY <2>1, <2>2
  <1>6. /\ r_buffer' \in Seq(Packet) /\ Packets(r_buffer') = Packets(r_buffer) \cup {p}
        /\ r_packet_data' \in Seq(Packet) /\ Len(r_packet_data') <= 1
        /\ Packets(r_packet_data') = {p}
    BY <1>3, <1>4, <1>5, PacketsAppend, PacketsOne
  <1>7. /\ UpPackets' = UpPackets \cup {p} /\ DownPackets' = DownPackets
    <2>1. /\ Packets(r_buffer)' = Packets(r_buffer) \cup {p} /\ Packets(r_packet_data)' = {p}
      BY <1>6 DEF Packets
    <2> QED
      BY <1>1, <2>1, PacketsEmpty, Zenon DEF UpPackets, DownPackets, slotVars
  <1>8. /\ Taken' = Taken /\ SlotOpened' = SlotOpened /\ e_status' = e_status
        /\ e_requests' = e_requests
    BY <1>1, Zenon DEF Taken, SlotOpened, slotVars
  <1>9. /\ \A q \in UpPackets : q.seq < r_next_tx /\ q.seq # p.seq
        /\ Taken <= r_next_tx /\ r_first < Taken /\ -1 <= r_first
        /\ r_first + Len(r_buffer) + 1 = r_next_tx
        /\ \A k \in DOMAIN r_buffer : r_buffer[k].seq = r_first + k
    <2>1. /\ \A q \in UpPackets : q.seq < r_next_tx
          /\ Taken <= r_next_tx /\ r_first < Taken /\ -1 <= r_first
          /\ r_first + Len(r_buffer) + 1 = r_next_tx
          /\ \A k \in DOMAIN r_buffer : r_buffer[k].seq = r_first + k
      BY Zenon DEF TuiInv, UpOrder
    <2>2. \A q \in UpPackets : q.seq # p.seq
      BY <1>3, <1>5, <2>1
    <2> QED
      BY <2>1, <2>2, Zenon
  <1>10. Types'
    <2>1. r_next_tx' \in 0 .. MaxTx
      BY <1>1, <1>5
    <2>2. r_state' \in ConnectionState
      BY <1>1 DEF SendState, ConnectionState, TuiInv, Types
    <2>3. r_ops' \subseteq Threads
      BY <1>2, Zenon DEF TuiInv, Types
    <2> QED
      BY <1>1, <1>6, <2>1, <2>2, <2>3, Zenon DEF TuiInv, Types, slotVars
  <1>11. ThreadsOK' /\ Dropped' /\ DownOrder'
    <2>1. UNCHANGED <<life, r_next_rx, r_first, e_life, e_next_rx, e_next_tx, e_status, e_buffer>>
      BY <1>1, Zenon DEF slotVars
    <2> QED
      BY <1>1, <1>7, <2>1, ThreadsFrame, DroppedFrame, DownFrame, Zenon DEF TuiInv
  <1>12. UpOrder'
    <2>1. p.seq < r_next_tx' /\ Taken <= r_next_tx' /\ \A q \in UpPackets : q.seq < r_next_tx'
      BY <1>1, <1>3, <1>5, <1>9
    <2>2. r_first + Len(r_buffer') + 1 = r_next_tx'
      <3>1. Len(r_buffer') = Len(r_buffer) + 1
        BY <1>3, <1>4, <1>5
      <3> QED
        BY <1>1, <1>5, <1>9, <3>1
    <2>3. \A k \in DOMAIN r_buffer' : r_buffer'[k].seq = r_first + k
      <3>1. /\ \A k \in DOMAIN r_buffer' : k \in DOMAIN r_buffer \/ k = Len(r_buffer) + 1
            /\ \A k \in DOMAIN r_buffer : r_buffer'[k] = r_buffer[k]
            /\ r_buffer'[Len(r_buffer) + 1] = p
        BY <1>3, <1>4, <1>5
      <3>2. r_first + (Len(r_buffer) + 1) = p.seq
        BY <1>3, <1>5, <1>9
      <3> QED
        BY <1>9, <3>1, <3>2, Zenon
    <2>4. /\ \A q \in UpPackets' : q.life = life /\ q.seq < MaxTx
          /\ \A q, r \in UpPackets' : q.seq = r.seq => q = r
          /\ \A q \in UpPackets' : q.seq < r_next_tx'
      BY <1>1, <1>3, <1>7, <1>9, <2>1, Zenon DEF TuiInv, UpOrder
    <2> QED
      BY <1>1, <1>8, <1>9, <2>1, <2>2, <2>3, <2>4, Zenon DEF UpOrder
  <1>13. /\ CloseSent' <=> CloseSent \/ SendKind = "Close"
    <2>1. Packets(r_buffer)' = Packets(r_buffer) \cup {p}
      BY <1>6 DEF Packets
    <2> QED
      BY <1>3, <1>8, <2>1, Zenon DEF CloseSent
  <1>14. /\ SendKind = "Close" => r_outstanding = {} /\ r_first # None /\ r_state' \in {"ClosedByHostIndicated", "Idle"}
                                  /\ \E t \in Threads : Past(t)
         /\ r_state' = "Idle" => r_state = "ClosedByClient"
         /\ r_state' = "ClosedByClient" => r_state = "ClosedByClient"
         /\ r_state' = "ClosedByHost" => r_state = "ClosedByHost"
         /\ r_state' \in {"Enabled", "Opened", "Active"} => r_state \in {"Enabled", "Opened", "Active"}
         /\ r_state' = "Active" => r_state = "Active"
    <2>1. /\ SendKind = "Close" => r_outstanding = {} /\ r_state \in {"ClosedByHost", "ClosedByClient"}
                                   /\ r_state' \in {"ClosedByHostIndicated", "Idle"}
          /\ r_state' = "Idle" => r_state = "ClosedByClient"
          /\ r_state' = "ClosedByClient" => r_state = "ClosedByClient"
          /\ r_state' = "ClosedByHost" => r_state = "ClosedByHost"
          /\ r_state' \in {"Enabled", "Opened", "Active"} => r_state \in {"Enabled", "Opened", "Active"}
          /\ r_state' = "Active" => r_state = "Active"
      BY <1>1 DEF SendKind, SendState, MaySayClose
    <2>2. r_state = "ClosedByClient" => CloseSent
      BY Zenon DEF TuiInv, Closed, CloseSent
    <2>3. r_state \in {"ClosedByHost", "ClosedByClient"} => r_first # None /\ \E t \in Threads : Past(t)
      BY <2>2 DEF TuiInv, Closing
    <2> QED
      BY <2>1, <2>3, Zenon
  <1>15. Closing'
    <2>1. \A t \in Threads : Past(t)' <=> Past(t)
      BY <1>1, Zenon DEF Past
    <2>2. SendKind = "Close" => \A t \in Threads : pc[t] \notin {"wait", "flushing"}
      BY <1>14 DEF TuiInv, ThreadsOK, Waits
    <2>3. SendKind = "Close" =>
            r_state' \notin {"Enabled", "Opened", "Active"} /\ r_state' # "ClosedByHost"
      BY <1>14
    <2>4. /\ r_state' \in {"Enabled", "Opened", "Active"} => ~CloseSent'
          /\ r_state' = "Active" => r_next_rx' > 0
          /\ r_state' \in {"ClosedByHost", "ClosedByClient"} \/ CloseSent' => r_first' # None
      BY <1>1, <1>13, <1>14, <2>3 DEF TuiInv, Closing
    <2>5. /\ r_state' = "ClosedByHost" \/ CloseSent' => \E t \in Threads : Past(t)'
          /\ r_state' = "ClosedByHost" /\ CloseSent' => \A t \in Threads : Past(t)'
      BY <1>13, <1>14, <2>1, <2>3, Zenon DEF TuiInv, Closing
    <2>6. \A t \in Threads :
              /\ pc'[t] \in {"initiate", "store"} => r_first' # None
              /\ pc'[t] \in {"wait", "flushing"} => ~CloseSent'
      BY <1>1, <1>13, <2>2, Zenon DEF TuiInv, Closing
    <2> QED
      BY <1>1, <2>4, <2>5, <2>6, Zenon DEF Closing
  <1>16. Closed'
    <2>1. r_state' \in {"Idle", "ClosedByClient"} => SlotOpened /\ e_status = "IDLE"
      BY <1>14, Zenon DEF TuiInv, Closed
    <2> QED
      BY <1>1, <1>7, <1>8, <2>1, Zenon DEF TuiInv, Closed
  <1>17. FirstGone'
    <2>1. CloseSent' => p.seq # 0
      <3>1. CloseSent' => r_first # None
        BY <1>13, <1>14, Zenon DEF TuiInv, Closing
      <3> QED
        BY <1>3, <1>5, <1>9, <3>1 DEF None
    <2>2. UpPackets # {} => p.seq # 0
      BY <1>3, <1>5, <1>9
    <2>3. /\ HasFirst(r_packet_data') => p.seq = 0
          /\ HasClose(r_buffer') => CloseSent'
      <3>1. Packets(r_buffer)' = Packets(r_buffer')
        BY DEF Packets
      <3> QED
        BY <1>6, <3>1, HasPackets, Zenon DEF CloseSent
    <2>4. HasClose(up) \/ HasClose(r_resend_data) => UpPackets # {}
      BY HasPackets, Zenon DEF UpPackets
    <2>5. SlotOpened' /\ e_status' # "ACTIVE" => \A q \in UpPackets' : q.seq # 0
      BY <1>7, <1>8, <2>1, Zenon DEF TuiInv, FirstGone, CloseSent
    <2>6. ~(p.seq < Taken)
      BY <1>3, <1>5, <1>9
    <2>7. \A q \in UpPackets' : q.kind = "Close" /\ q.seq < Taken' => e_status' # "ACTIVE"
      BY <1>7, <1>8, <2>6, Zenon DEF TuiInv, FirstGone
    <2>8. HasClose(up) \/ HasClose(r_resend_data) =>
             ~HasFirst(r_resend_data) /\ ~HasFirst(r_packet_data')
      BY <2>2, <2>3, <2>4, Zenon DEF TuiInv, FirstGone
    <2> QED
      BY <1>1, <2>1, <2>3, <2>5, <2>7, <2>8, Zenon DEF TuiInv, FirstGone
  <1>18. Requests'
    <2>1. Taken <= p.seq
      BY <1>3, <1>9
    <2>2. ASSUME NEW t \in Threads PROVE OnePlace(t)'
      <3>1. OnePlace(t)
        BY Zenon DEF TuiInv, Requests
      <3>2. /\ InUp(t)' => InUp(t) \/ t \in ops
            /\ InDown(t)' <=> InDown(t)
            /\ InReceived(t)' <=> InReceived(t)
            /\ UNCHANGED <<r_answered, r_outstanding, r_next_rx>>
        BY <1>1, <1>3, <1>7, <1>8, Zenon DEF InUp, InDown, InReceived
      <3>3. CASE t \in ops
        <4>1. /\ t \in r_ops /\ t \notin r_ops' /\ ~InUp(t) /\ t \notin e_requests /\ ~InDown(t)
              /\ ~InReceived(t) /\ t \notin r_answered /\ t \in r_outstanding
          BY <1>2, <3>1, <3>3, Zenon DEF OnePlace
        <4>2. \A q \in UpPackets' : Taken <= q.seq /\ t \in q.ops => q = p
          BY <1>7, <4>1, Zenon DEF InUp
        <4>3. \A q, r \in DownPackets :
                 r_next_rx <= q.seq /\ r_next_rx <= r.seq /\ t \in q.ops /\ t \in r.ops => q = r
          BY <3>1, Zenon DEF OnePlace
        <4> QED
          BY <1>7, <1>8, <3>2, <4>1, <4>2, <4>3, Zenon DEF OnePlace
      <3>4. CASE t \notin ops
        <4>1. (t \in r_ops' <=> t \in r_ops) /\ t \notin p.ops
          BY <1>2, <1>3, <3>4
        <4> QED
          BY <1>7, <1>8, <3>1, <3>2, <3>4, <4>1, Zenon DEF OnePlace
      <3> QED
        BY <3>3, <3>4
    <2>3. in_map'
      BY <1>1
    <2> QED
      BY <1>8, <2>2, <2>3, Zenon DEF TuiInv, Requests
  <1> QED
    BY <1>10, <1>11, <1>12, <1>15, <1>16, <1>17, <1>18, Zenon DEF TuiInv

-----------------------------------------------------------------------------
(* All steps *)

\* Every step of the threads, the slot and the wires keeps the invariant.
LEMMA NextInv == ASSUME TuiInv, Patient, [Next]_vars PROVE TuiInv'
  <1>1. CASE ConnectionThread
    BY <1>1, SendPacketInv, ResendInv, GetPacketInv, ProcessPacketInv, Zenon DEF ConnectionThread
  <1>2. CASE FinishReceive
    BY <1>2, StoreReceivedInv, Zenon DEF FinishReceive
  <1>3. CASE DropStale
    BY <1>3, LoseInv, Zenon DEF DropStale
  <1>4. CASE Endpoint
    BY <1>4, SlotReceiveInv, SlotSendInv, NoRequestsInv, SlotResendInv, Zenon
       DEF Endpoint, SlotNext
  <1>5. CASE Loss
    BY <1>5, LoseInv, Zenon DEF Loss
  <1>6. CASE Operator
    BY <1>6, OperatorInv, Zenon
  <1>7. CASE Connect
    BY <1>7, ConnectInv, Zenon
  <1>8. CASE Operate \/ Disconnect
    BY <1>8, CommandInv, Zenon
  <1>9. CASE Quit
    BY <1>9, QuitInv, Zenon
  <1>10. CASE \E t \in Threads : Step(t)
    <2>1. PICK t \in Threads : Step(t)
      BY <1>10
    <2>2. CASE Flush(t) \/ NoFlush(t) \/ CloseStep(t) \/ CloseTimeout(t)
      BY <2>2, DisconnectInv, Zenon
    <2>3. CASE Begin(t)
      BY <2>3, BeginInv, Zenon
    <2>4. CASE Finish(t)
      BY <2>4, FinishInv, Zenon
    <2>5. CASE CloseStore(t)
      BY <2>5, CloseStoreInv, Zenon
    <2>6. CASE Retain \/ Remove
      BY <2>6, RemoveInv, Zenon
    <2>7. CASE OperationStop \/ MainDisconnect \/ MainDisconnected \/ MainStop
      BY <2>7, EndInv, Zenon
    <2> QED
      BY <2>1, <2>2, <2>3, <2>4, <2>5, <2>6, <2>7, Zenon DEF Step
  <1>11. CASE UNCHANGED vars
    <2>1. UNCHANGED <<conVars, pc, in_map, quit>>
      BY <1>11, Zenon DEF vars, tuiVars
    <2>2. ThreadsOK' /\ Closing' /\ quit' \in BOOLEAN
      BY <2>1, ThreadsFrame, ClosingFrame, Zenon DEF TuiInv, Types, conVars, reqVars, slotVars
    <2> QED
      BY <2>1, <2>2, PlacesFrame, Zenon
  <1> QED
    BY <1>1, <1>2, <1>3, <1>4, <1>5, <1>6, <1>7, <1>8, <1>9, <1>10, <1>11, Zenon DEF Next

\* TuiInv is an invariant of the program when its user is Patient.
LEMMA TuiInvariant == ASSUME Patient PROVE Spec => []TuiInv
  <1>1. TuiInv /\ [Next]_vars => TuiInv'
    BY NextInv
  <1> QED
    BY InvInit, <1>1, PTL DEF Spec

-----------------------------------------------------------------------------
(* What the invariant implies *)

\* The types, and that only an outstanding thread has a request or a response.
LEMMA InvTypes == ASSUME TuiInv PROVE TypeOK
  <1>1. r_first \in -1 .. MaxTx - 1
    <2>1. CASE in_map
      <3>1. -1 <= r_first /\ r_first < Taken /\ Taken <= r_next_tx
        BY <2>1, Zenon DEF TuiInv, UpOrder
      <3>2. r_next_tx <= MaxTx
        BY ConnectionAssumption DEF TuiInv, Types
      <3> QED
        BY <3>1, <3>2, Numbers DEF TuiInv
    <2>2. CASE ~in_map
      BY <2>2, ConnectionAssumption DEF TuiInv, Dropped, None
    <2> QED
      BY <2>1, <2>2
  <1>2. r_ops \subseteq r_outstanding /\ r_answered \subseteq r_outstanding
    <2>1. CASE in_map
      BY <2>1, Zenon DEF TuiInv, Types, Requests, OnePlace
    <2>2. CASE ~in_map
      BY <2>2, Zenon DEF TuiInv, Dropped
    <2> QED
      BY <2>1, <2>2
  <1>3. life \in 0 .. Lifetimes /\ e_life \in 0 .. Lifetimes
    <2>1. life <= Lifetimes
      BY Zenon DEF TuiInv, Types
    <2> QED
      BY <2>1, Numbers DEF TuiInv
  <1> QED
    BY <1>1, <1>2, <1>3, Zenon DEF TuiInv, Types, TypeOK

\* What the slot acknowledges is in the resend buffer or was acknowledged before.
LEMMA InvExpect == ASSUME TuiInv PROVE ExpectHolds
  <1> SUFFICES ASSUME NEW i \in 1 .. Len(down), in_map, down[i].seq = r_next_rx
               PROVE  AckFits(down[i])
    BY Zenon DEF ExpectHolds
  <1>1. down[i] \in DownPackets
    BY DEF DownPackets, Packets, TuiInv, Types
  <1>2. down[i].seq \in Nat /\ down[i].ack \in Int /\ Len(r_buffer) \in Nat
    BY <1>1, AllPackets, FieldTypes DEF TuiInv, Types
  <1>3. r_next_rx <= down[i].seq
    BY <1>2
  <1>4. r_first <= down[i].ack /\ down[i].ack < Taken
    BY <1>1, <1>3, Zenon DEF TuiInv, DownOrder
  <1>5. Taken <= r_next_tx /\ r_first + Len(r_buffer) + 1 = r_next_tx
    BY Zenon DEF TuiInv, UpOrder
  <1>6. Taken \in Nat /\ r_next_tx \in Nat /\ r_first \in Int
    BY Numbers DEF TuiInv
  <1>7. ASSUME NEW a \in Int, NEW n \in Nat, a < Taken, r_first + n + 1 = r_next_tx
        PROVE  a - r_first <= n
    BY <1>5, <1>6, <1>7
  <1> QED
    BY <1>2, <1>4, <1>5, <1>7, Zenon DEF AckFits

\* The states of the object and of the slot go together before the quit.
LEMMA InvAgree == ASSUME TuiInv PROVE SlotAgreement
  <1> SUFFICES ASSUME in_map, ~quit
               PROVE  /\ r_state \in {"Active", "ClosedByHost"} => e_status = "ACTIVE" /\ e_life = life
                      /\ r_state = "Idle" => e_status = "IDLE"
    BY Zenon DEF SlotAgreement
  <1>1. "main" \in Threads /\ ~Past("main")
    BY PlaceTypes DEF TuiInv, ThreadsOK, Past
  <1>2. r_state \in {"Active", "ClosedByHost"} => ~CloseSent
    BY <1>1 DEF TuiInv, Closing
  <1>3. r_state \in {"Active", "ClosedByHost"} => SlotOpened
    <2>1. r_state = "Active" => SlotOpened
      BY Zenon DEF TuiInv, Closing, DownOrder
    <2>2. r_state = "ClosedByHost" => r_first # None
      BY DEF TuiInv, Closing
    <2>3. r_first # None => SlotOpened
      <3>1. -1 <= r_first /\ r_first < Taken
        BY Zenon DEF TuiInv, UpOrder
      <3>2. r_first # None => Taken # 0
        BY <3>1, Numbers DEF TuiInv
      <3> QED
        BY <3>2, Zenon DEF Taken
    <2> QED
      BY <2>1, <2>2, <2>3
  <1>4. r_state = "Idle" => e_status = "IDLE"
    BY DEF TuiInv, Closed
  <1> QED
    BY <1>2, <1>3, <1>4, Zenon DEF CloseSent, SlotOpened

\* A free slot holds only requests that were registered too late.
LEMMA InvReleased == ASSUME TuiInv PROVE ReleasedIdle
  <1> SUFFICES ASSUME e_status = "IDLE", NEW t \in e_requests PROVE pc[t] \in {"late", "late_flush"}
    BY Zenon DEF ReleasedIdle
  <1>1. in_map /\ SlotOpened /\ t \in Threads
    BY DEF TuiInv, Requests, Types
  <1>2. CloseSent
    BY <1>1 DEF CloseSent
  <1>3. t \in r_outstanding
    BY <1>1, Zenon DEF TuiInv, Requests, OnePlace
  <1>4. Waits(t) /\ pc[t] \notin {"wait", "flushing"}
    BY <1>1, <1>2, <1>3, Zenon DEF TuiInv, ThreadsOK, Closing
  <1> QED
    BY <1>4 DEF Waits

\* Only an Open takes a free slot, and it is the first of its connection.
LEMMA OpenStep ==
  ASSUME TuiInv, [Next]_vars, e_status = "IDLE", e_status' = "ACTIVE" PROVE e_life' # e_life
  <1>1. CASE SlotReceive /\ UNCHANGED tuiVars
    BY <1>1, SlotReceiveInv, Zenon
  <1>2. e_status' # e_status
    OBVIOUS
  <1>3. CASE ConnectionThread \/ FinishReceive \/ DropStale \/ Loss
    BY <1>2, <1>3, Zenon DEF ConnectionThread, FinishReceive, DropStale, Loss, SendPacket, Resend,
       GetPacket, ProcessPacket, StoreReceived, Lose, slotVars
  <1>4. CASE Endpoint
    <2>1. ~(SlotSend \/ NoRequests \/ SlotClose \/ StartResend \/ DoResend)
      BY <1>2 DEF SlotSend, NoRequests, SlotClose, StartResend, DoResend, FreeSlot
    <2> QED
      BY <1>1, <1>4, <2>1, Zenon DEF Endpoint, SlotNext
  <1>5. CASE Operator
    BY <1>5 DEF Operator, CloseOverPcie, FreeSlot
  <1>6. CASE Connect \/ Operate \/ Disconnect \/ Quit
    BY <1>2, <1>6, Zenon DEF Connect, NewConnection, Operate, Disconnect, Quit, conVars, slotVars
  <1>7. CASE \E t \in Threads : Step(t)
    BY <1>2, <1>7, Zenon DEF Step, Flush, Begin, NoFlush, Finish, CloseStep, CloseStore, CloseTimeout,
       Retain, Remove, OperationStop, MainDisconnect, MainDisconnected, MainStop, DropConnection,
       Perform, Return, StoreClosedByHost, conVars, slotVars
  <1>8. CASE UNCHANGED vars
    BY <1>2, <1>8, Zenon DEF vars, conVars, slotVars
  <1> QED
    BY <1>3, <1>4, <1>5, <1>6, <1>7, <1>8, Zenon DEF Next

-----------------------------------------------------------------------------
(* Theorems *)

\* Types, and that every request or response has its thread counted by
\* num_outstanding.
THEOREM TypeCorrect == ASSUME Patient PROVE Spec => []TypeOK
  BY TuiInvariant, InvTypes, PTL

\* remove_from_resend never runs out of packets ("Resend buffer should not be
\* empty"), across connections too.
THEOREM ResendBufferExpect == ASSUME Patient PROVE Spec => []ExpectHolds
  BY TuiInvariant, InvExpect, PTL

\* The Connection and the endpoint's slot agree on being connected until the
\* user quits.
THEOREM EndsAgree == ASSUME Patient PROVE Spec => []SlotAgreement
  BY TuiInvariant, InvAgree, PTL

\* No request is left in a freed slot whose thread registered it before the
\* connection had said Close.
THEOREM SlotReleasedIdle == ASSUME Patient PROVE Spec => []ReleasedIdle
  BY TuiInvariant, InvReleased, PTL

\* No copy of an Open takes the slot of its own connection again.
THEOREM OpenedOnce == ASSUME Patient PROVE Spec => OpenOnce
  <1>1. TuiInv /\ [Next]_vars => [e_status = "IDLE" /\ e_status' = "ACTIVE" => e_life' # e_life]_vars
    BY OpenStep, Zenon
  <1> QED
    BY TuiInvariant, <1>1, PTL DEF Spec, OpenOnce

=============================================================================
