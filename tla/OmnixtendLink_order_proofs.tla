---------------------- MODULE OmnixtendLink_order_proofs ----------------------
(***************************************************************************)
(* The go-back-N protocol of OmnixtendLink keeps its promise: packets are  *)
(* handed over in order, each once, in both directions; no acknowledgement *)
(* pops an empty resend buffer; what was not accepted can be sent again.   *)
(*                                                                         *)
(* The numbers on the wire are remainders modulo SeqMod.  The invariant    *)
(* below ties every one of them to the count it stands for.                *)
(***************************************************************************)
EXTENDS OmnixtendLink_proofs

\* The number of the last of c packets.
LastSeq(c) == (c + MaxSeq) % SeqMod

\* How far y is ahead of x.
Distance(x, y) == (y - x) % SeqMod

Packets(q) == {q[k] : k \in DOMAIN q}

\* How many of its packets a side may forget: all before the resend buffer.
UpFirst == r_sent - Len(r_resend_buffer)
DownFirst == e_sent - Len(e_resend_buffer)

\* How many packets of the requester, of the endpoint, the number x acknowledges.
UpAcked(x) == UpFirst + Distance(r_first_in_resend, x)
DownAcked(x) == DownFirst + Distance(e_first_element, x)

EGot == Len(e_delivered)
RGot == Len(r_delivered)

\* What the requester acknowledges.  An ACK-only packet carries the number of the
\* packet that comes after it, and process_packets takes it for received.
RClaims == IF r_last_rx = r_next_rx THEN RGot + 1 ELSE RGot

\* Every copy of a packet that is on its way or can still be sent.
UpPackets == Packets(up) \cup Packets(r_resend_data) \cup Packets(r_packet_data)
             \cup Packets(r_resend_buffer)
DownPackets == Packets(down) \cup Packets(e_resending) \cup Packets(e_resend_buffer)

\* How far back the receiver of a direction may see numbers.
DownReach == ResendSlots + ResendSlip

\* A numbered packet is at most d - 1 ahead of the packets that follow it.
Spread(q, d) ==
    \A i, j \in DOMAIN q : i < j /\ q[i].type # "AckOnly" => q[i].idx < q[j].idx + d

\* The resend buffer holds the newest packets, without a gap.
Suffix(buf, sent) ==
    /\ Len(buf) <= sent
    /\ \A k \in DOMAIN buf : buf[k].idx = sent - Len(buf) + k - 1

-----------------------------------------------------------------------------
(* The inductive invariant, a direction at a time *)

UpData ==
    /\ r_next_tx = r_sent % SeqMod /\ e_next_rx = EGot % SeqMod
    /\ r_first_in_resend = LastSeq(UpFirst)
    /\ EGot <= r_sent
    /\ Len(r_resend_buffer) <= Window /\ Suffix(r_resend_buffer, r_sent)
    /\ \A p \in UpPackets :
          /\ p.seq = p.idx % SeqMod /\ p.type # "AckOnly"
          /\ p.idx < r_sent /\ EGot <= p.idx + Window
    /\ \A p \in Packets(r_packet_data) : p.idx = r_sent - 1
    /\ \A p \in Packets(up) \cup Packets(r_resend_data), y \in Packets(r_resend_data) :
          p.idx < y.idx + Window
    /\ Spread(up, Window)

DownData ==
    /\ e_next_tx = e_sent % SeqMod /\ r_next_rx = RGot % SeqMod
    /\ e_first_element = LastSeq(DownFirst)
    /\ RGot <= e_sent
    /\ Len(e_resend_buffer) <= ResendSlots /\ Suffix(e_resend_buffer, e_sent)
    /\ \A p \in DownPackets :
          /\ p.seq = p.idx % SeqMod
          /\ p.idx <= e_sent /\ (p.type # "AckOnly" => p.idx < e_sent)
          /\ RGot <= p.idx + DownReach
          /\ CompatMode => p.type # "AckOnly"
    /\ \A p \in Packets(e_resending) \cup Packets(e_resend_buffer) : p.type # "AckOnly"
    /\ \A p \in Packets(e_resending) : e_sent + e_slip <= p.idx + DownReach
    /\ Spread(down, DownReach)

\* ACK-only packets that share a number: the later one acknowledges as much.
AckOnlyOrder ==
    \A i, j \in DOMAIN down :
        /\ i < j /\ down[i].type = "AckOnly" /\ down[j].type = "AckOnly"
        /\ RGot <= down[i].idx /\ down[i].idx = down[j].idx
        => UpAcked(down[i].ack_seq) <= UpAcked(down[j].ack_seq)

\* What the endpoint acknowledges: at most what it accepted, and no packet the
\* requester can still accept takes an acknowledgement back.
UpAcks ==
    /\ UpFirst <= EGot
    /\ UpAcked(e_last_rx) <= EGot
    /\ \A k \in DOMAIN e_ops : e_ops[k].kind = "Packet" =>
          UpAcked(e_last_rx) <= UpAcked(e_ops[k].seq) /\ UpAcked(e_ops[k].seq) <= EGot
    /\ \A i, j \in DOMAIN e_ops :
          i < j /\ e_ops[i].kind = "Packet" /\ e_ops[j].kind = "Packet"
              => UpAcked(e_ops[i].seq) <= UpAcked(e_ops[j].seq)
    /\ \A p \in DownPackets : RGot <= p.idx => UpAcked(p.ack_seq) <= UpAcked(e_last_rx)
    /\ \A p, q \in DownPackets :
          /\ RGot <= p.idx
          /\ p.idx < q.idx \/ (p.idx = q.idx /\ q.type # "AckOnly")
          => UpAcked(p.ack_seq) <= UpAcked(q.ack_seq)
    /\ AckOnlyOrder

\* What the requester acknowledges.
DownAcks ==
    /\ r_last_rx = LastSeq(RClaims)
    /\ DownFirst <= RClaims
    /\ CompatMode => RClaims = RGot
    /\ DownAcked(e_ackd_seq) <= RClaims
    /\ \A p \in UpPackets : EGot <= p.idx =>
          DownAcked(e_ackd_seq) <= DownAcked(p.ack_seq) /\ DownAcked(p.ack_seq) <= RClaims
    /\ \A p, q \in UpPackets :
          EGot <= p.idx /\ p.idx <= q.idx => DownAcked(p.ack_seq) <= DownAcked(q.ack_seq)
    /\ \A k \in DOMAIN e_ops : e_ops[k].kind # "Ack"
    /\ \A k \in DOMAIN e_ops : e_ops[k].kind = "Packet" =>
          /\ DownAcked(e_ackd_seq) <= DownAcked(e_ops[k].ack_seq)
          /\ DownAcked(e_ops[k].ack_seq) <= RClaims
          /\ \A p \in UpPackets :
                EGot <= p.idx => DownAcked(e_ops[k].ack_seq) <= DownAcked(p.ack_seq)
    /\ \A i, j \in DOMAIN e_ops :
          i < j /\ e_ops[i].kind = "Packet" /\ e_ops[j].kind = "Packet"
              => DownAcked(e_ops[i].ack_seq) <= DownAcked(e_ops[j].ack_seq)

LinkInv == UpData /\ DownData /\ UpAcks /\ DownAcks

-----------------------------------------------------------------------------
(* Sequence numbers as remainders *)

\* Quotient and remainder.
LEMMA Quotient ==
  ASSUME NEW x \in Int
  PROVE  x \div SeqMod \in Int /\ x % SeqMod \in SeqNum
         /\ x = (x \div SeqMod) * SeqMod + (x % SeqMod)
  <1>1. SeqMod \in Nat /\ SeqMod > 0
    BY LinkAssumption
  <1> QED
    BY <1>1 DEF SeqNum

\* A number in range is the remainder of its sum with any multiple of SeqMod.
LEMMA Remainder ==
  ASSUME NEW q \in Int, NEW r \in SeqNum
  PROVE  (q * SeqMod + r) % SeqMod = r
  <1>1. SeqMod \in Nat /\ SeqMod > 0
    BY LinkAssumption
  <1> QED
    BY <1>1 DEF SeqNum

\* Incr counts.
LEMMA IncrCounts ==
  ASSUME NEW x \in Int PROVE Incr(x % SeqMod) = (x + 1) % SeqMod
  <1> DEFINE q == x \div SeqMod
             r == x % SeqMod
  <1>1. SeqMod \in Nat /\ SeqMod > 2
    BY LinkAssumption
  <1>2. q \in Int /\ r \in SeqNum /\ x = q * SeqMod + r
    BY Quotient
  <1> HIDE DEF q, r
  <1>3. CASE r < SeqMod - 1
    <2>1. r + 1 \in SeqNum /\ x + 1 = q * SeqMod + (r + 1)
      BY <1>1, <1>2, <1>3 DEF SeqNum
    <2>2. (x + 1) % SeqMod = r + 1 
      BY <1>2, <2>1, Remainder
    <2>3. Incr(r) = r + 1
      BY <1>1, <2>1 DEF Incr, SeqNum
    <2> QED
      BY <2>2, <2>3 DEF r
  <1>4. CASE r = SeqMod - 1
    <2>1. 0 \in SeqNum /\ x + 1 = (q + 1) * SeqMod + 0 /\ q + 1 \in Int
      BY <1>1, <1>2, <1>4 DEF SeqNum
    <2>2. (x + 1) % SeqMod = 0
      BY <2>1, Remainder
    <2>3. r + 1 = 1 * SeqMod + 0
      BY <1>1, <1>2, <1>4
    <2>4. Incr(r) = 0
      BY <2>1, <2>3, Remainder DEF Incr
    <2> QED
      BY <2>2, <2>4 DEF r
  <1> QED
    BY <1>1, <1>2, <1>3, <1>4 DEF SeqNum

\* Counts less than SeqMod apart with the same number are the same.
LEMMA SameNumber ==
  ASSUME NEW x \in Int, NEW y \in Int, x % SeqMod = y % SeqMod,
         x - y < SeqMod, y - x < SeqMod
  PROVE  x = y
  <1> DEFINE q == x \div SeqMod
             r == y \div SeqMod
             s == x % SeqMod
  <1>1. SeqMod \in Nat /\ SeqMod > 2
    BY LinkAssumption
  <1>2. q \in Int /\ r \in Int /\ s \in SeqNum
    BY Quotient
  <1>3. x = q * SeqMod + s /\ y = r * SeqMod + s
    BY Quotient
  <1> HIDE DEF q, r, s
  <1>4. s \in Int
    BY <1>1, <1>2 DEF SeqNum
  <1>5. x - y = (q - r) * SeqMod
    BY <1>1, <1>2, <1>3, <1>4
  <1>6. q - r < 1 /\ r - q < 1
    BY <1>1, <1>2, <1>5
  <1> QED
    BY <1>1, <1>2, <1>3, <1>6

\* The distance of two numbers is that of their counts.
LEMMA DistanceCounts ==
  ASSUME NEW x \in Int, NEW y \in Int, y - x \in SeqNum
  PROVE  Distance(x % SeqMod, y % SeqMod) = y - x
  <1> DEFINE q == x \div SeqMod
             r == y \div SeqMod
             s == x % SeqMod
             t == y % SeqMod
  <1>1. SeqMod \in Nat /\ SeqMod > 2
    BY LinkAssumption
  <1>2. q \in Int /\ r \in Int /\ s \in SeqNum /\ t \in SeqNum
    BY Quotient
  <1>3. x = q * SeqMod + s /\ y = r * SeqMod + t
    BY Quotient
  <1> HIDE DEF q, r, s, t
  <1>4. s \in Int /\ t \in Int
    BY <1>1, <1>2 DEF SeqNum
  <1>5. t - s = (q - r) * SeqMod + (y - x)
    BY <1>1, <1>2, <1>3, <1>4
  <1>6. (t - s) % SeqMod = y - x
    BY <1>2, <1>5, Remainder
  <1> QED
    BY <1>6 DEF Distance, s, t

\* Distance without the remainder.
LEMMA DistanceValue ==
  ASSUME NEW x \in SeqNum, NEW y \in SeqNum
  PROVE  Distance(x, y) = IF y >= x THEN y - x ELSE y - x + SeqMod
  <1>1. SeqMod \in Nat /\ SeqMod > 2
    BY LinkAssumption
  <1> QED
    BY <1>1 DEF Distance, SeqNum

\* A distance is a number in range.
LEMMA DistanceType ==
  ASSUME NEW x \in SeqNum, NEW y \in SeqNum
  PROVE  Distance(x, y) \in SeqNum /\ Distance(x, y) \in Nat
         /\ (Distance(x, y) = 0 <=> x = y)
  BY LinkAssumption, DistanceValue DEF SeqNum

\* Moving the origin from x to y takes their distance off every number beyond y.
LEMMA DistanceShift ==
  ASSUME NEW x \in SeqNum, NEW y \in SeqNum, NEW z \in SeqNum,
         Distance(x, y) <= Distance(x, z)
  PROVE  Distance(y, z) = Distance(x, z) - Distance(x, y)
  BY LinkAssumption, DistanceValue DEF SeqNum

\* Incr moves by one.
LEMMA DistanceIncr ==
  ASSUME NEW x \in SeqNum PROVE Distance(x, Incr(x)) = 1
  <1>1. SeqMod \in Nat /\ SeqMod > 2 /\ x \in Int
    BY LinkAssumption DEF SeqNum
  <1>2. x % SeqMod = x
    BY <1>1 DEF SeqNum
  <1>3. Incr(x) = (x + 1) % SeqMod
    BY DEF Incr
  <1>4. (x + 1) - x \in SeqNum /\ x + 1 \in Int
    BY <1>1 DEF SeqNum
  <1>5. Distance(x % SeqMod, (x + 1) % SeqMod) = (x + 1) - x
    BY <1>1, <1>4, DistanceCounts
  <1> QED
    BY <1>1, <1>2, <1>3, <1>5

\* LastSeq(c) is the number of the packet with index c - 1.
LEMMA LastSeqIs ==
  ASSUME NEW c \in Nat
  PROVE  LastSeq(c) \in SeqNum /\ LastSeq(c) = (c - 1) % SeqMod
         /\ Incr(LastSeq(c)) = c % SeqMod
  <1> DEFINE q == (c - 1) \div SeqMod
             r == (c - 1) % SeqMod
  <1>1. SeqMod \in Nat /\ SeqMod > 2 /\ c - 1 \in Int
    BY LinkAssumption
  <1>2. q \in Int /\ r \in SeqNum /\ c - 1 = q * SeqMod + r
    BY <1>1, Quotient
  <1> HIDE DEF q, r
  <1>3. r \in Int
    BY <1>1, <1>2 DEF SeqNum
  <1>4. c + MaxSeq = (q + 1) * SeqMod + r
    BY <1>1, <1>2, <1>3 DEF MaxSeq
  <1>5. LastSeq(c) = r
    BY <1>2, <1>4, Remainder DEF LastSeq
  <1>6. Incr(r) = ((c - 1) + 1) % SeqMod
    BY <1>1, IncrCounts DEF r
  <1>7. (c - 1) + 1 = c
    OBVIOUS
  <1> QED
    BY <1>2, <1>5, <1>6, <1>7 DEF r

\* Incr takes the last number of c packets to that of c + 1.
LEMMA LastSeqIncr ==
  ASSUME NEW c \in Nat PROVE LastSeq(c + 1) = Incr(LastSeq(c))
  <1>1. LastSeq(c + 1) = ((c + 1) - 1) % SeqMod /\ (c + 1) - 1 = c
    BY LastSeqIs
  <1> QED
    BY <1>1, LastSeqIs

-----------------------------------------------------------------------------
(* Queues of packets *)

\* The elements of a queue after Append, Tail and SubSeq.
LEMMA PacketsAppend ==
  ASSUME NEW S, NEW q \in Seq(S), NEW x \in S
  PROVE  Packets(Append(q, x)) = Packets(q) \cup {x}
  <1> DEFINE t == Append(q, x)
  <1>1. /\ \A k \in DOMAIN q : k \in DOMAIN t /\ t[k] = q[k]
        /\ Len(q) + 1 \in DOMAIN t /\ t[Len(q) + 1] = x
        /\ \A k \in DOMAIN t : k \in DOMAIN q \/ k = Len(q) + 1
    OBVIOUS
  <1> HIDE DEF t
  <1>2. Packets(t) = Packets(q) \cup {x}
    BY <1>1, Zenon DEF Packets
  <1> QED
    BY <1>2 DEF t

\* A non-empty queue holds its head and what its tail holds.
LEMMA PacketsHeadTail ==
  ASSUME NEW S, NEW q \in Seq(S), q # <<>>
  PROVE  Packets(Tail(q)) \subseteq Packets(q) /\ Head(q) \in Packets(q)
  BY DEF Packets

\* A queue over S holds elements of S.
LEMMA PacketsType ==
  ASSUME NEW S, NEW q \in Seq(S)
  PROVE  Packets(q) \subseteq S
  BY DEF Packets

\* An empty queue holds nothing.
LEMMA PacketsEmpty == Packets(<<>>) = {}
  BY DEF Packets

\* A queue that lost its first m elements.
LEMMA DropFirst ==
  ASSUME NEW S, NEW q \in Seq(S), NEW m \in 0 .. Len(q)
  PROVE  /\ SubSeq(q, m + 1, Len(q)) \in Seq(S)
         /\ Len(SubSeq(q, m + 1, Len(q))) = Len(q) - m
         /\ \A k \in 1 .. Len(q) - m : SubSeq(q, m + 1, Len(q))[k] = q[k + m]
         /\ Packets(SubSeq(q, m + 1, Len(q))) \subseteq Packets(q)
  <1> DEFINE t == SubSeq(q, m + 1, Len(q))
  <1>1. \A k \in m + 1 .. Len(q) : q[k] \in S
    OBVIOUS
  <1>2. /\ t \in Seq(S) /\ Len(t) = Len(q) - m
        /\ \A k \in 1 .. Len(q) - m : t[k] = q[k + m]
    BY <1>1, SubSeqProperties
  <1> HIDE DEF t
  <1>3. Packets(t) \subseteq Packets(q)
    <2>1. \A k \in DOMAIN t : k + m \in DOMAIN q /\ t[k] = q[k + m]
      BY <1>2
    <2> QED
      BY <2>1, Zenon DEF Packets
  <1> QED
    BY <1>2, <1>3 DEF t

\* Spread through Append and Tail.
LEMMA SpreadAppend ==
  ASSUME NEW q \in Seq(Packet), NEW x \in Packet, NEW d \in Nat, Spread(q, d),
         \A p \in Packets(q) : p.type # "AckOnly" => p.idx < x.idx + d
  PROVE  Spread(Append(q, x), d)
  <1> DEFINE t == Append(q, x)
  <1> SUFFICES ASSUME NEW i \in DOMAIN t, NEW j \in DOMAIN t, i < j, t[i].type # "AckOnly"
               PROVE  t[i].idx < t[j].idx + d
    BY DEF Spread
  <1>1. i \in DOMAIN q /\ t[i] = q[i] /\ q[i] \in Packets(q)
    BY DEF Packets
  <1>2. CASE j \in DOMAIN q
    <2>1. t[j] = q[j]
      BY <1>2
    <2> QED
      BY <1>1, <1>2, <2>1 DEF Spread
  <1>3. CASE j \notin DOMAIN q
    <2>1. t[j] = x
      BY <1>3
    <2> QED
      BY <1>1, <2>1
  <1> QED
    BY <1>2, <1>3

\* Taking the head off keeps the distances between the others.
LEMMA SpreadTail ==
  ASSUME NEW q \in Seq(Packet), q # <<>>, NEW d \in Nat, Spread(q, d)
  PROVE  /\ Spread(Tail(q), d)
         /\ \A p \in Packets(Tail(q)) :
               Head(q).type # "AckOnly" => Head(q).idx < p.idx + d
  <1>1. \A k \in DOMAIN Tail(q) : k + 1 \in DOMAIN q /\ Tail(q)[k] = q[k + 1] /\ k \in Nat
    OBVIOUS
  <1>2. Head(q) = q[1] /\ 1 \in DOMAIN q
    OBVIOUS
  <1>3. Spread(Tail(q), d)
    <2> SUFFICES ASSUME NEW i \in DOMAIN Tail(q), NEW j \in DOMAIN Tail(q), i < j,
                        Tail(q)[i].type # "AckOnly"
                 PROVE  Tail(q)[i].idx < Tail(q)[j].idx + d
      BY DEF Spread
    <2> HIDE DEF Spread
    <2>1. i + 1 < j + 1
      BY <1>1
    <2> QED
      BY <1>1, <2>1 DEF Spread
  <1>4. ASSUME NEW p \in Packets(Tail(q)), Head(q).type # "AckOnly"
        PROVE  Head(q).idx < p.idx + d
    <2>1. PICK k \in DOMAIN Tail(q) : p = Tail(q)[k]
      BY DEF Packets
    <2>2. k + 1 \in DOMAIN q /\ p = q[k + 1] /\ 1 < k + 1
      BY <1>1, <2>1
    <2> QED
      BY <1>2, <1>4, <2>2 DEF Spread
  <1> QED
    BY <1>3, <1>4

\* A resend buffer that gets the next packet, and one that loses old ones.
LEMMA SuffixAppend ==
  ASSUME NEW q \in Seq(Packet), NEW n \in Nat, Suffix(q, n), NEW x \in Packet, x.idx = n
  PROVE  Suffix(Append(q, x), n + 1)
  <1> DEFINE t == Append(q, x)
  <1>1. Len(t) = Len(q) + 1 /\ Len(q) \in Nat
    OBVIOUS
  <1>2. ASSUME NEW k \in DOMAIN t PROVE t[k].idx = (n + 1) - Len(t) + k - 1
    <2>1. CASE k \in DOMAIN q
      <3>1. t[k] = q[k] /\ k \in Nat
        BY <2>1
      <3>2. q[k].idx = n - Len(q) + k - 1
        BY <2>1 DEF Suffix
      <3> QED
        BY <1>1, <3>1, <3>2
    <2>2. CASE k \notin DOMAIN q
      <3>1. k = Len(q) + 1 /\ t[k] = x
        BY <2>2
      <3> QED
        BY <1>1, <3>1
    <2> QED
      BY <2>1, <2>2
  <1> QED
    BY <1>1, <1>2 DEF Suffix

\* What is left of a suffix when its first m packets are dropped is one.
LEMMA SuffixDrop ==
  ASSUME NEW q \in Seq(Packet), NEW n \in Nat, Suffix(q, n), NEW m \in 0 .. Len(q),
         NEW t \in Seq(Packet), Len(t) = Len(q) - m,
         \A k \in 1 .. Len(q) - m : t[k] = q[k + m]
  PROVE  Suffix(t, n)
  <1>1. Len(q) \in Nat /\ m \in Nat /\ Len(t) \in Nat
    OBVIOUS
  <1>2. ASSUME NEW k \in DOMAIN t PROVE t[k].idx = n - Len(t) + k - 1
    <2>1. k \in 1 .. Len(q) - m /\ k + m \in DOMAIN q
      BY <1>1
    <2>2. t[k].idx = n - Len(q) + (k + m) - 1
      BY <2>1 DEF Suffix
    <2> QED
      BY <1>1, <2>1, <2>2
  <1> QED
    BY <1>1, <1>2 DEF Suffix

\* The indices of a resend buffer.
LEMMA SuffixBounds ==
  ASSUME NEW q \in Seq(Packet), NEW n \in Nat, Suffix(q, n)
  PROVE  /\ \A p \in Packets(q) : n - Len(q) <= p.idx /\ p.idx < n
         /\ \A i \in n - Len(q) .. n - 1 : i \in Indices(q)
  <1>1. Len(q) \in Nat /\ Len(q) <= n
    BY DEF Suffix
  <1>2. ASSUME NEW p \in Packets(q) PROVE n - Len(q) <= p.idx /\ p.idx < n
    <2>1. PICK k \in DOMAIN q : p = q[k]
      BY DEF Packets
    <2>2. p.idx = n - Len(q) + k - 1
      BY <2>1 DEF Suffix
    <2>3. k \in 1 .. Len(q)
      OBVIOUS
    <2> QED
      BY <1>1, <2>2, <2>3
  <1>3. ASSUME NEW i \in n - Len(q) .. n - 1 PROVE i \in Indices(q)
    <2> DEFINE k == i - (n - Len(q)) + 1
    <2>1. k \in DOMAIN q
      BY <1>1
    <2>2. q[k].idx = n - Len(q) + k - 1
      BY <2>1 DEF Suffix
    <2>3. q[k].idx = i
      BY <1>1, <2>2
    <2> QED
      BY <2>1, <2>3 DEF Indices
  <1> QED
    BY <1>2, <1>3

-----------------------------------------------------------------------------
(* The requester's packets: UpData is kept by every step *)

upDataVars == <<r_next_tx, r_sent, e_next_rx, e_delivered, r_first_in_resend,
                r_resend_buffer, r_resend_data, r_packet_data, up>>

\* A step that touches none of the variables of UpData keeps it.
LEMMA UpDataFrame == ASSUME UpData, UNCHANGED upDataVars PROVE UpData'
  <1>1. EGot' = EGot /\ UpFirst' = UpFirst /\ UpPackets' = UpPackets
    BY Zenon DEF upDataVars, EGot, UpFirst, UpPackets
  <1> QED
    BY <1>1, Zenon DEF upDataVars, UpData

\* The types the arithmetic of this section needs.
LEMMA UpTypes ==
  ASSUME TypeOK
  PROVE  /\ UpPackets \subseteq Packet /\ \A p \in UpPackets : p.idx \in Nat
         /\ EGot \in Nat /\ r_sent \in Nat /\ Len(r_resend_buffer) \in Nat /\ UpFirst \in Int
         /\ Suffix(r_resend_buffer, r_sent) => UpFirst \in Nat
         /\ Window \in Nat /\ Window >= 1 /\ 2 * Window <= SeqMod /\ SeqMod \in Nat /\ SeqMod > 2
  <1>1. UpPackets \subseteq Packet
    BY PacketsType, Zenon DEF TypeOK, RequesterTypeOK, UpPackets
  <1>2. \A p \in Packet : p.idx \in Nat
    BY DEF Packet
  <1>3. EGot \in Nat /\ r_sent \in Nat /\ Len(r_resend_buffer) \in Nat
    BY DEF TypeOK, RequesterTypeOK, EndpointTypeOK, EGot
  <1> QED
    BY <1>1, <1>2, <1>3, LinkAssumption DEF UpFirst, Suffix

\* send_packet.
LEMMA UpDataSend ==
  ASSUME TypeOK, UpData, RSendPacket PROVE UpData'
  <1> DEFINE pkt == [type |-> IF r_sent = 0 /\ ~CompatMode THEN "Open" ELSE "Normal",
                     seq |-> r_next_tx, ack_seq |-> r_last_rx,
                     ack |-> r_last_ack_status, idx |-> r_sent]
  <1>1. pkt \in Packet /\ pkt.idx = r_sent /\ pkt.seq = r_next_tx /\ pkt.type # "AckOnly"
    BY DEF TypeOK, RequesterTypeOK, Packet
  <1> HIDE DEF pkt
  <1>2. /\ r_packet_data' = <<pkt>> /\ r_resend_buffer' = Append(r_resend_buffer, pkt)
        /\ r_next_tx' = Incr(r_next_tx) /\ r_sent' = r_sent + 1
        /\ Len(r_resend_buffer) < Window
        /\ UNCHANGED <<r_first_in_resend, r_resend_data, e_next_rx, e_delivered, up>>
    BY DEF RSendPacket, recvVars, pkt
  <1>3. r_resend_buffer \in Seq(Packet) /\ Len(r_resend_buffer') = Len(r_resend_buffer) + 1
    BY <1>1, <1>2 DEF TypeOK, RequesterTypeOK
  <1>4. UpFirst' = UpFirst /\ EGot' = EGot
    BY <1>2, <1>3, UpTypes DEF UpFirst, EGot
  <1>5. Packets(r_packet_data') = {pkt} /\ Packets(r_resend_buffer') = Packets(r_resend_buffer) \cup {pkt}
    <2>1. Packets(<<pkt>>) = {pkt}
      BY DEF Packets
    <2> QED
      BY <1>1, <1>2, <1>3, <2>1, PacketsAppend
  <1>6. UpPackets' \subseteq UpPackets \cup {pkt}
    BY <1>2, <1>5, Zenon DEF UpPackets
  <1>7. r_next_tx' = r_sent' % SeqMod
    BY <1>2, IncrCounts, UpTypes DEF UpData
  <1>8. Suffix(r_resend_buffer, r_sent)'
    BY <1>1, <1>2, <1>3, SuffixAppend, UpTypes DEF UpData
  <1>9. ASSUME NEW p \in UpPackets'
        PROVE  /\ p.seq = p.idx % SeqMod /\ p.type # "AckOnly"
               /\ p.idx < r_sent' /\ EGot' <= p.idx + Window
    <2>1. CASE p \in UpPackets
      BY <1>2, <1>4, <2>1, UpTypes DEF UpData
    <2>2. CASE p = pkt
      BY <1>1, <1>2, <1>4, <2>2, UpTypes DEF UpData
    <2> QED
      BY <1>6, <1>9, <2>1, <2>2
  <1>10. \A p \in Packets(r_packet_data') : p.idx = r_sent' - 1
    BY <1>1, <1>2, <1>5, UpTypes
  <1>11. EGot' <= r_sent' /\ Len(r_resend_buffer') <= Window
    BY <1>2, <1>3, <1>4, UpTypes DEF UpData
  <1> QED
    BY <1>2, <1>4, <1>7, <1>8, <1>9, <1>10, <1>11, Zenon DEF UpData

\* get_packet.
LEMMA UpDataGet ==
  ASSUME TypeOK, UpData, RGetPacket PROVE UpData'
  <1>1. UNCHANGED <<r_next_tx, r_sent, e_next_rx, e_delivered, r_first_in_resend, r_resend_buffer>>
    BY DEF RGetPacket, recvVars
  <1>2. EGot' = EGot /\ UpFirst' = UpFirst
    BY <1>1, Zenon DEF EGot, UpFirst
  <1>3. PICK x \in UpPackets :
          /\ up' = Append(up, x) /\ x \in Packet
          /\ Packets(r_resend_data') \subseteq Packets(r_resend_data)
          /\ Packets(r_packet_data') \subseteq Packets(r_packet_data)
          /\ \A p \in Packets(up) : p.idx < x.idx + Window
          /\ \A y \in Packets(r_resend_data') : x.idx < y.idx + Window
    <2>1. CASE r_resend_data # <<>>
      <3>1. /\ up' = Append(up, Head(r_resend_data)) /\ r_resend_data' = Tail(r_resend_data)
            /\ r_packet_data' = r_packet_data
        BY <2>1, Zenon DEF RGetPacket
      <3>2. Head(r_resend_data) \in Packets(r_resend_data)
            /\ Packets(r_resend_data') \subseteq Packets(r_resend_data)
        BY <2>1, <3>1, PacketsHeadTail DEF TypeOK, RequesterTypeOK
      <3>3. Head(r_resend_data) \in Packet /\ Head(r_resend_data) \in UpPackets
        BY <3>2, UpTypes, Zenon DEF UpPackets
      <3>4. \A p \in Packets(up) : p.idx < Head(r_resend_data).idx + Window
        BY <3>2, Zenon DEF UpData
      <3>5. \A y \in Packets(r_resend_data') : Head(r_resend_data).idx < y.idx + Window
        BY <3>2, Zenon DEF UpData
      <3> QED
        BY <3>1, <3>2, <3>3, <3>4, <3>5, Zenon
    <2>2. CASE r_resend_data = <<>>
      <3>1. /\ up' = Append(up, Head(r_packet_data)) /\ r_packet_data # <<>>
            /\ r_resend_data' = <<>> /\ r_packet_data' = <<>>
        BY <2>2, Zenon DEF RGetPacket
      <3>2. Head(r_packet_data) \in Packets(r_packet_data)
        BY <3>1, PacketsHeadTail DEF TypeOK, RequesterTypeOK
      <3>3. Head(r_packet_data) \in Packet /\ Head(r_packet_data) \in UpPackets
        BY <3>2, UpTypes, Zenon DEF UpPackets
      <3>4. \A p \in Packets(up) : p.idx < Head(r_packet_data).idx + Window
        <4>1. Head(r_packet_data).idx = r_sent - 1
          BY <3>2, Zenon DEF UpData
        <4>2. \A p \in Packets(up) : p.idx < r_sent /\ p.idx \in Nat
          BY UpTypes, Zenon DEF UpData, UpPackets
        <4> QED
          BY <4>1, <4>2, UpTypes
      <3> QED
        BY <3>1, <3>2, <3>3, <3>4, PacketsEmpty, Zenon
    <2> QED
      BY <2>1, <2>2
  <1>4. Packets(up') = Packets(up) \cup {x}
    BY <1>3, PacketsAppend DEF TypeOK
  <1>5. UpPackets' \subseteq UpPackets
    BY <1>1, <1>3, <1>4, Zenon DEF UpPackets
  <1>6. Spread(up', Window)
    <2>1. Spread(up, Window) /\ up \in Seq(Packet) /\ Window \in Nat
      BY UpTypes, Zenon DEF UpData, TypeOK
    <2> QED
      BY <1>3, <2>1, SpreadAppend, Zenon
  <1>7. \A p \in Packets(up') \cup Packets(r_resend_data'), y \in Packets(r_resend_data') :
          p.idx < y.idx + Window
    BY <1>3, <1>4, Zenon DEF UpData
  <1> QED
    BY <1>1, <1>2, <1>3, <1>5, <1>6, <1>7, Zenon DEF UpData

\* resend.
LEMMA UpDataResend ==
  ASSUME TypeOK, UpData, RResend PROVE UpData'
  <1>1. UNCHANGED <<r_next_tx, r_sent, e_next_rx, e_delivered, r_first_in_resend,
                    r_resend_buffer, r_packet_data, up>>
    BY DEF RResend, recvVars
  <1>2. r_resend_data' = r_resend_buffer
    BY DEF RResend, RResendCopies
  <1>3. EGot' = EGot /\ UpFirst' = UpFirst
    BY <1>1, Zenon DEF EGot, UpFirst
  <1>4. UpPackets' \subseteq UpPackets
    BY <1>1, <1>2, Zenon DEF UpPackets
  <1>5. ASSUME NEW p \in Packets(up') \cup Packets(r_resend_data'),
               NEW y \in Packets(r_resend_data')
        PROVE  p.idx < y.idx + Window
    <2>1. p \in UpPackets /\ y \in Packets(r_resend_buffer) /\ y \in UpPackets
      BY <1>1, <1>2, Zenon DEF UpPackets
    <2>2. r_sent - Len(r_resend_buffer) <= y.idx
      BY <2>1, SuffixBounds, UpTypes DEF UpData, TypeOK, RequesterTypeOK
    <2>3. p.idx < r_sent /\ Len(r_resend_buffer) <= Window
      BY <2>1, Zenon DEF UpData
    <2>4. p.idx \in Nat /\ y.idx \in Nat
      BY <2>1, UpTypes, Zenon
    <2> QED
      BY <2>2, <2>3, <2>4, UpTypes
  <1> QED
    BY <1>1, <1>3, <1>4, <1>5, Zenon DEF UpData

\* A frame towards the endpoint leaves the wire.
LEMMA UpDataLose ==
  ASSUME TypeOK, UpData, LoseUp PROVE UpData'
  <1>1. UNCHANGED <<r_next_tx, r_sent, e_next_rx, e_delivered, r_first_in_resend,
                    r_resend_buffer, r_packet_data, r_resend_data>>
    BY DEF LoseUp, reqVars, recvVars
  <1>2. up' = Tail(up) /\ up # <<>> /\ up \in Seq(Packet) /\ Window \in Nat
    BY UpTypes DEF LoseUp, TypeOK
  <1>3. EGot' = EGot /\ UpFirst' = UpFirst
    BY <1>1, Zenon DEF EGot, UpFirst
  <1>4. Packets(up') \subseteq Packets(up)
    BY <1>2, PacketsHeadTail
  <1>5. UpPackets' \subseteq UpPackets
    BY <1>1, <1>4, Zenon DEF UpPackets
  <1>6. Spread(up', Window)
    BY <1>2, SpreadTail DEF UpData
  <1>7. \A p \in Packets(up') \cup Packets(r_resend_data'), y \in Packets(r_resend_data') :
          p.idx < y.idx + Window
    BY <1>1, <1>4, Zenon DEF UpData
  <1> QED
    BY <1>1, <1>3, <1>5, <1>6, <1>7, Zenon DEF UpData

\* Counting on from c packets to the number x arrives at x.
LEMMA LastSeqDistance ==
  ASSUME NEW c \in Nat, NEW x \in SeqNum
  PROVE  LastSeq(c + Distance(LastSeq(c), x)) = x
  <1> DEFINE q == (c - 1) \div SeqMod
             r == (c - 1) % SeqMod
             d == Distance(r, x)
  <1>1. SeqMod \in Nat /\ SeqMod > 2 /\ c - 1 \in Int
    BY LinkAssumption
  <1>2. q \in Int /\ r \in SeqNum /\ c - 1 = q * SeqMod + r
    BY <1>1, Quotient
  <1>3. LastSeq(c) = r
    BY LastSeqIs
  <1>4. d \in Nat /\ d = IF x >= r THEN x - r ELSE x - r + SeqMod
    BY <1>2, DistanceValue, DistanceType
  <1>5. c + d \in Nat /\ LastSeq(c + d) = (c + d - 1) % SeqMod
    BY <1>4, LastSeqIs
  <1> HIDE DEF q, r, d
  <1>6. r \in Int /\ x \in Int
    BY <1>1, <1>2 DEF SeqNum
  <1>7. CASE x >= r
    <2>1. c + d - 1 = q * SeqMod + x
      BY <1>1, <1>2, <1>4, <1>6, <1>7
    <2> QED
      BY <1>2, <1>3, <1>5, <2>1, Remainder DEF d
  <1>8. CASE x < r
    <2>1. c + d - 1 = (q + 1) * SeqMod + x /\ q + 1 \in Int
      BY <1>1, <1>2, <1>4, <1>6, <1>8
    <2> QED
      BY <1>3, <1>5, <2>1, Remainder DEF d
  <1> QED
    BY <1>6, <1>7, <1>8

\* A packet from the endpoint that process_packets accepts or rejects.
LEMMA UpDataReceive ==
  ASSUME TypeOK, UpData, RReceive PROVE UpData'
  <1> DEFINE p == Head(down)
             m == RAcked(p)
  <1>1. p \in Packet
    BY HeadTail DEF RReceive, TypeOK
  <1>2. UNCHANGED <<r_next_tx, r_sent, e_next_rx, e_delivered, r_resend_data, r_packet_data, up>>
    BY DEF RReceive, recvVars
  <1>3. CASE RReject(p)
    BY <1>2, <1>3, UpDataFrame, Zenon DEF RReject, upDataVars
  <1>4. CASE RAccept(p)
    <2>1. /\ r_first_in_resend' = p.ack_seq /\ m <= Len(r_resend_buffer)
          /\ r_resend_buffer' = SubSeq(r_resend_buffer, m + 1, Len(r_resend_buffer))
      BY <1>4 DEF RAccept
    <2>2. p.ack_seq \in SeqNum /\ r_first_in_resend \in SeqNum
      BY <1>1 DEF Packet, TypeOK, RequesterTypeOK
    <2>3. m = Distance(r_first_in_resend, p.ack_seq)
      BY DEF RAcked, Distance
    <2>4. m \in Nat
      BY <2>2, <2>3, DistanceType
    <2> HIDE DEF p, m
    <2>5. r_resend_buffer \in Seq(Packet) /\ m \in 0 .. Len(r_resend_buffer)
      BY <2>1, <2>4, UpTypes DEF TypeOK, RequesterTypeOK
    <2>6. /\ r_resend_buffer' \in Seq(Packet) /\ Len(r_resend_buffer') = Len(r_resend_buffer) - m
          /\ \A k \in 1 .. Len(r_resend_buffer) - m : r_resend_buffer'[k] = r_resend_buffer[k + m]
          /\ Packets(r_resend_buffer') \subseteq Packets(r_resend_buffer)
      BY <2>1, <2>5, DropFirst
    <2>7. Suffix(r_resend_buffer', r_sent)
      BY <2>5, <2>6, SuffixDrop, UpTypes DEF UpData
    <2>8. UpFirst' = UpFirst + m /\ EGot' = EGot /\ UpFirst \in Nat
      BY <1>2, <2>4, <2>6, UpTypes DEF UpFirst, EGot, UpData
    <2>9. r_first_in_resend' = LastSeq(UpFirst')
      <3>1. r_first_in_resend = LastSeq(UpFirst)
        BY DEF UpData
      <3>2. LastSeq(UpFirst + m) = p.ack_seq
        BY <2>2, <2>3, <2>8, <3>1, LastSeqDistance
      <3> QED
        BY <2>1, <2>8, <3>2
    <2>10. UpPackets' \subseteq UpPackets
      BY <1>2, <2>6, Zenon DEF UpPackets
    <2>11. Len(r_resend_buffer') <= Window
      BY <2>4, <2>6, UpTypes DEF UpData
    <2> QED
      BY <1>2, <2>7, <2>8, <2>9, <2>10, <2>11, Zenon DEF UpData
  <1> QED
    BY <1>3, <1>4 DEF RReceive

\* The packet the endpoint takes for the next one is the next one.
LEMMA UpInSequence ==
  ASSUME TypeOK, UpData, UpFirst <= EGot, NEW p \in UpPackets, p.seq = e_next_rx
  PROVE  p.idx = EGot /\ EGot < r_sent
  <1>1. p.idx % SeqMod = EGot % SeqMod /\ p.idx < r_sent /\ EGot <= p.idx + Window
    BY Zenon DEF UpData
  <1>2. r_sent <= UpFirst + Window
    BY UpTypes DEF UpData, UpFirst
  <1>3. p.idx - EGot < SeqMod /\ EGot - p.idx < SeqMod /\ p.idx \in Int /\ EGot \in Int
    <2>1. p.idx \in Nat
      BY UpTypes
    <2> QED
      BY <1>1, <1>2, <2>1, UpTypes
  <1>4. p.idx = EGot
    BY <1>1, <1>3, SameNumber
  <1> QED
    BY <1>1, <1>4

\* What fetchTLOEHeader does to the receiver's state: accept the next packet, note
\* another one, or drop a packet of an unknown connection.
LEMMA ReceiveCases ==
  ASSUME TypeOK, UpData, UpFirst <= EGot, EReceive
  PROVE  LET p == Head(up) IN
         /\ up # <<>> /\ up' = Tail(up) /\ p \in Packets(up) /\ p \in Packet
         /\ \/ /\ p.idx = EGot /\ EGot < r_sent /\ p.seq = e_next_rx
               /\ EOpFor(p).kind = "Packet" /\ e_ops' = Append(e_ops, EOpFor(p))
               /\ e_next_rx' = Incr(e_next_rx) /\ e_delivered' = Append(e_delivered, p.idx)
            \/ /\ UNCHANGED <<e_next_rx, e_delivered>>
               /\ \/ e_ops' = e_ops
                  \/ /\ e_ops' = Append(e_ops, EOpFor(p))
                     /\ EOpFor(p).kind \in {"NAK", "OutOfSequenceACK"}
  <1> DEFINE p == Head(up)
  <1>1. up # <<>> /\ up' = Tail(up) /\ up \in Seq(Packet)
    BY DEF EReceive, TypeOK
  <1>2. p \in Packets(up) /\ p \in Packet
    BY <1>1, PacketsHeadTail, HeadTail
  <1>3. p \in UpPackets
    BY <1>2, Zenon DEF UpPackets
  <1>4. p.type # "AckOnly"
    BY <1>3, Zenon DEF UpData
  <1>5. CASE ~EAcceptsConnection(p)
    BY <1>1, <1>2, <1>5, Zenon DEF EReceive, recvVars
  <1>6. CASE EAcceptsConnection(p) /\ p.seq = e_next_rx
    <2>1. EOpFor(p).kind = "Packet"
      BY <1>4, <1>6 DEF EOpFor
    <2>2. p.idx = EGot /\ EGot < r_sent
      BY <1>3, <1>6, UpInSequence
    <2> QED
      BY <1>1, <1>2, <1>6, <2>1, <2>2, Zenon DEF EReceive
  <1>7. CASE EAcceptsConnection(p) /\ p.seq # e_next_rx
    <2>1. EOpFor(p).kind \in {"NAK", "OutOfSequenceACK"} /\ EOpFor(p).kind # "Packet"
      BY <1>7 DEF EOpFor
    <2> QED
      BY <1>1, <1>2, <1>7, <2>1, Zenon DEF EReceive
  <1> QED
    BY <1>5, <1>6, <1>7

\* UpData when the endpoint receives a packet.
LEMMA UpDataEndpointReceive ==
  ASSUME TypeOK, UpData, UpFirst <= EGot, EReceive PROVE UpData'
  <1> DEFINE p == Head(up)
  <1>1. /\ up # <<>> /\ up' = Tail(up) /\ p \in Packets(up) /\ p \in Packet /\ up \in Seq(Packet)
        /\ \/ /\ p.idx = EGot /\ EGot < r_sent
              /\ e_next_rx' = Incr(e_next_rx) /\ e_delivered' = Append(e_delivered, p.idx)
           \/ UNCHANGED <<e_next_rx, e_delivered>>
    BY ReceiveCases, Zenon DEF TypeOK
  <1>2. UNCHANGED <<r_next_tx, r_sent, r_first_in_resend,
                    r_resend_buffer, r_packet_data, r_resend_data>>
    BY DEF EReceive, reqVars
  <1>3. UpFirst' = UpFirst
    BY <1>2, Zenon DEF UpFirst
  <1>4. Packets(up') \subseteq Packets(up)
    BY <1>1, PacketsHeadTail
  <1>5. UpPackets' \subseteq UpPackets
    BY <1>2, <1>4, Zenon DEF UpPackets
  <1>6. /\ Spread(up', Window)
        /\ \A x \in Packets(up') : p.type # "AckOnly" => p.idx < x.idx + Window
    BY <1>1, SpreadTail, UpTypes DEF UpData
  <1>7. \A x \in Packets(up') \cup Packets(r_resend_data'), y \in Packets(r_resend_data') :
          x.idx < y.idx + Window
    BY <1>2, <1>4, Zenon DEF UpData
  <1>8. CASE UNCHANGED <<e_next_rx, e_delivered>>
    <2>1. EGot' = EGot
      BY <1>8, Zenon DEF EGot
    <2> QED
      BY <1>2, <1>3, <1>5, <1>6, <1>7, <1>8, <2>1, Zenon DEF UpData
  <1>9. CASE p.idx = EGot /\ EGot < r_sent
              /\ e_next_rx' = Incr(e_next_rx) /\ e_delivered' = Append(e_delivered, p.idx)
    <2>1. EGot' = EGot + 1
      BY <1>9 DEF EGot, TypeOK, EndpointTypeOK
    <2>2. e_next_rx' = EGot' % SeqMod /\ EGot' <= r_sent
      <3>1. e_next_rx = EGot % SeqMod /\ EGot \in Int
        BY UpTypes DEF UpData
      <3>2. Incr(EGot % SeqMod) = (EGot + 1) % SeqMod
        BY <3>1, IncrCounts
      <3> QED
        BY <1>9, <2>1, <3>1, <3>2, UpTypes
    <2>3. p \in UpPackets /\ p.type # "AckOnly"
      BY <1>1, Zenon DEF UpPackets, UpData
    <2>4. ASSUME NEW x \in UpPackets' PROVE EGot' <= x.idx + Window
      <3>1. x.idx \in Nat /\ p.idx \in Nat
        BY <1>1, <1>5, UpTypes DEF UpPackets
      <3>2. CASE x \in Packets(up') \cup Packets(r_resend_data)
        <4>1. p.idx < x.idx + Window
          BY <1>1, <1>6, <2>3, <3>2, Zenon DEF UpData
        <4> QED
          BY <1>9, <2>1, <3>1, <4>1, UpTypes
      <3>3. CASE x \in Packets(r_packet_data)
        <4>1. x.idx = r_sent - 1
          BY <3>3, Zenon DEF UpData
        <4> QED
          BY <1>9, <2>1, <3>1, <4>1, UpTypes
      <3>4. CASE x \in Packets(r_resend_buffer)
        <4>1. r_sent - Len(r_resend_buffer) <= x.idx /\ Len(r_resend_buffer) <= Window
          BY <3>4, SuffixBounds, UpTypes DEF UpData, TypeOK, RequesterTypeOK
        <4> QED
          BY <1>9, <2>1, <3>1, <4>1, UpTypes
      <3> QED
        BY <1>2, <3>2, <3>3, <3>4, Zenon DEF UpPackets
    <2> QED
      BY <1>2, <1>3, <1>5, <1>6, <1>7, <2>2, <2>4, Zenon DEF UpData
  <1> QED
    BY <1>1, <1>8, <1>9, Zenon

\* Every step of the protocol keeps UpData.
LEMMA UpDataStep ==
  ASSUME TypeOK, UpData, UpFirst <= EGot, [Next]_vars PROVE UpData'
  <1>1. CASE UNCHANGED vars
    BY <1>1, UpDataFrame, Zenon DEF vars, reqVars, recvVars, upDataVars
  <1>2. CASE EHandleOp \/ ESendPacket \/ ESendAckOnly \/ EDropPacket \/ EStartResend
             \/ EDoResend \/ EResendTimeout \/ LoseDown
    BY <1>2, UpDataFrame, Zenon
    DEF EHandleOp, ESendPacket, ESendAckOnly, EDropPacket, EStartResend, EDoResend,
        EResendTimeout, LoseDown, reqVars, recvVars, upDataVars
  <1> QED
    BY <1>1, <1>2, UpDataSend, UpDataGet, UpDataResend, UpDataReceive,
       UpDataEndpointReceive, UpDataLose, Zenon DEF Next

-----------------------------------------------------------------------------
(* The endpoint's packets: DownData is kept by every step *)

downDataVars == <<e_next_tx, e_sent, r_next_rx, r_delivered, e_first_element,
                  e_resend_buffer, e_resending, e_slip, down>>

\* A step that touches none of the variables of DownData keeps it.
LEMMA DownDataFrame == ASSUME DownData, UNCHANGED downDataVars PROVE DownData'
  <1>1. RGot' = RGot /\ DownFirst' = DownFirst /\ DownPackets' = DownPackets
    BY Zenon DEF downDataVars, RGot, DownFirst, DownPackets
  <1> QED
    BY <1>1, Zenon DEF downDataVars, DownData

\* The types the arithmetic of this section needs.
LEMMA DownTypes ==
  ASSUME TypeOK
  PROVE  /\ DownPackets \subseteq Packet /\ \A p \in DownPackets : p.idx \in Nat
         /\ RGot \in Nat /\ e_sent \in Nat /\ Len(e_resend_buffer) \in Nat /\ DownFirst \in Int
         /\ Suffix(e_resend_buffer, e_sent) => DownFirst \in Nat
         /\ e_slip \in Nat /\ e_slip <= ResendSlip /\ ResendSlip \in Nat
         /\ ResendSlots \in Nat /\ ResendSlots >= 1 /\ DownReach = ResendSlots + ResendSlip
         /\ DownReach \in Nat /\ 2 * DownReach <= SeqMod /\ SeqMod \in Nat /\ SeqMod > 2
  <1>1. DownPackets \subseteq Packet
    BY PacketsType, Zenon DEF TypeOK, EndpointTypeOK, DownPackets
  <1>2. \A p \in Packet : p.idx \in Nat
    BY DEF Packet
  <1>3. /\ RGot \in Nat /\ e_sent \in Nat /\ Len(e_resend_buffer) \in Nat
        /\ e_slip \in 0 .. ResendSlip
    BY DEF TypeOK, RequesterTypeOK, EndpointTypeOK, RGot
  <1>4. DownFirst \in Int /\ (Suffix(e_resend_buffer, e_sent) => DownFirst \in Nat)
    BY <1>3 DEF DownFirst, Suffix
  <1> QED
    BY <1>1, <1>2, <1>3, <1>4, LinkAssumption DEF DownReach

\* A packet handed to the wire.
LEMMA DownDataHeader ==
  ASSUME TypeOK, NEW t \in {"Normal", "AckOnly"}
  PROVE  /\ EHeader(t) \in Packet /\ EHeader(t).type = t /\ EHeader(t).idx = e_sent
         /\ EHeader(t).seq = e_next_tx /\ EHeader(t).ack_seq = e_last_rx
  <1>1. EHeader(t) \in Packet
    BY HeaderType DEF TypeOK
  <1> QED
    BY <1>1 DEF EHeader

\* The builder's packets.
LEMMA DownDataSend ==
  ASSUME TypeOK, DownData, ESendPacket PROVE DownData'
  <1> DEFINE h == EHeader("Normal")
  <1>1. /\ h \in Packet /\ h.type = "Normal" /\ h.idx = e_sent /\ h.seq = e_next_tx
    BY DownDataHeader
  <1>2. /\ down' = Append(down, h) /\ e_resend_buffer' = Append(e_resend_buffer, h)
        /\ e_next_tx' = Incr(e_next_tx) /\ e_sent' = e_sent + 1
        /\ Len(e_resend_buffer) < ResendSlots
        /\ UNCHANGED <<r_next_rx, r_delivered, e_first_element, e_resending>>
        /\ e_resending # <<>> => e_slip > 0 /\ e_slip' = e_slip - 1
    BY DEF ESendPacket, EChooseNormal, reqVars
  <1> HIDE DEF h
  <1>3. down \in Seq(Packet) /\ e_resend_buffer \in Seq(Packet)
    BY DEF TypeOK, EndpointTypeOK
  <1>4. Len(e_resend_buffer') = Len(e_resend_buffer) + 1
    BY <1>1, <1>2, <1>3
  <1>5. DownFirst' = DownFirst /\ RGot' = RGot
    BY <1>2, <1>4, DownTypes DEF DownFirst, RGot
  <1>6. /\ Packets(down') = Packets(down) \cup {h}
        /\ Packets(e_resend_buffer') = Packets(e_resend_buffer) \cup {h}
    BY <1>1, <1>2, <1>3, PacketsAppend
  <1>7. DownPackets' = DownPackets \cup {h}
    BY <1>2, <1>6, Zenon DEF DownPackets
  <1>8. e_next_tx' = e_sent' % SeqMod
    <2>1. e_next_tx = e_sent % SeqMod /\ e_sent \in Int
      BY DownTypes DEF DownData
    <2>2. Incr(e_sent % SeqMod) = (e_sent + 1) % SeqMod
      BY <2>1, IncrCounts
    <2> QED
      BY <1>2, <2>1, <2>2
  <1>9. Suffix(e_resend_buffer', e_sent')
    BY <1>1, <1>2, <1>3, SuffixAppend, DownTypes DEF DownData
  <1>10. RGot' <= e_sent' /\ Len(e_resend_buffer') <= ResendSlots
    <2>1. RGot <= e_sent
      BY DEF DownData
    <2>2. RGot \in Nat /\ e_sent \in Nat /\ ResendSlots \in Nat /\ Len(e_resend_buffer) \in Nat
      BY DownTypes
    <2>3. /\ Len(e_resend_buffer) < ResendSlots /\ e_sent' = e_sent + 1 /\ RGot' = RGot
          /\ Len(e_resend_buffer') = Len(e_resend_buffer) + 1
      BY <1>2, <1>4, <1>5
    <2> QED
      BY <2>1, <2>2, <2>3
  <1>11. ASSUME NEW p \in DownPackets'
         PROVE  /\ p.seq = p.idx % SeqMod
                /\ p.idx <= e_sent' /\ (p.type # "AckOnly" => p.idx < e_sent')
                /\ RGot' <= p.idx + DownReach
                /\ CompatMode => p.type # "AckOnly"
    <2>1. CASE p \in DownPackets
      <3>1. /\ p.seq = p.idx % SeqMod /\ p.idx <= e_sent /\ RGot <= p.idx + DownReach
            /\ CompatMode => p.type # "AckOnly"
        BY <2>1, Zenon DEF DownData
      <3>2. p.idx \in Nat /\ e_sent \in Nat /\ e_sent' = e_sent + 1
        BY <1>2, <2>1, DownTypes
      <3>3. p.idx <= e_sent' /\ p.idx < e_sent'
        BY <3>1, <3>2
      <3> QED
        BY <1>5, <3>1, <3>3, Zenon
    <2>2. CASE p = h
      <3>1. RGot <= e_sent /\ e_next_tx = e_sent % SeqMod
        BY DEF DownData
      <3>2. e_sent \in Nat /\ RGot \in Nat /\ DownReach \in Nat /\ e_sent' = e_sent + 1
        BY <1>2, DownTypes
      <3>3. e_sent <= e_sent' /\ e_sent < e_sent' /\ RGot <= e_sent + DownReach
        BY <3>1, <3>2
      <3> QED
        BY <1>1, <1>5, <2>2, <3>1, <3>3
    <2> QED
      BY <1>7, <1>11, <2>1, <2>2
  <1>12. \A p \in Packets(e_resending') \cup Packets(e_resend_buffer') : p.type # "AckOnly"
    <2>1. h.type # "AckOnly"
      BY <1>1
    <2> QED
      BY <1>2, <1>6, <2>1, Zenon DEF DownData
  <1>13. ASSUME NEW p \in Packets(e_resending') PROVE e_sent' + e_slip' <= p.idx + DownReach
    <2>1. e_resending # <<>>
      BY <1>2, <1>13, PacketsEmpty, Zenon
    <2>2. e_sent + e_slip <= p.idx + DownReach
      BY <1>2, <1>13, Zenon DEF DownData
    <2>3. p.idx \in Nat
      BY <1>2, <1>13, DownTypes DEF DownPackets
    <2> QED
      BY <1>2, <2>1, <2>2, <2>3, DownTypes
  <1>14. Spread(down', DownReach)
    <2>1. \A p \in Packets(down) : p.type # "AckOnly" => p.idx < h.idx + DownReach
      <3>1. \A p \in Packets(down) : p.idx \in Nat /\ (p.type # "AckOnly" => p.idx < e_sent)
        BY DownTypes, Zenon DEF DownPackets, DownData
      <3> QED
        BY <1>1, <3>1, DownTypes, SMTT(40)
    <2>2. Spread(down, DownReach)
      BY DEF DownData
    <2> QED
      BY <1>1, <1>2, <1>3, <2>1, <2>2, SpreadAppend, DownTypes
  <1> QED
    BY <1>2, <1>5, <1>8, <1>9, <1>10, <1>11, <1>12, <1>13, <1>14, Zenon DEF DownData

\* DownData when the endpoint sends a packet that only acknowledges.
LEMMA DownDataAckOnly ==
  ASSUME TypeOK, DownData, ESendAckOnly PROVE DownData'
  <1> DEFINE h == EHeader("AckOnly")
  <1>1. /\ h \in Packet /\ h.type = "AckOnly" /\ h.idx = e_sent /\ h.seq = e_next_tx
    BY DownDataHeader
  <1>2. /\ down' = Append(down, h) /\ ~CompatMode
        /\ UNCHANGED <<e_next_tx, e_sent, e_resend_buffer, r_next_rx, r_delivered,
                       e_first_element, e_resending>>
        /\ e_resending # <<>> => e_slip > 0 /\ e_slip' = e_slip - 1
    BY DEF ESendAckOnly, EChooseNormal, reqVars
  <1> HIDE DEF h
  <1>3. down \in Seq(Packet)
    BY DEF TypeOK
  <1>4. DownFirst' = DownFirst /\ RGot' = RGot
    BY <1>2, Zenon DEF DownFirst, RGot
  <1>5. Packets(down') = Packets(down) \cup {h}
    BY <1>1, <1>2, <1>3, PacketsAppend
  <1>6. DownPackets' = DownPackets \cup {h}
    BY <1>2, <1>5, Zenon DEF DownPackets
  <1>7. ASSUME NEW p \in DownPackets'
        PROVE  /\ p.seq = p.idx % SeqMod
               /\ p.idx <= e_sent /\ (p.type # "AckOnly" => p.idx < e_sent)
               /\ RGot <= p.idx + DownReach
               /\ CompatMode => p.type # "AckOnly"
    <2>1. CASE p \in DownPackets
      BY <2>1, Zenon DEF DownData
    <2>2. CASE p = h
      <3>1. RGot <= e_sent /\ e_next_tx = e_sent % SeqMod
        BY DEF DownData
      <3>2. e_sent \in Nat /\ RGot \in Nat /\ DownReach \in Nat
        BY DownTypes
      <3>3. e_sent <= e_sent /\ RGot <= e_sent + DownReach
        BY <3>1, <3>2
      <3> QED
        BY <1>1, <1>2, <2>2, <3>1, <3>3, Zenon
    <2> QED
      BY <1>6, <1>7, <2>1, <2>2
  <1>8. ASSUME NEW p \in Packets(e_resending') PROVE e_sent + e_slip' <= p.idx + DownReach
    <2>1. e_resending # <<>>
      BY <1>2, <1>8, PacketsEmpty, Zenon
    <2>2. e_sent + e_slip <= p.idx + DownReach
      BY <1>2, <1>8, Zenon DEF DownData
    <2>3. p.idx \in Nat
      BY <1>2, <1>8, DownTypes DEF DownPackets
    <2>4. e_sent \in Nat /\ e_slip \in Nat /\ DownReach \in Nat
      BY DownTypes
    <2>5. e_slip' = e_slip - 1
      BY <1>2, <2>1, Zenon
    <2> QED
      BY <2>2, <2>3, <2>4, <2>5
  <1>9. Spread(down', DownReach)
    <2>1. \A p \in Packets(down) : p.type # "AckOnly" => p.idx < h.idx + DownReach
      <3>1. \A p \in Packets(down) : p.idx \in Nat /\ (p.type # "AckOnly" => p.idx < e_sent)
        BY DownTypes, Zenon DEF DownPackets, DownData
      <3> QED
        BY <1>1, <3>1, DownTypes
    <2>2. Spread(down, DownReach)
      BY DEF DownData
    <2> QED
      BY <1>1, <1>2, <1>3, <2>1, <2>2, SpreadAppend, DownTypes
  <1> QED
    BY <1>2, <1>4, <1>7, <1>8, <1>9, Zenon DEF DownData

\* drop_packets.
LEMMA DownDataDrop ==
  ASSUME TypeOK, DownData, EDropPacket PROVE DownData'
  <1>1. /\ e_resend_buffer # <<>> /\ e_resend_buffer' = Tail(e_resend_buffer)
        /\ e_first_element' = Incr(e_first_element)
        /\ UNCHANGED <<e_next_tx, e_sent, r_next_rx, r_delivered, e_resending, e_slip, down>>
    BY DEF EDropPacket, reqVars, buildVars
  <1>2. e_resend_buffer \in Seq(Packet)
    BY DEF TypeOK, EndpointTypeOK
  <1>3. /\ Len(e_resend_buffer') = Len(e_resend_buffer) - 1 /\ Len(e_resend_buffer) >= 1
        /\ e_resend_buffer' \in Seq(Packet)
        /\ \A k \in 1 .. Len(e_resend_buffer) - 1 : e_resend_buffer'[k] = e_resend_buffer[k + 1]
    BY <1>1, <1>2
  <1>4. Packets(e_resend_buffer') \subseteq Packets(e_resend_buffer)
    BY <1>1, <1>2, PacketsHeadTail
  <1>5. RGot' = RGot /\ DownFirst' = DownFirst + 1 /\ DownFirst \in Nat
    BY <1>1, <1>3, DownTypes DEF RGot, DownFirst, DownData
  <1>6. DownPackets' \subseteq DownPackets
    BY <1>1, <1>4, Zenon DEF DownPackets
  <1>7. e_first_element' = LastSeq(DownFirst')
    BY <1>1, <1>5, LastSeqIncr DEF DownData
  <1>8. Suffix(e_resend_buffer', e_sent) /\ Len(e_resend_buffer') <= ResendSlots
    <2>1. 1 \in 0 .. Len(e_resend_buffer) /\ Len(e_resend_buffer) \in Nat /\ e_sent \in Nat
      BY <1>3, DownTypes
    <2>2. Suffix(e_resend_buffer, e_sent) /\ Len(e_resend_buffer) <= ResendSlots
      BY DEF DownData
    <2>3. Suffix(e_resend_buffer', e_sent)
      BY <1>2, <1>3, <2>1, <2>2, SuffixDrop
    <2> QED
      BY <1>3, <2>1, <2>2, <2>3, DownTypes
  <1> QED
    BY <1>1, <1>4, <1>5, <1>6, <1>7, <1>8, Zenon DEF DownData

\* start_resend.
LEMMA DownDataStartResend ==
  ASSUME TypeOK, DownData, EStartResend PROVE DownData'
  <1>1. /\ e_resending' = e_resend_buffer /\ e_slip' = ResendSlip
        /\ UNCHANGED <<e_next_tx, e_sent, r_next_rx, r_delivered, e_first_element,
                       e_resend_buffer, down>>
    BY DEF EStartResend, reqVars, buildVars
  <1>2. RGot' = RGot /\ DownFirst' = DownFirst
    BY <1>1, Zenon DEF RGot, DownFirst
  <1>3. DownPackets' \subseteq DownPackets
    BY <1>1, Zenon DEF DownPackets
  <1>4. ASSUME NEW p \in Packets(e_resending') PROVE e_sent + e_slip' <= p.idx + DownReach
    <2>1. e_sent - Len(e_resend_buffer) <= p.idx /\ Len(e_resend_buffer) <= ResendSlots
      BY <1>1, <1>4, SuffixBounds, DownTypes DEF DownData, TypeOK, EndpointTypeOK
    <2>2. p.idx \in Nat
      BY <1>1, <1>4, DownTypes DEF DownPackets
    <2> QED
      BY <1>1, <2>1, <2>2, DownTypes, SMTT(40)
  <1> QED
    BY <1>1, <1>2, <1>3, <1>4, Zenon DEF DownData

\* do_resend.
LEMMA DownDataDoResend ==
  ASSUME TypeOK, DownData, EDoResend PROVE DownData'
  <1> DEFINE x == Head(e_resending)
  <1>1. /\ e_resending # <<>> /\ e_resending' = Tail(e_resending) /\ down' = Append(down, x)
        /\ e_slip' = 0
        /\ UNCHANGED <<e_next_tx, e_sent, r_next_rx, r_delivered, e_first_element,
                       e_resend_buffer>>
    BY DEF EDoResend, reqVars, buildVars
  <1>2. /\ x \in Packet /\ x \in Packets(e_resending)
        /\ Packets(e_resending') \subseteq Packets(e_resending)
    BY <1>1, PacketsHeadTail, HeadTail DEF TypeOK, EndpointTypeOK
  <1> HIDE DEF x
  <1>3. Packets(down') = Packets(down) \cup {x}
    BY <1>1, <1>2, PacketsAppend DEF TypeOK
  <1>4. RGot' = RGot /\ DownFirst' = DownFirst
    BY <1>1, Zenon DEF RGot, DownFirst
  <1>5. DownPackets' \subseteq DownPackets
    BY <1>1, <1>2, <1>3, Zenon DEF DownPackets
  <1>6. ASSUME NEW p \in Packets(e_resending) PROVE e_sent + 0 <= p.idx + DownReach
    <2>1. e_sent + e_slip <= p.idx + DownReach
      BY <1>6, Zenon DEF DownData
    <2>2. p.idx \in Nat
      BY <1>6, DownTypes DEF DownPackets
    <2> QED
      BY <2>1, <2>2, DownTypes, SMTT(40)
  <1>7. Spread(down', DownReach)
    <2>1. \A p \in Packets(down) : p.type # "AckOnly" => p.idx < x.idx + DownReach
      <3>1. \A p \in Packets(down) : p.idx \in Nat /\ (p.type # "AckOnly" => p.idx < e_sent)
        BY DownTypes, Zenon DEF DownPackets, DownData
      <3>2. e_sent <= x.idx + DownReach /\ x.idx \in Nat
        BY <1>2, <1>6, DownTypes DEF DownPackets
      <3> QED
        BY <3>1, <3>2, DownTypes, SMTT(40)
    <2>2. Spread(down, DownReach) /\ down \in Seq(Packet)
      BY DEF DownData, TypeOK
    <2> QED
      BY <1>1, <1>2, <2>1, <2>2, SpreadAppend, DownTypes
  <1> QED
    BY <1>1, <1>2, <1>4, <1>5, <1>6, <1>7, Zenon DEF DownData

\* The packet the requester takes for the next one is the next one, or announces it.
LEMMA DownInSequence ==
  ASSUME TypeOK, DownData, DownFirst <= RGot + 1, NEW p \in DownPackets, p.seq = r_next_rx
  PROVE  p.idx = RGot /\ (p.type # "AckOnly" => RGot < e_sent)
  <1>1. /\ p.idx % SeqMod = RGot % SeqMod /\ p.idx <= e_sent /\ RGot <= p.idx + DownReach
        /\ p.type # "AckOnly" => p.idx < e_sent
    BY Zenon DEF DownData
  <1>2. Len(e_resend_buffer) <= ResendSlots
    BY DEF DownData
  <1>3. e_sent <= DownFirst + ResendSlots
    BY <1>2, DownTypes DEF DownFirst
  <1>4. p.idx \in Nat /\ RGot \in Nat
    BY DownTypes
  <1>5. p.idx - RGot < SeqMod /\ RGot - p.idx < SeqMod
    <2>1. /\ e_sent \in Nat /\ DownFirst \in Int /\ ResendSlots \in Nat /\ ResendSlip \in Nat
          /\ ResendSlots >= 1
          /\ SeqMod \in Nat /\ SeqMod > 2
          /\ DownReach = ResendSlots + ResendSlip /\ 2 * DownReach <= SeqMod
      BY DownTypes
    <2> QED
      BY <1>1, <1>3, <1>4, <2>1
  <1>6. p.idx = RGot
    BY <1>1, <1>4, <1>5, SameNumber
  <1> QED
    BY <1>1, <1>6

\* What process_packets does: accept the next packet, take note of an ACK-only
\* packet, or leave everything the packets depend on alone.
LEMMA RReceiveCases ==
  ASSUME TypeOK, DownData, DownFirst <= RGot + 1, RReceive
  PROVE  LET p == Head(down) IN
         /\ down # <<>> /\ down' = Tail(down) /\ p \in Packets(down) /\ p \in Packet
         /\ \/ /\ RAccept(p) /\ p.seq = r_next_rx /\ p.idx = RGot
               /\ p.type # "AckOnly" /\ RGot < e_sent
               /\ r_next_rx' = Incr(r_next_rx) /\ r_delivered' = Append(r_delivered, p.idx)
            \/ /\ RAccept(p) /\ p.seq = r_next_rx /\ p.idx = RGot
               /\ p.type = "AckOnly"
               /\ UNCHANGED <<r_next_rx, r_delivered>>
            \/ /\ RReject(p) /\ UNCHANGED <<r_next_rx, r_last_rx, r_delivered>>
               /\ UNCHANGED <<r_resend_buffer, r_first_in_resend>>
  <1> DEFINE p == Head(down)
  <1>1. down # <<>> /\ down' = Tail(down) /\ down \in Seq(Packet)
    BY DEF RReceive, TypeOK
  <1>2. p \in Packets(down) /\ p \in Packet
    BY <1>1, PacketsHeadTail, HeadTail
  <1>3. p \in DownPackets
    BY <1>2, Zenon DEF DownPackets
  <1>4. CASE RReject(p)
    BY <1>1, <1>2, <1>4, Zenon DEF RReject
  <1>5. CASE RAccept(p)
    <2>1. p.seq = r_next_rx
      BY <1>5 DEF RAccept, RInSequence
    <2>2. p.idx = RGot /\ (p.type # "AckOnly" => RGot < e_sent)
      BY <1>3, <2>1, DownInSequence
    <2> QED
      BY <1>1, <1>2, <1>5, <2>1, <2>2, Zenon DEF RAccept
  <1> QED
    BY <1>4, <1>5, Zenon DEF RReceive

\* DownData when the requester receives a packet.
LEMMA DownDataReceive ==
  ASSUME TypeOK, DownData, DownFirst <= RGot + 1, RReceive \/ LoseDown PROVE DownData'
  <1> DEFINE p == Head(down)
  <1>1. UNCHANGED <<e_next_tx, e_sent, e_first_element, e_resend_buffer, e_resending, e_slip>>
    BY DEF RReceive, LoseDown, buildVars, resendVars
  <1>2. down # <<>> /\ down' = Tail(down) /\ down \in Seq(Packet)
    BY DEF RReceive, LoseDown, TypeOK
  <1>3. \/ UNCHANGED <<r_next_rx, r_delivered>>
        \/ /\ p.idx = RGot /\ p.type # "AckOnly" /\ RGot < e_sent
           /\ r_next_rx' = Incr(r_next_rx) /\ r_delivered' = Append(r_delivered, p.idx)
    <2>1. CASE RReceive
      BY <2>1, RReceiveCases, Zenon
    <2>2. CASE LoseDown
      BY <2>2, Zenon DEF LoseDown, reqVars
    <2> QED
      BY <2>1, <2>2
  <1>4. DownFirst' = DownFirst
    BY <1>1, Zenon DEF DownFirst
  <1>5. Packets(down') \subseteq Packets(down)
    BY <1>2, PacketsHeadTail
  <1>6. DownPackets' \subseteq DownPackets
    BY <1>1, <1>5, Zenon DEF DownPackets
  <1>7. /\ Spread(down', DownReach)
        /\ \A x \in Packets(down') : p.type # "AckOnly" => p.idx < x.idx + DownReach
    BY <1>2, SpreadTail, DownTypes DEF DownData
  <1>8. CASE UNCHANGED <<r_next_rx, r_delivered>>
    <2>1. RGot' = RGot
      BY <1>8, Zenon DEF RGot
    <2> QED
      BY <1>1, <1>4, <1>6, <1>7, <1>8, <2>1, Zenon DEF DownData
  <1>9. CASE /\ p.idx = RGot /\ p.type # "AckOnly" /\ RGot < e_sent
             /\ r_next_rx' = Incr(r_next_rx) /\ r_delivered' = Append(r_delivered, p.idx)
    <2>1. RGot' = RGot + 1
      BY <1>9 DEF RGot, TypeOK, RequesterTypeOK
    <2>2. r_next_rx' = RGot' % SeqMod /\ RGot' <= e_sent
      <3>1. r_next_rx = RGot % SeqMod /\ RGot \in Int
        BY DownTypes DEF DownData
      <3>2. Incr(RGot % SeqMod) = (RGot + 1) % SeqMod
        BY <3>1, IncrCounts
      <3> QED
        BY <1>9, <2>1, <3>1, <3>2, DownTypes
    <2>3. ASSUME NEW x \in DownPackets' PROVE RGot' <= x.idx + DownReach
      <3>1. x.idx \in Nat /\ RGot \in Nat /\ e_sent \in Nat /\ DownReach \in Nat
        BY <1>6, <2>3, DownTypes
      <3>2. CASE x \in Packets(down')
        BY <1>7, <1>9, <2>1, <3>1, <3>2
      <3>3. CASE x \in Packets(e_resending)
        <4>1. e_sent + e_slip <= x.idx + DownReach
          BY <3>3, Zenon DEF DownData
        <4>2. e_slip \in Nat
          BY DownTypes
        <4> QED
          BY <1>9, <2>1, <3>1, <4>1, <4>2
      <3>4. CASE x \in Packets(e_resend_buffer)
        <4>1. e_sent - Len(e_resend_buffer) <= x.idx /\ Len(e_resend_buffer) <= ResendSlots
          BY <3>4, SuffixBounds, DownTypes DEF DownData, TypeOK, EndpointTypeOK
        <4>2. /\ ResendSlots \in Nat /\ ResendSlip \in Nat /\ Len(e_resend_buffer) \in Nat
              /\ DownReach = ResendSlots + ResendSlip
          BY DownTypes
        <4> QED
          BY <1>9, <2>1, <3>1, <4>1, <4>2
      <3> QED
        BY <1>1, <2>3, <3>2, <3>3, <3>4, Zenon DEF DownPackets
    <2> QED
      BY <1>1, <1>4, <1>6, <1>7, <2>2, <2>3, Zenon DEF DownData
  <1> QED
    BY <1>3, <1>8, <1>9, Zenon

\* Every step of the protocol keeps DownData.
LEMMA DownDataStep ==
  ASSUME TypeOK, DownData, DownFirst <= RGot + 1, [Next]_vars PROVE DownData'
  <1>1. CASE UNCHANGED vars
    BY <1>1, DownDataFrame, Zenon DEF vars, reqVars, buildVars, resendVars, downDataVars
  <1>2. CASE RSendPacket \/ RGetPacket \/ RResend \/ EReceive \/ EHandleOp
             \/ EResendTimeout \/ LoseUp
    BY <1>2, DownDataFrame, Zenon
    DEF RSendPacket, RGetPacket, RResend, EReceive, EHandleOp, EResendTimeout, LoseUp,
        reqVars, recvVars, buildVars, resendVars, downDataVars
  <1> QED
    BY <1>1, <1>2, DownDataSend, DownDataAckOnly, DownDataDrop, DownDataStartResend,
       DownDataDoResend, DownDataReceive, Zenon DEF Next

\* Init establishes the data part of the invariant.
LEMMA DataInit == Init => UpData /\ DownData
  <1> SUFFICES ASSUME Init PROVE UpData /\ DownData
    OBVIOUS
  <1>1. 0 % SeqMod = 0 /\ LastSeq(0) = MaxSeq
    BY LinkAssumption DEF LastSeq, MaxSeq
  <1>2. /\ EGot = 0 /\ RGot = 0 /\ UpFirst = 0 /\ DownFirst = 0
        /\ r_sent = 0 /\ e_sent = 0 /\ Len(r_resend_buffer) = 0 /\ Len(e_resend_buffer) = 0
    <2>1. /\ r_resend_buffer = <<>> /\ e_resend_buffer = <<>> /\ r_sent = 0 /\ e_sent = 0
          /\ r_delivered = <<>> /\ e_delivered = <<>>
      BY Zenon DEF Init
    <2>2. Len(<<>>) = 0 /\ 0 - 0 = 0
      BY EmptySeq
    <2> QED
      BY <2>1, <2>2, Zenon DEF EGot, RGot, UpFirst, DownFirst
  <1>3. UpPackets = {} /\ DownPackets = {} /\ Packets(<<>>) = {}
    BY PacketsEmpty, Zenon DEF Init, UpPackets, DownPackets
  <1>4. Suffix(<<>>, 0) /\ \A d : Spread(<<>>, d)
    BY DEF Suffix, Spread
  <1>5. 0 <= 0 /\ 0 <= Window /\ 0 <= ResendSlots
    BY LinkAssumption
  <1>6. UpData
    BY <1>1, <1>2, <1>3, <1>4, <1>5, Zenon DEF Init, UpData
  <1>7. DownData
    BY <1>1, <1>2, <1>3, <1>4, <1>5, Zenon DEF Init, DownData
  <1> QED
    BY <1>6, <1>7

=============================================================================
