----------------------- MODULE OmnixtendCredits_proofs -----------------------
(***************************************************************************)
(* Proofs about OmnixtendCredits: the credits of a connection are neither  *)
(* lost nor made up, whatever the buffer sizes, message lengths and number *)
(* of threads.  The sums of credits are recursive functions; what they     *)
(* compute is proved first, by induction over sets of numbers.             *)
(***************************************************************************)
EXTENDS OmnixtendCredits, FiniteSetTheorems, NaturalsInduction, WellFoundedInduction, TLAPS

-----------------------------------------------------------------------------
(* Induction *)

\* A non-empty set of natural numbers has a least element.
LEMMA LeastElement ==
  ASSUME NEW T, T \subseteq Nat, T # {}
  PROVE  \E x \in T : \A y \in T : x <= y
  <1> DEFINE R == OpToRel(<, Nat)
  <1>1. IsWellFoundedOn(R, Nat)
    BY NatLessThanWellFounded
  <1> HIDE DEF R
  <1>2. PICK x \in T : \A y \in T : ~ (<<y, x>> \in R)
    BY <1>1, WFMin
  <1>3. \A y \in T : ~ (y < x)
    BY <1>2 DEF OpToRel, R
  <1> QED
    BY <1>3

\* Induction up to a bound, over a set of numbers.
LEMMA UpTo ==
  ASSUME NEW n \in Nat, NEW S, 0 \in S,
         \A i \in 1 .. n : i - 1 \in S => i \in S
  PROVE  \A i \in 0 .. n : i \in S
  <1> SUFFICES ASSUME NEW b \in 0 .. n, b \notin S PROVE FALSE
    OBVIOUS
  <1> DEFINE T == {i \in 0 .. n : i \notin S}
  <1>1. PICK x \in T : \A y \in T : x <= y
    <2>1. T \subseteq Nat /\ T # {}
      OBVIOUS
    <2> HIDE DEF T
    <2> QED
      BY <2>1, LeastElement
  <1>2. x \in 1 .. n /\ x - 1 \notin T
    BY <1>1
  <1> QED
    BY <1>1, <1>2

-----------------------------------------------------------------------------
(* Powers of two *)

\* The function that TwoTo is defined with exists.
LEMMA PowerExists ==
  ASSUME NEW k \in Nat
  PROVE  \E f : f = [i \in 0 .. k |-> IF i = 0 THEN 1 ELSE 2 * f[i - 1]]
  <1> DEFINE P(j, f) == f = [i \in 0 .. j |-> IF i = 0 THEN 1 ELSE 2 * f[i - 1]]
             S == {j \in 0 .. k : \E f : P(j, f)}
  <1>1. 0 \in S
    <2> DEFINE f == [i \in 0 .. 0 |-> 1]
    <2>1. P(0, f) /\ 0 \in 0 .. k
      OBVIOUS
    <2> QED
      BY <2>1, Zenon
  <1>2. ASSUME NEW j \in 1 .. k, j - 1 \in S PROVE j \in S
    <2>1. PICK f : P(j - 1, f)
      BY <1>2
    <2> DEFINE g == [i \in 0 .. j |-> IF i = j THEN 2 * f[j - 1] ELSE f[i]]
    <2>2. P(j, g)
      <3>1. \A i \in 0 .. j - 1 : f[i] = IF i = 0 THEN 1 ELSE 2 * f[i - 1]
        BY <2>1
      <3>2. \A i \in 0 .. j : g[i] = IF i = 0 THEN 1 ELSE 2 * g[i - 1]
        BY <3>1
      <3> QED
        BY <3>2
    <2>3. j \in 0 .. k
      OBVIOUS
    <2> QED
      BY <2>2, <2>3, Zenon
  <1> HIDE DEF S
  <1>3. k \in S
    BY <1>1, <1>2, UpTo
  <1> QED
    BY <1>3 DEF S

\* Two to the power of 0 is 1, and each power is twice the one before.
LEMMA PowerSteps ==
  ASSUME NEW k \in Nat
  PROVE  \E f : /\ TwoTo(k) = f[k] /\ f[0] = 1
                /\ \A i \in 1 .. k : f[i] = 2 * f[i - 1]
  <1> DEFINE P(f) == f = [i \in 0 .. k |-> IF i = 0 THEN 1 ELSE 2 * f[i - 1]]
             f == CHOOSE g : P(g)
  <1>1. P(f)
    <2>1. \E g : P(g)
      BY PowerExists, Zenon
    <2> QED
      BY <2>1, Zenon
  <1>2. TwoTo(k) = f[k]
    BY Zenon DEF TwoTo
  <1> HIDE DEF f
  <1>3. f[0] = 1 /\ \A i \in 1 .. k : f[i] = 2 * f[i - 1]
    BY <1>1
  <1> QED
    BY <1>2, <1>3, Zenon

\* Powers of two are positive numbers above their exponents.
LEMMA PowerBound ==
  ASSUME NEW k \in Nat
  PROVE  TwoTo(k) \in Nat /\ TwoTo(k) > k
  <1>1. PICK f : /\ TwoTo(k) = f[k] /\ f[0] = 1
                 /\ \A i \in 1 .. k : f[i] = 2 * f[i - 1]
    BY PowerSteps, Zenon
  <1> DEFINE S == {i \in 0 .. k : f[i] \in Nat /\ f[i] > i}
  <1>2. 0 \in S
    BY <1>1
  <1>3. ASSUME NEW i \in 1 .. k, i - 1 \in S PROVE i \in S
    BY <1>1, <1>3
  <1> HIDE DEF S
  <1>4. k \in S
    BY <1>2, <1>3, UpTo
  <1> QED
    BY <1>1, <1>4 DEF S

\* The exponent of the largest power of two in a positive number.
LEMMA Log2Works ==
  ASSUME NEW n \in Nat, n > 0
  PROVE  Log2(n) \in Nat /\ TwoTo(Log2(n)) <= n
  <1> DEFINE T == {k \in Nat : n < TwoTo(k + 1)}
  <1>1. PICK k \in T : \A y \in T : k <= y
    <2>1. n \in T
      <3>1. TwoTo(n + 1) \in Nat /\ TwoTo(n + 1) > n + 1
        BY PowerBound
      <3> QED
        BY <3>1
    <2>2. T \subseteq Nat
      OBVIOUS
    <2> HIDE DEF T
    <2> QED
      BY <2>1, <2>2, LeastElement
  <1>2. TwoTo(k) <= n
    <2>1. CASE k = 0
      <3>1. TwoTo(0) = 1
        BY PowerSteps
      <3> QED
        BY <2>1, <3>1
    <2>2. CASE k # 0
      <3>1. k - 1 \in Nat /\ k - 1 \notin T
        BY <1>1, <2>2
      <3>2. ~ (n < TwoTo(k))
        BY <3>1, (k - 1) + 1 = k
      <3> QED
        BY <3>2, <1>1, PowerBound
    <2> QED
      BY <2>1, <2>2
  <1>3. k \in 0 .. n
    BY <1>1, <1>2, PowerBound
  <1>4. \E j \in 0 .. n : n < TwoTo(j + 1) /\ TwoTo(j) <= n
    BY <1>1, <1>2, <1>3
  <1>5. Log2(n) \in 0 .. n /\ TwoTo(Log2(n)) <= n
    BY <1>4, Zenon DEF Log2
  <1> QED
    BY <1>5

-----------------------------------------------------------------------------
(* Sums *)

\* The partial sums that Sum is defined with exist.
LEMMA PartialSumsExist ==
  ASSUME NEW s, NEW n \in Nat
  PROVE  \E f : f = [i \in 0 .. n |-> IF i = 0 THEN 0 ELSE f[i - 1] + s[i]]
  <1> DEFINE P(j, f) == f = [i \in 0 .. j |-> IF i = 0 THEN 0 ELSE f[i - 1] + s[i]]
             S == {j \in 0 .. n : \E f : P(j, f)}
  <1>1. 0 \in S
    <2> DEFINE f == [i \in 0 .. 0 |-> 0]
    <2>1. P(0, f) /\ 0 \in 0 .. n
      OBVIOUS
    <2> QED
      BY <2>1, Zenon
  <1>2. ASSUME NEW j \in 1 .. n, j - 1 \in S PROVE j \in S
    <2>1. PICK f : P(j - 1, f)
      BY <1>2
    <2> DEFINE g == [i \in 0 .. j |-> IF i = j THEN f[j - 1] + s[j] ELSE f[i]]
    <2>2. P(j, g)
      <3>1. \A i \in 0 .. j - 1 : f[i] = IF i = 0 THEN 0 ELSE f[i - 1] + s[i]
        BY <2>1
      <3>2. \A i \in 0 .. j : g[i] = IF i = 0 THEN 0 ELSE g[i - 1] + s[i]
        BY <3>1
      <3> QED
        BY <3>2
    <2>3. j \in 0 .. n
      OBVIOUS
    <2> QED
      BY <2>2, <2>3, Zenon
  <1> HIDE DEF S
  <1>3. n \in S
    BY <1>1, <1>2, UpTo
  <1> QED
    BY <1>3 DEF S

\* The partial sums of a sequence of numbers: they begin with 0, each adds an
\* element, and the last one is the sum.
LEMMA PartialSums ==
  ASSUME NEW s \in Seq(Nat)
  PROVE  \E f : /\ f \in [0 .. Len(s) -> Nat] /\ Sum(s) = f[Len(s)] /\ f[0] = 0
                /\ \A i \in 1 .. Len(s) : f[i] = f[i - 1] + s[i]
  <1> DEFINE n == Len(s)
             P(f) == f = [i \in 0 .. n |-> IF i = 0 THEN 0 ELSE f[i - 1] + s[i]]
             f == CHOOSE g : P(g)
  <1>1. P(f)
    <2>1. n \in Nat
      OBVIOUS
    <2>2. \E g : P(g)
      BY <2>1, PartialSumsExist, Zenon
    <2> QED
      BY <2>2, Zenon
  <1>2. Sum(s) = f[n]
    BY Zenon DEF Sum
  <1> HIDE DEF f
  <1>3. f[0] = 0 /\ \A i \in 1 .. n : f[i] = f[i - 1] + s[i]
    BY <1>1
  <1>4. f \in [0 .. n -> Nat]
    <2> DEFINE S == {i \in 0 .. n : f[i] \in Nat}
    <2>1. 0 \in S
      BY <1>3
    <2>2. ASSUME NEW i \in 1 .. n, i - 1 \in S PROVE i \in S
      BY <1>3, <2>2, SMTT(40)
    <2> HIDE DEF S
    <2>3. \A i \in 0 .. n : i \in S
      <3>1. n \in Nat
        OBVIOUS
      <3> QED
        BY <3>1, <2>1, <2>2, UpTo, Zenon
    <2>4. \A i \in 0 .. n : f[i] \in Nat
      BY <2>3 DEF S
    <2> QED
      BY <1>1, <2>4
  <1> QED
    BY <1>2, <1>3, <1>4, Zenon

\* The sum of no number is 0.
LEMMA SumOfNone ==
  Sum(<<>>) = 0
  <1>1. <<>> \in Seq(Nat) /\ Len(<<>>) = 0
    OBVIOUS
  <1> QED
    BY <1>1, PartialSums

\* Sums of numbers are numbers.
LEMMA SumNat ==
  ASSUME NEW s \in Seq(Nat)
  PROVE  Sum(s) \in Nat
  <1>1. PICK f : f \in [0 .. Len(s) -> Nat] /\ Sum(s) = f[Len(s)]
    BY PartialSums, Zenon
  <1> QED
    BY <1>1

\* The sum of one number is the number.
LEMMA SumOfOne ==
  ASSUME NEW x \in Nat
  PROVE  Sum(<<x>>) = x
  <1> DEFINE s == <<x>>
  <1>1. s \in Seq(Nat) /\ Len(s) = 1 /\ s[1] = x
    OBVIOUS
  <1> HIDE DEF s
  <1>2. PICK f : /\ f \in [0 .. Len(s) -> Nat] /\ Sum(s) = f[Len(s)] /\ f[0] = 0
                 /\ \A i \in 1 .. Len(s) : f[i] = f[i - 1] + s[i]
    BY <1>1, PartialSums, Zenon
  <1>3. Sum(s) = x
    BY <1>1, <1>2
  <1> QED
    BY <1>3 DEF s

\* The sum of two sequences, one after the other, is the sum of their sums.
LEMMA SumOfBoth ==
  ASSUME NEW s \in Seq(Nat), NEW t \in Seq(Nat)
  PROVE  Sum(s \o t) = Sum(s) + Sum(t)
  <1> DEFINE u == s \o t
  <1>0. /\ u \in Seq(Nat) /\ Len(u) = Len(s) + Len(t)
        /\ \A i \in 1 .. Len(s) : u[i] = s[i]
        /\ \A i \in 1 .. Len(t) : u[Len(s) + i] = t[i]
        /\ Len(s) \in Nat /\ Len(t) \in Nat
    OBVIOUS
  <1> HIDE DEF u
  <1>1. PICK f : /\ f \in [0 .. Len(s) -> Nat] /\ Sum(s) = f[Len(s)] /\ f[0] = 0
                 /\ \A i \in 1 .. Len(s) : f[i] = f[i - 1] + s[i]
    BY PartialSums, Zenon
  <1>2. PICK g : /\ g \in [0 .. Len(t) -> Nat] /\ Sum(t) = g[Len(t)] /\ g[0] = 0
                 /\ \A i \in 1 .. Len(t) : g[i] = g[i - 1] + t[i]
    BY PartialSums, Zenon
  <1>3. PICK h : /\ h \in [0 .. Len(u) -> Nat] /\ Sum(u) = h[Len(u)] /\ h[0] = 0
                 /\ \A i \in 1 .. Len(u) : h[i] = h[i - 1] + u[i]
    BY <1>0, PartialSums, Zenon
  <1>4. h[Len(s)] = f[Len(s)]
    <2> DEFINE S == {i \in 0 .. Len(s) : h[i] = f[i]}
    <2>1. 0 \in S
      BY <1>0, <1>1, <1>3
    <2>2. ASSUME NEW i \in 1 .. Len(s), i - 1 \in S PROVE i \in S
      BY <1>0, <1>1, <1>3, <2>2
    <2> HIDE DEF S
    <2>3. \A i \in 0 .. Len(s) : i \in S
      BY <1>0, <2>1, <2>2, UpTo, Zenon
    <2>4. Len(s) \in 0 .. Len(s)
      BY <1>0
    <2> QED
      BY <2>3, <2>4, Zenon DEF S
  <1>5. h[Len(s) + Len(t)] = f[Len(s)] + g[Len(t)]
    <2> DEFINE S == {i \in 0 .. Len(t) : h[Len(s) + i] = f[Len(s)] + g[i]}
    <2>1. 0 \in S
      <3>1. Len(s) + 0 = Len(s) /\ 0 \in 0 .. Len(t)
        BY <1>0
      <3>2. h[Len(s) + 0] = f[Len(s)] + g[0]
        BY <1>1, <1>2, <1>4, <3>1, SumNat
      <3> QED
        BY <3>1, <3>2, Zenon
    <2>2. ASSUME NEW i \in 1 .. Len(t), i - 1 \in S PROVE i \in S
      <3>1. /\ Len(s) + i \in 1 .. Len(u) /\ i - 1 \in 0 .. Len(t)
            /\ (Len(s) + i) - 1 = Len(s) + (i - 1)
        BY <1>0, SMTT(40)
      <3>2. h[Len(s) + i] = h[Len(s) + (i - 1)] + t[i]
        BY <1>0, <1>3, <3>1
      <3>3. h[Len(s) + (i - 1)] = f[Len(s)] + g[i - 1] /\ g[i] = g[i - 1] + t[i]
        BY <2>2, <1>2
      <3>4. f[Len(s)] \in Nat /\ g[i - 1] \in Nat /\ t[i] \in Nat
        <4>1. f[Len(s)] \in Nat
          BY <1>1, SumNat
        <4>2. g[i - 1] \in Nat
          BY <1>2, <3>1
        <4> QED
          BY <4>1, <4>2
      <3>5. h[Len(s) + i] = f[Len(s)] + g[i]
        BY <3>2, <3>3, <3>4
      <3> QED
        BY <3>5
    <2> HIDE DEF S
    <2>3. \A i \in 0 .. Len(t) : i \in S
      BY <1>0, <2>1, <2>2, UpTo, Zenon
    <2>4. Len(t) \in 0 .. Len(t)
      BY <1>0
    <2> QED
      BY <2>3, <2>4, Zenon DEF S
  <1>6. Sum(u) = Sum(s) + Sum(t)
    BY <1>0, <1>1, <1>2, <1>3, <1>5
  <1> QED
    BY <1>6 DEF u

\* One more number at the end.
LEMMA SumOfAppend ==
  ASSUME NEW s \in Seq(Nat), NEW x \in Nat
  PROVE  Sum(Append(s, x)) = Sum(s) + x
  <1>1. Append(s, x) = s \o <<x>> /\ <<x>> \in Seq(Nat)
    OBVIOUS
  <1> QED
    BY <1>1, SumOfBoth, SumOfOne

\* The sum without the first number.
LEMMA SumOfTail ==
  ASSUME NEW s \in Seq(Nat), s # <<>>
  PROVE  Sum(s) = Head(s) + Sum(Tail(s))
  <1>1. /\ s = <<Head(s)>> \o Tail(s) /\ <<Head(s)>> \in Seq(Nat)
        /\ Tail(s) \in Seq(Nat) /\ Head(s) \in Nat
    OBVIOUS
  <1>2. Sum(<<Head(s)>> \o Tail(s)) = Sum(<<Head(s)>>) + Sum(Tail(s))
    BY <1>1, SumOfBoth
  <1> QED
    BY <1>1, <1>2, SumOfOne

\* The sum of the weights of the members of a sequence.
Weigh(w, q) == Sum([k \in 1 .. Len(q) |-> w[q[k]]])

\* The weights of a sequence are a sequence of numbers.
LEMMA Weights ==
  ASSUME NEW X, NEW w \in [X -> Nat], NEW q \in Seq(X)
  PROVE  [k \in 1 .. Len(q) |-> w[q[k]]] \in Seq(Nat)
  OBVIOUS

\* A sequence weighs a number.
LEMMA WeighNat ==
  ASSUME NEW X, NEW w \in [X -> Nat], NEW q \in Seq(X)
  PROVE  Weigh(w, q) \in Nat
  BY Weights, SumNat DEF Weigh

\* An empty sequence weighs nothing.
LEMMA WeighNone ==
  ASSUME NEW w
  PROVE  Weigh(w, <<>>) = 0
  <1>1. [k \in 1 .. Len(<<>>) |-> w[<<>>[k]]] = <<>>
    OBVIOUS
  <1> QED
    BY <1>1, SumOfNone DEF Weigh

\* Two sequences one after the other.
LEMMA WeighBoth ==
  ASSUME NEW X, NEW w \in [X -> Nat], NEW q \in Seq(X), NEW r \in Seq(X)
  PROVE  Weigh(w, q \o r) = Weigh(w, q) + Weigh(w, r)
  <1> DEFINE W(p) == [k \in 1 .. Len(p) |-> w[p[k]]]
  <1>1. W(q \o r) = W(q) \o W(r)
    OBVIOUS
  <1>2. W(q) \in Seq(Nat) /\ W(r) \in Seq(Nat)
    BY Weights
  <1> HIDE DEF W
  <1>3. Sum(W(q \o r)) = Sum(W(q)) + Sum(W(r))
    BY <1>1, <1>2, SumOfBoth
  <1> QED
    BY <1>3 DEF Weigh, W

\* One more at the end.
LEMMA WeighAppend ==
  ASSUME NEW X, NEW w \in [X -> Nat], NEW q \in Seq(X), NEW x \in X
  PROVE  Weigh(w, Append(q, x)) = Weigh(w, q) + w[x]
  <1> DEFINE W(p) == [k \in 1 .. Len(p) |-> w[p[k]]]
  <1>1. W(Append(q, x)) = Append(W(q), w[x])
    OBVIOUS
  <1>2. W(q) \in Seq(Nat) /\ w[x] \in Nat
    BY Weights
  <1> HIDE DEF W
  <1>3. Sum(W(Append(q, x))) = Sum(W(q)) + w[x]
    BY <1>1, <1>2, SumOfAppend
  <1> QED
    BY <1>3 DEF Weigh, W

\* One less at the front.
LEMMA WeighTail ==
  ASSUME NEW X, NEW w \in [X -> Nat], NEW q \in Seq(X), q # <<>>
  PROVE  Weigh(w, q) = w[Head(q)] + Weigh(w, Tail(q))
  <1> DEFINE W(p) == [k \in 1 .. Len(p) |-> w[p[k]]]
  <1>1. W(q) # <<>> /\ W(Tail(q)) = Tail(W(q)) /\ Head(W(q)) = w[Head(q)]
    <2>1. Len(q) \in Nat \ {0}
      OBVIOUS
    <2>2. W(q) # <<>>
      BY <2>1
    <2> QED
      BY <2>1, <2>2, SMTT(40)
  <1>2. W(q) \in Seq(Nat)
    BY Weights
  <1> HIDE DEF W
  <1>3. Sum(W(q)) = w[Head(q)] + Sum(W(Tail(q)))
    BY <1>1, <1>2, SumOfTail
  <1> QED
    BY <1>3 DEF Weigh, W

-----------------------------------------------------------------------------
(* Messages and packets by the side that sends them *)

ChanMsg(c) == {m \in Msg : ChannelOf(m.op) = c}
UpMsg == {m \in Msg : ChannelOf(m.op) \in UpChan}
DownMsg == {m \in Msg : ChannelOf(m.op) \in DownChan}
UpPacket == [msgs : Seq(UpMsg), field : CreditField]
DownField == [chan : UpChan, credit : Nat] \cup {NoCredit}
ReturnedFlits == [chan : UpChan, flits : Nat]
DownPacket == [msgs : Seq(DownMsg), field : DownField]

\* Both sides agree on the size of every message: TLOperations::credits and
\* getFlitsThisMessage for what the requester sends, ...
LEMMA UpSizes ==
  ASSUME NEW m \in UpMsg
  PROVE  /\ TakenFlits(m) \in Nat /\ EndpointFlits(m) = TakenFlits(m)
         /\ ChannelOf(m.op) \in UpChan
  BY DEF UpMsg, Msg, MsgOp, RequestOp, AnswerOp, ResponseOp, UpChan, ChannelOf, TakenFlits,
         EndpointFlits, FlitsThisMessage, DataAndMask, DataOnly, DataAnd8Bytes, Only8Bytes

\* ... the handlers' lengths and handle_chan_b and _d for what the endpoint sends.
LEMMA DownSizes ==
  ASSUME NEW m \in DownMsg
  PROVE  /\ GivenBackFlits(m) \in Nat /\ EndpointFlits(m) = GivenBackFlits(m)
         /\ ChannelOf(m.op) \in DownChan
  BY DEF DownMsg, Msg, MsgOp, RequestOp, AnswerOp, ResponseOp, DownChan, ChannelOf,
         GivenBackFlits, EndpointFlits, FlitsThisMessage, DataAndMask, DataOnly,
         DataAnd8Bytes, Only8Bytes

\* The endpoint gives every message a size.
LEMMA EndpointSizes ==
  ASSUME NEW m \in Msg
  PROVE  EndpointFlits(m) \in Nat
  BY DEF Msg, EndpointFlits, FlitsThisMessage

-----------------------------------------------------------------------------
(* The model's sums as weights *)

TakenW(c) == [m \in UpMsg |-> IF ChannelOf(m.op) = c THEN TakenFlits(m) ELSE 0]
GivenBackW(c) == [m \in DownMsg |-> IF ChannelOf(m.op) = c THEN GivenBackFlits(m) ELSE 0]
EndpointW(c) == [m \in Msg |-> IF ChannelOf(m.op) = c THEN EndpointFlits(m) ELSE 0]
FieldW(c) == [f \in CreditField |-> InField(f, c)]
ReturnedW(c) == [r \in ReturnedFlits |-> IF r.chan = c THEN r.flits ELSE 0]
UpPacketW(c) == [p \in UpPacket |-> FlitsOn(p.msgs, c, TakenFlits)]
DownPacketW(c) == [p \in DownPacket |-> FlitsOn(p.msgs, c, GivenBackFlits)]
PacketFieldW(c) == [p \in UpPacket \cup DownPacket |-> InField(p.field, c)]

\* A field stands for a number of credits.
LEMMA FieldNat ==
  ASSUME NEW f \in CreditField, NEW c \in Channel
  PROVE  InField(f, c) \in Nat
  <1>1. Channel = {"A", "B", "C", "D", "E"}
    BY DEF Channel, ChanSeq
  <1>2. f.chan = c => f.credit \in Nat
    BY <1>1 DEF CreditField, NoCredit
  <1> QED
    BY <1>2, PowerBound DEF InField

\* The channels, and the fields the endpoint sends.
LEMMA Channels ==
  /\ Channel = {"A", "B", "C", "D", "E"} /\ UpChan \subseteq Channel /\ DownChan \subseteq Channel
  /\ DownField \subseteq CreditField /\ UpMsg \subseteq Msg /\ DownMsg \subseteq Msg
  /\ [chan : UpChan, credit : Nat] \subseteq CreditField
  <1>1. Channel = {"A", "B", "C", "D", "E"}
    BY DEF Channel, ChanSeq
  <1>2. [chan : UpChan, credit : Nat] \subseteq [chan : Channel, credit : Nat]
    BY <1>1 DEF UpChan
  <1> QED
    BY <1>1, <1>2 DEF UpChan, DownChan, DownField, CreditField, UpMsg, DownMsg

\* Weights are numbers.
LEMMA MessageWeights ==
  ASSUME NEW c
  PROVE  /\ TakenW(c) \in [UpMsg -> Nat] /\ GivenBackW(c) \in [DownMsg -> Nat]
         /\ EndpointW(c) \in [Msg -> Nat] /\ ReturnedW(c) \in [ReturnedFlits -> Nat]
  <1>1. \A m \in UpMsg : (IF ChannelOf(m.op) = c THEN TakenFlits(m) ELSE 0) \in Nat
    BY UpSizes
  <1>2. \A m \in DownMsg : (IF ChannelOf(m.op) = c THEN GivenBackFlits(m) ELSE 0) \in Nat
    BY DownSizes
  <1>3. \A m \in Msg : (IF ChannelOf(m.op) = c THEN EndpointFlits(m) ELSE 0) \in Nat
    BY EndpointSizes
  <1>4. \A r \in ReturnedFlits : (IF r.chan = c THEN r.flits ELSE 0) \in Nat
    BY DEF ReturnedFlits
  <1>5. TakenW(c) \in [UpMsg -> Nat]
    BY <1>1, Zenon DEF TakenW
  <1>6. GivenBackW(c) \in [DownMsg -> Nat]
    BY <1>2, Zenon DEF GivenBackW
  <1>7. EndpointW(c) \in [Msg -> Nat]
    BY <1>3, Zenon DEF EndpointW
  <1>8. ReturnedW(c) \in [ReturnedFlits -> Nat]
    BY <1>4, Zenon DEF ReturnedW
  <1> QED
    BY <1>5, <1>6, <1>7, <1>8

\* The flits of messages on a channel are what their weights add up to.
LEMMA FlitsWeigh ==
  ASSUME NEW c
  PROVE  /\ \A q \in Seq(UpMsg) : /\ FlitsOn(q, c, TakenFlits) = Weigh(TakenW(c), q)
                                  /\ FlitsOn(q, c, TakenFlits) \in Nat
         /\ \A q \in Seq(DownMsg) : /\ FlitsOn(q, c, GivenBackFlits) = Weigh(GivenBackW(c), q)
                                    /\ FlitsOn(q, c, GivenBackFlits) \in Nat
         /\ \A q \in Seq(Msg) : /\ FlitsOn(q, c, EndpointFlits) = Weigh(EndpointW(c), q)
                                /\ FlitsOn(q, c, EndpointFlits) \in Nat
  <1>1. ASSUME NEW q \in Seq(UpMsg)
        PROVE  /\ FlitsOn(q, c, TakenFlits) = Weigh(TakenW(c), q)
               /\ FlitsOn(q, c, TakenFlits) \in Nat
    <2>1. \A k \in 1 .. Len(q) : q[k] \in UpMsg
      OBVIOUS
    <2>2. [k \in 1 .. Len(q) |-> IF ChannelOf(q[k].op) = c THEN TakenFlits(q[k]) ELSE 0]
          = [k \in 1 .. Len(q) |-> TakenW(c)[q[k]]]
      BY <2>1, Zenon DEF TakenW
    <2>3. FlitsOn(q, c, TakenFlits) = Weigh(TakenW(c), q)
      BY <2>2, Zenon DEF FlitsOn, Weigh
    <2>4. Weigh(TakenW(c), q) \in Nat
      BY MessageWeights, WeighNat, Zenon
    <2> QED
      BY <2>3, <2>4, Zenon
  <1>2. ASSUME NEW q \in Seq(DownMsg)
        PROVE  /\ FlitsOn(q, c, GivenBackFlits) = Weigh(GivenBackW(c), q)
               /\ FlitsOn(q, c, GivenBackFlits) \in Nat
    <2>1. \A k \in 1 .. Len(q) : q[k] \in DownMsg
      OBVIOUS
    <2>2. [k \in 1 .. Len(q) |-> IF ChannelOf(q[k].op) = c THEN GivenBackFlits(q[k]) ELSE 0]
          = [k \in 1 .. Len(q) |-> GivenBackW(c)[q[k]]]
      BY <2>1, Zenon DEF GivenBackW
    <2>3. FlitsOn(q, c, GivenBackFlits) = Weigh(GivenBackW(c), q)
      BY <2>2, Zenon DEF FlitsOn, Weigh
    <2>4. Weigh(GivenBackW(c), q) \in Nat
      BY MessageWeights, WeighNat, Zenon
    <2> QED
      BY <2>3, <2>4, Zenon
  <1>3. ASSUME NEW q \in Seq(Msg)
        PROVE  /\ FlitsOn(q, c, EndpointFlits) = Weigh(EndpointW(c), q)
               /\ FlitsOn(q, c, EndpointFlits) \in Nat
    <2>1. \A k \in 1 .. Len(q) : q[k] \in Msg
      OBVIOUS
    <2>2. [k \in 1 .. Len(q) |-> IF ChannelOf(q[k].op) = c THEN EndpointFlits(q[k]) ELSE 0]
          = [k \in 1 .. Len(q) |-> EndpointW(c)[q[k]]]
      BY <2>1, Zenon DEF EndpointW
    <2>3. FlitsOn(q, c, EndpointFlits) = Weigh(EndpointW(c), q)
      BY <2>2, Zenon DEF FlitsOn, Weigh
    <2>4. Weigh(EndpointW(c), q) \in Nat
      BY MessageWeights, WeighNat, Zenon
    <2> QED
      BY <2>3, <2>4, Zenon
  <1> QED
    BY <1>1, <1>2, <1>3, Zenon

\* So are the credits of fields, the flits and the credits of packets, and the
\* returned flits.
LEMMA PacketsWeigh ==
  ASSUME NEW c \in Channel
  PROVE  /\ FieldW(c) \in [CreditField -> Nat] /\ PacketFieldW(c) \in [UpPacket \cup DownPacket -> Nat]
         /\ UpPacketW(c) \in [UpPacket -> Nat] /\ DownPacketW(c) \in [DownPacket -> Nat]
         /\ \A q \in Seq(CreditField) : Credit(q, c) = Weigh(FieldW(c), q)
         /\ \A q \in Seq(UpPacket) : InPackets(q, c, TakenFlits) = Weigh(UpPacketW(c), q)
         /\ \A q \in Seq(DownPacket) : InPackets(q, c, GivenBackFlits) = Weigh(DownPacketW(c), q)
         /\ \A q \in Seq(UpPacket \cup DownPacket) : InFields(q, c) = Weigh(PacketFieldW(c), q)
  <1>1. FieldW(c) \in [CreditField -> Nat]
    BY FieldNat, Zenon DEF FieldW
  <1>2. \A p \in UpPacket \cup DownPacket : p.field \in CreditField
    BY Channels DEF UpPacket, DownPacket
  <1>3. PacketFieldW(c) \in [UpPacket \cup DownPacket -> Nat]
    BY <1>2, FieldNat, Zenon DEF PacketFieldW
  <1>4. /\ \A p \in UpPacket : p.msgs \in Seq(UpMsg)
        /\ \A p \in DownPacket : p.msgs \in Seq(DownMsg)
    BY DEF UpPacket, DownPacket
  <1>5. UpPacketW(c) \in [UpPacket -> Nat]
    BY <1>4, FlitsWeigh, Zenon DEF UpPacketW
  <1>6. DownPacketW(c) \in [DownPacket -> Nat]
    BY <1>4, FlitsWeigh, Zenon DEF DownPacketW
  <1>7. ASSUME NEW q \in Seq(CreditField) PROVE Credit(q, c) = Weigh(FieldW(c), q)
    <2>1. \A k \in 1 .. Len(q) : q[k] \in CreditField
      OBVIOUS
    <2>2. [k \in 1 .. Len(q) |-> InField(q[k], c)] = [k \in 1 .. Len(q) |-> FieldW(c)[q[k]]]
      BY <2>1, Zenon DEF FieldW
    <2> QED
      BY <2>2, Zenon DEF Credit, Weigh
  <1>8. ASSUME NEW q \in Seq(UpPacket)
        PROVE  InPackets(q, c, TakenFlits) = Weigh(UpPacketW(c), q)
    <2>1. \A k \in 1 .. Len(q) : q[k] \in UpPacket
      OBVIOUS
    <2>2. [k \in 1 .. Len(q) |-> FlitsOn(q[k].msgs, c, TakenFlits)]
          = [k \in 1 .. Len(q) |-> UpPacketW(c)[q[k]]]
      BY <2>1, Zenon DEF UpPacketW
    <2> QED
      BY <2>2, Zenon DEF InPackets, Weigh
  <1>9. ASSUME NEW q \in Seq(DownPacket)
        PROVE  InPackets(q, c, GivenBackFlits) = Weigh(DownPacketW(c), q)
    <2>1. \A k \in 1 .. Len(q) : q[k] \in DownPacket
      OBVIOUS
    <2>2. [k \in 1 .. Len(q) |-> FlitsOn(q[k].msgs, c, GivenBackFlits)]
          = [k \in 1 .. Len(q) |-> DownPacketW(c)[q[k]]]
      BY <2>1, Zenon DEF DownPacketW
    <2> QED
      BY <2>2, Zenon DEF InPackets, Weigh
  <1>10. ASSUME NEW q \in Seq(UpPacket \cup DownPacket)
         PROVE  InFields(q, c) = Weigh(PacketFieldW(c), q)
    <2>1. \A k \in 1 .. Len(q) : q[k] \in UpPacket \cup DownPacket
      OBVIOUS
    <2>2. [k \in 1 .. Len(q) |-> InField(q[k].field, c)]
          = [k \in 1 .. Len(q) |-> PacketFieldW(c)[q[k]]]
      BY <2>1, Zenon DEF PacketFieldW
    <2> QED
      BY <2>2, Zenon DEF InFields, Weigh
  <1> QED
    BY <1>1, <1>3, <1>5, <1>6, <1>7, <1>8, <1>9, <1>10, Zenon

\* The returned flits of a channel.
LEMMA ReturnedWeighs ==
  ASSUME NEW c, e_returned \in Seq(ReturnedFlits)
  PROVE  Returned(c) = Weigh(ReturnedW(c), e_returned)
  <1>1. \A k \in 1 .. Len(e_returned) : e_returned[k] \in ReturnedFlits
    OBVIOUS
  <1>2. [k \in 1 .. Len(e_returned) |-> IF e_returned[k].chan = c THEN e_returned[k].flits ELSE 0]
        = [k \in 1 .. Len(e_returned) |-> ReturnedW(c)[e_returned[k]]]
    BY <1>1, Zenon DEF ReturnedW
  <1> QED
    BY <1>2, Zenon DEF Returned, Weigh

-----------------------------------------------------------------------------
(* Messages sorted by channel *)

\* The messages for channel c in each prefix of msgs, as OnChannel defines them.
ArePrefixes(f, msgs, c, n) ==
    f = [i \in 0 .. n |-> IF i = 0 THEN <<>>
                          ELSE IF ChannelOf(msgs[i].op) = c THEN Append(f[i - 1], msgs[i])
                          ELSE f[i - 1]]

\* They exist.
LEMMA PrefixesExist ==
  ASSUME NEW msgs, NEW c, NEW n \in Nat
  PROVE  \E f : ArePrefixes(f, msgs, c, n)
  <1> DEFINE Step(i, p) == IF ChannelOf(msgs[i].op) = c THEN Append(p, msgs[i]) ELSE p
             P(j, f) == f = [i \in 0 .. j |-> IF i = 0 THEN <<>> ELSE Step(i, f[i - 1])]
             S == {j \in 0 .. n : \E f : P(j, f)}
  <1>1. 0 \in S
    <2> DEFINE f == [i \in 0 .. 0 |-> <<>>]
    <2> HIDE DEF Step
    <2>1. P(0, f) /\ 0 \in 0 .. n
      OBVIOUS
    <2> QED
      BY <2>1, Zenon
  <1>2. ASSUME NEW j \in 1 .. n, j - 1 \in S PROVE j \in S
    <2> HIDE DEF Step
    <2>1. PICK f : P(j - 1, f)
      BY <1>2
    <2> DEFINE g == [i \in 0 .. j |-> IF i = j THEN Step(j, f[j - 1]) ELSE f[i]]
    <2>2. P(j, g)
      <3>1. \A i \in 0 .. j - 1 : f[i] = IF i = 0 THEN <<>> ELSE Step(i, f[i - 1])
        BY <2>1
      <3>2. \A i \in 0 .. j : g[i] = IF i = 0 THEN <<>> ELSE Step(i, g[i - 1])
        BY <3>1
      <3> QED
        BY <3>2
    <2>3. j \in 0 .. n
      OBVIOUS
    <2> QED
      BY <2>2, <2>3, Zenon
  <1> HIDE DEF S
  <1>3. n \in S
    BY <1>1, <1>2, UpTo
  <1> QED
    BY <1>3, Zenon DEF S, ArePrefixes

\* forwardOps passes the messages of a packet on: those of a channel are in its
\* buffer, with all the credits that were taken for them.
LEMMA OnChannelWeighs ==
  ASSUME NEW msgs \in Seq(UpMsg), NEW c \in UpChan
  PROVE  /\ OnChannel(msgs, c) \in Seq(ChanMsg(c))
         /\ FlitsOn(OnChannel(msgs, c), c, EndpointFlits) = FlitsOn(msgs, c, TakenFlits)
  <1> DEFINE n == Len(msgs)
             f == CHOOSE g : ArePrefixes(g, msgs, c, n)
             w == [k \in 1 .. n |-> IF ChannelOf(msgs[k].op) = c THEN TakenFlits(msgs[k]) ELSE 0]
  <1>0. n \in Nat /\ \A i \in 1 .. n : msgs[i] \in UpMsg
    OBVIOUS
  <1>1. ArePrefixes(f, msgs, c, n)
    BY <1>0, PrefixesExist, Zenon
  <1>2. OnChannel(msgs, c) = f[n]
    BY Zenon DEF OnChannel, ArePrefixes
  <1> HIDE DEF f
  <1>3. /\ f[0] = <<>>
        /\ \A i \in 1 .. n : f[i] = IF ChannelOf(msgs[i].op) = c
                                    THEN Append(f[i - 1], msgs[i]) ELSE f[i - 1]
    <2>1. \A i \in 0 .. n : f[i] = IF i = 0 THEN <<>>
                                   ELSE IF ChannelOf(msgs[i].op) = c THEN Append(f[i - 1], msgs[i])
                                   ELSE f[i - 1]
      BY <1>1, Zenon DEF ArePrefixes
    <2>2. 0 \in 0 .. n /\ \A i \in 1 .. n : i \in 0 .. n /\ i # 0
      BY <1>0
    <2> QED
      BY <2>1, <2>2, Zenon
  <1>4. w \in Seq(Nat) /\ Len(w) = n
    <2>1. \A k \in 1 .. n : (IF ChannelOf(msgs[k].op) = c THEN TakenFlits(msgs[k]) ELSE 0) \in Nat
      BY <1>0, UpSizes
    <2> QED
      BY <2>1, <1>0
  <1>5. PICK g : /\ g \in [0 .. n -> Nat] /\ Sum(w) = g[n] /\ g[0] = 0
                 /\ \A i \in 1 .. n : g[i] = g[i - 1] + w[i]
    <2> HIDE DEF w, n
    <2>1. \E g : /\ g \in [0 .. Len(w) -> Nat] /\ Sum(w) = g[Len(w)] /\ g[0] = 0
                 /\ \A i \in 1 .. Len(w) : g[i] = g[i - 1] + w[i]
      BY <1>4, PartialSums, Zenon
    <2> QED
      BY <1>4, <2>1
  <1> DEFINE S == {i \in 0 .. n : f[i] \in Seq(ChanMsg(c)) /\ Weigh(EndpointW(c), f[i]) = g[i]}
  <1>6. 0 \in S
    <2>1. Weigh(EndpointW(c), <<>>) = 0 /\ <<>> \in Seq(ChanMsg(c)) /\ 0 \in 0 .. n
      BY <1>0, WeighNone
    <2> QED
      BY <1>3, <1>5, <2>1, Zenon
  <1>7. ASSUME NEW i \in 1 .. n, i - 1 \in S PROVE i \in S
    <2>1. /\ f[i - 1] \in Seq(ChanMsg(c)) /\ Weigh(EndpointW(c), f[i - 1]) = g[i - 1]
          /\ i \in 0 .. n /\ msgs[i] \in UpMsg /\ i - 1 \in 0 .. n
      BY <1>0, <1>7
    <2>2. w[i] = IF ChannelOf(msgs[i].op) = c THEN TakenFlits(msgs[i]) ELSE 0
      OBVIOUS
    <2> HIDE DEF w
    <2>3. g[i] = g[i - 1] + w[i] /\ g[i - 1] \in Nat
      BY <1>5, <2>1
    <2>4. CASE ChannelOf(msgs[i].op) = c
      <3>1. f[i] = Append(f[i - 1], msgs[i])
        BY <1>3, <2>4
      <3>2. msgs[i] \in ChanMsg(c) /\ ChanMsg(c) \subseteq Msg
        BY <2>1, <2>4 DEF UpMsg, ChanMsg
      <3>3. f[i] \in Seq(ChanMsg(c)) /\ f[i - 1] \in Seq(Msg) /\ msgs[i] \in Msg
        BY <2>1, <3>1, <3>2
      <3>4. EndpointW(c)[msgs[i]] = w[i]
        BY <2>1, <2>2, <2>4, <3>3, UpSizes DEF EndpointW
      <3>5. Weigh(EndpointW(c), f[i]) = Weigh(EndpointW(c), f[i - 1]) + w[i]
        <4>1. EndpointW(c) \in [Msg -> Nat]
          BY MessageWeights, Zenon
        <4>2. Weigh(EndpointW(c), Append(f[i - 1], msgs[i]))
              = Weigh(EndpointW(c), f[i - 1]) + EndpointW(c)[msgs[i]]
          BY <3>3, <4>1, WeighAppend, Zenon
        <4> QED
          BY <3>1, <3>4, <4>2, Zenon
      <3> QED
        BY <2>1, <2>3, <3>3, <3>5
    <2>5. CASE ChannelOf(msgs[i].op) # c
      BY <1>3, <2>1, <2>2, <2>3, <2>5
    <2> QED
      BY <2>4, <2>5
  <1>8. n \in S
    <2> HIDE DEF S
    <2>1. \A i \in 0 .. n : i \in S
      BY <1>0, <1>6, <1>7, UpTo, Zenon
    <2> QED
      BY <1>0, <2>1
  <1>9. /\ OnChannel(msgs, c) \in Seq(ChanMsg(c))
        /\ Weigh(EndpointW(c), OnChannel(msgs, c)) = FlitsOn(msgs, c, TakenFlits)
    BY <1>2, <1>5, <1>8, Zenon DEF FlitsOn
  <1>10. OnChannel(msgs, c) \in Seq(Msg)
    BY <1>9 DEF ChanMsg
  <1> QED
    BY <1>9, <1>10, FlitsWeigh, Zenon

-----------------------------------------------------------------------------
(* The credit field of a packet *)

\* get_highest finds a channel with the most credits, and grants no more than
\* it has.
LEMMA HighestOfRequester ==
  ASSUME r_receive \in [Channel -> Nat]
  PROVE  \/ RHighest = NoCredit
         \/ /\ RHighest \in [chan : Channel, credit : Nat]
            /\ TwoTo(RHighest.credit) <= r_receive[RHighest.chan]
  <1> DEFINE v == [i \in 1 .. 5 |-> r_receive[ChanSeq[i]]]
             Best(i) == \A j \in 1 .. 5 :
                 \/ r_receive[ChanSeq[i]] > r_receive[ChanSeq[j]]
                 \/ r_receive[ChanSeq[i]] = r_receive[ChanSeq[j]] /\ i <= j
             best == CHOOSE i \in 1 .. 5 : Best(i)
  <1>1. \A i \in 1 .. 5 : ChanSeq[i] \in Channel /\ v[i] \in Nat
    BY DEF Channel
  <1>2. \E i \in 1 .. 5 : Best(i)
    <2> DEFINE T == {x \in Nat : \A i \in 1 .. 5 : v[i] <= x}
    <2>1. PICK x \in T : \A y \in T : x <= y
      <3>1. v[1] + v[2] + v[3] + v[4] + v[5] \in T
        <4> HIDE DEF v
        <4> QED
          BY <1>1
      <3>2. T \subseteq Nat /\ T # {}
        BY <3>1
      <3> HIDE DEF T
      <3> QED
        BY <3>2, LeastElement
    <2> DEFINE U == {i \in 1 .. 5 : v[i] = x}
    <2>2. PICK i \in U : \A j \in U : i <= j
      <3>1. U # {}
        <4> HIDE DEF v
        <4>1. CASE x = 0
          BY <1>1, <2>1, <4>1
        <4>2. CASE x # 0
          <5>1. x - 1 \notin T /\ x - 1 \in Nat
            BY <2>1, <4>2
          <5> QED
            BY <1>1, <2>1, <5>1
        <4> QED
          BY <4>1, <4>2
      <3>2. U \subseteq Nat
        OBVIOUS
      <3> HIDE DEF U
      <3> QED
        BY <3>1, <3>2, LeastElement
    <2>3. Best(i)
      BY <1>1, <2>1, <2>2
    <2> QED
      BY <2>2, <2>3
  <1>3. best \in 1 .. 5
    BY <1>2, Zenon
  <1>4. RHighest = IF r_receive[ChanSeq[best]] = 0 THEN NoCredit
                   ELSE [chan |-> ChanSeq[best], credit |-> Log2(r_receive[ChanSeq[best]])]
    BY Zenon DEF RHighest
  <1> HIDE DEF best
  <1>5. CASE r_receive[ChanSeq[best]] # 0
    <2>1. ChanSeq[best] \in Channel /\ r_receive[ChanSeq[best]] \in Nat
      BY <1>1, <1>3
    <2>2. /\ Log2(r_receive[ChanSeq[best]]) \in Nat
          /\ TwoTo(Log2(r_receive[ChanSeq[best]])) <= r_receive[ChanSeq[best]]
      BY <1>5, <2>1, Log2Works
    <2> QED
      BY <1>4, <1>5, <2>1, <2>2
  <1> QED
    BY <1>4, <1>5

\* calculate_maximum finds a channel that has credits, and grants no more than
\* its counter holds.
LEMMA HighestOfEndpoint ==
  ASSUME e_counter \in [UpChan -> 0 .. CounterMax]
  PROVE  \/ EHighest = NoCredit
         \/ /\ EHighest \in [chan : UpChan, credit : Nat]
            /\ TwoTo(EHighest.credit) <= e_counter[EHighest.chan]
  <1> DEFINE some == {c \in UpChan : e_counter[c] # 0}
             order == [c \in UpChan |-> CHOOSE i \in 1 .. 5 : ChanSeq[i] = c]
             exponent == [c \in some |-> Log2(e_counter[c])]
             Best(c) == \A d \in some :
                    \/ exponent[c] > exponent[d]
                    \/ exponent[c] = exponent[d] /\ order[c] <= order[d]
             best == CHOOSE c \in some : Best(c)
  <1>1. \A c \in some : /\ c \in UpChan /\ exponent[c] \in Nat
                        /\ TwoTo(exponent[c]) <= e_counter[c]
    BY CreditsAssumption, Log2Works
  <1>2. order \in [UpChan -> 1 .. 5]
    <2>1. \A c \in UpChan : \E i \in 1 .. 5 : ChanSeq[i] = c
      <3>1. ChanSeq[1] = "A" /\ ChanSeq[3] = "C" /\ ChanSeq[5] = "E"
        BY DEF ChanSeq
      <3> QED
        BY <3>1 DEF UpChan
    <2>2. \A c \in UpChan : (CHOOSE i \in 1 .. 5 : ChanSeq[i] = c) \in 1 .. 5
      BY <2>1, Zenon
    <2> QED
      BY <2>2, Zenon
  <1>3. CASE some # {}
    <2>1. \E c \in some : Best(c)
      <3>1. some \subseteq {"A", "C", "E"}
        BY DEF UpChan
      <3>2. \A c \in some : exponent[c] \in Nat /\ order[c] \in 1 .. 5
        BY <1>1, <1>2
      <3> HIDE DEF some, order, exponent
      <3> SUFFICES ASSUME \A c \in some : ~ Best(c) PROVE FALSE
        OBVIOUS
      <3> DEFINE Better(d, c) == \/ exponent[d] > exponent[c]
                                 \/ exponent[d] = exponent[c] /\ order[d] < order[c]
      <3>3. \A c \in some : \E d \in some : Better(d, c)
        BY <3>2
      <3>4. PICK c \in some : TRUE
        BY <1>3
      <3>5. PICK d \in some : Better(d, c)
        BY <3>3
      <3>6. PICK e \in some : Better(e, d)
        BY <3>3
      <3>7. PICK f \in some : Better(f, e)
        BY <3>3
      <3>8. c # d /\ c # e /\ c # f /\ d # e /\ d # f /\ e # f
        BY <3>2, <3>5, <3>6, <3>7
      <3> QED
        BY <3>1, <3>8
    <2>2. best \in some
      BY <2>1, Zenon
    <2>3. EHighest = [chan |-> best, credit |-> exponent[best]]
      BY <1>3, Zenon DEF EHighest
    <2> HIDE DEF best, exponent, some
    <2> QED
      BY <1>1, <2>2, <2>3
  <1>4. CASE some = {}
    BY <1>4, Zenon DEF EHighest
  <1> QED
    BY <1>3, <1>4

-----------------------------------------------------------------------------
(* Types *)

AppOp == RequestOp \cup {"GrantAck"}
Grant == [chan : UpChan, credit : Nat]

\* The types of TypeOK, with the side and the channel of each message.
RequesterTypes ==
    /\ r_send \in [UpChan -> Nat] /\ r_receive \in [Channel -> Nat]
    /\ r_app \in [Thread -> [pc : {"idle", "take", "wait"}, op : AppOp, len : Nat]]
    /\ r_probes \in Nat /\ r_answer \in Seq(UpMsg) /\ r_out \in Seq(UpMsg) /\ begun \in Nat
WireTypes == up \in Seq(UpPacket) /\ down \in Seq(DownPacket)
BufferTypes ==
    /\ e_in \in [UpChan -> Seq(Msg)] /\ \A c \in UpChan : e_in[c] \in Seq(ChanMsg(c))
    /\ e_out \in [DownChan -> Seq(Msg)] /\ \A c \in DownChan : e_out[c] \in Seq(ChanMsg(c))
    /\ e_flits \in Seq(DownMsg)
CounterTypes ==
    /\ e_returned \in Seq(ReturnedFlits) /\ e_counter \in [UpChan -> 0 .. CounterMax]
    /\ e_send \in [DownChan -> 0 .. CounterMax]
    /\ e_remove \in Seq(Grant) /\ Len(e_remove) <= 1
    /\ e_builder \in Seq(DownField) /\ Len(e_builder) <= 1
Types == RequesterTypes /\ WireTypes /\ BufferTypes /\ CounterTypes

\* Sequences of a smaller set are sequences of a larger one.
LEMMA SeqMono ==
  ASSUME NEW X, NEW Y, X \subseteq Y, NEW q \in Seq(X)
  PROVE  q \in Seq(Y)
  OBVIOUS

\* Types is at least as strong as the type invariant of the model.
LEMMA TypesTypeOK ==
  ASSUME Types PROVE TypeOK
  <1>1. AppOp \subseteq MsgOp
    BY DEF AppOp, MsgOp
  <1>2. /\ UpPacket \subseteq Packet /\ DownPacket \subseteq Packet
    <2>1. Seq(UpMsg) \subseteq Seq(Msg) /\ Seq(DownMsg) \subseteq Seq(Msg)
      BY Channels, SeqMono
    <2> QED
      BY <2>1, Channels DEF UpPacket, DownPacket, Packet
  <1>3. /\ r_send \in [UpChan -> Nat] /\ r_receive \in [Channel -> Nat]
        /\ r_probes \in Nat /\ begun \in Nat
    BY DEF Types, RequesterTypes
  <1>4. r_app \in [Thread -> [pc : {"idle", "take", "wait"}, op : MsgOp, len : Nat]]
    <2>1. [pc : {"idle", "take", "wait"}, op : AppOp, len : Nat]
          \subseteq [pc : {"idle", "take", "wait"}, op : MsgOp, len : Nat]
      BY <1>1
    <2> QED
      BY <2>1 DEF Types, RequesterTypes
  <1>5. r_answer \in Seq(Msg) /\ r_out \in Seq(Msg) /\ e_flits \in Seq(Msg)
    BY Channels, SeqMono, Zenon DEF Types, RequesterTypes, BufferTypes
  <1>6. up \in Seq(Packet) /\ down \in Seq(Packet)
    BY <1>2, SeqMono, Zenon DEF Types, WireTypes
  <1>7. /\ e_in \in [UpChan -> Seq(Msg)] /\ e_out \in [DownChan -> Seq(Msg)]
        /\ e_counter \in [UpChan -> 0 .. CounterMax] /\ e_send \in [DownChan -> 0 .. CounterMax]
    BY DEF Types, BufferTypes, CounterTypes
  <1>8. /\ e_returned \in Seq([chan : UpChan, flits : Nat])
        /\ e_remove \in Seq([chan : UpChan, credit : Nat])
    BY Zenon DEF Types, CounterTypes, ReturnedFlits, Grant
  <1>9. e_builder \in Seq(CreditField)
    BY Channels, SeqMono, Zenon DEF Types, CounterTypes
  <1> QED
    BY <1>3, <1>4, <1>5, <1>6, <1>7, <1>8, <1>9, Zenon DEF TypeOK

\* The types hold at first.
LEMMA TypesInit ==
  ASSUME Init PROVE Types
  <1>1. RequesterTypes
    BY CreditsAssumption DEF Init, RequesterTypes, AppOp, RequestOp
  <1>2. WireTypes
    BY DEF Init, WireTypes
  <1>3. BufferTypes
    BY DEF Init, BufferTypes
  <1>4. CounterTypes
    BY CreditsAssumption DEF Init, CounterTypes
  <1> QED
    BY <1>1, <1>2, <1>3, <1>4 DEF Types

\* What threads and the network thread ask credits for are messages.
LEMMA AskedTypes ==
  ASSUME Types
  PROVE  /\ \A t \in Thread : [op |-> r_app[t].op, len |-> r_app[t].len, src |-> t] \in UpMsg
         /\ \A op \in Answers : \A len \in LineLens : [op |-> op, len |-> len, src |-> 0] \in UpMsg
         /\ \A op \in Ops : \A len \in LensOf(op) : op \in AppOp /\ len \in Nat
  <1>1. \A op \in AppOp \cup AnswerOp : op \in MsgOp /\ ChannelOf(op) \in UpChan
    BY DEF AppOp, RequestOp, AnswerOp, ResponseOp, MsgOp, ChannelOf, UpChan
  <1>2. \A op \in AppOp \cup AnswerOp, len \in Nat, src \in Nat :
           [op |-> op, len |-> len, src |-> src] \in UpMsg
    BY <1>1 DEF UpMsg, Msg
  <1>3. \A t \in Thread : r_app[t].op \in AppOp /\ r_app[t].len \in Nat /\ t \in Nat
    BY CreditsAssumption DEF Types, RequesterTypes, Thread
  <1>4. LineLens \subseteq Nat /\ WriteLens \subseteq Nat /\ Ops \subseteq AppOp
        /\ Answers \subseteq AnswerOp
    BY CreditsAssumption DEF AppOp
  <1>5. \A t \in Thread : [op |-> r_app[t].op, len |-> r_app[t].len, src |-> t] \in UpMsg
    BY <1>2, <1>3
  <1>6. \A op \in Answers : \A len \in LineLens : [op |-> op, len |-> len, src |-> 0] \in UpMsg
    BY <1>2, <1>4
  <1>7. \A op \in Ops : \A len \in LensOf(op) : op \in AppOp /\ len \in Nat
    BY <1>4 DEF LensOf
  <1> QED
    BY <1>5, <1>6, <1>7

\* Taking the credits of a message sends it.
LEMMA TakeTypes ==
  ASSUME Types, NEW m \in UpMsg, Take(m)
  PROVE  /\ r_send' \in [UpChan -> Nat] /\ r_out' \in Seq(UpMsg)
         /\ r_send' = [r_send EXCEPT ![ChannelOf(m.op)] = @ - TakenFlits(m)]
         /\ ChannelOf(m.op) \in UpChan /\ TakenFlits(m) \in Nat
         /\ r_send[ChannelOf(m.op)] >= TakenFlits(m) /\ r_out' = Append(r_out, m)
  <1>1. ChannelOf(m.op) \in UpChan /\ TakenFlits(m) \in Nat
    BY UpSizes
  <1>2. /\ r_send[ChannelOf(m.op)] >= TakenFlits(m)
        /\ r_send' = [r_send EXCEPT ![ChannelOf(m.op)] = @ - TakenFlits(m)]
        /\ r_out' = Append(r_out, m)
    BY DEF Take, Sufficient
  <1>3. r_send \in [UpChan -> Nat] /\ r_out \in Seq(UpMsg)
    BY DEF Types, RequesterTypes
  <1> QED
    BY <1>1, <1>2, <1>3

\* The endpoint's answer to a message goes out on channel D.
LEMMA ResponseTypes ==
  ASSUME NEW m \in Msg
  PROVE  ResponseTo(m) \in Seq(ChanMsg("D"))
  <1>1. \A op \in ResponseOp : op \in MsgOp /\ ChannelOf(op) = "D"
    BY DEF ResponseOp, RequestOp, AnswerOp, MsgOp, ChannelOf
  <1>2. \A op \in ResponseOp : [m EXCEPT !.op = op] \in ChanMsg("D")
    <2> SUFFICES ASSUME NEW op \in ResponseOp PROVE [m EXCEPT !.op = op] \in ChanMsg("D")
      OBVIOUS
    <2>1. [m EXCEPT !.op = op] = [op |-> op, len |-> m.len, src |-> m.src]
      BY DEF Msg
    <2> QED
      BY <1>1, <2>1 DEF ChanMsg, Msg
  <1>3. \A op \in ResponseOp : <<[m EXCEPT !.op = op]>> \in Seq(ChanMsg("D"))
    BY <1>2
  <1>4. /\ "AccessAckData" \in ResponseOp /\ "AccessAck" \in ResponseOp /\ "GrantData" \in ResponseOp
        /\ "Grant" \in ResponseOp /\ "ReleaseAck" \in ResponseOp
    BY DEF ResponseOp
  <1>5. <<>> \in Seq(ChanMsg("D"))
    OBVIOUS
  <1> HIDE DEF ResponseOp
  <1> QED
    BY <1>3, <1>4, <1>5, Zenon DEF ResponseTo

\* A probe is a message on channel B.
LEMMA ProbeType ==
  [op |-> "ProbeBlock", len |-> 0, src |-> 0] \in ChanMsg("B")
  BY DEF ChanMsg, Msg, MsgOp, RequestOp, AnswerOp, ResponseOp, ChannelOf

\* Messages of the endpoint's channels are messages to the requester.
LEMMA DownChanMsg ==
  ASSUME NEW c \in DownChan PROVE ChanMsg(c) \subseteq DownMsg /\ ChanMsg(c) \subseteq Msg
  BY DEF ChanMsg, DownMsg

\* The rest of a division is in range, and small numbers are their own rest.
LEMMA Remainder ==
  ASSUME NEW x \in Int
  PROVE  /\ x % (CounterMax + 1) \in 0 .. CounterMax
         /\ x \in 0 .. CounterMax => x % (CounterMax + 1) = x
  <1>1. CounterMax + 1 \in Nat \ {0} /\ CounterMax \in Nat
    BY CreditsAssumption
  <1> DEFINE n == CounterMax + 1
  <1>2. n \in Nat \ {0} /\ CounterMax = n - 1
    BY <1>1
  <1> HIDE DEF n
  <1>3. x % n \in 0 .. n - 1
    BY <1>2
  <1>4. x \in 0 .. n - 1 => x % n = x
    BY <1>2
  <1> QED
    BY <1>2, <1>3, <1>4 DEF n

\* Each action keeps the types: the requester's actions, ...
LEMMA TypesRequester ==
  ASSUME Types, 
         \/ \E t \in Thread : RBegin(t) \/ RTake(t)
         \/ RProcessProbe \/ RAnswer \/ RSendPacket \/ RReceive
  PROVE  Types'
  <1> USE DEF Types
  <1>1. ASSUME NEW t \in Thread, RBegin(t) PROVE Types'
    <2>0. PICK op \in Ops : \E len \in LensOf(op) :
             r_app' = [r_app EXCEPT ![t] = [pc |-> "take", op |-> op, len |-> len]]
      BY <1>1, Zenon DEF RBegin
    <2>1. PICK len \in LensOf(op) :
             r_app' = [r_app EXCEPT ![t] = [pc |-> "take", op |-> op, len |-> len]]
      BY <2>0, Zenon
    <2>2. op \in AppOp /\ len \in Nat
      BY AskedTypes, Zenon
    <2>3. RequesterTypes'
      BY <1>1, <2>1, <2>2 DEF RBegin, RequesterTypes
    <2> QED
      BY <1>1, <2>3 DEF RBegin, epVars, WireTypes, BufferTypes, CounterTypes
  <1>2. ASSUME NEW t \in Thread, RTake(t) PROVE Types'
    <2> DEFINE m == [op |-> r_app[t].op, len |-> r_app[t].len, src |-> t]
    <2>1. m \in UpMsg /\ Take(m)
      BY <1>2, AskedTypes, Zenon DEF RTake
    <2> HIDE DEF m
    <2>2. r_send' \in [UpChan -> Nat] /\ r_out' \in Seq(UpMsg)
      BY <2>1, TakeTypes, Zenon
    <2>3. r_app' \in [Thread -> [pc : {"idle", "take", "wait"}, op : AppOp, len : Nat]]
      BY <1>2 DEF RTake, RequesterTypes
    <2>4. RequesterTypes'
      BY <1>2, <2>2, <2>3 DEF RTake, RequesterTypes
    <2> QED
      BY <1>2, <2>4 DEF RTake, epVars, WireTypes, BufferTypes, CounterTypes
  <1>3. CASE RProcessProbe
    <2>1. PICK op \in Answers, len \in LineLens : r_answer' = <<[op |-> op, len |-> len, src |-> 0]>>
      BY <1>3, Zenon DEF RProcessProbe
    <2>2. [op |-> op, len |-> len, src |-> 0] \in UpMsg
      BY AskedTypes, Zenon
    <2>3. r_answer' \in Seq(UpMsg)
      BY <2>1, <2>2
    <2>4. RequesterTypes'
      BY <1>3, <2>3 DEF RProcessProbe, RequesterTypes
    <2> QED
      BY <1>3, <2>4 DEF RProcessProbe, epVars, WireTypes, BufferTypes, CounterTypes
  <1>4. CASE RAnswer
    <2>1. Head(r_answer) \in UpMsg /\ Take(Head(r_answer))
      BY <1>4 DEF RAnswer, RequesterTypes
    <2>2. r_send' \in [UpChan -> Nat] /\ r_out' \in Seq(UpMsg)
      BY <2>1, TakeTypes, Zenon
    <2>3. RequesterTypes'
      BY <1>4, <2>2 DEF RAnswer, RequesterTypes
    <2> QED
      BY <1>4, <2>3 DEF RAnswer, epVars, WireTypes, BufferTypes, CounterTypes
  <1>5. CASE RSendPacket
    <2>1. PICK field : /\ field = RHighest
                       /\ up' = Append(up, [msgs |-> r_out, field |-> field])
                       /\ r_receive' = IF field = NoCredit THEN r_receive
                             ELSE [r_receive EXCEPT ![field.chan] = @ - TwoTo(field.credit)]
      BY <1>5, Zenon DEF RSendPacket
    <2>2. \/ field = NoCredit
          \/ field \in [chan : Channel, credit : Nat] /\ TwoTo(field.credit) <= r_receive[field.chan]
      BY <2>1, HighestOfRequester, Zenon DEF RequesterTypes
    <2>3. field \in CreditField
      BY <2>2 DEF CreditField
    <2>4. r_receive' \in [Channel -> Nat]
      <3>1. CASE field = NoCredit
        BY <2>1, <3>1 DEF RequesterTypes
      <3>2. CASE field # NoCredit
        <4>1. /\ field.chan \in Channel /\ TwoTo(field.credit) \in Nat
              /\ TwoTo(field.credit) <= r_receive[field.chan]
          BY <2>2, <3>2, PowerBound
        <4> QED
          BY <2>1, <3>2, <4>1 DEF RequesterTypes
      <3> QED
        BY <3>1, <3>2
    <2>5. RequesterTypes'
      BY <1>5, <2>4 DEF RSendPacket, RequesterTypes
    <2>6. [msgs |-> r_out, field |-> field] \in UpPacket
      BY <2>3 DEF UpPacket, RequesterTypes
    <2>7. WireTypes'
      BY <1>5, <2>1, <2>6 DEF RSendPacket, WireTypes
    <2> QED
      BY <1>5, <2>5, <2>7 DEF RSendPacket, epVars, BufferTypes, CounterTypes
  <1>6. CASE RReceive
    <2>1. PICK pkt :
        /\ pkt = Head(down)
        /\ r_send' = IF pkt.field = NoCredit THEN r_send
                     ELSE [r_send EXCEPT ![pkt.field.chan] = @ + TwoTo(pkt.field.credit)]
        /\ r_receive' = [c \in Channel |-> r_receive[c] + FlitsOn(pkt.msgs, c, GivenBackFlits)]
        /\ r_probes' = r_probes + Cardinality(Probes(pkt.msgs))
        /\ r_app' = [t \in Thread |->
                       IF \E m \in Responses(pkt.msgs) : m.src = t
                       THEN Completed(r_app[t], CHOOSE m \in Responses(pkt.msgs) : m.src = t)
                       ELSE r_app[t]]
      BY <1>6, Zenon DEF RReceive
    <2>2. pkt \in DownPacket /\ Tail(down) \in Seq(DownPacket)
      BY <1>6, <2>1 DEF RReceive, WireTypes
    <2>3. pkt.msgs \in Seq(DownMsg) /\ pkt.field \in DownField
      BY <2>2 DEF DownPacket
    <2>4. r_send' \in [UpChan -> Nat]
      <3>1. pkt.field # NoCredit => /\ pkt.field.chan \in UpChan /\ pkt.field.credit \in Nat
                                    /\ TwoTo(pkt.field.credit) \in Nat
        BY <2>3, PowerBound DEF DownField
      <3> QED
        BY <2>1, <3>1 DEF RequesterTypes
    <2>5. r_receive' \in [Channel -> Nat]
      <3>1. \A c \in Channel : FlitsOn(pkt.msgs, c, GivenBackFlits) \in Nat
        BY <2>3, FlitsWeigh, Zenon
      <3>2. \A c \in Channel : r_receive[c] + FlitsOn(pkt.msgs, c, GivenBackFlits) \in Nat
        BY <3>1 DEF RequesterTypes
      <3> QED
        BY <2>1, <3>2, Zenon
    <2>6. r_probes' \in Nat
      <3>1. Probes(pkt.msgs) \subseteq 1 .. Len(pkt.msgs) /\ Len(pkt.msgs) \in Nat
        BY <2>3 DEF Probes
      <3>2. IsFiniteSet(1 .. Len(pkt.msgs))
        BY <3>1, FS_Interval
      <3>3. Cardinality(Probes(pkt.msgs)) \in Nat
        BY <3>1, <3>2, FS_Subset, FS_CardinalityType
      <3> QED
        BY <2>1, <3>3 DEF RequesterTypes
    <2>7. r_app' \in [Thread -> [pc : {"idle", "take", "wait"}, op : AppOp, len : Nat]]
      <3> DEFINE App == [pc : {"idle", "take", "wait"}, op : AppOp, len : Nat]
      <3>1. \A m : \A a \in App : Completed(a, m) \in App
        BY DEF Completed, AppOp
      <3>2. r_app \in [Thread -> App]
        BY DEF RequesterTypes
      <3> HIDE DEF App
      <3>3. r_app' \in [Thread -> App]
        BY <2>1, <3>1, <3>2, Zenon
      <3> QED
        BY <3>3 DEF App
    <2>8. RequesterTypes'
      BY <1>6, <2>4, <2>5, <2>6, <2>7 DEF RReceive, RequesterTypes
    <2>9. WireTypes'
      BY <1>6, <2>2 DEF RReceive, WireTypes
    <2> QED
      BY <1>6, <2>8, <2>9 DEF RReceive, epVars, BufferTypes, CounterTypes
  <1> QED
    BY <1>1, <1>2, <1>3, <1>4, <1>5, <1>6, Zenon

\* ... and the endpoint's.
LEMMA TypesEndpoint ==
  ASSUME Types,
         \/ EReceive \/ ESetupPacket \/ ESendPacket \/ EUpdateCounter \/ EProbe
         \/ \E c \in UpChan : EProcess(c)
         \/ \E c \in DownChan : ETakeCredits(c)
  PROVE  Types'
  <1> USE DEF Types
  <1>1. CASE EReceive
    <2>1. PICK pkt :
        /\ pkt = Head(up)
        /\ e_in' = [c \in UpChan |-> e_in[c] \o OnChannel(pkt.msgs, c)]
        /\ e_send' = IF pkt.field.chan \in DownChan
                     THEN [e_send EXCEPT ![pkt.field.chan] =
                              BoundedPlus(@, TwoTo(pkt.field.credit))]
                     ELSE e_send
      BY <1>1, Zenon DEF EReceive
    <2>2. pkt \in UpPacket /\ Tail(up) \in Seq(UpPacket)
      BY <1>1, <2>1 DEF EReceive, WireTypes
    <2>3. pkt.msgs \in Seq(UpMsg) /\ pkt.field \in CreditField
      BY <2>2 DEF UpPacket
    <2>4. \A c \in UpChan : e_in'[c] \in Seq(ChanMsg(c)) /\ e_in'[c] \in Seq(Msg)
      <3> SUFFICES ASSUME NEW c \in UpChan
                   PROVE  e_in'[c] \in Seq(ChanMsg(c)) /\ e_in'[c] \in Seq(Msg)
        OBVIOUS
      <3>1. e_in[c] \in Seq(ChanMsg(c)) /\ OnChannel(pkt.msgs, c) \in Seq(ChanMsg(c))
        BY <2>3, OnChannelWeighs, Zenon DEF BufferTypes
      <3>2. e_in'[c] = e_in[c] \o OnChannel(pkt.msgs, c)
        BY <2>1, Zenon
      <3>3. ChanMsg(c) \subseteq Msg
        BY DEF ChanMsg
      <3>4. e_in'[c] \in Seq(ChanMsg(c))
        BY <3>1, <3>2
      <3> QED
        BY <3>3, <3>4, SeqMono, Zenon
    <2>5. e_in' \in [UpChan -> Seq(Msg)]
      <3>1. e_in' = [c \in UpChan |-> e_in'[c]]
        BY <2>1, Zenon
      <3> QED
        BY <2>4, <3>1, Zenon
    <2>6. e_send' \in [DownChan -> 0 .. CounterMax]
      <3>1. pkt.field.chan \in DownChan => TwoTo(pkt.field.credit) \in Nat
        <4>1. pkt.field.chan \in DownChan => pkt.field.credit \in Nat
          BY <2>3 DEF DownChan, CreditField, NoCredit
        <4> QED
          BY <4>1, PowerBound
      <3>2. \A a \in 0 .. CounterMax, b \in Nat : BoundedPlus(a, b) \in 0 .. CounterMax
        BY CreditsAssumption DEF BoundedPlus, Least
      <3> QED
        BY <2>1, <3>1, <3>2 DEF CounterTypes
    <2>7. BufferTypes'
      BY <1>1, <2>4, <2>5 DEF EReceive, BufferTypes
    <2>8. CounterTypes'
      BY <1>1, <2>6 DEF EReceive, CounterTypes
    <2>9. WireTypes'
      BY <1>1, <2>2 DEF EReceive, WireTypes
    <2> QED
      BY <1>1, <2>7, <2>8, <2>9 DEF EReceive, reqVars, RequesterTypes
  <1>2. CASE ESetupPacket
    <2>1. PICK field : /\ field = EHighest /\ e_builder' = <<field>>
                       /\ e_remove' = IF field = NoCredit THEN e_remove ELSE Append(e_remove, field)
      BY <1>2, Zenon DEF ESetupPacket
    <2>2. field = NoCredit \/ field \in Grant
      BY <2>1, HighestOfEndpoint, Zenon DEF CounterTypes, Grant
    <2>3. field \in DownField /\ e_remove = <<>>
      BY <1>2, <2>2 DEF DownField, Grant, ESetupPacket, RemovalDone
    <2>4. e_remove' \in Seq(Grant) /\ Len(e_remove') <= 1
      BY <2>1, <2>2, <2>3
    <2>5. e_builder' \in Seq(DownField) /\ Len(e_builder') <= 1
      BY <2>1, <2>3
    <2>6. CounterTypes'
      BY <1>2, <2>4, <2>5 DEF ESetupPacket, CounterTypes
    <2> QED
      BY <1>2, <2>6 DEF ESetupPacket, reqVars, RequesterTypes, WireTypes, BufferTypes
  <1>3. CASE ESendPacket
    <2>1. e_flits \in Seq(DownMsg) /\ Head(e_builder) \in DownField
      BY <1>3 DEF ESendPacket, BufferTypes, CounterTypes
    <2>2. [msgs |-> e_flits, field |-> Head(e_builder)] \in DownPacket
      BY <2>1 DEF DownPacket
    <2>3. WireTypes'
      BY <1>3, <2>2 DEF ESendPacket, WireTypes
    <2>4. BufferTypes'
      BY <1>3 DEF ESendPacket, BufferTypes
    <2>5. CounterTypes'
      BY <1>3 DEF ESendPacket, CounterTypes
    <2> QED
      BY <1>3, <2>3, <2>4, <2>5 DEF ESendPacket, reqVars, RequesterTypes
  <1>4. CASE EUpdateCounter
    <2>1. CASE e_remove # <<>> /\ e_remove' = Tail(e_remove) /\ e_returned' = e_returned
               /\ e_counter' = [e_counter EXCEPT ![Head(e_remove).chan] =
                                  (@ - TwoTo(Head(e_remove).credit)) % (CounterMax + 1)]
      <3>1. Head(e_remove) \in Grant /\ Tail(e_remove) \in Seq(Grant) /\ Len(Tail(e_remove)) <= 1
        BY <2>1 DEF CounterTypes
      <3>2. Head(e_remove).chan \in UpChan /\ TwoTo(Head(e_remove).credit) \in Nat
        BY <3>1, PowerBound DEF Grant
      <3>3. e_counter' \in [UpChan -> 0 .. CounterMax]
        BY <2>1, <3>2, Remainder DEF CounterTypes
      <3> QED
        BY <1>4, <2>1, <3>1, <3>3 DEF EUpdateCounter, CounterTypes, reqVars, RequesterTypes,
                                      WireTypes, BufferTypes
    <2>2. CASE e_remove = <<>> /\ e_returned # <<>> /\ e_returned' = Tail(e_returned)
               /\ e_remove' = e_remove
               /\ e_counter' = [e_counter EXCEPT ![Head(e_returned).chan] =
                                  (@ + Head(e_returned).flits) % (CounterMax + 1)]
      <3>1. Head(e_returned) \in ReturnedFlits /\ Tail(e_returned) \in Seq(ReturnedFlits)
        BY <2>2 DEF CounterTypes
      <3>2. Head(e_returned).chan \in UpChan /\ Head(e_returned).flits \in Nat
        BY <3>1 DEF ReturnedFlits
      <3>3. e_counter' \in [UpChan -> 0 .. CounterMax]
        <4>1. e_counter[Head(e_returned).chan] + Head(e_returned).flits \in Int
          BY <3>2, CreditsAssumption DEF CounterTypes
        <4>2. (e_counter[Head(e_returned).chan] + Head(e_returned).flits) % (CounterMax + 1)
              \in 0 .. CounterMax
          BY <4>1, Remainder
        <4> QED
          BY <2>2, <3>2, <4>2 DEF CounterTypes
      <3> QED
        BY <1>4, <2>2, <3>1, <3>3 DEF EUpdateCounter, CounterTypes, reqVars, RequesterTypes,
                                      WireTypes, BufferTypes
    <2> QED
      BY <1>4, <2>1, <2>2, Zenon DEF EUpdateCounter
  <1>5. CASE EProbe
    <2> DEFINE m == [op |-> "ProbeBlock", len |-> 0, src |-> 0]
    <2>1. e_out' = [e_out EXCEPT !["B"] = Append(@, m)] /\ m \in ChanMsg("B") /\ m \in Msg
      BY <1>5, ProbeType DEF EProbe, ChanMsg
    <2> HIDE DEF m
    <2>2. /\ e_out' \in [DownChan -> Seq(Msg)]
          /\ \A c \in DownChan : e_out'[c] \in Seq(ChanMsg(c))
      BY <2>1 DEF BufferTypes, DownChan
    <2>3. BufferTypes'
      BY <1>5, <2>2 DEF EProbe, BufferTypes
    <2> QED
      BY <1>5, <2>3 DEF EProbe, reqVars, RequesterTypes, WireTypes, CounterTypes
  <1>6. ASSUME NEW c \in UpChan, EProcess(c) PROVE Types'
    <2>1. PICK m :
        /\ m = Head(e_in[c]) /\ e_in' = [e_in EXCEPT ![c] = Tail(@)]
        /\ e_returned' = Append(e_returned, [chan |-> c, flits |-> EndpointFlits(m)])
        /\ e_out' = [e_out EXCEPT !["D"] = @ \o ResponseTo(m)]
      BY <1>6, Zenon DEF EProcess
    <2>2. e_in[c] \in Seq(Msg) /\ e_in[c] \in Seq(ChanMsg(c)) /\ e_in[c] # <<>>
      BY <1>6 DEF EProcess, BufferTypes
    <2>3. m \in Msg /\ Tail(e_in[c]) \in Seq(Msg) /\ Tail(e_in[c]) \in Seq(ChanMsg(c))
      BY <2>1, <2>2
    <2>4. [chan |-> c, flits |-> EndpointFlits(m)] \in ReturnedFlits
      BY <2>3, EndpointSizes DEF ReturnedFlits
    <2>5. ResponseTo(m) \in Seq(ChanMsg("D")) /\ ResponseTo(m) \in Seq(Msg)
      <3>1. "D" \in DownChan
        BY DEF DownChan
      <3> QED
        BY <2>3, <3>1, ResponseTypes, DownChanMsg, SeqMono, Zenon
    <2>6. /\ e_in' \in [UpChan -> Seq(Msg)]
          /\ \A d \in UpChan : e_in'[d] \in Seq(ChanMsg(d))
      BY <2>1, <2>3 DEF BufferTypes
    <2>7. /\ e_out' \in [DownChan -> Seq(Msg)]
          /\ \A d \in DownChan : e_out'[d] \in Seq(ChanMsg(d))
      BY <2>1, <2>5 DEF BufferTypes, DownChan
    <2>8. e_returned' \in Seq(ReturnedFlits)
      BY <2>1, <2>4 DEF CounterTypes
    <2>9. BufferTypes'
      BY <1>6, <2>6, <2>7 DEF EProcess, BufferTypes
    <2>10. CounterTypes'
      BY <1>6, <2>8 DEF EProcess, CounterTypes
    <2> QED
      BY <1>6, <2>9, <2>10 DEF EProcess, reqVars, RequesterTypes, WireTypes
  <1>7. ASSUME NEW c \in DownChan, ETakeCredits(c) PROVE Types'
    <2>1. PICK m :
        /\ m = Head(e_out[c]) /\ e_send[c] >= EndpointFlits(m)
        /\ e_send' = [e_send EXCEPT ![c] = @ - EndpointFlits(m)]
        /\ e_flits' = Append(e_flits, m)
      BY <1>7, Zenon DEF ETakeCredits
    <2>2. e_out[c] \in Seq(Msg) /\ e_out[c] \in Seq(ChanMsg(c)) /\ e_out[c] # <<>>
      BY <1>7 DEF ETakeCredits, BufferTypes
    <2>3. /\ m \in ChanMsg(c) /\ m \in Msg
          /\ Tail(e_out[c]) \in Seq(Msg) /\ Tail(e_out[c]) \in Seq(ChanMsg(c))
      BY <2>1, <2>2
    <2>4. m \in DownMsg /\ EndpointFlits(m) \in Nat
      BY <2>3, DownChanMsg, EndpointSizes
    <2>5. e_send' \in [DownChan -> 0 .. CounterMax]
      BY <2>1, <2>4, CreditsAssumption DEF CounterTypes
    <2>6. /\ e_out' \in [DownChan -> Seq(Msg)]
          /\ \A d \in DownChan : e_out'[d] \in Seq(ChanMsg(d))
      BY <1>7, <2>3 DEF ETakeCredits, BufferTypes
    <2>7. BufferTypes'
      BY <1>7, <2>1, <2>4, <2>6 DEF ETakeCredits, BufferTypes
    <2>8. CounterTypes'
      BY <1>7, <2>5 DEF ETakeCredits, CounterTypes
    <2> QED
      BY <1>7, <2>7, <2>8 DEF ETakeCredits, reqVars, RequesterTypes, WireTypes
  <1> QED
    BY <1>1, <1>2, <1>3, <1>4, <1>5, <1>6, <1>7, Zenon

\* Every step keeps the types.
LEMMA TypesNext ==
  ASSUME Types, [Next]_vars PROVE Types'
  <1>1. CASE Next
    BY <1>1, TypesRequester, TypesEndpoint, Zenon DEF Next, System
  <1>2. CASE UNCHANGED vars
    BY <1>2 DEF vars, reqVars, epVars, Types, RequesterTypes, WireTypes, BufferTypes, CounterTypes
  <1> QED
    BY <1>1, <1>2

\* Queues hold messages of their side and channel, counters stay in range.
THEOREM TypeCorrect == Spec => []TypeOK
  <1>1. Init => Types
    BY TypesInit
  <1>2. Types /\ [Next]_vars => Types'
    BY TypesNext
  <1>3. Types => TypeOK
    BY TypesTypeOK
  <1> QED
    BY <1>1, <1>2, <1>3, PTL DEF Spec

-----------------------------------------------------------------------------
(* How the sums change *)

\* The flits of messages: none, one more, one less, two lots together.
LEMMA FlitsChange ==
  ASSUME NEW c
  PROVE  /\ FlitsOn(<<>>, c, TakenFlits) = 0 /\ FlitsOn(<<>>, c, EndpointFlits) = 0
         /\ \A q \in Seq(UpMsg) : \A m \in UpMsg :
               FlitsOn(Append(q, m), c, TakenFlits)
               = FlitsOn(q, c, TakenFlits) + (IF ChannelOf(m.op) = c THEN TakenFlits(m) ELSE 0)
         /\ \A q \in Seq(Msg) : \A m \in Msg :
               FlitsOn(Append(q, m), c, EndpointFlits)
               = FlitsOn(q, c, EndpointFlits) + (IF ChannelOf(m.op) = c THEN EndpointFlits(m) ELSE 0)
         /\ \A q \in Seq(Msg) : q # <<>> =>
               FlitsOn(q, c, EndpointFlits)
               = (IF ChannelOf(Head(q).op) = c THEN EndpointFlits(Head(q)) ELSE 0)
                 + FlitsOn(Tail(q), c, EndpointFlits)
         /\ \A q, r \in Seq(Msg) :
               FlitsOn(q \o r, c, EndpointFlits)
               = FlitsOn(q, c, EndpointFlits) + FlitsOn(r, c, EndpointFlits)
  <1>0. TakenW(c) \in [UpMsg -> Nat] /\ EndpointW(c) \in [Msg -> Nat]
    BY MessageWeights, Zenon
  <1>1. FlitsOn(<<>>, c, TakenFlits) = 0 /\ FlitsOn(<<>>, c, EndpointFlits) = 0
    <2>1. <<>> \in Seq(UpMsg) /\ <<>> \in Seq(Msg)
      OBVIOUS
    <2> QED
      BY <2>1, FlitsWeigh, WeighNone, Zenon
  <1>2. ASSUME NEW q \in Seq(UpMsg), NEW m \in UpMsg
        PROVE  FlitsOn(Append(q, m), c, TakenFlits)
               = FlitsOn(q, c, TakenFlits) + (IF ChannelOf(m.op) = c THEN TakenFlits(m) ELSE 0)
    <2>1. Append(q, m) \in Seq(UpMsg)
      OBVIOUS
    <2>2. TakenW(c)[m] = IF ChannelOf(m.op) = c THEN TakenFlits(m) ELSE 0
      BY Zenon DEF TakenW
    <2>3. Weigh(TakenW(c), Append(q, m)) = Weigh(TakenW(c), q) + TakenW(c)[m]
      BY <1>0, WeighAppend, Zenon
    <2>4. /\ FlitsOn(q, c, TakenFlits) = Weigh(TakenW(c), q)
          /\ FlitsOn(Append(q, m), c, TakenFlits) = Weigh(TakenW(c), Append(q, m))
      BY <2>1, FlitsWeigh, Zenon
    <2> QED
      BY <2>2, <2>3, <2>4, Zenon
  <1>3. ASSUME NEW q \in Seq(Msg), NEW m \in Msg
        PROVE  FlitsOn(Append(q, m), c, EndpointFlits)
               = FlitsOn(q, c, EndpointFlits) + (IF ChannelOf(m.op) = c THEN EndpointFlits(m) ELSE 0)
    <2>1. Append(q, m) \in Seq(Msg)
      OBVIOUS
    <2>2. EndpointW(c)[m] = IF ChannelOf(m.op) = c THEN EndpointFlits(m) ELSE 0
      BY Zenon DEF EndpointW
    <2>3. Weigh(EndpointW(c), Append(q, m)) = Weigh(EndpointW(c), q) + EndpointW(c)[m]
      BY <1>0, WeighAppend, Zenon
    <2>4. /\ FlitsOn(q, c, EndpointFlits) = Weigh(EndpointW(c), q)
          /\ FlitsOn(Append(q, m), c, EndpointFlits) = Weigh(EndpointW(c), Append(q, m))
      BY <2>1, FlitsWeigh, Zenon
    <2> QED
      BY <2>2, <2>3, <2>4, Zenon
  <1>4. ASSUME NEW q \in Seq(Msg), q # <<>>
        PROVE  FlitsOn(q, c, EndpointFlits)
               = (IF ChannelOf(Head(q).op) = c THEN EndpointFlits(Head(q)) ELSE 0)
                 + FlitsOn(Tail(q), c, EndpointFlits)
    <2>1. Tail(q) \in Seq(Msg) /\ Head(q) \in Msg
      BY <1>4
    <2>2. EndpointW(c)[Head(q)] = IF ChannelOf(Head(q).op) = c THEN EndpointFlits(Head(q)) ELSE 0
      BY <2>1, Zenon DEF EndpointW
    <2>3. Weigh(EndpointW(c), q) = EndpointW(c)[Head(q)] + Weigh(EndpointW(c), Tail(q))
      BY <1>0, <1>4, WeighTail, Zenon
    <2>4. /\ FlitsOn(q, c, EndpointFlits) = Weigh(EndpointW(c), q)
          /\ FlitsOn(Tail(q), c, EndpointFlits) = Weigh(EndpointW(c), Tail(q))
      BY <2>1, FlitsWeigh, Zenon
    <2> QED
      BY <2>2, <2>3, <2>4, Zenon
  <1>5. ASSUME NEW q \in Seq(Msg), NEW r \in Seq(Msg)
        PROVE  FlitsOn(q \o r, c, EndpointFlits)
               = FlitsOn(q, c, EndpointFlits) + FlitsOn(r, c, EndpointFlits)
    <2>1. q \o r \in Seq(Msg)
      OBVIOUS
    <2>2. Weigh(EndpointW(c), q \o r) = Weigh(EndpointW(c), q) + Weigh(EndpointW(c), r)
      BY <1>0, WeighBoth, Zenon
    <2>3. /\ FlitsOn(q, c, EndpointFlits) = Weigh(EndpointW(c), q)
          /\ FlitsOn(r, c, EndpointFlits) = Weigh(EndpointW(c), r)
          /\ FlitsOn(q \o r, c, EndpointFlits) = Weigh(EndpointW(c), q \o r)
      BY <2>1, FlitsWeigh, Zenon
    <2> QED
      BY <2>2, <2>3, Zenon
  <1> QED
    BY <1>1, <1>2, <1>3, <1>4, <1>5, Zenon

\* Both sides count the same flits for what the endpoint sends.
LEMMA DownFlitsAgree ==
  ASSUME NEW c, NEW q \in Seq(DownMsg)
  PROVE  FlitsOn(q, c, EndpointFlits) = FlitsOn(q, c, GivenBackFlits)
  <1>1. \A k \in 1 .. Len(q) : q[k] \in DownMsg
    OBVIOUS
  <1>2. \A k \in 1 .. Len(q) : EndpointFlits(q[k]) = GivenBackFlits(q[k])
    BY <1>1, DownSizes, Zenon
  <1>3. [k \in 1 .. Len(q) |-> IF ChannelOf(q[k].op) = c THEN EndpointFlits(q[k]) ELSE 0]
        = [k \in 1 .. Len(q) |-> IF ChannelOf(q[k].op) = c THEN GivenBackFlits(q[k]) ELSE 0]
    BY <1>2, Zenon
  <1> QED
    BY <1>3, Zenon DEF FlitsOn

\* The packets on the wires.
LEMMA PacketsChange ==
  ASSUME NEW c \in Channel
  PROVE  /\ \A q \in Seq(UpPacket) : InPackets(q, c, TakenFlits) \in Nat /\ InFields(q, c) \in Nat
         /\ \A q \in Seq(DownPacket) : InPackets(q, c, GivenBackFlits) \in Nat /\ InFields(q, c) \in Nat
         /\ \A q \in Seq(UpPacket) : \A p \in UpPacket :
               /\ InPackets(Append(q, p), c, TakenFlits)
                  = InPackets(q, c, TakenFlits) + FlitsOn(p.msgs, c, TakenFlits)
               /\ InFields(Append(q, p), c) = InFields(q, c) + InField(p.field, c)
         /\ \A q \in Seq(UpPacket) : q # <<>> =>
               /\ InPackets(q, c, TakenFlits)
                  = FlitsOn(Head(q).msgs, c, TakenFlits) + InPackets(Tail(q), c, TakenFlits)
               /\ InFields(q, c) = InField(Head(q).field, c) + InFields(Tail(q), c)
         /\ \A q \in Seq(DownPacket) : \A p \in DownPacket :
               /\ InPackets(Append(q, p), c, GivenBackFlits)
                  = InPackets(q, c, GivenBackFlits) + FlitsOn(p.msgs, c, GivenBackFlits)
               /\ InFields(Append(q, p), c) = InFields(q, c) + InField(p.field, c)
         /\ \A q \in Seq(DownPacket) : q # <<>> =>
               /\ InPackets(q, c, GivenBackFlits)
                  = FlitsOn(Head(q).msgs, c, GivenBackFlits) + InPackets(Tail(q), c, GivenBackFlits)
               /\ InFields(q, c) = InField(Head(q).field, c) + InFields(Tail(q), c)
  <1> DEFINE Any == UpPacket \cup DownPacket
  <1>0. /\ UpPacketW(c) \in [UpPacket -> Nat] /\ DownPacketW(c) \in [DownPacket -> Nat]
        /\ PacketFieldW(c) \in [Any -> Nat]
        /\ \A q \in Seq(UpPacket) : InPackets(q, c, TakenFlits) = Weigh(UpPacketW(c), q)
        /\ \A q \in Seq(DownPacket) : InPackets(q, c, GivenBackFlits) = Weigh(DownPacketW(c), q)
        /\ \A q \in Seq(Any) : InFields(q, c) = Weigh(PacketFieldW(c), q)
    BY PacketsWeigh, Zenon
  <1>1. /\ \A p \in UpPacket : UpPacketW(c)[p] = FlitsOn(p.msgs, c, TakenFlits)
        /\ \A p \in DownPacket : DownPacketW(c)[p] = FlitsOn(p.msgs, c, GivenBackFlits)
        /\ \A p \in Any : PacketFieldW(c)[p] = InField(p.field, c)
    BY Zenon DEF UpPacketW, DownPacketW, PacketFieldW
  <1>2. /\ UpPacket \subseteq Any /\ DownPacket \subseteq Any
        /\ \A q \in Seq(UpPacket) : q \in Seq(Any)
        /\ \A q \in Seq(DownPacket) : q \in Seq(Any)
    <2>1. UpPacket \subseteq Any /\ DownPacket \subseteq Any
      BY Zenon
    <2> HIDE DEF Any
    <2> QED
      BY <2>1, SeqMono, Zenon
  <1> HIDE DEF Any
  <1>5. ASSUME NEW q \in Seq(UpPacket)
        PROVE  InPackets(q, c, TakenFlits) \in Nat /\ InFields(q, c) \in Nat
    BY <1>0, <1>2, WeighNat, Zenon
  <1>6. ASSUME NEW q \in Seq(DownPacket)
        PROVE  InPackets(q, c, GivenBackFlits) \in Nat /\ InFields(q, c) \in Nat
    BY <1>0, <1>2, WeighNat, Zenon
  <1>7. ASSUME NEW q \in Seq(Any), NEW p \in Any
        PROVE  InFields(Append(q, p), c) = InFields(q, c) + InField(p.field, c)
    <2>1. Append(q, p) \in Seq(Any)
      OBVIOUS
    <2>2. Weigh(PacketFieldW(c), Append(q, p)) = Weigh(PacketFieldW(c), q) + PacketFieldW(c)[p]
      BY <1>0, WeighAppend, Zenon
    <2>3. InFields(q, c) = Weigh(PacketFieldW(c), q) /\ InFields(Append(q, p), c) = Weigh(PacketFieldW(c), Append(q, p))
      BY <1>0, <2>1, Zenon
    <2> QED
      BY <1>1, <2>2, <2>3, Zenon
  <1>8. ASSUME NEW q \in Seq(Any), q # <<>>
        PROVE  InFields(q, c) = InField(Head(q).field, c) + InFields(Tail(q), c)
    <2>1. Head(q) \in Any /\ Tail(q) \in Seq(Any)
      BY <1>8
    <2>2. Weigh(PacketFieldW(c), q) = PacketFieldW(c)[Head(q)] + Weigh(PacketFieldW(c), Tail(q))
      BY <1>0, <1>8, WeighTail, Zenon
    <2>3. InFields(q, c) = Weigh(PacketFieldW(c), q) /\ InFields(Tail(q), c) = Weigh(PacketFieldW(c), Tail(q))
      BY <1>0, <2>1, Zenon
    <2> QED
      BY <1>1, <2>1, <2>2, <2>3, Zenon
  <1>9. ASSUME NEW q \in Seq(UpPacket), NEW p \in UpPacket
        PROVE  InPackets(Append(q, p), c, TakenFlits)
               = InPackets(q, c, TakenFlits) + FlitsOn(p.msgs, c, TakenFlits)
    <2>1. Append(q, p) \in Seq(UpPacket)
      OBVIOUS
    <2>2. Weigh(UpPacketW(c), Append(q, p)) = Weigh(UpPacketW(c), q) + UpPacketW(c)[p]
      BY <1>0, WeighAppend, Zenon
    <2>3. InPackets(q, c, TakenFlits) = Weigh(UpPacketW(c), q) /\ InPackets(Append(q, p), c, TakenFlits) = Weigh(UpPacketW(c), Append(q, p))
      BY <1>0, <2>1, Zenon
    <2> QED
      BY <1>1, <2>2, <2>3, Zenon
  <1>10. ASSUME NEW q \in Seq(UpPacket), q # <<>>
         PROVE  InPackets(q, c, TakenFlits)
                = FlitsOn(Head(q).msgs, c, TakenFlits) + InPackets(Tail(q), c, TakenFlits)
    <2>1. Head(q) \in UpPacket /\ Tail(q) \in Seq(UpPacket)
      BY <1>10
    <2>2. Weigh(UpPacketW(c), q) = UpPacketW(c)[Head(q)] + Weigh(UpPacketW(c), Tail(q))
      BY <1>0, <1>10, WeighTail, Zenon
    <2>3. InPackets(q, c, TakenFlits) = Weigh(UpPacketW(c), q) /\ InPackets(Tail(q), c, TakenFlits) = Weigh(UpPacketW(c), Tail(q))
      BY <1>0, <2>1, Zenon
    <2> QED
      BY <1>1, <2>1, <2>2, <2>3, Zenon
  <1>11. ASSUME NEW q \in Seq(DownPacket), NEW p \in DownPacket
         PROVE  InPackets(Append(q, p), c, GivenBackFlits)
                = InPackets(q, c, GivenBackFlits) + FlitsOn(p.msgs, c, GivenBackFlits)
    <2>1. Append(q, p) \in Seq(DownPacket)
      OBVIOUS
    <2>2. Weigh(DownPacketW(c), Append(q, p)) = Weigh(DownPacketW(c), q) + DownPacketW(c)[p]
      BY <1>0, WeighAppend, Zenon
    <2>3. InPackets(q, c, GivenBackFlits) = Weigh(DownPacketW(c), q) /\ InPackets(Append(q, p), c, GivenBackFlits) = Weigh(DownPacketW(c), Append(q, p))
      BY <1>0, <2>1, Zenon
    <2> QED
      BY <1>1, <2>2, <2>3, Zenon
  <1>12. ASSUME NEW q \in Seq(DownPacket), q # <<>>
         PROVE  InPackets(q, c, GivenBackFlits)
                = FlitsOn(Head(q).msgs, c, GivenBackFlits) + InPackets(Tail(q), c, GivenBackFlits)
    <2>1. Head(q) \in DownPacket /\ Tail(q) \in Seq(DownPacket)
      BY <1>12
    <2>2. Weigh(DownPacketW(c), q) = DownPacketW(c)[Head(q)] + Weigh(DownPacketW(c), Tail(q))
      BY <1>0, <1>12, WeighTail, Zenon
    <2>3. InPackets(q, c, GivenBackFlits) = Weigh(DownPacketW(c), q) /\ InPackets(Tail(q), c, GivenBackFlits) = Weigh(DownPacketW(c), Tail(q))
      BY <1>0, <2>1, Zenon
    <2> QED
      BY <1>1, <2>1, <2>2, <2>3, Zenon
  <1> QED
    BY <1>2, <1>5, <1>6, <1>7, <1>8, <1>9, <1>10, <1>11, <1>12, Zenon

\* Credit fields outside packets.
LEMMA FieldsChange ==
  ASSUME NEW c \in Channel
  PROVE  /\ Credit(<<>>, c) = 0
         /\ \A f \in CreditField : Credit(<<f>>, c) = InField(f, c)
         /\ \A q \in Seq(CreditField) : Credit(q, c) \in Nat
  <1>0. /\ FieldW(c) \in [CreditField -> Nat]
        /\ \A q \in Seq(CreditField) : Credit(q, c) = Weigh(FieldW(c), q)
    BY PacketsWeigh, Zenon
  <1>1. <<>> \in Seq(CreditField)
    OBVIOUS
  <1>2. Credit(<<>>, c) = 0
    BY <1>0, <1>1, WeighNone, Zenon
  <1>3. ASSUME NEW f \in CreditField PROVE Credit(<<f>>, c) = InField(f, c)
    <2>1. <<f>> = Append(<<>>, f) /\ <<f>> \in Seq(CreditField)
      OBVIOUS
    <2>2. Credit(<<f>>, c) = Weigh(FieldW(c), Append(<<>>, f))
      BY <1>0, <2>1, Zenon
    <2>3. Weigh(FieldW(c), Append(<<>>, f)) = Weigh(FieldW(c), <<>>) + FieldW(c)[f]
      BY <1>0, <1>1, WeighAppend, Zenon
    <2>4. FieldW(c)[f] = InField(f, c) /\ InField(f, c) \in Nat
      BY FieldNat, Zenon DEF FieldW
    <2> QED
      BY <2>2, <2>3, <2>4, WeighNone
  <1>4. ASSUME NEW q \in Seq(CreditField) PROVE Credit(q, c) \in Nat
    BY <1>0, WeighNat, Zenon
  <1> QED
    BY <1>2, <1>3, <1>4, Zenon

\* credits_in_fifo: one more, one less.
LEMMA ReturnedChange ==
  ASSUME Types, NEW c
  PROVE  /\ Returned(c) \in Nat
         /\ \A r \in ReturnedFlits : e_returned' = Append(e_returned, r) =>
               Returned(c)' = Returned(c) + (IF r.chan = c THEN r.flits ELSE 0)
         /\ e_returned # <<>> /\ e_returned' = Tail(e_returned) =>
               /\ Returned(c) = (IF Head(e_returned).chan = c THEN Head(e_returned).flits ELSE 0)
                                + Returned(c)'
               /\ Returned(c)' \in Nat
  <1>0. e_returned \in Seq(ReturnedFlits) /\ ReturnedW(c) \in [ReturnedFlits -> Nat]
    BY MessageWeights, Zenon DEF Types, CounterTypes
  <1>1. Returned(c) = Weigh(ReturnedW(c), e_returned)
    BY <1>0, ReturnedWeighs, Zenon
  <1>2. e_returned' \in Seq(ReturnedFlits) => Returned(c)' = Weigh(ReturnedW(c), e_returned')
    <2> SUFFICES ASSUME e_returned' \in Seq(ReturnedFlits)
                 PROVE  Returned(c)' = Weigh(ReturnedW(c), e_returned')
      OBVIOUS
    <2>1. \A k \in 1 .. Len(e_returned') : e_returned'[k] \in ReturnedFlits
      OBVIOUS
    <2>2. [k \in 1 .. Len(e_returned') |-> IF e_returned'[k].chan = c THEN e_returned'[k].flits ELSE 0]
          = [k \in 1 .. Len(e_returned') |-> ReturnedW(c)[e_returned'[k]]]
      BY <2>1, Zenon DEF ReturnedW
    <2> QED
      BY <2>2, Zenon DEF Returned, Weigh
  <1>3. \A r \in ReturnedFlits : ReturnedW(c)[r] = IF r.chan = c THEN r.flits ELSE 0
    BY Zenon DEF ReturnedW
  <1>4. ASSUME NEW r \in ReturnedFlits, e_returned' = Append(e_returned, r)
        PROVE  Returned(c)' = Returned(c) + (IF r.chan = c THEN r.flits ELSE 0)
    <2>1. Append(e_returned, r) \in Seq(ReturnedFlits)
      BY <1>0
    <2>2. Weigh(ReturnedW(c), Append(e_returned, r))
          = Weigh(ReturnedW(c), e_returned) + ReturnedW(c)[r]
      BY <1>0, WeighAppend, Zenon
    <2>3. Returned(c)' = Weigh(ReturnedW(c), Append(e_returned, r))
      BY <1>2, <1>4, <2>1, Zenon
    <2> QED
      BY <1>1, <1>3, <2>2, <2>3, Zenon
  <1>5. ASSUME e_returned # <<>>, e_returned' = Tail(e_returned)
        PROVE  /\ Returned(c) = (IF Head(e_returned).chan = c THEN Head(e_returned).flits ELSE 0)
                                + Returned(c)'
               /\ Returned(c)' \in Nat
    <2>1. Tail(e_returned) \in Seq(ReturnedFlits) /\ Head(e_returned) \in ReturnedFlits
      BY <1>0, <1>5
    <2>2. Weigh(ReturnedW(c), e_returned)
          = ReturnedW(c)[Head(e_returned)] + Weigh(ReturnedW(c), Tail(e_returned))
      BY <1>0, <1>5, WeighTail, Zenon
    <2>3. Returned(c)' = Weigh(ReturnedW(c), Tail(e_returned))
      BY <1>2, <1>5, <2>1, Zenon
    <2>4. Weigh(ReturnedW(c), Tail(e_returned)) \in Nat
      BY <1>0, <2>1, WeighNat, Zenon
    <2> QED
      BY <1>1, <1>3, <2>1, <2>2, <2>3, <2>4, Zenon
  <1>6. Returned(c) \in Nat
    BY <1>0, <1>1, WeighNat, Zenon
  <1> QED
    BY <1>4, <1>5, <1>6, Zenon

-----------------------------------------------------------------------------
(* The counters never wrap *)

\* Until update_counter has taken a grant off its counter no other one is made,
\* and nothing else reduces the counter.
LEMMA NoUnderflowNext ==
  ASSUME Types, NoUnderflow, [Next]_vars PROVE NoUnderflow'
  <1>1. CASE ESetupPacket
    <2>1. PICK field : /\ field = EHighest
                       /\ e_remove' = IF field = NoCredit THEN e_remove ELSE Append(e_remove, field)
      BY <1>1, Zenon DEF ESetupPacket
    <2>2. e_remove = <<>> /\ e_counter' = e_counter
      BY <1>1 DEF ESetupPacket, RemovalDone
    <2>3. \/ field = NoCredit
          \/ field \in Grant /\ TwoTo(field.credit) <= e_counter[field.chan]
      BY <2>1, HighestOfEndpoint, Zenon DEF Types, CounterTypes, Grant
    <2>4. CASE field = NoCredit
      BY <2>1, <2>2, <2>4 DEF NoUnderflow
    <2>5. CASE field # NoCredit
      <3>1. Head(e_remove') = field
        BY <2>1, <2>2, <2>5
      <3>2. e_counter[field.chan] \in Nat /\ TwoTo(field.credit) \in Nat
        BY <2>3, <2>5, CreditsAssumption, PowerBound DEF Types, CounterTypes, Grant
      <3> QED
        BY <2>2, <2>3, <2>5, <3>1, <3>2 DEF NoUnderflow
    <2> QED
      BY <2>4, <2>5
  <1>2. CASE EUpdateCounter
    <2>1. e_remove \in Seq(Grant) /\ Len(e_remove) <= 1
      BY DEF Types, CounterTypes
    <2>2. e_remove' = <<>>
      <3>1. CASE e_remove # <<>>
        <4>1. e_remove' = Tail(e_remove)
          BY <1>2, <3>1, Zenon DEF EUpdateCounter
        <4> QED
          BY <2>1, <3>1, <4>1
      <3>2. CASE e_remove = <<>>
        BY <1>2, <3>2 DEF EUpdateCounter
      <3> QED
        BY <3>1, <3>2
    <2> QED
      BY <2>2 DEF NoUnderflow
  <1>3. CASE ~ ESetupPacket /\ ~ EUpdateCounter
    <2>1. UNCHANGED <<e_remove, e_counter>>
      BY <1>3 DEF Next, System, vars, epVars, RBegin, RTake, RProcessProbe, RAnswer, RSendPacket,
                  RReceive, EReceive, ESendPacket, EProcess, ETakeCredits, EProbe
    <2> QED
      BY <2>1 DEF NoUnderflow
  <1> QED
    BY <1>1, <1>2, <1>3

\* What OmnixtendCreditHandler takes off a counter is there.
THEOREM CountersNeverWrap == Spec => []NoUnderflow
  <1>1. Init => Types /\ NoUnderflow
    BY TypesInit DEF Init, NoUnderflow
  <1>2. Types /\ NoUnderflow /\ [Next]_vars => (Types /\ NoUnderflow)'
    BY TypesNext, NoUnderflowNext
  <1> QED
    BY <1>1, <1>2, PTL DEF Spec

-----------------------------------------------------------------------------
(* Conservation *)

\* The places where a credit of the requester can be.
LEMMA UpPlaces ==
  ASSUME Types, NEW c \in UpChan
  PROVE  /\ c \in Channel /\ r_send[c] \in Nat /\ FlitsOn(r_out, c, TakenFlits) \in Nat
         /\ InPackets(up, c, TakenFlits) \in Nat /\ FlitsOn(e_in[c], c, EndpointFlits) \in Nat
         /\ Returned(c) \in Nat /\ e_counter[c] \in 0 .. CounterMax
         /\ Credit(e_remove, c) \in Nat /\ Credit(e_builder, c) \in Nat /\ InFields(down, c) \in Nat
  <1>1. c \in Channel
    BY Channels
  <1>2. r_send[c] \in Nat /\ e_counter[c] \in 0 .. CounterMax
    BY DEF Types, RequesterTypes, CounterTypes
  <1>3. FlitsOn(r_out, c, TakenFlits) \in Nat /\ FlitsOn(e_in[c], c, EndpointFlits) \in Nat
    <2>1. r_out \in Seq(UpMsg) /\ e_in[c] \in Seq(Msg)
      BY DEF Types, RequesterTypes, BufferTypes
    <2> QED
      BY <2>1, FlitsWeigh, Zenon
  <1>4. InPackets(up, c, TakenFlits) \in Nat /\ InFields(down, c) \in Nat
    BY <1>1, PacketsChange, Zenon DEF Types, WireTypes
  <1>5. Returned(c) \in Nat
    BY ReturnedChange, Zenon
  <1>6. Credit(e_remove, c) \in Nat /\ Credit(e_builder, c) \in Nat
    <2>1. Grant \subseteq CreditField
      BY Channels DEF Grant
    <2>2. e_remove \in Seq(CreditField) /\ e_builder \in Seq(CreditField)
      BY <2>1, Channels, SeqMono, Zenon DEF Types, CounterTypes
    <2> QED
      BY <1>1, <2>2, FieldsChange, Zenon
  <1> QED
    BY <1>1, <1>2, <1>3, <1>4, <1>5, <1>6

\* A sequence of at most one member.
LEMMA AtMostOne ==
  ASSUME NEW X, NEW q \in Seq(X), Len(q) <= 1, q # <<>>
  PROVE  q = <<Head(q)>> /\ Tail(q) = <<>> /\ Head(q) \in X
  <1>1. Len(q) \in Nat \ {0}
    OBVIOUS
  <1>2. Len(q) = 1
    <2>1. \A n \in Nat \ {0} : n <= 1 => n = 1
      OBVIOUS
    <2> QED
      BY <1>1, <2>1, Zenon
  <1>3. q = <<q[1]>> /\ Head(q) = q[1] /\ q[1] \in X
    BY <1>2
  <1>4. Tail(q) \in Seq(X) /\ Len(Tail(q)) = 0
    BY <1>2
  <1>5. Tail(q) = <<>>
    BY <1>4
  <1> QED
    BY <1>3, <1>5, Zenon

\* Credits are taken for a message that is sent.
LEMMA TakeKeepsCredits ==
  ASSUME Types, NEW m \in UpMsg, Take(m), NEW c \in UpChan
  PROVE  /\ r_send[c]' + FlitsOn(r_out, c, TakenFlits)' = r_send[c] + FlitsOn(r_out, c, TakenFlits)
         /\ r_send[c]' \in Nat /\ FlitsOn(r_out, c, TakenFlits)' \in Nat
  <1>1. /\ r_send' \in [UpChan -> Nat] /\ r_out' \in Seq(UpMsg)
        /\ r_send' = [r_send EXCEPT ![ChannelOf(m.op)] = @ - TakenFlits(m)]
        /\ ChannelOf(m.op) \in UpChan /\ TakenFlits(m) \in Nat
        /\ r_send[ChannelOf(m.op)] >= TakenFlits(m) /\ r_out' = Append(r_out, m)
    BY TakeTypes, Zenon
  <1>2. r_out \in Seq(UpMsg) /\ r_send \in [UpChan -> Nat]
    BY DEF Types, RequesterTypes
  <1>3. FlitsOn(r_out', c, TakenFlits)
        = FlitsOn(r_out, c, TakenFlits) + (IF ChannelOf(m.op) = c THEN TakenFlits(m) ELSE 0)
    BY <1>1, <1>2, FlitsChange, Zenon
  <1>4. FlitsOn(r_out, c, TakenFlits) \in Nat /\ FlitsOn(r_out', c, TakenFlits) \in Nat
    BY <1>1, <1>2, FlitsWeigh, Zenon
  <1>5. r_send'[c] \in Nat /\ r_send[c] \in Nat
    BY <1>1, <1>2
  <1>6. CASE ChannelOf(m.op) = c
    <2>1. r_send'[c] = r_send[c] - TakenFlits(m)
      BY <1>1, <1>2, <1>6
    <2>2. FlitsOn(r_out', c, TakenFlits) = FlitsOn(r_out, c, TakenFlits) + TakenFlits(m)
      BY <1>3, <1>6, Zenon
    <2>3. TakenFlits(m) \in Nat
      BY <1>1, Zenon
    <2>4. \A a, b, x \in Nat : (a - x) + (b + x) = a + b
      OBVIOUS
    <2>5. (r_send[c] - TakenFlits(m)) + (FlitsOn(r_out, c, TakenFlits) + TakenFlits(m))
          = r_send[c] + FlitsOn(r_out, c, TakenFlits)
      BY <1>4, <1>5, <2>3, <2>4, ZenonT(60)
    <2>6. r_send'[c] + FlitsOn(r_out', c, TakenFlits) = r_send[c] + FlitsOn(r_out, c, TakenFlits)
      BY <2>1, <2>2, <2>5, Zenon
    <2> QED
      BY <1>4, <1>5, <2>6, Zenon
  <1>7. CASE ChannelOf(m.op) # c
    <2>1. r_send'[c] = r_send[c]
      BY <1>1, <1>2, <1>7
    <2> QED
      BY <1>3, <1>4, <1>5, <1>7, <2>1
  <1> QED
    BY <1>6, <1>7

\* The requester's actions keep its credits: ...
LEMMA UpKeptByRequester ==
  ASSUME Types, NEW c \in UpChan,
         \/ \E t \in Thread : RBegin(t) \/ RTake(t)
         \/ RProcessProbe \/ RAnswer \/ RSendPacket \/ RReceive
  PROVE  UpCredits(c)' = UpCredits(c)
  <1>0. /\ c \in Channel /\ r_send[c] \in Nat /\ FlitsOn(r_out, c, TakenFlits) \in Nat
        /\ InPackets(up, c, TakenFlits) \in Nat /\ FlitsOn(e_in[c], c, EndpointFlits) \in Nat
        /\ Returned(c) \in Nat /\ e_counter[c] \in 0 .. CounterMax /\ CounterMax \in Nat
        /\ Credit(e_remove, c) \in Nat /\ Credit(e_builder, c) \in Nat /\ InFields(down, c) \in Nat
    BY UpPlaces, CreditsAssumption, Zenon
  <1>a. UNCHANGED epVars =>
           /\ Returned(c)' = Returned(c) /\ Credit(e_remove, c)' = Credit(e_remove, c)
           /\ Credit(e_builder, c)' = Credit(e_builder, c) /\ e_counter[c]' = e_counter[c]
           /\ FlitsOn(e_in[c], c, EndpointFlits)' = FlitsOn(e_in[c], c, EndpointFlits)
    BY Zenon DEF epVars, Returned
  <1>1. ASSUME NEW t \in Thread, RBegin(t) PROVE UpCredits(c)' = UpCredits(c)
    BY <1>1, <1>a, Zenon DEF RBegin, UpCredits
  <1>2. CASE RProcessProbe
    BY <1>2, <1>a, Zenon DEF RProcessProbe, UpCredits
  <1>3. ASSUME NEW m \in UpMsg, Take(m), UNCHANGED <<up, down, epVars>>
        PROVE  UpCredits(c)' = UpCredits(c)
    <2>1. /\ r_send[c]' + FlitsOn(r_out, c, TakenFlits)' = r_send[c] + FlitsOn(r_out, c, TakenFlits)
          /\ r_send[c]' \in Nat /\ FlitsOn(r_out, c, TakenFlits)' \in Nat
      BY <1>3, TakeKeepsCredits, Zenon
    <2>2. /\ InPackets(up, c, TakenFlits)' = InPackets(up, c, TakenFlits)
          /\ InFields(down, c)' = InFields(down, c)
      BY <1>3, Zenon
    <2> QED
      BY <1>0, <1>a, <1>3, <2>1, <2>2 DEF UpCredits
  <1>4. ASSUME NEW t \in Thread, RTake(t) PROVE UpCredits(c)' = UpCredits(c)
    <2> DEFINE m == [op |-> r_app[t].op, len |-> r_app[t].len, src |-> t]
    <2>1. m \in UpMsg /\ Take(m)
      BY <1>4, AskedTypes, Zenon DEF RTake
    <2>2. UNCHANGED <<up, down, epVars>>
      BY <1>4, Zenon DEF RTake
    <2> HIDE DEF m
    <2> QED
      BY <1>3, <2>1, <2>2, Zenon
  <1>5. CASE RAnswer
    <2>1. Head(r_answer) \in UpMsg /\ Take(Head(r_answer))
      BY <1>5 DEF RAnswer, Types, RequesterTypes
    <2>2. UNCHANGED <<up, down, epVars>>
      BY <1>5, Zenon DEF RAnswer
    <2> QED
      BY <1>3, <2>1, <2>2, Zenon
  <1>6. CASE RSendPacket
    <2>1. /\ up' = Append(up, [msgs |-> r_out, field |-> RHighest]) /\ r_out' = <<>>
          /\ UNCHANGED <<r_send, down, epVars>>
      BY <1>6, Zenon DEF RSendPacket
    <2>2. /\ RHighest \in CreditField /\ r_out \in Seq(UpMsg) /\ up \in Seq(UpPacket)
      BY HighestOfRequester DEF Types, RequesterTypes, WireTypes, CreditField
    <2>3. PICK p : /\ p \in UpPacket /\ p.msgs = r_out
                   /\ up' = Append(up, p)
      BY <2>1, <2>2 DEF UpPacket
    <2>4. InPackets(up', c, TakenFlits) = InPackets(up, c, TakenFlits) + FlitsOn(r_out, c, TakenFlits)
      BY <1>0, <2>2, <2>3, PacketsChange, Zenon
    <2>5. FlitsOn(r_out', c, TakenFlits) = 0
      BY <2>1, FlitsChange, Zenon
    <2>6. InFields(down, c)' = InFields(down, c) /\ r_send[c]' = r_send[c]
      BY <2>1, Zenon
    <2>7. /\ Returned(c)' = Returned(c) /\ Credit(e_remove, c)' = Credit(e_remove, c)
          /\ Credit(e_builder, c)' = Credit(e_builder, c) /\ e_counter[c]' = e_counter[c]
          /\ FlitsOn(e_in[c], c, EndpointFlits)' = FlitsOn(e_in[c], c, EndpointFlits)
      BY <1>a, <2>1, Zenon
    <2> QED
      BY <1>0, <2>4, <2>5, <2>6, <2>7 DEF UpCredits
  <1>7. CASE RReceive
    <2>1. PICK p : /\ p = Head(down) /\ down' = Tail(down)
                   /\ r_send' = IF p.field = NoCredit THEN r_send
                            ELSE [r_send EXCEPT ![p.field.chan] = @ + TwoTo(p.field.credit)]
                   /\ UNCHANGED <<r_out, up, epVars>> /\ down # <<>>
      BY <1>7, Zenon DEF RReceive
    <2>2. p \in DownPacket /\ down \in Seq(DownPacket) /\ Tail(down) \in Seq(DownPacket)
      BY <2>1 DEF Types, WireTypes
    <2>3. p.field \in DownField
      BY <2>2 DEF DownPacket
    <2>4. InFields(down, c) = InField(p.field, c) + InFields(down', c)
      BY <1>0, <2>1, <2>2, PacketsChange, Zenon
    <2>5. InFields(down', c) \in Nat
      BY <1>0, <2>1, <2>2, PacketsChange, Zenon
    <2>6. r_send'[c] = r_send[c] + InField(p.field, c) /\ InField(p.field, c) \in Nat
      <3>1. InField(p.field, c) \in Nat
        BY <1>0, <2>3, FieldNat, Channels
      <3>2. CASE p.field = NoCredit
        <4>1. InField(p.field, c) = 0
          BY <3>2 DEF InField, NoCredit, UpChan
        <4> QED
          BY <1>0, <2>1, <3>1, <3>2, <4>1
      <3>3. CASE p.field # NoCredit
        <4>1. p.field.chan \in UpChan /\ r_send \in [UpChan -> Nat]
          BY <2>3, <3>3 DEF DownField, Types, RequesterTypes
        <4>2. TwoTo(p.field.credit) \in Nat
          BY <2>3, <3>3, PowerBound DEF DownField
        <4> QED
          BY <2>1, <3>3, <4>1, <4>2 DEF InField
      <3> QED
        BY <3>2, <3>3
    <2>7. /\ InPackets(up, c, TakenFlits)' = InPackets(up, c, TakenFlits)
          /\ FlitsOn(r_out, c, TakenFlits)' = FlitsOn(r_out, c, TakenFlits)
      BY <2>1, Zenon
    <2>8. /\ Returned(c)' = Returned(c) /\ Credit(e_remove, c)' = Credit(e_remove, c)
          /\ Credit(e_builder, c)' = Credit(e_builder, c) /\ e_counter[c]' = e_counter[c]
          /\ FlitsOn(e_in[c], c, EndpointFlits)' = FlitsOn(e_in[c], c, EndpointFlits)
      BY <1>a, <2>1, Zenon
    <2> QED
      BY <1>0, <2>4, <2>5, <2>6, <2>7, <2>8 DEF UpCredits
  <1> QED
    BY <1>1, <1>2, <1>4, <1>5, <1>6, <1>7, Zenon

\* ... and so do the endpoint's, which needs counters that do not wrap: below 0
\* because of NoUnderflow, above CounterMax because there are no more credits.
LEMMA UpKeptByEndpoint ==
  ASSUME Types, NoUnderflow, NEW c \in UpChan, UpCredits(c) = DefaultCredits + StartCredits,
         \/ EReceive \/ ESetupPacket \/ ESendPacket \/ EUpdateCounter \/ EProbe
         \/ \E d \in UpChan : EProcess(d)
         \/ \E d \in DownChan : ETakeCredits(d)
  PROVE  UpCredits(c)' = UpCredits(c)
  <1>0. /\ c \in Channel /\ r_send[c] \in Nat /\ FlitsOn(r_out, c, TakenFlits) \in Nat
        /\ InPackets(up, c, TakenFlits) \in Nat /\ FlitsOn(e_in[c], c, EndpointFlits) \in Nat
        /\ Returned(c) \in Nat /\ e_counter[c] \in 0 .. CounterMax /\ CounterMax \in Nat
        /\ Credit(e_remove, c) \in Nat /\ Credit(e_builder, c) \in Nat /\ InFields(down, c) \in Nat
    BY UpPlaces, CreditsAssumption, Zenon
  <1>a. UNCHANGED reqVars =>
           r_send[c]' = r_send[c] /\ FlitsOn(r_out, c, TakenFlits)' = FlitsOn(r_out, c, TakenFlits)
    BY Zenon DEF reqVars
  <1>b. /\ up' = up => InPackets(up, c, TakenFlits)' = InPackets(up, c, TakenFlits)
        /\ down' = down => InFields(down, c)' = InFields(down, c)
        /\ e_in' = e_in => FlitsOn(e_in[c], c, EndpointFlits)' = FlitsOn(e_in[c], c, EndpointFlits)
        /\ e_returned' = e_returned => Returned(c)' = Returned(c)
        /\ e_counter' = e_counter => e_counter[c]' = e_counter[c]
        /\ e_remove' = e_remove => Credit(e_remove, c)' = Credit(e_remove, c)
        /\ e_builder' = e_builder => Credit(e_builder, c)' = Credit(e_builder, c)
    BY Zenon DEF Returned
  <1>1. CASE EReceive
    <2>1. PICK p :
        /\ p = Head(up) /\ up # <<>> /\ up' = Tail(up)
        /\ e_in' = [d \in UpChan |-> e_in[d] \o OnChannel(p.msgs, d)]
        /\ UNCHANGED <<reqVars, down, e_returned, e_counter, e_remove, e_builder>>
      BY <1>1, Zenon DEF EReceive
    <2>2. p \in UpPacket /\ up \in Seq(UpPacket) /\ Tail(up) \in Seq(UpPacket)
      BY <2>1 DEF Types, WireTypes
    <2>3. p.msgs \in Seq(UpMsg)
      BY <2>2 DEF UpPacket
    <2>4. InPackets(up, c, TakenFlits) = FlitsOn(p.msgs, c, TakenFlits) + InPackets(up', c, TakenFlits)
      BY <1>0, <2>1, <2>2, PacketsChange, Zenon
    <2>5. FlitsOn(p.msgs, c, TakenFlits) \in Nat /\ InPackets(up', c, TakenFlits) \in Nat
      BY <1>0, <2>1, <2>2, <2>3, PacketsChange, FlitsWeigh, Zenon
    <2>6. FlitsOn(e_in'[c], c, EndpointFlits)
          = FlitsOn(e_in[c], c, EndpointFlits) + FlitsOn(p.msgs, c, TakenFlits)
      <3>1. /\ OnChannel(p.msgs, c) \in Seq(ChanMsg(c))
            /\ FlitsOn(OnChannel(p.msgs, c), c, EndpointFlits) = FlitsOn(p.msgs, c, TakenFlits)
        BY <2>3, OnChannelWeighs, Zenon
      <3>2. OnChannel(p.msgs, c) \in Seq(Msg) /\ e_in[c] \in Seq(Msg)
        BY <3>1 DEF ChanMsg, Types, BufferTypes
      <3>3. e_in'[c] = e_in[c] \o OnChannel(p.msgs, c)
        BY <2>1, Zenon
      <3>4. FlitsOn(e_in[c] \o OnChannel(p.msgs, c), c, EndpointFlits)
            = FlitsOn(e_in[c], c, EndpointFlits) + FlitsOn(OnChannel(p.msgs, c), c, EndpointFlits)
        BY <3>2, FlitsChange, Zenon
      <3> QED
        BY <3>1, <3>3, <3>4, Zenon
    <2>7. /\ r_send[c]' = r_send[c] /\ FlitsOn(r_out, c, TakenFlits)' = FlitsOn(r_out, c, TakenFlits)
          /\ InFields(down, c)' = InFields(down, c) /\ Returned(c)' = Returned(c)
          /\ e_counter[c]' = e_counter[c] /\ Credit(e_remove, c)' = Credit(e_remove, c)
          /\ Credit(e_builder, c)' = Credit(e_builder, c)
      BY <1>a, <1>b, <2>1, Zenon
    <2> QED
      BY <1>0, <2>4, <2>5, <2>6, <2>7 DEF UpCredits
  <1>2. CASE ESetupPacket
    <2>1. PICK field :
        /\ field = EHighest /\ e_builder = <<>> /\ e_remove = <<>> /\ e_builder' = <<field>>
        /\ e_remove' = IF field = NoCredit THEN e_remove ELSE Append(e_remove, field)
        /\ UNCHANGED <<reqVars, up, down, e_in, e_returned, e_counter>>
      BY <1>2, Zenon DEF ESetupPacket, RemovalDone
    <2>2. field = NoCredit \/ field \in Grant
      BY <2>1, HighestOfEndpoint, Zenon DEF Types, CounterTypes, Grant
    <2>3. field \in CreditField
      BY <2>2, Channels DEF Grant, CreditField
    <2>4. Credit(e_builder', c) = InField(field, c) /\ Credit(e_builder, c) = 0
      BY <1>0, <2>1, <2>3, FieldsChange, Zenon
    <2>5. Credit(e_remove', c) = InField(field, c) /\ Credit(e_remove, c) = 0
      <3>1. Credit(<<>>, c) = 0 /\ Credit(<<field>>, c) = InField(field, c)
        BY <1>0, <2>3, FieldsChange, Zenon
      <3>2. CASE field = NoCredit
        <4>1. InField(field, c) = 0
          BY <3>2 DEF InField, NoCredit, UpChan
        <4> QED
          BY <2>1, <3>1, <3>2, <4>1
      <3>3. CASE field # NoCredit
        <4>1. e_remove' = <<field>>
          BY <2>1, <3>3
        <4> QED
          BY <2>1, <3>1, <4>1, Zenon
      <3> QED
        BY <3>2, <3>3
    <2>6. InField(field, c) \in Nat
      BY <1>0, <2>3, FieldNat, Zenon
    <2>7. /\ r_send[c]' = r_send[c] /\ FlitsOn(r_out, c, TakenFlits)' = FlitsOn(r_out, c, TakenFlits)
          /\ InPackets(up, c, TakenFlits)' = InPackets(up, c, TakenFlits)
          /\ FlitsOn(e_in[c], c, EndpointFlits)' = FlitsOn(e_in[c], c, EndpointFlits)
          /\ InFields(down, c)' = InFields(down, c) /\ Returned(c)' = Returned(c)
          /\ e_counter[c]' = e_counter[c]
      BY <1>a, <1>b, <2>1, Zenon
    <2> QED
      BY <1>0, <2>4, <2>5, <2>6, <2>7 DEF UpCredits
  <1>3. CASE ESendPacket
    <2>1. /\ e_builder # <<>> /\ e_builder' = <<>>
          /\ down' = Append(down, [msgs |-> e_flits, field |-> Head(e_builder)])
          /\ UNCHANGED <<reqVars, up, e_in, e_returned, e_counter, e_remove>>
      BY <1>3, Zenon DEF ESendPacket
    <2>2. e_builder = <<Head(e_builder)>> /\ Head(e_builder) \in DownField
      BY <2>1, AtMostOne, Zenon DEF Types, CounterTypes
    <2>3. PICK p : p \in DownPacket /\ p.field = Head(e_builder) /\ down' = Append(down, p)
      BY <2>1, <2>2 DEF DownPacket, Types, BufferTypes
    <2>4. down \in Seq(DownPacket) /\ p.field \in CreditField
      BY <2>2, <2>3, Channels DEF Types, WireTypes
    <2>5. InFields(down', c) = InFields(down, c) + InField(p.field, c)
      BY <1>0, <2>3, <2>4, PacketsChange, Zenon
    <2>6. Credit(e_builder, c) = InField(p.field, c) /\ Credit(e_builder', c) = 0
      BY <1>0, <2>1, <2>2, <2>3, <2>4, FieldsChange, Zenon
    <2>7. /\ r_send[c]' = r_send[c] /\ FlitsOn(r_out, c, TakenFlits)' = FlitsOn(r_out, c, TakenFlits)
          /\ InPackets(up, c, TakenFlits)' = InPackets(up, c, TakenFlits)
          /\ FlitsOn(e_in[c], c, EndpointFlits)' = FlitsOn(e_in[c], c, EndpointFlits)
          /\ Returned(c)' = Returned(c) /\ Credit(e_remove, c)' = Credit(e_remove, c)
          /\ e_counter[c]' = e_counter[c]
      BY <1>a, <1>b, <2>1, Zenon
    <2> QED
      BY <1>0, <2>5, <2>6, <2>7 DEF UpCredits
  <1>4. CASE EUpdateCounter
    <2>0. /\ UNCHANGED <<reqVars, up, down, e_in, e_builder>>
          /\ \/ /\ e_remove # <<>> /\ e_remove' = Tail(e_remove) /\ e_returned' = e_returned
                /\ e_counter' = [e_counter EXCEPT ![Head(e_remove).chan] =
                                   (@ - TwoTo(Head(e_remove).credit)) % (CounterMax + 1)]
             \/ /\ e_remove = <<>> /\ e_returned # <<>> /\ e_returned' = Tail(e_returned)
                /\ e_remove' = e_remove
                /\ e_counter' = [e_counter EXCEPT ![Head(e_returned).chan] =
                                   (@ + Head(e_returned).flits) % (CounterMax + 1)]
      BY <1>4, Zenon DEF EUpdateCounter
    <2>1. /\ r_send[c]' = r_send[c] /\ FlitsOn(r_out, c, TakenFlits)' = FlitsOn(r_out, c, TakenFlits)
          /\ InPackets(up, c, TakenFlits)' = InPackets(up, c, TakenFlits)
          /\ FlitsOn(e_in[c], c, EndpointFlits)' = FlitsOn(e_in[c], c, EndpointFlits)
          /\ InFields(down, c)' = InFields(down, c) /\ Credit(e_builder, c)' = Credit(e_builder, c)
      BY <1>a, <1>b, <2>0, Zenon
    <2>2. e_counter \in [UpChan -> 0 .. CounterMax]
      BY DEF Types, CounterTypes
    <2>3. CASE e_remove # <<>>
      <3>1. /\ e_remove' = Tail(e_remove) /\ e_returned' = e_returned
            /\ e_counter' = [e_counter EXCEPT ![Head(e_remove).chan] =
                                (@ - TwoTo(Head(e_remove).credit)) % (CounterMax + 1)]
        BY <2>0, <2>3, Zenon
      <3>2. /\ e_remove = <<Head(e_remove)>> /\ Tail(e_remove) = <<>> /\ Head(e_remove) \in Grant
        BY <2>3, AtMostOne, Zenon DEF Types, CounterTypes
      <3>3. PICK f : f = Head(e_remove) /\ f \in Grant
        BY <3>2
      <3>4. /\ f.chan \in UpChan /\ f \in CreditField /\ TwoTo(f.credit) \in Nat
            /\ TwoTo(f.credit) <= e_counter[f.chan]
        BY <2>2, <2>3, <3>3, PowerBound, Channels, CreditsAssumption DEF Grant, NoUnderflow
      <3>5. e_counter'[c] = e_counter[c] - InField(f, c) /\ InField(f, c) \in Nat
        <4>1. CASE f.chan = c
          <5>1. e_counter[c] - TwoTo(f.credit) \in 0 .. CounterMax
            BY <1>0, <3>4, <4>1
          <5>2. e_counter'[c] = (e_counter[c] - TwoTo(f.credit)) % (CounterMax + 1)
            BY <2>2, <3>1, <3>3, <4>1
          <5>3. e_counter'[c] = e_counter[c] - TwoTo(f.credit)
            BY <5>1, <5>2, Remainder, CreditsAssumption
          <5> QED
            BY <3>4, <4>1, <5>3 DEF InField
        <4>2. CASE f.chan # c
          <5>1. e_counter'[c] = e_counter[c]
            BY <2>2, <3>1, <3>3, <4>2
          <5> QED
            BY <1>0, <4>2, <5>1 DEF InField
        <4> QED
          BY <4>1, <4>2
      <3>6. Credit(e_remove, c) = InField(f, c) /\ Credit(e_remove', c) = 0
        BY <1>0, <3>1, <3>2, <3>3, <3>4, FieldsChange, Zenon
      <3>7. Returned(c)' = Returned(c)
        BY <1>b, <3>1, Zenon
      <3> QED
        BY <1>0, <2>1, <3>5, <3>6, <3>7 DEF UpCredits
    <2>4. CASE e_remove = <<>>
      <3>1. /\ e_returned # <<>> /\ e_returned' = Tail(e_returned) /\ e_remove' = e_remove
            /\ e_counter' = [e_counter EXCEPT ![Head(e_returned).chan] =
                                (@ + Head(e_returned).flits) % (CounterMax + 1)]
        BY <2>0, <2>4, Zenon
      <3>2. PICK r : r = Head(e_returned) /\ r \in ReturnedFlits
        BY <3>1 DEF Types, CounterTypes
      <3>3. r.chan \in UpChan /\ r.flits \in Nat
        BY <3>2 DEF ReturnedFlits
      <3>4. Returned(c) = (IF r.chan = c THEN r.flits ELSE 0) + Returned(c)'
        BY <3>1, <3>2, ReturnedChange, Zenon
      <3>5. Returned(c)' \in Nat
        BY <3>1, ReturnedChange, Zenon
      <3>6. Credit(e_remove, c) = 0 /\ Credit(e_remove, c)' = Credit(e_remove, c)
        BY <1>0, <1>b, <2>4, <3>1, FieldsChange, Zenon
      <3>7. e_counter'[c] = e_counter[c] + (IF r.chan = c THEN r.flits ELSE 0)
        <4>1. CASE r.chan = c
          <5>1. e_counter[c] + r.flits <= UpCredits(c)
            BY <1>0, <3>3, <3>4, <3>5, <3>6, <4>1 DEF UpCredits
          <5>2. e_counter[c] + r.flits \in 0 .. CounterMax
            BY <1>0, <3>3, <5>1, CreditsAssumption
          <5>3. e_counter'[c] = (e_counter[c] + r.flits) % (CounterMax + 1)
            BY <2>2, <3>1, <3>2, <4>1
          <5> QED
            BY <4>1, <5>2, <5>3, Remainder, CreditsAssumption
        <4>2. CASE r.chan # c
          BY <1>0, <2>2, <3>1, <3>2, <4>2
        <4> QED
          BY <4>1, <4>2
      <3> QED
        BY <1>0, <2>1, <3>3, <3>4, <3>5, <3>6, <3>7 DEF UpCredits
    <2> QED
      BY <2>3, <2>4
  <1>5. CASE EProbe
    BY <1>5, <1>a, <1>b, Zenon DEF EProbe, UpCredits
  <1>6. ASSUME NEW d \in UpChan, EProcess(d) PROVE UpCredits(c)' = UpCredits(c)
    <2>1. PICK m :
        /\ m = Head(e_in[d]) /\ e_in[d] # <<>> /\ e_in' = [e_in EXCEPT ![d] = Tail(@)]
        /\ e_returned' = Append(e_returned, [chan |-> d, flits |-> EndpointFlits(m)])
        /\ UNCHANGED <<reqVars, up, down, e_counter, e_remove, e_builder>>
      BY <1>6, Zenon DEF EProcess
    <2>2. e_in[d] \in Seq(ChanMsg(d)) /\ e_in[d] \in Seq(Msg) /\ e_in \in [UpChan -> Seq(Msg)]
      BY DEF Types, BufferTypes
    <2>3. m \in ChanMsg(d) /\ m \in Msg /\ Tail(e_in[d]) \in Seq(Msg)
      BY <2>1, <2>2
    <2>4. ChannelOf(m.op) = d /\ EndpointFlits(m) \in Nat
      BY <2>3, EndpointSizes DEF ChanMsg
    <2>5. PICK r : /\ r \in ReturnedFlits /\ r.chan = d /\ r.flits = EndpointFlits(m)
                   /\ e_returned' = Append(e_returned, r)
      BY <2>1, <2>4 DEF ReturnedFlits
    <2>6. Returned(c)' = Returned(c) + (IF d = c THEN EndpointFlits(m) ELSE 0)
      BY <2>5, ReturnedChange, Zenon
    <2>7. FlitsOn(e_in[c], c, EndpointFlits)
          = (IF d = c THEN EndpointFlits(m) ELSE 0) + FlitsOn(e_in'[c], c, EndpointFlits)
      <3>1. CASE d = c
        <4>1. e_in'[c] = Tail(e_in[c])
          BY <2>1, <2>2, <3>1
        <4>2. FlitsOn(e_in[c], c, EndpointFlits)
              = (IF ChannelOf(Head(e_in[c]).op) = c THEN EndpointFlits(Head(e_in[c])) ELSE 0)
                + FlitsOn(Tail(e_in[c]), c, EndpointFlits)
          BY <2>1, <2>2, <3>1, FlitsChange, Zenon
        <4> QED
          BY <2>1, <2>4, <3>1, <4>1, <4>2, Zenon
      <3>2. CASE d # c
        <4>1. e_in'[c] = e_in[c]
          BY <2>1, <2>2, <3>2
        <4> QED
          BY <1>0, <3>2, <4>1
      <3> QED
        BY <3>1, <3>2
    <2>8. FlitsOn(e_in'[c], c, EndpointFlits) \in Nat
      <3>1. e_in'[c] \in Seq(Msg)
        BY <2>1, <2>2, <2>3
      <3> QED
        BY <3>1, FlitsWeigh, Zenon
    <2>9. /\ r_send[c]' = r_send[c] /\ FlitsOn(r_out, c, TakenFlits)' = FlitsOn(r_out, c, TakenFlits)
          /\ InPackets(up, c, TakenFlits)' = InPackets(up, c, TakenFlits)
          /\ InFields(down, c)' = InFields(down, c) /\ e_counter[c]' = e_counter[c]
          /\ Credit(e_remove, c)' = Credit(e_remove, c)
          /\ Credit(e_builder, c)' = Credit(e_builder, c)
      BY <1>a, <1>b, <2>1, Zenon
    <2>10. PICK x \in Nat : x = IF d = c THEN EndpointFlits(m) ELSE 0
      BY <2>4
    <2>11. /\ Returned(c)' = Returned(c) + x
           /\ FlitsOn(e_in[c], c, EndpointFlits) = x + FlitsOn(e_in'[c], c, EndpointFlits)
      BY <2>6, <2>7, <2>10, Zenon
    <2> QED
      BY <1>0, <2>8, <2>9, <2>11 DEF UpCredits
  <1>7. ASSUME NEW d \in DownChan, ETakeCredits(d) PROVE UpCredits(c)' = UpCredits(c)
    BY <1>7, <1>a, <1>b, Zenon DEF ETakeCredits, UpCredits
  <1> QED
    BY <1>1, <1>2, <1>3, <1>4, <1>5, <1>6, <1>7, Zenon

\* At first all credits are with the two sides: the default ones with the
\* requester, the others in the counters of the endpoint.
LEMMA UpCreditsInit ==
  ASSUME Init, NEW c \in UpChan PROVE UpCredits(c) = DefaultCredits + StartCredits
  <1>0. /\ r_send = [d \in UpChan |-> DefaultCredits] /\ r_out = <<>> /\ up = <<>> /\ down = <<>>
        /\ e_in = [d \in UpChan |-> <<>>] /\ e_returned = <<>> /\ e_remove = <<>>
        /\ e_counter = [d \in UpChan |-> StartCredits] /\ e_builder = <<>>
    BY Zenon DEF Init
  <1>1. r_send[c] = DefaultCredits /\ e_counter[c] = StartCredits /\ e_in[c] = <<>>
    BY <1>0, Zenon
  <1>2. FlitsOn(r_out, c, TakenFlits) = 0 /\ FlitsOn(e_in[c], c, EndpointFlits) = 0
    BY <1>0, <1>1, FlitsChange, Zenon
  <1>3. c \in Channel
    BY Channels
  <1>4. Credit(e_remove, c) = 0 /\ Credit(e_builder, c) = 0
    BY <1>0, <1>3, FieldsChange, Zenon
  <1>5. /\ <<>> \in Seq(UpPacket) /\ <<>> \in Seq(UpPacket \cup DownPacket)
        /\ <<>> \in Seq(ReturnedFlits)
    OBVIOUS
  <1>6. InPackets(up, c, TakenFlits) = 0 /\ InFields(down, c) = 0
    BY <1>0, <1>3, <1>5, PacketsWeigh, WeighNone, Zenon
  <1>7. Returned(c) = 0
    BY <1>0, <1>5, ReturnedWeighs, WeighNone, Zenon
  <1> QED
    BY <1>1, <1>2, <1>4, <1>6, <1>7, CreditsAssumption DEF UpCredits

\* Every step keeps the credits of the requester.
LEMMA ConservedNext ==
  ASSUME Types, NoUnderflow, CreditsConserved, [Next]_vars PROVE CreditsConserved'
  <1> SUFFICES ASSUME NEW c \in UpChan PROVE UpCredits(c)' = UpCredits(c)
    BY DEF CreditsConserved
  <1>0. UpCredits(c) = DefaultCredits + StartCredits
    BY Zenon DEF CreditsConserved
  <1>1. CASE Next
    BY <1>0, <1>1, UpKeptByRequester, UpKeptByEndpoint, Zenon DEF Next, System
  <1>2. CASE UNCHANGED vars
    BY <1>2, Zenon DEF vars, reqVars, epVars, UpCredits, Returned
  <1> QED
    BY <1>1, <1>2

\* No credit of channels A, C and E is lost or made up between the requester and
\* the endpoint, whatever the order in which messages, credit fields and counter
\* updates pass each other.
THEOREM CreditsAreConserved == Spec => []CreditsConserved
  <1> DEFINE Inv == Types /\ NoUnderflow /\ CreditsConserved
  <1>1. Init => Inv
    <2> SUFFICES ASSUME Init PROVE Inv
      OBVIOUS
    <2>1. Types
      BY TypesInit
    <2>2. NoUnderflow
      BY DEF Init, NoUnderflow
    <2>3. CreditsConserved
      BY UpCreditsInit, Zenon DEF CreditsConserved
    <2> QED
      BY <2>1, <2>2, <2>3
  <1>2. Inv /\ [Next]_vars => Inv'
    BY TypesNext, NoUnderflowNext, ConservedNext
  <1> QED
    BY <1>1, <1>2, PTL DEF Spec

-----------------------------------------------------------------------------
(* The endpoint's credits *)

\* The places where a credit of the endpoint can be.
LEMMA DownPlaces ==
  ASSUME Types, NEW c \in DownChan
  PROVE  /\ c \in Channel /\ e_send[c] \in 0 .. CounterMax /\ CounterMax \in Nat
         /\ FlitsOn(e_flits, c, EndpointFlits) \in Nat /\ InPackets(down, c, GivenBackFlits) \in Nat
         /\ r_receive[c] \in Nat /\ InFields(up, c) \in Nat
  <1>1. c \in Channel
    BY Channels
  <1>2. e_send[c] \in 0 .. CounterMax /\ r_receive[c] \in Nat
    BY <1>1 DEF Types, RequesterTypes, CounterTypes
  <1>3. FlitsOn(e_flits, c, EndpointFlits) \in Nat
    <2>1. e_flits \in Seq(Msg)
      BY Channels, SeqMono, Zenon DEF Types, BufferTypes
    <2> QED
      BY <2>1, FlitsWeigh, Zenon
  <1>4. InPackets(down, c, GivenBackFlits) \in Nat /\ InFields(up, c) \in Nat
    BY <1>1, PacketsChange, Zenon DEF Types, WireTypes
  <1> QED
    BY <1>1, <1>2, <1>3, <1>4, CreditsAssumption

\* Every step keeps the credits of the endpoint, or fills its counter.
LEMMA DownKept ==
  ASSUME Types, NEW c \in DownChan, Next
  PROVE  DownCredits(c)' = DownCredits(c) \/ DownCredits(c)' >= CounterMax
  <1>0. /\ c \in Channel /\ e_send[c] \in 0 .. CounterMax /\ CounterMax \in Nat
        /\ FlitsOn(e_flits, c, EndpointFlits) \in Nat /\ InPackets(down, c, GivenBackFlits) \in Nat
        /\ r_receive[c] \in Nat /\ InFields(up, c) \in Nat
    BY DownPlaces, Zenon
  <1>a. /\ e_send' = e_send => e_send[c]' = e_send[c]
        /\ e_flits' = e_flits => FlitsOn(e_flits, c, EndpointFlits)' = FlitsOn(e_flits, c, EndpointFlits)
        /\ down' = down => InPackets(down, c, GivenBackFlits)' = InPackets(down, c, GivenBackFlits)
        /\ r_receive' = r_receive => r_receive[c]' = r_receive[c]
        /\ up' = up => InFields(up, c)' = InFields(up, c)
    BY Zenon
  <1>1. CASE UNCHANGED <<e_send, e_flits, down, r_receive, up>>
    BY <1>1, <1>a, Zenon DEF DownCredits
  <1>2. CASE RSendPacket
    <2>1. PICK field : /\ field = RHighest
                       /\ up' = Append(up, [msgs |-> r_out, field |-> field])
                       /\ r_receive' = IF field = NoCredit THEN r_receive
                             ELSE [r_receive EXCEPT ![field.chan] = @ - TwoTo(field.credit)]
                       /\ UNCHANGED <<e_send, e_flits, down>>
      BY <1>2, Zenon DEF RSendPacket, epVars
    <2>2. \/ field = NoCredit
          \/ field \in [chan : Channel, credit : Nat] /\ TwoTo(field.credit) <= r_receive[field.chan]
      BY <2>1, HighestOfRequester, Zenon DEF Types, RequesterTypes
    <2>3. field \in CreditField /\ r_out \in Seq(UpMsg) /\ up \in Seq(UpPacket)
          /\ r_receive \in [Channel -> Nat]
      BY <2>2 DEF CreditField, Types, RequesterTypes, WireTypes
    <2>4. PICK p : p \in UpPacket /\ p.field = field /\ up' = Append(up, p)
      BY <2>1, <2>3 DEF UpPacket
    <2>5. InFields(up', c) = InFields(up, c) + InField(field, c) /\ InField(field, c) \in Nat
      BY <1>0, <2>3, <2>4, PacketsChange, FieldNat, Zenon
    <2>6. r_receive'[c] = r_receive[c] - InField(field, c)
      <3>1. CASE field = NoCredit
        <4>1. InField(field, c) = 0
          BY <3>1 DEF InField, NoCredit, DownChan
        <4> QED
          BY <1>0, <2>1, <3>1, <4>1
      <3>2. CASE field # NoCredit /\ field.chan = c
        <4>1. r_receive'[c] = r_receive[c] - TwoTo(field.credit)
          BY <1>0, <2>1, <2>3, <3>2
        <4> QED
          BY <3>2, <4>1, Zenon DEF InField
      <3>3. CASE field # NoCredit /\ field.chan # c
        <4>1. r_receive'[c] = r_receive[c] /\ InField(field, c) = 0
          BY <1>0, <2>1, <2>3, <3>3 DEF InField
        <4> QED
          BY <1>0, <4>1
      <3> QED
        BY <3>1, <3>2, <3>3
    <2>7. /\ e_send[c]' = e_send[c]
          /\ FlitsOn(e_flits, c, EndpointFlits)' = FlitsOn(e_flits, c, EndpointFlits)
          /\ InPackets(down, c, GivenBackFlits)' = InPackets(down, c, GivenBackFlits)
      BY <1>a, <2>1, Zenon
    <2> QED
      BY <1>0, <2>5, <2>6, <2>7 DEF DownCredits
  <1>3. CASE RReceive
    <2>1. PICK p : /\ p = Head(down) /\ down # <<>> /\ down' = Tail(down)
                   /\ r_receive' = [d \in Channel |->
                                       r_receive[d] + FlitsOn(p.msgs, d, GivenBackFlits)]
                   /\ UNCHANGED <<e_send, e_flits, up>>
      BY <1>3, Zenon DEF RReceive, epVars
    <2>2. p \in DownPacket /\ down \in Seq(DownPacket) /\ Tail(down) \in Seq(DownPacket)
      BY <2>1 DEF Types, WireTypes
    <2>3. InPackets(down, c, GivenBackFlits)
          = FlitsOn(p.msgs, c, GivenBackFlits) + InPackets(down', c, GivenBackFlits)
      BY <1>0, <2>1, <2>2, PacketsChange, Zenon
    <2>4. FlitsOn(p.msgs, c, GivenBackFlits) \in Nat /\ InPackets(down', c, GivenBackFlits) \in Nat
      <3>1. p.msgs \in Seq(DownMsg)
        BY <2>2 DEF DownPacket
      <3> QED
        BY <1>0, <2>1, <2>2, <3>1, PacketsChange, FlitsWeigh, Zenon
    <2>5. r_receive'[c] = r_receive[c] + FlitsOn(p.msgs, c, GivenBackFlits)
      BY <1>0, <2>1, Zenon
    <2>6. /\ e_send[c]' = e_send[c] /\ InFields(up, c)' = InFields(up, c)
          /\ FlitsOn(e_flits, c, EndpointFlits)' = FlitsOn(e_flits, c, EndpointFlits)
      BY <1>a, <2>1, Zenon
    <2> QED
      BY <1>0, <2>3, <2>4, <2>5, <2>6 DEF DownCredits
  <1>4. CASE EReceive
    <2>1. PICK p : /\ p = Head(up) /\ up # <<>> /\ up' = Tail(up)
                   /\ e_send' = IF p.field.chan \in DownChan
                                THEN [e_send EXCEPT ![p.field.chan] =
                                         BoundedPlus(@, TwoTo(p.field.credit))]
                                ELSE e_send
                   /\ UNCHANGED <<e_flits, down, r_receive>>
      BY <1>4, Zenon DEF EReceive, reqVars
    <2>2. p \in UpPacket /\ up \in Seq(UpPacket) /\ Tail(up) \in Seq(UpPacket)
      BY <2>1 DEF Types, WireTypes
    <2>3. p.field \in CreditField /\ e_send \in [DownChan -> 0 .. CounterMax]
      BY <2>2 DEF UpPacket, Types, CounterTypes
    <2>4. InFields(up, c) = InField(p.field, c) + InFields(up', c)
      BY <1>0, <2>1, <2>2, PacketsChange, Zenon
    <2>5. InField(p.field, c) \in Nat /\ InFields(up', c) \in Nat
      BY <1>0, <2>1, <2>2, <2>3, PacketsChange, FieldNat, Zenon
    <2>6. \/ e_send'[c] = e_send[c] + InField(p.field, c)
          \/ e_send'[c] = CounterMax
      <3>1. CASE p.field.chan = c
        <4>1. e_send'[c] = BoundedPlus(e_send[c], TwoTo(p.field.credit))
          BY <2>1, <2>3, <3>1
        <4> QED
          BY <3>1, <4>1, Zenon DEF BoundedPlus, Least, InField
      <3>2. CASE p.field.chan # c
        <4>1. e_send'[c] = e_send[c] /\ InField(p.field, c) = 0
          BY <2>1, <2>3, <3>2 DEF InField
        <4> QED
          BY <1>0, <4>1
      <3> QED
        BY <3>1, <3>2
    <2>7. /\ r_receive[c]' = r_receive[c]
          /\ FlitsOn(e_flits, c, EndpointFlits)' = FlitsOn(e_flits, c, EndpointFlits)
          /\ InPackets(down, c, GivenBackFlits)' = InPackets(down, c, GivenBackFlits)
      BY <1>a, <2>1, Zenon
    <2> QED
      BY <1>0, <2>4, <2>5, <2>6, <2>7 DEF DownCredits
  <1>5. ASSUME NEW d \in DownChan, ETakeCredits(d) PROVE DownCredits(c)' = DownCredits(c)
    <2>1. PICK m :
        /\ m = Head(e_out[d]) /\ e_out[d] # <<>> /\ e_send[d] >= EndpointFlits(m)
        /\ e_send' = [e_send EXCEPT ![d] = @ - EndpointFlits(m)]
        /\ e_flits' = Append(e_flits, m) /\ UNCHANGED <<down, r_receive, up>>
      BY <1>5, Zenon DEF ETakeCredits, reqVars
    <2>2. m \in ChanMsg(d) /\ e_send \in [DownChan -> 0 .. CounterMax]
      BY <2>1 DEF Types, BufferTypes, CounterTypes
    <2>3. m \in Msg /\ ChannelOf(m.op) = d /\ EndpointFlits(m) \in Nat
      BY <2>2, EndpointSizes DEF ChanMsg
    <2>4. e_flits \in Seq(Msg)
      BY Channels, SeqMono, Zenon DEF Types, BufferTypes
    <2>5. FlitsOn(e_flits', c, EndpointFlits)
          = FlitsOn(e_flits, c, EndpointFlits) + (IF d = c THEN EndpointFlits(m) ELSE 0)
      <3>1. FlitsOn(Append(e_flits, m), c, EndpointFlits)
            = FlitsOn(e_flits, c, EndpointFlits)
              + (IF ChannelOf(m.op) = c THEN EndpointFlits(m) ELSE 0)
        BY <2>3, <2>4, FlitsChange, Zenon
      <3> QED
        BY <2>1, <2>3, <3>1, Zenon
    <2>6. PICK x \in Nat : x = IF d = c THEN EndpointFlits(m) ELSE 0
      BY <2>3
    <2>7. e_send'[c] = e_send[c] - x
      <3>1. CASE d = c
        BY <2>1, <2>2, <2>6, <3>1
      <3>2. CASE d # c
        BY <1>0, <2>1, <2>2, <2>6, <3>2
      <3> QED
        BY <3>1, <3>2
    <2>8. FlitsOn(e_flits', c, EndpointFlits) = FlitsOn(e_flits, c, EndpointFlits) + x
      BY <2>5, <2>6, Zenon
    <2>9. /\ InPackets(down, c, GivenBackFlits)' = InPackets(down, c, GivenBackFlits)
          /\ r_receive[c]' = r_receive[c] /\ InFields(up, c)' = InFields(up, c)
      BY <1>a, <2>1, Zenon
    <2> QED
      BY <1>0, <2>7, <2>8, <2>9 DEF DownCredits
  <1>6. CASE ESendPacket
    <2>1. /\ down' = Append(down, [msgs |-> e_flits, field |-> Head(e_builder)])
          /\ e_builder # <<>> /\ e_flits' = <<>> /\ UNCHANGED <<e_send, r_receive, up>>
      BY <1>6, Zenon DEF ESendPacket, reqVars
    <2>2. Head(e_builder) \in DownField /\ e_flits \in Seq(DownMsg) /\ down \in Seq(DownPacket)
      BY <2>1 DEF Types, CounterTypes, BufferTypes, WireTypes
    <2>3. PICK p : p \in DownPacket /\ p.msgs = e_flits /\ down' = Append(down, p)
      BY <2>1, <2>2 DEF DownPacket
    <2>4. InPackets(down', c, GivenBackFlits)
          = InPackets(down, c, GivenBackFlits) + FlitsOn(e_flits, c, GivenBackFlits)
      BY <1>0, <2>2, <2>3, PacketsChange, Zenon
    <2>5. FlitsOn(e_flits, c, GivenBackFlits) = FlitsOn(e_flits, c, EndpointFlits)
      BY <2>2, DownFlitsAgree, Zenon
    <2>6. FlitsOn(e_flits', c, EndpointFlits) = 0
      BY <2>1, FlitsChange, Zenon
    <2>7. /\ e_send[c]' = e_send[c] /\ r_receive[c]' = r_receive[c]
          /\ InFields(up, c)' = InFields(up, c)
      BY <1>a, <2>1, Zenon
    <2> QED
      BY <1>0, <2>4, <2>5, <2>6, <2>7 DEF DownCredits
  <1>7. CASE ~ UNCHANGED <<e_send, e_flits, down, r_receive, up>>
    <2>1. \/ RSendPacket \/ RReceive \/ EReceive \/ ESendPacket
          \/ \E d \in DownChan : ETakeCredits(d)
      BY <1>7, Zenon DEF Next, System, reqVars, epVars, RBegin, RTake, RProcessProbe, RAnswer,
                         ESetupPacket, EUpdateCounter, EProcess, EProbe
    <2> QED
      BY <1>2, <1>3, <1>4, <1>5, <1>6, <2>1, Zenon
  <1> QED
    BY <1>1, <1>7

\* Although the endpoint's counters for channels B and D saturate, as many credits
\* as they can hold, or as the requester ever granted, stay in circulation.
THEOREM SendCreditsCirculate == Spec => []SendCreditsComeBack
  <1> DEFINE Inv == Types /\ SendCreditsComeBack
  <1>1. Init => Inv
    <2> SUFFICES ASSUME Init PROVE Inv
      OBVIOUS
    <2>1. Types
      BY TypesInit
    <2>2. ASSUME NEW c \in DownChan PROVE DownCredits(c) >= Least(CounterMax, HostCredits)
      <3>1. /\ c \in Channel /\ e_send[c] \in 0 .. CounterMax /\ CounterMax \in Nat
            /\ FlitsOn(e_flits, c, EndpointFlits) \in Nat
            /\ InPackets(down, c, GivenBackFlits) \in Nat
            /\ r_receive[c] \in Nat /\ InFields(up, c) \in Nat
        BY <2>1, DownPlaces, Zenon
      <3>2. r_receive[c] = HostCredits
        BY <3>1, Zenon DEF Init
      <3> QED
        BY <3>1, <3>2 DEF DownCredits, Least
    <2> QED
      BY <2>1, <2>2 DEF SendCreditsComeBack
  <1>2. Inv /\ [Next]_vars => Inv'
    <2> SUFFICES ASSUME Inv, [Next]_vars PROVE Inv'
      OBVIOUS
    <2>1. Types'
      BY TypesNext
    <2>2. ASSUME NEW c \in DownChan PROVE DownCredits(c)' >= Least(CounterMax, HostCredits)
      <3>1. DownCredits(c) >= Least(CounterMax, HostCredits)
        BY Zenon DEF SendCreditsComeBack
      <3>2. DownCredits(c)' = DownCredits(c) \/ DownCredits(c)' >= CounterMax
        <4>1. CASE Next
          BY <4>1, DownKept, Zenon
        <4>2. CASE UNCHANGED vars
          BY <4>2, Zenon DEF vars, reqVars, epVars, DownCredits
        <4> QED
          BY <4>1, <4>2
      <3>3. DownCredits(c)' \in Nat
        <4>1. /\ e_send'[c] \in 0 .. CounterMax /\ r_receive'[c] \in Nat /\ c \in Channel
              /\ e_flits' \in Seq(DownMsg) /\ up' \in Seq(UpPacket) /\ down' \in Seq(DownPacket)
          BY <2>1, Channels DEF Types, RequesterTypes, WireTypes, BufferTypes, CounterTypes
        <4>2. e_flits' \in Seq(Msg)
          BY <4>1, Channels, SeqMono, Zenon
        <4>3. /\ FlitsOn(e_flits', c, EndpointFlits) \in Nat /\ InFields(up', c) \in Nat
              /\ InPackets(down', c, GivenBackFlits) \in Nat
          BY <4>1, <4>2, FlitsWeigh, PacketsChange, Zenon
        <4>4. e_send'[c] \in Nat /\ r_receive'[c] \in Nat
          BY <4>1, CreditsAssumption
        <4> QED
          BY <4>3, <4>4 DEF DownCredits
      <3> QED
        BY <3>1, <3>2, <3>3, CreditsAssumption DEF Least
    <2> QED
      BY <2>1, <2>2 DEF SendCreditsComeBack, Least
  <1> QED
    BY <1>1, <1>2, PTL DEF Spec

=============================================================================
