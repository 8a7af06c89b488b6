----------------------- MODULE OmnixtendMemory_proofs -----------------------
(***************************************************************************)
(* Proofs about OmnixtendMemory: whatever the sizes of beats, bursts and   *)
(* masks, the depths of the FIFOs and the requests that arrive, the beats  *)
(* of the burst handlers meet the bursts they were announced with.         *)
(***************************************************************************)
EXTENDS OmnixtendMemory, NaturalsInduction, WellFoundedInduction, TLAPS

-----------------------------------------------------------------------------
(* Induction *)

\* A non-empty set of natural numbers has a least element.
LEMMA LeastElement ==
  ASSUME NEW T, T \subseteq Nat, T # {}
  PROVE  \E x \in T : \A y \in T : x <= y
  <1> DEFINE R == OpToRel(<, Nat)
  <1>1. IsWellFoundedOn(R, Nat)
    BY NatLessThanWellFounded
  <1> HIDE DEF R
  <1>2. PICK x \in T : \A y \in T : ~ (<<y, x>> \in R)
    BY <1>1, WFMin
  <1>3. \A y \in T : ~ (y < x)
    BY <1>2 DEF OpToRel, R
  <1> QED
    BY <1>3

\* Induction up to a bound, over a set of numbers.
LEMMA UpTo ==
  ASSUME NEW n \in Nat, NEW S, 0 \in S,
         \A i \in 1 .. n : i - 1 \in S => i \in S
  PROVE  \A i \in 0 .. n : i \in S
  <1> SUFFICES ASSUME NEW b \in 0 .. n, b \notin S PROVE FALSE
    OBVIOUS
  <1> DEFINE T == {i \in 0 .. n : i \notin S}
  <1>1. PICK x \in T : \A y \in T : x <= y
    <2>1. T \subseteq Nat /\ T # {}
      OBVIOUS
    <2> HIDE DEF T
    <2> QED
      BY <2>1, LeastElement
  <1>2. x \in 1 .. n /\ x - 1 \notin T
    BY <1>1
  <1> QED
    BY <1>1, <1>2

-----------------------------------------------------------------------------
(* Powers of two *)

\* The function that TwoTo is defined with exists.
LEMMA PowerExists ==
  ASSUME NEW k \in Nat
  PROVE  \E f : f = [i \in 0 .. k |-> IF i = 0 THEN 1 ELSE 2 * f[i - 1]]
  <1> DEFINE P(j, f) == f = [i \in 0 .. j |-> IF i = 0 THEN 1 ELSE 2 * f[i - 1]]
             S == {j \in 0 .. k : \E f : P(j, f)}
  <1>1. 0 \in S
    <2> DEFINE f == [i \in 0 .. 0 |-> 1]
    <2>1. P(0, f) /\ 0 \in 0 .. k
      OBVIOUS
    <2> QED
      BY <2>1, Zenon
  <1>2. ASSUME NEW j \in 1 .. k, j - 1 \in S PROVE j \in S
    <2>1. PICK f : P(j - 1, f)
      BY <1>2
    <2> DEFINE g == [i \in 0 .. j |-> IF i = j THEN 2 * f[j - 1] ELSE f[i]]
    <2>2. P(j, g)
      <3>1. \A i \in 0 .. j - 1 : f[i] = IF i = 0 THEN 1 ELSE 2 * f[i - 1]
        BY <2>1
      <3>2. \A i \in 0 .. j : g[i] = IF i = 0 THEN 1 ELSE 2 * g[i - 1]
        BY <3>1
      <3> QED
        BY <3>2
    <2>3. j \in 0 .. k
      OBVIOUS
    <2> QED
      BY <2>2, <2>3, Zenon
  <1> HIDE DEF S
  <1>3. k \in S
    BY <1>1, <1>2, UpTo
  <1> QED
    BY <1>3 DEF S

\* Two to the power of 0 is 1, and each power is twice the one before.
LEMMA PowerSteps ==
  ASSUME NEW k \in Nat
  PROVE  \E f : /\ TwoTo(k) = f[k] /\ f[0] = 1
                /\ \A i \in 1 .. k : f[i] = 2 * f[i - 1]
  <1> DEFINE P(f) == f = [i \in 0 .. k |-> IF i = 0 THEN 1 ELSE 2 * f[i - 1]]
             f == CHOOSE g : P(g)
  <1>1. P(f)
    <2>1. \E g : P(g)
      BY PowerExists, Zenon
    <2> QED
      BY <2>1, Zenon
  <1>2. TwoTo(k) = f[k]
    BY Zenon DEF TwoTo
  <1> HIDE DEF f
  <1>3. f[0] = 1 /\ \A i \in 1 .. k : f[i] = 2 * f[i - 1]
    BY <1>1
  <1> QED
    BY <1>2, <1>3, Zenon

\* Powers of two are positive numbers above their exponents.
LEMMA PowerBound ==
  ASSUME NEW k \in Nat
  PROVE  TwoTo(k) \in Nat /\ TwoTo(k) > k
  <1>1. PICK f : /\ TwoTo(k) = f[k] /\ f[0] = 1
                 /\ \A i \in 1 .. k : f[i] = 2 * f[i - 1]
    BY PowerSteps, Zenon
  <1> DEFINE S == {i \in 0 .. k : f[i] \in Nat /\ f[i] > i}
  <1>2. 0 \in S
    BY <1>1
  <1>3. ASSUME NEW i \in 1 .. k, i - 1 \in S PROVE i \in S
    BY <1>1, <1>3
  <1> HIDE DEF S
  <1>4. k \in S
    BY <1>2, <1>3, UpTo
  <1> QED
    BY <1>1, <1>4 DEF S

\* Each power of two is twice the one before.
LEMMA TwoToStep ==
  ASSUME NEW k \in Nat
  PROVE  TwoTo(0) = 1 /\ TwoTo(k + 1) = 2 * TwoTo(k)
  <1>0. TwoTo(0) = 1
    BY PowerSteps
  <1>1. PICK f : /\ TwoTo(k) = f[k] /\ f[0] = 1
                 /\ \A i \in 1 .. k : f[i] = 2 * f[i - 1]
    BY PowerSteps, Zenon
  <1>2. PICK g : /\ TwoTo(k + 1) = g[k + 1] /\ g[0] = 1
                 /\ \A i \in 1 .. k + 1 : g[i] = 2 * g[i - 1]
    BY PowerSteps, k + 1 \in Nat
  <1> DEFINE S == {i \in 0 .. k : f[i] = g[i]}
  <1>3. 0 \in S
    BY <1>1, <1>2
  <1>4. ASSUME NEW i \in 1 .. k, i - 1 \in S PROVE i \in S
    BY <1>1, <1>2, <1>4
  <1> HIDE DEF S
  <1>5. k \in S
    BY <1>3, <1>4, UpTo
  <1>6. f[k] = g[k]
    BY <1>5 DEF S
  <1>7. g[k + 1] = 2 * g[(k + 1) - 1] /\ (k + 1) - 1 = k
    BY <1>2
  <1> QED
    BY <1>0, <1>1, <1>2, <1>6, <1>7

\* Powers of two divide each other.
LEMMA TwoToPlus ==
  ASSUME NEW m \in Nat, NEW n \in Nat
  PROVE  TwoTo(m + n) = TwoTo(m) * TwoTo(n)
  <1> DEFINE S == {j \in 0 .. n : TwoTo(m + j) = TwoTo(m) * TwoTo(j)}
  <1>1. 0 \in S
    BY TwoToStep, PowerBound, m + 0 = m
  <1>2. ASSUME NEW j \in 1 .. n, j - 1 \in S PROVE j \in S
    <2>1. TwoTo(j) = 2 * TwoTo(j - 1) /\ TwoTo(m + j) = 2 * TwoTo(m + (j - 1))
      BY TwoToStep, (j - 1) + 1 = j, (m + (j - 1)) + 1 = m + j, j - 1 \in Nat, m + (j - 1) \in Nat
    <2>2. TwoTo(m + (j - 1)) = TwoTo(m) * TwoTo(j - 1)
      BY <1>2
    <2>3. TwoTo(m) \in Nat /\ TwoTo(j - 1) \in Nat
      BY PowerBound, j - 1 \in Nat
    <2> HIDE DEF S
    <2>4. \A x, y \in Nat : 2 * (x * y) = x * (2 * y)
      OBVIOUS
    <2> QED
      BY <2>1, <2>2, <2>3, <2>4 DEF S
  <1> HIDE DEF S
  <1>3. n \in S
    BY <1>1, <1>2, UpTo
  <1> QED
    BY <1>3 DEF S

-----------------------------------------------------------------------------
(* Values *)

\* The sizes are positive.
LEMMA Sizes ==
  /\ FlitsPerBeat \in Nat /\ FlitsPerBeat >= 1 /\ MaxBeats \in Nat /\ MaxBeats >= 3
  /\ MaskFlits \in 1 .. 15 /\ Depth \in Nat /\ Outstanding \in Nat
  /\ Words \in Nat /\ Values \in Nat /\ Values >= 1
  /\ Slot = 0 .. FlitsPerBeat - 1 /\ 0 \in Slot
  <1>1. \A n \in Nat : IsPowerOfTwo(n) => n >= 1
    <2>1. ASSUME NEW n \in Nat, NEW k \in 0 .. n, n = TwoTo(k) PROVE n >= 1
      BY <2>1, PowerBound
    <2> QED
      BY <2>1, Zenon DEF IsPowerOfTwo
  <1>2. /\ FlitsPerBeat \in Nat /\ IsPowerOfTwo(FlitsPerBeat) /\ MaxBeats \in Nat \ {0, 1, 2}
        /\ Values \in Nat /\ IsPowerOfTwo(Values)
        /\ MaskFlits \in 1 .. 15 /\ Depth \in Nat /\ Outstanding \in Nat /\ Words \in Nat
    BY MemoryAssumption
  <1> QED
    BY <1>1, <1>2 DEF Slot

\* The width of a flit.
LEMMA WidthOfValues == Width \in Nat /\ TwoTo(Width) = Values
  <1>1. \E w \in 0 .. Values : TwoTo(w) = Values
    BY MemoryAssumption, Zenon DEF IsPowerOfTwo
  <1>2. Width \in 0 .. Values /\ TwoTo(Width) = Values
    BY <1>1, Zenon DEF Width
  <1> QED
    BY <1>2, Sizes

\* The function Bitwise is defined with exists.
LEMMA LowExists ==
  ASSUME NEW n \in Nat, NEW g
  PROVE  \E f : f = [k \in 0 .. n |-> IF k = 0 THEN 0 ELSE f[k - 1] + g[k - 1]]
  <1> DEFINE P(j, f) == f = [i \in 0 .. j |-> IF i = 0 THEN 0 ELSE f[i - 1] + g[i - 1]]
             S == {j \in 0 .. n : \E f : P(j, f)}
  <1>1. 0 \in S
    <2> DEFINE f == [i \in 0 .. 0 |-> 0]
    <2>1. P(0, f) /\ 0 \in 0 .. n
      OBVIOUS
    <2> QED
      BY <2>1, Zenon
  <1>2. ASSUME NEW j \in 1 .. n, j - 1 \in S PROVE j \in S
    <2>1. PICK f : P(j - 1, f)
      BY <1>2
    <2> DEFINE h == [i \in 0 .. j |-> IF i = j THEN f[j - 1] + g[j - 1] ELSE f[i]]
    <2>2. P(j, h)
      <3>1. \A i \in 0 .. j - 1 : f[i] = IF i = 0 THEN 0 ELSE f[i - 1] + g[i - 1]
        BY <2>1
      <3>2. \A i \in 0 .. j : h[i] = IF i = 0 THEN 0 ELSE h[i - 1] + g[i - 1]
        BY <3>1
      <3> QED
        BY <3>2
    <2>3. j \in 0 .. n
      OBVIOUS
    <2> QED
      BY <2>2, <2>3, Zenon
  <1> HIDE DEF S
  <1>3. n \in S
    BY <1>1, <1>2, UpTo
  <1> QED
    BY <1>3 DEF S

\* A bitwise operation returns a value.
LEMMA BitwiseType ==
  ASSUME NEW old \in 0 .. Values - 1, NEW new \in 0 .. Values - 1,
         NEW op \in [0 .. 1 -> [0 .. 1 -> 0 .. 1]]
  PROVE  Bitwise(old, new, op) \in 0 .. Values - 1
  <1> DEFINE D(k) == op[Bit(old, k)][Bit(new, k)] * TwoTo(k)
             P(f) == f = [k \in 0 .. Width |-> IF k = 0 THEN 0 ELSE f[k - 1] + D(k - 1)]
             low == CHOOSE f : P(f)
  <1>1. Width \in Nat /\ TwoTo(Width) = Values
    BY WidthOfValues
  <1>2. \E f : P(f)
    <2> DEFINE g == [k \in Nat |-> D(k)]
    <2>1. PICK f : f = [k \in 0 .. Width |-> IF k = 0 THEN 0 ELSE f[k - 1] + g[k - 1]]
      BY <1>1, LowExists
    <2>2. \A k \in 0 .. Width : k # 0 => g[k - 1] = D(k - 1)
      <3>1. \A k \in 0 .. Width : k # 0 => k - 1 \in Nat
        BY <1>1
      <3> HIDE DEF D
      <3> QED
        BY <3>1
    <2> HIDE DEF g, D
    <2>3. P(f)
      BY <2>1, <2>2, Zenon
    <2> QED
      BY <2>3
  <1>3. P(low)
    BY <1>2, Zenon
  <1>4. Bitwise(old, new, op) = low[Width]
    BY Zenon DEF Bitwise
  <1>5. ASSUME NEW k \in Nat PROVE D(k) \in 0 .. TwoTo(k)
    <2>1. TwoTo(k) \in Nat /\ TwoTo(k) > 0
      BY PowerBound
    <2>2. Bit(old, k) \in 0 .. 1 /\ Bit(new, k) \in 0 .. 1
      <3>1. \A x, y \in Nat : y > 0 => (x \div y) % 2 \in 0 .. 1
        OBVIOUS
      <3> QED
        BY <2>1, <3>1, Sizes DEF Bit
    <2>3. op[Bit(old, k)][Bit(new, k)] \in 0 .. 1
      BY <2>2
    <2>4. \A x \in 0 .. 1 : \A y \in Nat : x * y \in 0 .. y
      OBVIOUS
    <2> QED
      BY <2>1, <2>3, <2>4
  <1> HIDE DEF low, D
  <1> DEFINE S == {k \in 0 .. Width : low[k] \in 0 .. TwoTo(k) - 1}
  <1>6. low[0] = 0 /\ \A k \in 1 .. Width : low[k] = low[k - 1] + D(k - 1)
    BY <1>1, <1>3
  <1>7. 0 \in S
    BY <1>1, <1>6, TwoToStep
  <1>8. ASSUME NEW k \in 1 .. Width, k - 1 \in S PROVE k \in S
    <2>1. TwoTo(k) = 2 * TwoTo(k - 1) /\ TwoTo(k - 1) \in Nat
      BY TwoToStep, PowerBound, (k - 1) + 1 = k, k - 1 \in Nat
    <2>2. D(k - 1) \in 0 .. TwoTo(k - 1)
      BY <1>5, k - 1 \in Nat
    <2>3. low[k - 1] \in 0 .. TwoTo(k - 1) - 1
      BY <1>8
    <2>4. low[k] = low[k - 1] + D(k - 1)
      BY <1>6
    <2>5. low[k] \in 0 .. TwoTo(k) - 1
      BY <2>1, <2>2, <2>3, <2>4
    <2> QED
      BY <2>5
  <1> HIDE DEF S
  <1>9. Width \in S
    BY <1>1, <1>7, <1>8, UpTo
  <1> QED
    BY <1>1, <1>4, <1>9 DEF S

\* What an atomic writes is a value.
LEMMA WrittenType ==
  ASSUME NEW calc \in Arithmetic \cup Logic, NEW held \in 0 .. Values - 1,
         NEW old \in 0 .. Values - 1, NEW new \in 0 .. Values - 1
  PROVE  Written(calc, held, old, new) \in 0 .. Values - 1
  <1> DEFINE V == 0 .. Values - 1
  <1>1. (old + new) % Values \in V
    BY Sizes
  <1>2. /\ Xor \in [0 .. 1 -> [0 .. 1 -> 0 .. 1]] /\ Or \in [0 .. 1 -> [0 .. 1 -> 0 .. 1]]
        /\ And \in [0 .. 1 -> [0 .. 1 -> 0 .. 1]]
    BY DEF Xor, Or, And
  <1>3. Bitwise(old, new, Xor) \in V /\ Bitwise(old, new, Or) \in V /\ Bitwise(old, new, And) \in V
    BY <1>2, BitwiseType
  <1> HIDE DEF V
  <1>4. old \in V /\ new \in V /\ held \in V
    BY DEF V
  <1>5. Written(calc, held, old, new) \in V
    BY <1>1, <1>3, <1>4, Zenon DEF Written, Result
  <1> QED
    BY <1>5 DEF V

-----------------------------------------------------------------------------
(* Arithmetic of beats *)

\* Division with remainder.
LEMMA DivMod ==
  ASSUME NEW a \in Int, NEW p \in Nat, p >= 1
  PROVE  /\ a \div p \in Int /\ a % p \in 0 .. p - 1 /\ a = p * (a \div p) + (a % p)
         /\ a \in Nat => a \div p \in Nat
  <1>1. a \div p \in Int /\ a % p \in 0 .. p - 1
    OBVIOUS
  <1>2. a = p * (a \div p) + (a % p)
    OBVIOUS
  <1>3. a \in Nat => a \div p \in Nat
    OBVIOUS
  <1> QED
    BY <1>1, <1>2, <1>3

\* Quotient and remainder are unique.
LEMMA DivUnique ==
  ASSUME NEW p \in Nat, p >= 1, NEW x \in Int, NEW y \in Int,
         NEW r \in 0 .. p - 1, NEW s \in 0 .. p - 1, p * x + r = p * y + s
  PROVE  x = y /\ r = s
  <1>1. CASE x = y
    BY <1>1
  <1>2. CASE x < y
    <2>1. p * (x + 1) <= p * y
      BY <1>2
    <2>2. p * (x + 1) = p * x + p
      OBVIOUS
    <2> QED
      BY <2>1, <2>2
  <1>3. CASE y < x
    <2>1. p * (y + 1) <= p * x
      BY <1>3
    <2>2. p * (y + 1) = p * y + p
      OBVIOUS
    <2> QED
      BY <2>1, <2>2
  <1> QED
    BY <1>1, <1>2, <1>3

\* Multiples of p keep their distance.
LEMMA MultipleGap ==
  ASSUME NEW p \in Nat, p >= 1, NEW x \in Int, NEW y \in Int, p * x < p * y
  PROVE  p * x + p <= p * y
  <1>1. x < y
    <2>1. CASE x >= y
      <3>1. p * y <= p * x
        BY <2>1
      <3> QED
        BY <3>1
    <2> QED
      BY <2>1
  <1>2. p * (x + 1) <= p * y
    BY <1>1
  <1>3. p * (x + 1) = p * x + p
    OBVIOUS
  <1> QED
    BY <1>2, <1>3

-----------------------------------------------------------------------------
(* Requests *)

\* The beat and the slot of a location.
LEMMA BeatDiv ==
  ASSUME NEW a \in Nat
  PROVE  /\ a \div FlitsPerBeat \in Nat
         /\ BeatAddr(a) = FlitsPerBeat * (a \div FlitsPerBeat)
         /\ FirstSlot(a) \in Slot /\ BeatAddr(a) \in Nat /\ BeatAddr(a) + FirstSlot(a) = a
  <1>1. a \in Int /\ FlitsPerBeat \in Nat /\ FlitsPerBeat >= 1
    BY Sizes
  <1> DEFINE x == a \div FlitsPerBeat
             r == a % FlitsPerBeat
  <1>2. x \in Nat /\ r \in 0 .. FlitsPerBeat - 1 /\ a = FlitsPerBeat * x + r
    BY <1>1, DivMod, Zenon
  <1> HIDE DEF x, r
  <1>3. FlitsPerBeat * x \in Nat
    BY <1>1, <1>2
  <1>4. BeatAddr(a) = a - r /\ FirstSlot(a) = r
    BY DEF BeatAddr, FirstSlot, r
  <1>5. BeatAddr(a) = FlitsPerBeat * x /\ BeatAddr(a) \in Nat /\ BeatAddr(a) + r = a /\ r \in Slot
    BY <1>1, <1>2, <1>3, <1>4 DEF Slot
  <1> QED
    BY <1>2, <1>4, <1>5, Zenon DEF x

\* The beats in a number of flits.
LEMMA FlitsDiv ==
  ASSUME NEW n \in Nat, n >= FlitsPerBeat
  PROVE  /\ n \div FlitsPerBeat \in Nat /\ n \div FlitsPerBeat >= 1
         /\ (n \div FlitsPerBeat) * FlitsPerBeat \in Nat
         /\ (n \div FlitsPerBeat) * FlitsPerBeat <= n
  <1>1. n \in Int /\ FlitsPerBeat \in Nat /\ FlitsPerBeat >= 1
    BY Sizes
  <1> DEFINE x == n \div FlitsPerBeat
             r == n % FlitsPerBeat
  <1>2. x \in Nat /\ r \in 0 .. FlitsPerBeat - 1 /\ n = FlitsPerBeat * x + r
    BY <1>1, DivMod, Zenon
  <1> HIDE DEF x, r
  <1>3. FlitsPerBeat * x \in Nat /\ x * FlitsPerBeat = FlitsPerBeat * x
    BY <1>1, <1>2
  <1>4. x # 0
    BY <1>1, <1>2
  <1>5. x \in Nat /\ x >= 1 /\ x * FlitsPerBeat \in Nat /\ x * FlitsPerBeat <= n
    BY <1>1, <1>2, <1>3, <1>4
  <1> QED
    BY <1>5, Zenon DEF x

\* A request that lies in memory.
Fitting == {q \in Request : q.addr + Flits(q) <= Words}

\* Flits, beats and slots of a request that lies in memory.
LEMMA RequestSizes ==
  ASSUME NEW q \in Fitting
  PROVE  /\ q \in Request /\ q.addr \in Nat /\ q.size \in Nat
         /\ Flits(q) \in 1 .. Words /\ q.addr + Flits(q) <= Words
         /\ FirstSlot(q.addr) \in Slot /\ Denied(q) \in BOOLEAN
         /\ BeatAddr(q.addr) \in Nat /\ BeatAddr(q.addr) + FirstSlot(q.addr) = q.addr
         /\ Beats(q) \in Nat /\ Beats(q) >= 1
  <1>1. /\ q \in Request /\ q.addr \in Nat /\ q.addr <= Words - 1 /\ q.size \in Nat
        /\ q.addr + Flits(q) <= Words
    BY Sizes DEF Fitting, Request
  <1>2. Flits(q) \in Nat /\ Flits(q) >= 1
    BY <1>1, PowerBound DEF Flits
  <1>3. Flits(q) \in 1 .. Words
    BY <1>1, <1>2, Sizes
  <1>5. /\ FirstSlot(q.addr) \in Slot
        /\ BeatAddr(q.addr) \in Nat /\ BeatAddr(q.addr) + FirstSlot(q.addr) = q.addr
    BY <1>1, BeatDiv, Zenon
  <1>6. Beats(q) \in Nat /\ Beats(q) >= 1
    <2>1. CASE Flits(q) >= FlitsPerBeat
      BY <1>2, <2>1, FlitsDiv, Zenon DEF Beats
    <2>2. CASE ~(Flits(q) >= FlitsPerBeat)
      BY <2>2 DEF Beats
    <2> QED
      BY <2>1, <2>2
  <1> QED
    BY <1>1, <1>2, <1>3, <1>5, <1>6 DEF Denied

\* Every location is in a beat that lies in memory.
LEMMA LastBeat ==
  ASSUME NEW x \in Nat, FlitsPerBeat * x < Words
  PROVE  FlitsPerBeat * x + FlitsPerBeat <= Words
  <1> DEFINE y == Words \div FlitsPerBeat
  <1>1. Words = FlitsPerBeat * y /\ y \in Nat
    <2>1. FirstSlot(Words) = 0
      BY MemoryAssumption, Zenon DEF FirstSlot
    <2>2. BeatAddr(Words) = FlitsPerBeat * y /\ y \in Nat
          /\ BeatAddr(Words) \in Nat /\ BeatAddr(Words) + FirstSlot(Words) = Words
      BY Sizes, BeatDiv, Zenon
    <2> HIDE DEF y
    <2> QED
      BY <2>1, <2>2
  <1> HIDE DEF y
  <1>2. FlitsPerBeat * x < FlitsPerBeat * y
    BY <1>1
  <1> QED
    BY <1>1, <1>2, Sizes, MultipleGap

\* The beats of a request lie in memory.
LEMMA BeatsInMemory ==
  ASSUME NEW q \in Fitting
  PROVE  BeatAddr(q.addr) + Beats(q) * FlitsPerBeat <= Words
  <1>1. /\ q.addr \in Nat /\ Flits(q) \in 1 .. Words /\ q.addr + Flits(q) <= Words
        /\ BeatAddr(q.addr) \in Nat /\ BeatAddr(q.addr) <= q.addr
    BY RequestSizes, Sizes DEF Slot
  <1>2. CASE Flits(q) >= FlitsPerBeat
    <2>1. Flits(q) \in Nat
      BY <1>1
    <2>3. Beats(q) * FlitsPerBeat \in Nat /\ Beats(q) * FlitsPerBeat <= Flits(q)
      BY <1>2, <2>1, FlitsDiv, Zenon DEF Beats
    <2> QED
      BY <1>1, <2>3, Sizes
  <1>3. CASE ~(Flits(q) >= FlitsPerBeat)
    <2>1. Beats(q) * FlitsPerBeat = FlitsPerBeat
      BY <1>3, Sizes DEF Beats
    <2>2. /\ q.addr \div FlitsPerBeat \in Nat
          /\ BeatAddr(q.addr) = FlitsPerBeat * (q.addr \div FlitsPerBeat)
      BY <1>1, BeatDiv, Zenon
    <2>3. BeatAddr(q.addr) < Words
      BY <1>1, Sizes
    <2>4. BeatAddr(q.addr) + FlitsPerBeat <= Words
      <3> DEFINE x == q.addr \div FlitsPerBeat
      <3>1. x \in Nat /\ BeatAddr(q.addr) = FlitsPerBeat * x /\ FlitsPerBeat * x < Words
        BY <2>2, <2>3, Zenon
      <3> HIDE DEF x
      <3> QED
        BY <3>1, LastBeat
    <2> QED
      BY <2>1, <2>4, Zenon
  <1> QED
    BY <1>2, <1>3

-----------------------------------------------------------------------------
(* Types *)

Ids == 1 .. Len(req)
Beat == [Slot -> Cell]
Strobe == [Slot -> BOOLEAN]
Value == 0 .. Values - 1

\* A burst lies in memory.
Burst(ids) == {b \in [addr : Nat, beats : Nat \ {0}, id : ids] :
                  b.addr + b.beats * FlitsPerBeat <= Words}
JobType(ids) == [denied : BOOLEAN, flits : 1 .. Words, slot : Slot, id : ids]
PosType == [flit : 0 .. Words, slot : Slot, last : 0 .. MaxBeats - 1]
ReadJob(ids) == [from : ReadPort, id : ids, flits : Nat \ {0}]
Flit(ids) == [start : BOOLEAN, id : ids, pos : Int, last : BOOLEAN, cell : Cell]
MaskType(ids) == [id : ids, from : Nat, bits : [0 .. MaskFlits - 1 -> BOOLEAN]]
ResponseType(ids) == [denied : BOOLEAN, bursts : Int, id : ids]
BackType(ids) == [slot : Slot, old : Value, id : ids, addr : Int, beat : BOOLEAN,
                  burst : BOOLEAN, last : BOOLEAN]
DataType(ids) == [id : ids, addr : Int, data : Beat, strb : Strobe, last : BOOLEAN]
OutType(ids) == [id : ids, pos : Int, last : BOOLEAN, cell : Cell]
Fetched(ids) == [id : ids, addr : Nat, cells : Beat]
AwType(ids) == [port : WritePort, addr : Nat, beats : Nat \ {0}, id : ids]
QueueType(ids) == [addr : Nat, id : ids, data : Beat, strb : Strobe, final : BOOLEAN]

\* Requests and answers.
HistOK ==
    /\ todo \in Seq(Fitting) /\ req \in Seq(Fitting)
    /\ answer \in Seq(Seq(Cell)) /\ Len(answer) = Len(req)
    /\ answered \subseteq Ids /\ current \in 0 .. Len(req)

\* A request whose data is being taken has flits left, and the mask flits of a
\* masked write are where the counter expects them.
UOK ==
    /\ u \in [state : {"IDLE", "DATA_FORWARD", "DATA_FORWARD_PARTIAL", "DATA_FORWARD_RMW"},
              cntr : Nat, mask_cntr : 0 .. 15]
    /\ u.state # "IDLE" => /\ Len(req) >= 1
                           /\ u.cntr \in 1 .. DataFlits(req[Len(req)])
    /\ u.state = "DATA_FORWARD_PARTIAL" =>
          u.mask_cntr = (DataFlits(req[Len(req)]) - u.cntr) % (MaskFlits + 1)

WaitOK ==
    /\ DOMAIN waiting = {"rd", "wr", "hint"}
    /\ waiting["rd"] \in Seq(ReadJob(Ids))
    /\ waiting["wr"] \in Seq(Ids) /\ waiting["hint"] \in Seq(Ids)
    /\ tlc \in Seq(Ids)

\* A sequence of flits: a message begins after the last flit of the one before.
\* A message has begun before the sequence, and goes on after it.
Whole(s, begun, goesOn) ==
    /\ \A i \in 1 .. Len(s) : s[i].start <=> (IF i = 1 THEN ~ begun ELSE s[i - 1].last)
    /\ IF Len(s) = 0 THEN begun <=> goesOn ELSE ~ s[Len(s)].last <=> goesOn

\* Flits leave a source as whole messages.
OutOK ==
    /\ sending \in BOOLEAN /\ forwarding \in {"IDLE", "READ", "WRITE", "TLC"}
    /\ forwarding # "IDLE" => current # 0
    /\ out \in [{"READ", "WRITE", "TLC"} -> Seq(Flit(Ids))]
    /\ \A k \in {"READ", "WRITE", "TLC"} :
          Whole(out[k], forwarding = k, k = "READ" /\ sending)

PrepOK ==
    /\ prep \in [Handler -> [requests : Seq(Burst(Ids)), left : Nat, addr : Nat]]
    /\ \A h \in Handler : prep[h].left # 0 =>
          prep[h].requests # <<>> /\ prep[h].addr + prep[h].left * FlitsPerBeat <= Words

JobOK ==
    /\ beats \in [Handler -> Seq(JobType(Ids))]
    /\ pos \in [Handler -> PosType]

BufOK ==
    /\ buf \in [Handler -> Beat] /\ mask \in [WritePort -> Strobe]

InOK ==
    /\ data_in \in [WritePort -> Seq(Cell)]
    /\ mask_in \in [fifo : Seq(MaskType(Ids)), cntr : 0 .. MaskFlits - 1]

DoneOK ==
    /\ responses \in [fifo : Seq(ResponseType(Ids)), received : Nat] /\ done \in Nat

BackOK ==
    /\ writeback \in [fifo : Seq(BackType(Ids)), buffer : Beat]
    /\ data_out \in [ReadPort -> Seq(OutType(Ids))]

RdOK == rd \in [ReadPort -> [addr : Seq(Burst(Ids)), data : Seq(Fetched(Ids))]]

WrOK == wr \in [WritePort -> [addr : Seq(Burst(Ids)), data : Seq(DataType(Ids)),
                              resp : Seq([id : Ids, addr : Nat])]]

AxiOK ==
    /\ write_order \in Seq(WritePort) /\ aw \in Seq(AwType(Ids))
    /\ queue \in [WritePort -> Seq(QueueType(Ids))]
    /\ mem \in [0 .. Words - 1 -> Cell]

Types ==
    /\ HistOK /\ UOK /\ WaitOK /\ OutOK /\ PrepOK /\ JobOK /\ BufOK /\ InOK
    /\ DoneOK /\ BackOK /\ RdOK /\ WrOK /\ AxiOK

\* A sequence over a set is one over a larger set.
LEMMA SeqMono ==
  ASSUME NEW A, NEW B, A \subseteq B, NEW s \in Seq(A)
  PROVE  s \in Seq(B)
  OBVIOUS

\* The types grow with the requests that are known.
LEMMA TypesGrow ==
  ASSUME NEW I, NEW J, I \subseteq J
  PROVE  /\ Seq(I) \subseteq Seq(J)
         /\ Seq(Burst(I)) \subseteq Seq(Burst(J)) /\ Seq(JobType(I)) \subseteq Seq(JobType(J))
         /\ Seq(ReadJob(I)) \subseteq Seq(ReadJob(J)) /\ Seq(Flit(I)) \subseteq Seq(Flit(J))
         /\ Seq(MaskType(I)) \subseteq Seq(MaskType(J))
         /\ Seq(ResponseType(I)) \subseteq Seq(ResponseType(J))
         /\ Seq(BackType(I)) \subseteq Seq(BackType(J)) /\ Seq(DataType(I)) \subseteq Seq(DataType(J))
         /\ Seq(OutType(I)) \subseteq Seq(OutType(J)) /\ Seq(Fetched(I)) \subseteq Seq(Fetched(J))
         /\ Seq(AwType(I)) \subseteq Seq(AwType(J)) /\ Seq(QueueType(I)) \subseteq Seq(QueueType(J))
         /\ Seq([id : I, addr : Nat]) \subseteq Seq([id : J, addr : Nat])
  <1>0. \A A, B : A \subseteq B => Seq(A) \subseteq Seq(B)
    BY SeqMono
  <1>1. Seq(I) \subseteq Seq(J)
    BY <1>0
  <1>2. Seq(Burst(I)) \subseteq Seq(Burst(J))
    <2>1. Burst(I) \subseteq Burst(J)
      BY DEF Burst
    <2> QED
      BY <2>1, <1>0, Zenon
  <1>3. Seq(JobType(I)) \subseteq Seq(JobType(J))
    <2>1. JobType(I) \subseteq JobType(J)
      BY DEF JobType
    <2> QED
      BY <2>1, <1>0, Zenon
  <1>4. Seq(ReadJob(I)) \subseteq Seq(ReadJob(J))
    <2>1. ReadJob(I) \subseteq ReadJob(J)
      BY DEF ReadJob
    <2> QED
      BY <2>1, <1>0, Zenon
  <1>5. Seq(Flit(I)) \subseteq Seq(Flit(J))
    <2>1. Flit(I) \subseteq Flit(J)
      BY DEF Flit
    <2> QED
      BY <2>1, <1>0, Zenon
  <1>6. Seq(MaskType(I)) \subseteq Seq(MaskType(J))
    <2>1. MaskType(I) \subseteq MaskType(J)
      BY DEF MaskType
    <2> QED
      BY <2>1, <1>0, Zenon
  <1>7. Seq(ResponseType(I)) \subseteq Seq(ResponseType(J))
    <2>1. ResponseType(I) \subseteq ResponseType(J)
      BY DEF ResponseType
    <2> QED
      BY <2>1, <1>0, Zenon
  <1>8. Seq(BackType(I)) \subseteq Seq(BackType(J))
    <2>1. BackType(I) \subseteq BackType(J)
      BY DEF BackType
    <2> QED
      BY <2>1, <1>0, Zenon
  <1>9. Seq(DataType(I)) \subseteq Seq(DataType(J))
    <2>1. DataType(I) \subseteq DataType(J)
      BY DEF DataType
    <2> QED
      BY <2>1, <1>0, Zenon
  <1>10. Seq(OutType(I)) \subseteq Seq(OutType(J))
    <2>1. OutType(I) \subseteq OutType(J)
      BY DEF OutType
    <2> QED
      BY <2>1, <1>0, Zenon
  <1>11. Seq(Fetched(I)) \subseteq Seq(Fetched(J))
    <2>1. Fetched(I) \subseteq Fetched(J)
      BY DEF Fetched
    <2> QED
      BY <2>1, <1>0, Zenon
  <1>12. Seq(AwType(I)) \subseteq Seq(AwType(J))
    <2>1. AwType(I) \subseteq AwType(J)
      BY DEF AwType
    <2> QED
      BY <2>1, <1>0, Zenon
  <1>13. Seq(QueueType(I)) \subseteq Seq(QueueType(J))
    <2>1. QueueType(I) \subseteq QueueType(J)
      BY DEF QueueType
    <2> QED
      BY <2>1, <1>0, Zenon
  <1>14. Seq([id : I, addr : Nat]) \subseteq Seq([id : J, addr : Nat])
    <2>1. [id : I, addr : Nat] \subseteq [id : J, addr : Nat]
      OBVIOUS
    <2> QED
      BY <2>1, <1>0, Zenon
  <1> QED
    BY <1>1, <1>2, <1>3, <1>4, <1>5, <1>6, <1>7, <1>8, <1>9, <1>10, <1>11, <1>12, <1>13, <1>14

\* A part of the types holds on while its variables do not change and requests
\* are at most added.
LEMMA FrameHist ==
  ASSUME HistOK, UNCHANGED <<todo, req, answer, answered, current>>
  PROVE  HistOK'
  BY Zenon DEF HistOK, Ids

\* TilelinkHandlerTLUH takes no flit.
LEMMA FrameU ==
  ASSUME UOK, UNCHANGED <<u, req>>
  PROVE  UOK'
  BY Zenon DEF UOK, DataFlits, Flits

\* No request begins or ends to wait for its response.
LEMMA FrameWait ==
  ASSUME WaitOK, Ids \subseteq Ids', UNCHANGED <<waiting, tlc>>
  PROVE  WaitOK'
  <1>1. /\ Seq(ReadJob(Ids)) \subseteq Seq(ReadJob(Ids')) /\ Seq(Ids) \subseteq Seq(Ids')
    BY TypesGrow, Zenon
  <1> QED
    BY <1>1, Zenon DEF WaitOK, ReadJob

\* No response is on its way.
LEMMA FrameOut ==
  ASSUME OutOK, Ids \subseteq Ids', UNCHANGED <<sending, forwarding, out, current>>
  PROVE  OutOK'
  <1>1. Seq(Flit(Ids)) \subseteq Seq(Flit(Ids'))
    BY TypesGrow, Zenon
  <1>2. out' \in [{"READ", "WRITE", "TLC"} -> Seq(Flit(Ids'))]
    BY <1>1 DEF OutOK
  <1> QED
    BY <1>2, Zenon DEF OutOK, Flit

\* No handler asks for a burst.
LEMMA FramePrep ==
  ASSUME PrepOK, Ids \subseteq Ids', UNCHANGED prep
  PROVE  PrepOK'
  <1>1. Seq(Burst(Ids)) \subseteq Seq(Burst(Ids'))
    BY TypesGrow, Zenon
  <1>2. prep' \in [Handler -> [requests : Seq(Burst(Ids')), left : Nat, addr : Nat]]
    BY <1>1 DEF PrepOK
  <1> QED
    BY <1>2, Zenon DEF PrepOK, Burst

\* No handler starts, takes or finishes a request.
LEMMA FrameJob ==
  ASSUME JobOK, Ids \subseteq Ids', UNCHANGED <<beats, pos>>
  PROVE  JobOK'
  <1>1. Seq(JobType(Ids)) \subseteq Seq(JobType(Ids'))
    BY TypesGrow, Zenon
  <1>2. beats' \in [Handler -> Seq(JobType(Ids'))]
    BY <1>1 DEF JobOK
  <1> QED
    BY <1>2, Zenon DEF JobOK, JobType

\* The beats and masks that are put together stay.
LEMMA FrameBuf ==
  ASSUME BufOK, UNCHANGED <<buf, mask>>
  PROVE  BufOK'
  BY Zenon DEF BufOK

\* No data or mask arrives at a handler or leaves its FIFO.
LEMMA FrameIn ==
  ASSUME InOK, Ids \subseteq Ids', UNCHANGED <<data_in, mask_in>>
  PROVE  InOK'
  <1>1. Seq(MaskType(Ids)) \subseteq Seq(MaskType(Ids'))
    BY TypesGrow, Zenon
  <1>2. mask_in' \in [fifo : Seq(MaskType(Ids')), cntr : 0 .. MaskFlits - 1]
    BY <1>1 DEF InOK
  <1> QED
    BY <1>2, Zenon DEF InOK, MaskType

\* No write is acknowledged.
LEMMA FrameDone ==
  ASSUME DoneOK, Ids \subseteq Ids', UNCHANGED <<responses, done>>
  PROVE  DoneOK'
  <1>1. Seq(ResponseType(Ids)) \subseteq Seq(ResponseType(Ids'))
    BY TypesGrow, Zenon
  <1>2. responses' \in [fifo : Seq(ResponseType(Ids')), received : Nat]
    BY <1>1 DEF DoneOK
  <1> QED
    BY <1>2, Zenon DEF DoneOK, ResponseType

\* The RMW handler writes nothing back.
LEMMA FrameBack ==
  ASSUME BackOK, Ids \subseteq Ids', UNCHANGED <<writeback, data_out>>
  PROVE  BackOK'
  <1>1. Seq(BackType(Ids)) \subseteq Seq(BackType(Ids')) /\ Seq(OutType(Ids)) \subseteq Seq(OutType(Ids'))
    BY TypesGrow, Zenon
  <1>2. writeback' \in [fifo : Seq(BackType(Ids')), buffer : Beat]
    BY <1>1 DEF BackOK
  <1>3. data_out' \in [ReadPort -> Seq(OutType(Ids'))]
    BY <1>1 DEF BackOK
  <1> QED
    BY <1>2, <1>3, Zenon DEF BackOK, BackType, OutType

\* No read of a port is asked for or answered.
LEMMA FrameRd ==
  ASSUME RdOK, Ids \subseteq Ids', UNCHANGED rd
  PROVE  RdOK'
  <1>1. Seq(Burst(Ids)) \subseteq Seq(Burst(Ids')) /\ Seq(Fetched(Ids)) \subseteq Seq(Fetched(Ids'))
    BY TypesGrow, Zenon
  <1>2. rd' \in [ReadPort -> [addr : Seq(Burst(Ids')), data : Seq(Fetched(Ids'))]]
    BY <1>1 DEF RdOK
  <1> QED
    BY <1>2, Zenon DEF RdOK, Burst, Fetched

\* No write of a port is asked for or answered.
LEMMA FrameWr ==
  ASSUME WrOK, Ids \subseteq Ids', UNCHANGED wr
  PROVE  WrOK'
  <1>1. /\ Seq(Burst(Ids)) \subseteq Seq(Burst(Ids')) /\ Seq(DataType(Ids)) \subseteq Seq(DataType(Ids'))
        /\ Seq([id : Ids, addr : Nat]) \subseteq Seq([id : Ids', addr : Nat])
    BY TypesGrow, Zenon
  <1>2. wr' \in [WritePort -> [addr : Seq(Burst(Ids')), data : Seq(DataType(Ids')),
                               resp : Seq([id : Ids', addr : Nat])]]
    BY <1>1 DEF WrOK
  <1> QED
    BY <1>2, Zenon DEF WrOK, Burst, DataType

\* The merger and the memory do nothing.
LEMMA FrameAxi ==
  ASSUME AxiOK, Ids \subseteq Ids', UNCHANGED <<write_order, aw, queue, mem>>
  PROVE  AxiOK'
  <1>1. Seq(AwType(Ids)) \subseteq Seq(AwType(Ids')) /\ Seq(QueueType(Ids)) \subseteq Seq(QueueType(Ids'))
    BY TypesGrow, Zenon
  <1>2. aw' \in Seq(AwType(Ids')) /\ queue' \in [WritePort -> Seq(QueueType(Ids'))]
    BY <1>1 DEF AxiOK
  <1> QED
    BY <1>2, Zenon DEF AxiOK, AwType, QueueType

-----------------------------------------------------------------------------
(* The types hold: requests *)

\* The initial state.
LEMMA TypesInit ==
  ASSUME Init
  PROVE  Types
  <1> USE Sizes
  <1>0. Zero \in Cell /\ NoBeat \in Beat /\ NoMask \in Strobe
    BY DEF Zero, Cell, NoBeat, Beat, NoMask, Strobe
  <1>1. HistOK
    <2>1. todo \in Seq(Fitting)
      <3>1. todo \in Programs
        BY DEF Init
      <3>2. todo \in Seq(Request) /\ \A i \in DOMAIN todo : todo[i].addr + Flits(todo[i]) <= Words
        BY <3>1, MemoryAssumption
      <3> QED
        BY <3>2 DEF Fitting
    <2> QED
      BY <2>1 DEF Init, HistOK, Ids
  <1>2. UOK /\ WaitOK
    BY DEF Init, UOK, WaitOK
  <1>3. OutOK
    <2>1. /\ sending = FALSE /\ forwarding = "IDLE" /\ out = [k \in {"READ", "WRITE", "TLC"} |-> <<>>]
      BY DEF Init
    <2>2. \A k \in {"READ", "WRITE", "TLC"} : Len(out[k]) = 0 /\ forwarding # k /\ ~sending
      BY <2>1
    <2>3. out \in [{"READ", "WRITE", "TLC"} -> Seq(Flit(Ids))]
      BY <2>1
    <2>4. \A k \in {"READ", "WRITE", "TLC"} : \A i \in 1 .. Len(out[k]) : FALSE
      BY <2>2
    <2> QED
      BY <2>1, <2>2, <2>3, <2>4, Zenon DEF OutOK, Whole
  <1>4. PrepOK /\ JobOK
    BY DEF Init, PrepOK, JobOK, PosType
  <1>5. BufOK /\ InOK /\ DoneOK /\ BackOK
    BY <1>0 DEF Init, BufOK, InOK, DoneOK, BackOK
  <1>6. RdOK /\ WrOK
    BY DEF Init, RdOK, WrOK
  <1>7. AxiOK
    <2>1. 1 % Values \in 0 .. Values - 1
      OBVIOUS
    <2> QED
      BY <2>1 DEF Init, AxiOK, Cell
  <1> QED
    BY <1>1, <1>2, <1>3, <1>4, <1>5, <1>6, <1>7 DEF Types

\* A request is accepted.
LEMMA AcceptTypes ==
  ASSUME Types, NEW op, Accept(op)
  PROVE  /\ HistOK' /\ Ids \subseteq Ids' /\ Len(req) + 1 \in Ids'
         /\ RdOK' /\ WrOK' /\ AxiOK'
         /\ Head(todo) \in Fitting /\ Len(req') = Len(req) + 1 /\ req'[Len(req) + 1] = Head(todo)
  <1> USE DEF Accept
  <1>1. /\ todo \in Seq(Fitting) /\ req \in Seq(Fitting) /\ todo # <<>>
        /\ answer \in Seq(Seq(Cell)) /\ Len(answer) = Len(req)
        /\ answered \subseteq Ids /\ current \in 0 .. Len(req)
    BY DEF Types, HistOK
  <1>2. /\ todo' \in Seq(Fitting) /\ req' \in Seq(Fitting) /\ Head(todo) \in Fitting
        /\ Len(req') = Len(req) + 1 /\ req'[Len(req) + 1] = Head(todo)
    BY <1>1
  <1>3. Ids \subseteq Ids' /\ Len(req) + 1 \in Ids'
    BY <1>1, <1>2 DEF Ids
  <1>4. answer' \in Seq(Seq(Cell)) /\ Len(answer') = Len(req')
    <2>1. <<>> \in Seq(Cell)
      OBVIOUS
    <2>2. answer' = Append(answer, <<>>)
      OBVIOUS
    <2> QED
      BY <1>1, <1>2, <2>1, <2>2
  <1>5. HistOK'
    BY <1>1, <1>2, <1>3, <1>4 DEF HistOK
  <1>6. RdOK' /\ WrOK' /\ AxiOK'
    BY <1>3, FrameRd, FrameWr, FrameAxi, Zenon DEF Types, axi
  <1> QED
    BY <1>2, <1>3, <1>5, <1>6

\* A burst handler gets a request.
LEMMA StartTypes ==
  ASSUME JobOK, PrepOK, NEW h \in Handler, NEW q \in Fitting, NEW id \in Ids',
         Ids \subseteq Ids', Start(h, q, id), UNCHANGED pos
  PROVE  JobOK' /\ PrepOK'
  <1> DEFINE job == [denied |-> Denied(q), flits |-> Flits(q), slot |-> FirstSlot(q.addr), id |-> id]
             burst == [addr |-> BeatAddr(q.addr), beats |-> Beats(q), id |-> id]
  <1>1. job \in JobType(Ids')
    BY RequestSizes DEF JobType
  <1>2. burst \in Burst(Ids')
    BY RequestSizes, BeatsInMemory DEF Burst
  <1>3. Seq(JobType(Ids)) \subseteq Seq(JobType(Ids')) /\ Seq(Burst(Ids)) \subseteq Seq(Burst(Ids'))
    BY TypesGrow, Zenon
  <1> HIDE DEF job, burst
  <1>4. beats' = [beats EXCEPT ![h] = Append(beats[h], job)]
    BY DEF Start, job
  <1>5. beats' \in [Handler -> Seq(JobType(Ids'))]
    BY <1>1, <1>3, <1>4 DEF JobOK
  <1>6. JobOK'
    BY <1>5, Zenon DEF JobOK, JobType
  <1>7. CASE prep' = prep
    BY <1>7, FramePrep, <1>6
  <1>8. CASE prep' = [prep EXCEPT ![h].requests = Append(@, burst)]
    <2>1. prep' \in [Handler -> [requests : Seq(Burst(Ids')), left : Nat, addr : Nat]]
      <3> DEFINE r == [prep[h] EXCEPT !.requests = Append(@, burst)]
      <3>1. prep \in [Handler -> [requests : Seq(Burst(Ids')), left : Nat, addr : Nat]]
        BY <1>3 DEF PrepOK
      <3>2. r \in [requests : Seq(Burst(Ids')), left : Nat, addr : Nat]
        <4>1. prep[h] \in [requests : Seq(Burst(Ids')), left : Nat, addr : Nat]
          BY <3>1
        <4>2. Append(prep[h].requests, burst) \in Seq(Burst(Ids'))
          BY <4>1, <1>2
        <4> QED
          BY <4>1, <4>2
      <3>3. prep' = [prep EXCEPT ![h] = r]
        BY <1>8
      <3> HIDE DEF r
      <3> QED
        BY <3>1, <3>2, <3>3
    <2>2. ASSUME NEW g \in Handler, prep'[g].left # 0
          PROVE  prep'[g].requests # <<>> /\ prep'[g].addr + prep'[g].left * FlitsPerBeat <= Words
      <3>1. prep'[g].left = prep[g].left /\ prep'[g].addr = prep[g].addr
        BY <1>8 DEF PrepOK
      <3>2. prep[g].requests # <<>> /\ prep[g].addr + prep[g].left * FlitsPerBeat <= Words
        BY <2>2, <3>1 DEF PrepOK
      <3>3. prep'[g].requests # <<>>
        <4>1. CASE g = h
          <5>1. prep'[g].requests = Append(prep[g].requests, burst)
            BY <1>8, <4>1 DEF PrepOK
          <5>2. prep[g].requests \in Seq(Burst(Ids'))
            BY <1>3 DEF PrepOK
          <5> QED
            BY <5>1, <5>2, <1>2
        <4>2. CASE g # h
          BY <1>8, <4>2, <3>2 DEF PrepOK
        <4> QED
          BY <4>1, <4>2
      <3> QED
        BY <3>1, <3>2, <3>3
    <2>3. PrepOK'
      BY <2>1, <2>2, Zenon DEF PrepOK, Burst
    <2> QED
      BY <2>3, <1>6
  <1> QED
    BY <1>7, <1>8 DEF Start, burst

\* The flits that follow a request.
LEMMA DataFlitsType ==
  ASSUME NEW q \in Fitting
  PROVE  DataFlits(q) \in Nat /\ DataFlits(q) >= Flits(q) /\ DataFlits(q) >= 1
  <1> DEFINE n == Flits(q) + MaskFlits - 1
  <1>1. Flits(q) \in Nat /\ Flits(q) >= 1
    BY RequestSizes
  <1>2. n \in Int /\ n \in Nat /\ MaskFlits \in Nat /\ MaskFlits >= 1
    BY <1>1, Sizes
  <1>3. n \div MaskFlits \in Nat
    <2> HIDE DEF n
    <2> QED
      BY <1>2, DivMod, Zenon
  <1>4. DataFlits(q) = IF q.op = "PutPartialData" THEN Flits(q) + (n \div MaskFlits) ELSE Flits(q)
    BY Zenon DEF DataFlits
  <1> DEFINE m == n \div MaskFlits
  <1> HIDE DEF m
  <1>5. m \in Nat
    BY <1>3, Zenon DEF m
  <1>6. DataFlits(q) = IF q.op = "PutPartialData" THEN Flits(q) + m ELSE Flits(q)
    BY <1>4, Zenon DEF m
  <1> QED
    BY <1>1, <1>5, <1>6

\* The number of responses a write waits for.
LEMMA BurstsType ==
  ASSUME NEW q \in Fitting
  PROVE  Bursts(q) \in Nat /\ Bursts(q) >= 1
  <1> DEFINE n == Beats(q) - 1
             m == n \div MaxBeats
  <1>1. n \in Int /\ n \in Nat /\ MaxBeats \in Nat /\ MaxBeats >= 1
    BY RequestSizes, Sizes
  <1> HIDE DEF n
  <1>2. m \in Nat
    BY <1>1, DivMod, Zenon
  <1>3. Bursts(q) = m + 1
    BY Zenon DEF Bursts, n
  <1> HIDE DEF m
  <1> QED
    BY <1>2, <1>3

\* A request is put into one of the lists of waiting requests.
LEMMA WaitTypes ==
  ASSUME WaitOK, Ids \subseteq Ids', UNCHANGED tlc, NEW w, NEW b \in {"rd", "wr", "hint"}, Wait(b, w),
         w \in (IF b = "rd" THEN ReadJob(Ids') ELSE Ids')
  PROVE  WaitOK'
  <1>1. /\ Seq(ReadJob(Ids)) \subseteq Seq(ReadJob(Ids')) /\ Seq(Ids) \subseteq Seq(Ids')
    BY TypesGrow, Zenon
  <1>2. waiting' = [waiting EXCEPT ![b] = Append(waiting[b], w)]
    BY DEF Wait
  <1>3. DOMAIN waiting' = {"rd", "wr", "hint"}
    BY <1>2 DEF WaitOK
  <1>4. waiting'["rd"] \in Seq(ReadJob(Ids'))
    BY <1>1, <1>2 DEF WaitOK
  <1>5. waiting'["wr"] \in Seq(Ids') /\ waiting'["hint"] \in Seq(Ids')
    BY <1>1, <1>2 DEF WaitOK
  <1>6. tlc' \in Seq(Ids')
    BY <1>1 DEF WaitOK
  <1> QED
    BY <1>3, <1>4, <1>5, <1>6, Zenon DEF WaitOK, ReadJob

\* The parts of a state that StartRead, StartWrite and StartRMW leave alone.
LEMMA StartFrame ==
  ASSUME Types, Ids \subseteq Ids',
         UNCHANGED <<sending, out, forwarding, current, buf, mask, data_in, mask_in, done,
                     writeback, data_out>>
  PROVE  OutOK' /\ BufOK' /\ InOK' /\ BackOK'
  BY FrameOut, FrameBuf, FrameIn, FrameBack, Zenon DEF Types

\* startRead
LEMMA TypesStartRead ==
  ASSUME Types, StartRead
  PROVE  Types'
  <1>1. /\ HistOK' /\ Ids \subseteq Ids' /\ Len(req) + 1 \in Ids' /\ RdOK' /\ WrOK' /\ AxiOK'
        /\ Head(todo) \in Fitting
    BY AcceptTypes DEF StartRead
  <1>2. JobOK' /\ PrepOK'
    BY <1>1, StartTypes DEF StartRead, Types, Handler
  <1>3. WaitOK'
    <2> DEFINE w == [from |-> "read", id |-> Len(req) + 1, flits |-> Flits(Head(todo))]
    <2>1. w \in ReadJob(Ids')
      BY <1>1, RequestSizes DEF ReadJob, ReadPort
    <2>2. Wait("rd", w)
      BY DEF StartRead
    <2> HIDE DEF w
    <2> QED
      BY <1>1, <2>1, <2>2, WaitTypes DEF StartRead, Types
  <1>4. UOK'
    BY DEF StartRead, Accept, Types, UOK
  <1>5. OutOK' /\ BufOK' /\ InOK' /\ BackOK'
    BY <1>1, StartFrame DEF StartRead, Accept
  <1>6. DoneOK'
    BY <1>1, FrameDone DEF StartRead, Types
  <1> QED
    BY <1>1, <1>2, <1>3, <1>4, <1>5, <1>6 DEF Types

\* startWrite
LEMMA TypesStartWrite ==
  ASSUME Types, StartWrite
  PROVE  Types'
  <1> DEFINE q == Head(todo)
             r == [denied |-> Denied(q), bursts |-> Bursts(q), id |-> Len(req) + 1]
  <1>1. /\ HistOK' /\ Ids \subseteq Ids' /\ Len(req) + 1 \in Ids' /\ RdOK' /\ WrOK' /\ AxiOK'
        /\ q \in Fitting /\ Len(req') = Len(req) + 1 /\ req'[Len(req) + 1] = q
    BY AcceptTypes DEF StartWrite
  <1>2. JobOK' /\ PrepOK'
    BY <1>1, StartTypes DEF StartWrite, Types, Handler
  <1>3. WaitOK'
    BY <1>1, WaitTypes DEF StartWrite, Types
  <1>4. UOK'
    <2> DEFINE s == IF q.op = "PutFullData" THEN "DATA_FORWARD" ELSE "DATA_FORWARD_PARTIAL"
    <2>1. u' = [state |-> s, cntr |-> DataFlits(q), mask_cntr |-> 0]
      BY DEF StartWrite
    <2>2. DataFlits(q) \in Nat /\ DataFlits(q) >= 1
      BY <1>1, DataFlitsType
    <2>3. DataFlits(req[Len(req)])' = DataFlits(q)
      BY <1>1 DEF DataFlits, Flits
    <2>4. Len(req') >= 1
      BY <1>1 DEF Types, HistOK
    <2>5. s \in {"DATA_FORWARD", "DATA_FORWARD_PARTIAL"}
      OBVIOUS
    <2>6. 0 % (MaskFlits + 1) = 0
      BY Sizes
    <2>7. (DataFlits(q) - u'.cntr) % (MaskFlits + 1) = 0
      BY <2>1, <2>2, <2>6
    <2> HIDE DEF s, q
    <2> QED
      BY <2>1, <2>2, <2>3, <2>4, <2>5, <2>7 DEF UOK
  <1>5. OutOK' /\ BufOK' /\ InOK' /\ BackOK'
    BY <1>1, StartFrame DEF StartWrite, Accept
  <1>6. DoneOK'
    <2>1. r \in ResponseType(Ids')
      BY <1>1, RequestSizes, BurstsType DEF ResponseType
    <2>2. Seq(ResponseType(Ids)) \subseteq Seq(ResponseType(Ids'))
      BY <1>1, TypesGrow, Zenon
    <2>3. responses' = [responses EXCEPT !.fifo = Append(@, r)] /\ done' = done
      BY DEF StartWrite
    <2> HIDE DEF r
    <2>4. responses.fifo \in Seq(ResponseType(Ids')) /\ responses.received \in Nat /\ done \in Nat
      BY <2>2 DEF Types, DoneOK
    <2>5. responses' \in [fifo : Seq(ResponseType(Ids')), received : Nat]
      <3>1. Append(responses.fifo, r) \in Seq(ResponseType(Ids'))
        BY <2>1, <2>4
      <3> QED
        BY <3>1, <2>3, <2>4 DEF Types, DoneOK
    <2> QED
      BY <2>3, <2>4, <2>5, Zenon DEF DoneOK, ResponseType
  <1> QED
    BY <1>1, <1>2, <1>3, <1>4, <1>5, <1>6 DEF Types

\* startRMW
LEMMA TypesStartRMW ==
  ASSUME Types, StartRMW
  PROVE  Types'
  <1> DEFINE q == Head(todo)
  <1>1. /\ HistOK' /\ Ids \subseteq Ids' /\ Len(req) + 1 \in Ids' /\ RdOK' /\ WrOK' /\ AxiOK'
        /\ q \in Fitting /\ Len(req') = Len(req) + 1 /\ req'[Len(req) + 1] = q
    BY AcceptTypes DEF StartRMW
  <1>2. JobOK' /\ PrepOK'
    BY <1>1, StartTypes DEF StartRMW, Types, Handler
  <1>3. WaitOK'
    <2> DEFINE w == [from |-> "rmw", id |-> Len(req) + 1, flits |-> Flits(Head(todo))]
    <2>1. w \in ReadJob(Ids')
      BY <1>1, RequestSizes DEF ReadJob, ReadPort
    <2>2. Wait("rd", w)
      BY DEF StartRMW
    <2> HIDE DEF w
    <2> QED
      BY <1>1, <2>1, <2>2, WaitTypes DEF StartRMW, Types
  <1>4. UOK'
    <2>1. u' = [u EXCEPT !.state = "DATA_FORWARD_RMW", !.cntr = DataFlits(q)]
      BY DEF StartRMW
    <2>2. DataFlits(q) \in Nat /\ DataFlits(q) >= 1
      BY <1>1, DataFlitsType
    <2>3. DataFlits(req[Len(req)])' = DataFlits(q)
      BY <1>1 DEF DataFlits, Flits
    <2>4. Len(req') >= 1
      BY <1>1 DEF Types, HistOK
    <2> HIDE DEF q
    <2>5. /\ u' \in [state : {"IDLE", "DATA_FORWARD", "DATA_FORWARD_PARTIAL", "DATA_FORWARD_RMW"},
                     cntr : Nat, mask_cntr : 0 .. 15]
          /\ u'.state = "DATA_FORWARD_RMW" /\ u'.cntr = DataFlits(q)
      BY <2>1, <2>2 DEF UOK, Types
    <2>6. u'.cntr \in 1 .. DataFlits(q) /\ u'.state # "DATA_FORWARD_PARTIAL"
      BY <2>2, <2>5
    <2> QED
      BY <2>3, <2>4, <2>5, <2>6, Zenon DEF UOK
  <1>5. OutOK' /\ BufOK' /\ InOK' /\ BackOK'
    BY <1>1, StartFrame DEF StartRMW, Accept
  <1>6. DoneOK'
    BY <1>1, FrameDone DEF StartRMW, Types
  <1> QED
    BY <1>1, <1>2, <1>3, <1>4, <1>5, <1>6 DEF Types

\* startHint
LEMMA TypesStartHint ==
  ASSUME Types, StartHint
  PROVE  Types'
  <1>1. /\ HistOK' /\ Ids \subseteq Ids' /\ Len(req) + 1 \in Ids' /\ RdOK' /\ WrOK' /\ AxiOK'
    BY AcceptTypes DEF StartHint
  <1>2. WaitOK'
    BY <1>1, WaitTypes DEF StartHint, Types
  <1>3. UOK'
    BY DEF StartHint, Accept, Types, UOK
  <1>4. OutOK' /\ BufOK' /\ InOK' /\ BackOK'
    BY <1>1, StartFrame DEF StartHint, Accept, handlers
  <1>5. JobOK' /\ PrepOK' /\ DoneOK'
    BY <1>1, FrameJob, FramePrep, FrameDone DEF StartHint, Types, handlers
  <1> QED
    BY <1>1, <1>2, <1>3, <1>4, <1>5 DEF Types

\* An acquire is passed on.
LEMMA TypesForwardToTLC ==
  ASSUME Types, ForwardToTLC
  PROVE  Types'
  <1>1. /\ HistOK' /\ Ids \subseteq Ids' /\ Len(req) + 1 \in Ids' /\ RdOK' /\ WrOK' /\ AxiOK'
    BY AcceptTypes DEF ForwardToTLC
  <1>2. WaitOK'
    <2>1. /\ Seq(ReadJob(Ids)) \subseteq Seq(ReadJob(Ids')) /\ Seq(Ids) \subseteq Seq(Ids')
      BY <1>1, TypesGrow, Zenon
    <2>2. tlc' \in Seq(Ids')
      BY <1>1, <2>1 DEF ForwardToTLC, Types, WaitOK
    <2> QED
      BY <2>1, <2>2, Zenon DEF ForwardToTLC, Types, WaitOK, ReadJob
  <1>3. UOK'
    BY DEF ForwardToTLC, Accept, Types, UOK
  <1>4. OutOK' /\ BufOK' /\ InOK' /\ BackOK'
    BY <1>1, StartFrame DEF ForwardToTLC, Accept, handlers
  <1>5. JobOK' /\ PrepOK' /\ DoneOK'
    BY <1>1, FrameJob, FramePrep, FrameDone DEF ForwardToTLC, Types, handlers
  <1> QED
    BY <1>1, <1>2, <1>3, <1>4, <1>5 DEF Types

\* Counting on by one, modulo p.
LEMMA ModStep ==
  ASSUME NEW a \in Nat, NEW p \in Nat, p >= 1
  PROVE  (a + 1) % p = IF a % p = p - 1 THEN 0 ELSE (a % p) + 1
  <1> DEFINE x == a \div p
             r == a % p
             y == (a + 1) \div p
             s == (a + 1) % p
  <1>0. a \in Int /\ a + 1 \in Int
    OBVIOUS
  <1>1. x \in Int /\ r \in 0 .. p - 1 /\ a = p * x + r
    BY <1>0, DivMod, Zenon
  <1>2. y \in Int /\ s \in 0 .. p - 1 /\ a + 1 = p * y + s
    BY <1>0, DivMod, Zenon
  <1> HIDE DEF x, r, y, s
  <1>3. CASE r = p - 1
    <2>1. p * (x + 1) = p * x + p /\ p * x \in Int /\ p * y \in Int
      BY <1>1, <1>2
    <2>2. p * (x + 1) + 0 = p * y + s /\ 0 \in 0 .. p - 1 /\ x + 1 \in Int
      BY <1>1, <1>2, <1>3, <2>1
    <2>3. s = 0
      BY <2>2, <1>2, DivUnique, ZenonT(40)
    <2> QED
      BY <2>3, <1>3, Zenon DEF r, s
  <1>4. CASE r # p - 1
    <2>1. p * x \in Int /\ p * y \in Int
      BY <1>1, <1>2
    <2>2. p * x + (r + 1) = p * y + s /\ r + 1 \in 0 .. p - 1
      BY <1>1, <1>2, <1>4, <2>1
    <2>3. s = r + 1
      BY <2>2, <1>1, <1>2, DivUnique
    <2> QED
      BY <2>3, <1>4, Zenon DEF r, s
  <1> QED
    BY <1>3, <1>4

\* The data of a request.
LEMMA DatumType ==
  ASSUME HistOK, NEW id \in Ids, NEW k \in Nat
  PROVE  Datum(id, k) \in Cell
  <1>1. req[id] \in Fitting /\ id \in Nat
    BY DEF HistOK, Ids
  <1>2. req[id].val \in 0 .. Values - 1
    BY <1>1 DEF Fitting, Request
  <1>3. (req[id].val + k) % Values \in 0 .. Values - 1
    BY <1>2, Sizes
  <1> QED
    BY <1>1, <1>3 DEF Datum, Cell

\* Where the flits of a masked write lie: c flits have been taken.
LEMMA PartialIndexType ==
  ASSUME NEW c \in Nat
  PROVE  /\ PartialIndex(c) + 1 \in Nat
         /\ c % (MaskFlits + 1) # 0 => PartialIndex(c) \in Nat
  <1> DEFINE x == c \div (MaskFlits + 1)
             r == c % (MaskFlits + 1)
  <1>1. c \in Int /\ MaskFlits \in Nat /\ MaskFlits + 1 \in Nat /\ MaskFlits + 1 >= 1
    BY Sizes
  <1>2. x \in Nat /\ r \in 0 .. (MaskFlits + 1) - 1
    BY <1>1, DivMod, Zenon
  <1>3. PartialIndex(c) = x * MaskFlits + (r - 1)
    BY Zenon DEF PartialIndex
  <1> HIDE DEF x, r
  <1>4. x * MaskFlits \in Nat
    BY <1>1, <1>2
  <1>5. PartialIndex(c) + 1 \in Nat /\ (r # 0 => PartialIndex(c) \in Nat)
    BY <1>1, <1>2, <1>3, <1>4
  <1> QED
    BY <1>5, Zenon DEF r

\* forward_write_data takes a flit of the newest request.
LEMMA TypesForwardData ==
  ASSUME Types, ForwardData
  PROVE  Types'
  <1> DEFINE id == Len(req)
             q == req[id]
             taken == DataFlits(q) - u.cntr
             end == IF u.state = "DATA_FORWARD" THEN MaskFlits - 1 ELSE MaskFlits
  <1>1. /\ id \in Ids /\ q \in Fitting /\ u.cntr \in 1 .. DataFlits(q) /\ DataFlits(q) \in Nat
        /\ taken \in Nat /\ u.state # "IDLE"
    <2>1. req \in Seq(Fitting) /\ Len(req) \in Nat
      BY DEF Types, HistOK
    <2>2. Len(req) >= 1 /\ u.cntr \in 1 .. DataFlits(req[Len(req)]) /\ u.state # "IDLE"
      BY DEF ForwardData, Types, UOK
    <2>3. id \in Ids /\ q \in Fitting
      BY <2>1, <2>2 DEF Ids
    <2>4. DataFlits(q) \in Nat
      BY <2>3, DataFlitsType
    <2> QED
      BY <2>2, <2>3, <2>4
  <1>2. /\ UNCHANGED <<todo, req, before, waiting, sending, out, forwarding, tlc, prep, beats,
                       pos, buf, mask, responses, done, writeback, data_out, rd, wr,
                       write_order, aw, queue, mem, answer, current, answered>>
        /\ Ids \subseteq Ids'
    BY DEF ForwardData, hist, axi, requester, Ids
  <1>3. u.state = "DATA_FORWARD_PARTIAL" => u.mask_cntr = taken % (MaskFlits + 1)
    BY DEF Types, UOK
  <1>4. u' = [state |-> IF u.cntr = 1 THEN "IDLE" ELSE u.state, cntr |-> u.cntr - 1,
              mask_cntr |-> IF u.state # "DATA_FORWARD_RMW" /\ u.mask_cntr = end
                            THEN 0 ELSE (u.mask_cntr + 1) % 16]
    BY DEF ForwardData
  <1> HIDE DEF taken, q, id
  <1>5. UOK'
    <2>1. /\ u.mask_cntr \in 0 .. 15
          /\ u.state \in {"IDLE", "DATA_FORWARD", "DATA_FORWARD_PARTIAL", "DATA_FORWARD_RMW"}
          /\ u.cntr \in Nat /\ u.cntr - 1 \in Nat
      BY <1>1 DEF Types, UOK
    <2>2. (u.mask_cntr + 1) % 16 \in 0 .. 15
      BY <2>1
    <2>3. u' \in [state : {"IDLE", "DATA_FORWARD", "DATA_FORWARD_PARTIAL", "DATA_FORWARD_RMW"},
                  cntr : Nat, mask_cntr : 0 .. 15]
      BY <1>4, <2>1, <2>2
    <2>4. DataFlits(req[Len(req)])' = DataFlits(q) /\ Len(req') = id
      BY <1>2 DEF q, id, DataFlits, Flits
    <2>5. u'.state # "IDLE" => /\ Len(req') >= 1 /\ u'.cntr \in 1 .. DataFlits(q)
      <3>1. id >= 1
        BY <1>1 DEF Ids
      <3>2. u'.cntr = u.cntr - 1 /\ (u'.state # "IDLE" => u.cntr # 1)
        BY <1>4, <1>1
      <3> QED
        BY <3>1, <3>2, <1>1, <2>4
    <2>6. ASSUME u'.state = "DATA_FORWARD_PARTIAL"
          PROVE  u'.mask_cntr = (DataFlits(q) - u'.cntr) % (MaskFlits + 1)
      <3>1. u.state = "DATA_FORWARD_PARTIAL" /\ u'.cntr = u.cntr - 1
        BY <1>4, <2>6
      <3>2. u.mask_cntr = taken % (MaskFlits + 1) /\ DataFlits(q) - u'.cntr = taken + 1
        BY <1>1, <1>3, <3>1 DEF taken
      <3> DEFINE r == taken % (MaskFlits + 1)
      <3>3. (taken + 1) % (MaskFlits + 1) = IF r = (MaskFlits + 1) - 1 THEN 0 ELSE r + 1
        BY <1>1, Sizes, ModStep, MaskFlits + 1 \in Nat, MaskFlits + 1 >= 1, Zenon
      <3>4. r \in 0 .. MaskFlits
        BY <1>1, Sizes
      <3>5. u'.mask_cntr = IF u.mask_cntr = MaskFlits THEN 0 ELSE (u.mask_cntr + 1) % 16
        BY <1>4, <3>1
      <3> HIDE DEF r
      <3>6. u.mask_cntr = r
        BY <3>2 DEF r
      <3>7. r # MaskFlits => (r + 1) % 16 = r + 1
        BY <3>4, Sizes
      <3> QED
        BY <3>2, <3>3, <3>4, <3>5, <3>6, <3>7, Sizes
    <2> QED
      BY <2>3, <2>4, <2>5, <2>6, Zenon DEF UOK
  <1>6. InOK'
    <2>1. data_in \in [WritePort -> Seq(Cell)] /\ mask_in \in [fifo : Seq(MaskType(Ids)), cntr : 0 .. MaskFlits - 1]
      BY DEF Types, InOK
    <2>2. /\ Datum(id, taken) \in Cell
          /\ taken % (MaskFlits + 1) # 0 => Datum(id, PartialIndex(taken)) \in Cell
      BY <1>1, DatumType, PartialIndexType DEF Types
    <2>3. ASSUME NEW h \in WritePort, NEW c \in Cell, Put(h, c)
          PROVE  data_in' \in [WritePort -> Seq(Cell)]
      BY <2>1, <2>3 DEF Put
    <2>4. ASSUME NEW k \in Nat, NEW b \in [0 .. MaskFlits - 1 -> BOOLEAN], PutMask(id, k, b)
          PROVE  mask_in' \in [fifo : Seq(MaskType(Ids)), cntr : 0 .. MaskFlits - 1]
      <3> DEFINE m == [id |-> id, from |-> k, bits |-> b]
      <3>1. m \in MaskType(Ids)
        BY <1>1, <2>4 DEF MaskType
      <3>2. mask_in' = [mask_in EXCEPT !.fifo = Append(@, m)]
        BY <2>4 DEF PutMask
      <3> HIDE DEF m
      <3>3. Append(mask_in.fifo, m) \in Seq(MaskType(Ids))
        BY <3>1, <2>1
      <3> QED
        BY <3>2, <3>3, <2>1
    <2>5. Everything \in [0 .. MaskFlits - 1 -> BOOLEAN] /\ MaskFlit(q, taken) \in [0 .. MaskFlits - 1 -> BOOLEAN]
      BY DEF Everything, MaskFlit
    <2>6. PartialIndex(taken) + 1 \in Nat
      BY <1>1, PartialIndexType
    <2>7. \/ /\ u.state = "DATA_FORWARD"
             /\ IF u.mask_cntr = 0 THEN PutMask(id, taken, Everything) ELSE UNCHANGED mask_in
             /\ Put("write", Datum(id, taken))
          \/ /\ u.state = "DATA_FORWARD_PARTIAL" /\ u.mask_cntr = 0
             /\ PutMask(id, PartialIndex(taken) + 1, MaskFlit(q, taken)) /\ UNCHANGED data_in
          \/ /\ u.state = "DATA_FORWARD_PARTIAL" /\ u.mask_cntr # 0
             /\ Put("write", Datum(id, PartialIndex(taken))) /\ UNCHANGED mask_in
          \/ /\ u.state = "DATA_FORWARD_RMW"
             /\ Put("rmw", Datum(id, taken)) /\ UNCHANGED mask_in
      BY DEF ForwardData, taken, q, id
    <2>8. "write" \in WritePort /\ "rmw" \in WritePort
      BY DEF WritePort
    <2>9. data_in' \in [WritePort -> Seq(Cell)]
      BY <2>1, <2>2, <2>3, <2>7, <2>8, <1>3, Zenon
    <2>10. mask_in' \in [fifo : Seq(MaskType(Ids)), cntr : 0 .. MaskFlits - 1]
      BY <2>1, <2>4, <2>5, <2>6, <2>7, <1>1, Zenon
    <2>11. Ids' = Ids
      BY <1>2 DEF Ids
    <2> QED
      BY <2>9, <2>10, <2>11, Zenon DEF InOK, MaskType
  <1>7. HistOK' /\ WaitOK' /\ OutOK' /\ PrepOK' /\ JobOK' /\ BufOK'
    BY <1>2, FrameHist, FrameWait, FrameOut, FramePrep, FrameJob, FrameBuf, Zenon DEF Types
  <1>8. DoneOK' /\ BackOK' /\ RdOK' /\ WrOK' /\ AxiOK'
    BY <1>2, FrameDone, FrameBack, FrameRd, FrameWr, FrameAxi, Zenon DEF Types
  <1> QED
    BY <1>5, <1>6, <1>7, <1>8 DEF Types

-----------------------------------------------------------------------------
(* The types hold: burst handlers *)

\* prepare_request
LEMMA TypesPrepareRequest ==
  ASSUME Types, NEW h \in Handler, PrepareRequest(h)
  PROVE  Types'
  <1> DEFINE p == prep[h]
             left == IF p.left = 0 THEN Head(p.requests).beats ELSE p.left
             addr == IF p.left = 0 THEN Head(p.requests).addr ELSE p.addr
             more == left > MaxBeats
             n == IF more THEN MaxBeats ELSE left
             burst == [addr |-> addr, beats |-> n, id |-> Head(p.requests).id]
             page == MaxBeats * FlitsPerBeat
             r == [requests |-> IF more THEN p.requests ELSE Tail(p.requests),
                   left |-> IF more THEN left - MaxBeats ELSE 0, addr |-> addr + page]
  <1>1. /\ p \in [requests : Seq(Burst(Ids)), left : Nat, addr : Nat] /\ p.requests # <<>>
        /\ p.left # 0 => p.addr + p.left * FlitsPerBeat <= Words
    BY DEF PrepareRequest, Types, PrepOK
  <1>2. Head(p.requests) \in Burst(Ids) /\ Tail(p.requests) \in Seq(Burst(Ids))
    BY <1>1
  <1>3. /\ left \in Nat /\ left >= 1 /\ addr \in Nat /\ Head(p.requests).id \in Ids
        /\ addr + left * FlitsPerBeat <= Words
    <2>1. \A b \in Burst(Ids) : /\ b.addr \in Nat /\ b.beats \in Nat /\ b.beats >= 1 /\ b.id \in Ids
                                /\ b.addr + b.beats * FlitsPerBeat <= Words
      BY DEF Burst
    <2>2. /\ Head(p.requests).addr \in Nat /\ Head(p.requests).beats \in Nat
          /\ Head(p.requests).beats >= 1 /\ Head(p.requests).id \in Ids
          /\ Head(p.requests).addr + Head(p.requests).beats * FlitsPerBeat <= Words
      BY <2>1, <1>2, Zenon
    <2>3. CASE p.left = 0
      BY <2>2, <2>3
    <2>4. CASE p.left # 0
      <3>1. p.left \in Nat /\ p.left >= 1 /\ p.addr \in Nat
        BY <1>1, <2>4
      <3> QED
        BY <2>2, <2>4, <3>1, <1>1, Zenon
    <2> QED
      BY <2>3, <2>4
  <1>4. UNCHANGED <<todo, req, before, u, waiting, sending, out, forwarding, tlc, beats, pos, buf,
                    mask, data_in, mask_in, responses, done, writeback, data_out,
                    write_order, aw, queue, mem, answer, current, answered>>
        /\ Ids \subseteq Ids' /\ Ids' = Ids
    BY DEF PrepareRequest, hist, tluh, requester, Ids
  <1>5. /\ prep' = [prep EXCEPT ![h] = r]
        /\ IF h \in ReadPort THEN rd' = [rd EXCEPT ![h].addr = Append(@, burst)] ELSE UNCHANGED rd
        /\ IF h \in WritePort THEN wr' = [wr EXCEPT ![h].addr = Append(@, burst)] ELSE UNCHANGED wr
    BY DEF PrepareRequest
  <1> HIDE DEF p
  <1>6. /\ n \in Nat /\ n >= 1 /\ page \in Nat
        /\ more => left - MaxBeats \in Nat /\ left - MaxBeats >= 1
        /\ n <= left
    <2> HIDE DEF left
    <2>1. page \in Nat
      BY Sizes
    <2> HIDE DEF page
    <2> QED
      BY <2>1, <1>3, Sizes
  <1>7. /\ addr + n * FlitsPerBeat <= Words
        /\ more => (addr + page) + (left - MaxBeats) * FlitsPerBeat <= Words
    <2> HIDE DEF left, addr, n
    <2>1. n * FlitsPerBeat <= left * FlitsPerBeat /\ n * FlitsPerBeat \in Nat /\ left * FlitsPerBeat \in Nat
      BY <1>3, <1>6, Sizes
    <2>2. left * FlitsPerBeat = page + (left - MaxBeats) * FlitsPerBeat /\ (left - MaxBeats) * FlitsPerBeat \in Int
      BY <1>3, Sizes
    <2>3. addr + n * FlitsPerBeat <= Words
      BY <1>3, <2>1, Sizes
    <2> HIDE DEF page
    <2>4. (addr + page) + (left - MaxBeats) * FlitsPerBeat <= Words
      BY <1>3, <1>6, <2>1, <2>2, Sizes
    <2> QED
      BY <2>3, <2>4
  <1>8. burst \in Burst(Ids)
    <2> HIDE DEF left, addr, n
    <2> QED
      BY <1>3, <1>6, <1>7 DEF Burst
  <1> HIDE DEF left, addr, n, burst, page
  <1>9. PrepOK'
    <2>1. r \in [requests : Seq(Burst(Ids)), left : Nat, addr : Nat]
      BY <1>1, <1>2, <1>3, <1>6
    <2>2. r.left # 0 => r.requests # <<>> /\ r.addr + r.left * FlitsPerBeat <= Words
      BY <1>1, <1>7
    <2> HIDE DEF r
    <2>3. prep' \in [Handler -> [requests : Seq(Burst(Ids)), left : Nat, addr : Nat]]
      BY <2>1, <1>5 DEF Types, PrepOK
    <2>4. \A g \in Handler : prep'[g] = IF g = h THEN r ELSE prep[g]
      BY <1>5 DEF Types, PrepOK
    <2>5. \A g \in Handler : prep'[g].left # 0 =>
             prep'[g].requests # <<>> /\ prep'[g].addr + prep'[g].left * FlitsPerBeat <= Words
      BY <2>2, <2>4, Zenon DEF Types, PrepOK
    <2> QED
      BY <2>3, <2>5, <1>4, Zenon DEF PrepOK, Burst
  <1>10. RdOK'
    <2>1. CASE h \in ReadPort
      <3> DEFINE d == [rd[h] EXCEPT !.addr = Append(@, burst)]
      <3>1. rd[h] \in [addr : Seq(Burst(Ids)), data : Seq(Fetched(Ids))]
        BY <2>1 DEF Types, RdOK
      <3>2. Append(rd[h].addr, burst) \in Seq(Burst(Ids))
        BY <3>1, <1>8
      <3>3. d \in [addr : Seq(Burst(Ids)), data : Seq(Fetched(Ids))]
        BY <3>1, <3>2
      <3>4. rd' = [rd EXCEPT ![h] = d]
        BY <1>5, <2>1
      <3> HIDE DEF d
      <3>5. rd' \in [ReadPort -> [addr : Seq(Burst(Ids)), data : Seq(Fetched(Ids))]]
        BY <3>3, <3>4, <2>1 DEF Types, RdOK
      <3> QED
        BY <3>5, <1>4, Zenon DEF RdOK, Burst, Fetched
    <2>2. CASE h \notin ReadPort
      BY <2>2, <1>4, <1>5, FrameRd DEF Types
    <2> QED
      BY <2>1, <2>2
  <1>11. WrOK'
    <2> DEFINE W == [addr : Seq(Burst(Ids)), data : Seq(DataType(Ids)), resp : Seq([id : Ids, addr : Nat])]
    <2>1. CASE h \in WritePort
      <3> DEFINE d == [wr[h] EXCEPT !.addr = Append(@, burst)]
      <3>1. wr[h] \in W
        BY <2>1 DEF Types, WrOK
      <3>2. Append(wr[h].addr, burst) \in Seq(Burst(Ids))
        BY <3>1, <1>8
      <3>3. d \in W
        BY <3>1, <3>2
      <3>4. wr' = [wr EXCEPT ![h] = d]
        BY <1>5, <2>1
      <3> HIDE DEF d, W
      <3>5. wr' \in [WritePort -> W]
        BY <3>3, <3>4, <2>1 DEF Types, WrOK, W
      <3> QED
        BY <3>5, <1>4, Zenon DEF WrOK, Burst, DataType, W
    <2>2. CASE h \notin WritePort
      BY <2>2, <1>4, <1>5, FrameWr DEF Types
    <2> QED
      BY <2>1, <2>2
  <1>12. HistOK' /\ UOK' /\ WaitOK' /\ OutOK' /\ JobOK' /\ BufOK' /\ InOK'
    BY <1>4, FrameHist, FrameU, FrameWait, FrameOut, FrameJob, FrameBuf, FrameIn, Zenon DEF Types
  <1>13. DoneOK' /\ BackOK' /\ AxiOK'
    BY <1>4, FrameDone, FrameBack, FrameAxi, Zenon DEF Types
  <1> QED
    BY <1>9, <1>10, <1>11, <1>12, <1>13 DEF Types

\* The position of a handler in its request.
LEMMA Position ==
  ASSUME HistOK, JobOK, NEW h \in Handler, beats[h] # <<>>
  PROVE  /\ Job(h) \in JobType(Ids) /\ pos[h] \in PosType
         /\ FlitLeft(h) \in 0 .. Words /\ NextSlot(h) \in Slot /\ LastCntr(h) \in 0 .. MaxBeats - 1
         /\ Place(h) \in Int /\ Location(h) \in Int
         /\ First(h) \in BOOLEAN /\ BeatDone(h) \in BOOLEAN /\ BurstDone(h) \in BOOLEAN
         /\ Finish(h) => beats' \in [Handler -> Seq(JobType(Ids))]
  <1>1. Job(h) \in JobType(Ids) /\ pos[h] \in PosType
    BY DEF JobOK, Job
  <1>2. /\ Job(h).flits \in 1 .. Words /\ Job(h).slot \in Slot /\ Job(h).id \in Ids
        /\ pos[h].flit \in 0 .. Words /\ pos[h].slot \in Slot /\ pos[h].last \in 0 .. MaxBeats - 1
    BY <1>1 DEF JobType, PosType
  <1>3. FlitLeft(h) \in 0 .. Words
    BY <1>2, Sizes, SMTT(30) DEF FlitLeft, First
  <1>4. NextSlot(h) \in Slot
    <2>1. (pos[h].slot + 1) % FlitsPerBeat \in Slot
      BY <1>2, Sizes
    <2> QED
      BY <2>1, <1>2 DEF NextSlot
  <1>5. LastCntr(h) \in 0 .. MaxBeats - 1
    BY <1>2, Sizes DEF LastCntr
  <1>6. Place(h) \in Int /\ Location(h) \in Int
    <2>1. req[Job(h).id].addr \in Nat
      BY <1>2, RequestSizes DEF HistOK, Ids
    <2> QED
      BY <2>1, <1>2, <1>3 DEF Place, Location
  <1>7. Finish(h) => beats' \in [Handler -> Seq(JobType(Ids))]
    BY DEF JobOK, Finish, Take
  <1> QED
    BY <1>1, <1>3, <1>4, <1>5, <1>6, <1>7 DEF First, BeatDone, BurstDone

\* A handler moves on.
LEMMA MoveTypes ==
  ASSUME JobOK, NEW h \in Handler, beats' \in [Handler -> Seq(JobType(Ids))], UNCHANGED req,
         NEW r \in PosType, pos' = [pos EXCEPT ![h] = r]
  PROVE  JobOK'
  <1>2. pos' \in [Handler -> PosType]
    BY DEF JobOK
  <1>3. Ids' = Ids
    BY DEF Ids
  <1> QED
    BY <1>2, <1>3, Zenon DEF JobOK, JobType

\* A handler sends a flit of a response.
LEMMA SendFlitTypes ==
  ASSUME BackOK, NEW h \in ReadPort, NEW d \in OutType(Ids),
         data_out' = [data_out EXCEPT ![h] = Append(data_out[h], d)]
  PROVE  data_out' \in [ReadPort -> Seq(OutType(Ids))]
  BY DEF BackOK

\* A handler sends a beat to memory.
LEMMA SendBeatTypes ==
  ASSUME WrOK, NEW p \in WritePort, NEW id \in Ids, NEW a \in Int, NEW beat \in Beat,
         NEW strb \in Strobe, NEW last \in BOOLEAN, SendBeat(p, id, a, beat, strb, last), UNCHANGED req
  PROVE  WrOK'
  <1> DEFINE d == [id |-> id, addr |-> BeatAddr(a), data |-> beat, strb |-> strb, last |-> last]
             W == [addr : Seq(Burst(Ids)), data : Seq(DataType(Ids)), resp : Seq([id : Ids, addr : Nat])]
             w == [wr[p] EXCEPT !.data = Append(@, d)]
  <1>0. BeatAddr(a) \in Int
    <2>1. a % FlitsPerBeat \in Int
      BY Sizes
    <2> QED
      BY <2>1 DEF BeatAddr
  <1>1. d \in DataType(Ids)
    BY <1>0 DEF DataType
  <1>2. wr' = [wr EXCEPT ![p] = w]
    BY DEF SendBeat
  <1>3. wr[p] \in W
    BY DEF WrOK
  <1> HIDE DEF d
  <1>4. Append(wr[p].data, d) \in Seq(DataType(Ids))
    BY <1>1, <1>3
  <1>5. w \in W
    BY <1>3, <1>4
  <1> HIDE DEF w, W
  <1>6. wr' \in [WritePort -> W]
    BY <1>2, <1>5 DEF WrOK, W
  <1>7. Ids' = Ids
    BY DEF Ids
  <1> QED
    BY <1>6, <1>7, Zenon DEF WrOK, W, Burst, DataType

\* A handler takes a beat that was read.
LEMMA FetchTypes ==
  ASSUME RdOK, NEW h \in ReadPort, NEW fetch, fetch => rd[h].data # <<>>,
         rd' = IF fetch THEN [rd EXCEPT ![h].data = Tail(@)] ELSE rd, UNCHANGED req
  PROVE  RdOK' /\ (fetch => Head(rd[h].data) \in Fetched(Ids) /\ Head(rd[h].data).cells \in Beat)
  <1>0. Ids' = Ids
    BY DEF Ids
  <1>1. CASE fetch
    <2> DEFINE R == [addr : Seq(Burst(Ids)), data : Seq(Fetched(Ids))]
               d == [rd[h] EXCEPT !.data = Tail(@)]
    <2>1. rd[h] \in R /\ rd[h].data # <<>>
      BY <1>1 DEF RdOK
    <2>2. Head(rd[h].data) \in Fetched(Ids) /\ Tail(rd[h].data) \in Seq(Fetched(Ids))
      BY <2>1
    <2>3. Head(rd[h].data).cells \in Beat
      BY <2>2 DEF Fetched
    <2>4. d \in R
      BY <2>1, <2>2
    <2>5. rd' = [rd EXCEPT ![h] = d]
      BY <1>1
    <2> HIDE DEF d, R
    <2>6. rd' \in [ReadPort -> R]
      BY <2>4, <2>5 DEF RdOK, R
    <2>7. RdOK'
      BY <2>6, <1>0, Zenon DEF R, RdOK, Burst, Fetched
    <2> QED
      BY <2>2, <2>3, <2>7
  <1>2. CASE ~fetch
    BY <1>2, <1>0, FrameRd
  <1> QED
    BY <1>1, <1>2

\* retrieve_beat of the read handler
LEMMA TypesReadRetrieveBeat ==
  ASSUME Types, ReadRetrieveBeat
  PROVE  Types'
  <1> DEFINE h == "read"
             slot == IF First(h) THEN Job(h).slot ELSE pos[h].slot
             fetch == First(h) \/ pos[h].slot = 0
             beat == IF fetch THEN Head(rd[h].data).cells ELSE buf[h]
  <1>1. h \in Handler /\ h \in ReadPort /\ beats[h] # <<>>
    BY DEF Handler, ReadPort, ReadRetrieveBeat
  <1>2. /\ Job(h) \in JobType(Ids) /\ pos[h] \in PosType /\ FlitLeft(h) \in 0 .. Words
        /\ Place(h) \in Int /\ (Finish(h) => beats' \in [Handler -> Seq(JobType(Ids))])
    BY <1>1, Position DEF Types
  <1>3. /\ UNCHANGED <<todo, req, before, u, waiting, sending, out, forwarding, tlc, prep,
                       mask, data_in, mask_in, responses, done, writeback, wr,
                       write_order, aw, queue, mem, answer, current, answered>>
        /\ Ids \subseteq Ids' /\ Ids' = Ids
    BY DEF ReadRetrieveBeat, hist, tluh, requester, Ids
  <1>4. /\ fetch => rd[h].data # <<>>
        /\ rd' = IF fetch THEN [rd EXCEPT ![h].data = Tail(@)] ELSE rd
        /\ buf' = [buf EXCEPT ![h] = beat]
        /\ SendFlit(h, Job(h).id, Place(h), FlitLeft(h) = 0, beat[slot])
        /\ pos' = [pos EXCEPT ![h] = [flit |-> FlitLeft(h), slot |-> (slot + 1) % FlitsPerBeat, last |-> 0]]
        /\ Finish(h)
    BY DEF ReadRetrieveBeat
  <1>5. slot \in Slot /\ (slot + 1) % FlitsPerBeat \in Slot /\ Job(h).id \in Ids
    <2>1. slot \in Slot /\ Job(h).id \in Ids
      BY <1>2 DEF JobType, PosType
    <2> HIDE DEF slot
    <2> QED
      BY <2>1, Sizes
  <1> HIDE DEF fetch, slot
  <1>6. RdOK' /\ (fetch => Head(rd[h].data).cells \in Beat)
    BY <1>1, <1>3, <1>4, FetchTypes DEF Types
  <1>7. beat \in Beat
    BY <1>1, <1>6 DEF Types, BufOK
  <1> HIDE DEF beat
  <1>8. beat[slot] \in Cell
    BY <1>5, <1>7 DEF Beat
  <1>9. data_out' \in [ReadPort -> Seq(OutType(Ids))]
    <2> DEFINE d == [id |-> Job(h).id, pos |-> Place(h), last |-> FlitLeft(h) = 0, cell |-> beat[slot]]
    <2>1. d \in OutType(Ids)
      BY <1>2, <1>5, <1>8 DEF OutType
    <2>2. data_out' = [data_out EXCEPT ![h] = Append(data_out[h], d)] /\ BackOK
      BY <1>4 DEF Types, SendFlit
    <2> HIDE DEF d
    <2> QED
      BY <2>1, <2>2, <1>1, SendFlitTypes
  <1>10. BackOK'
    BY <1>9, <1>3, Zenon DEF Types, BackOK, BackType, OutType
  <1>11. JobOK'
    <2> DEFINE r == [flit |-> FlitLeft(h), slot |-> (slot + 1) % FlitsPerBeat, last |-> 0]
    <2>1. r \in PosType
      BY <1>2, <1>5, Sizes DEF PosType
    <2>2. pos' = [pos EXCEPT ![h] = r] /\ beats' \in [Handler -> Seq(JobType(Ids))] /\ JobOK /\ req' = req
      BY <1>2, <1>3, <1>4 DEF Types
    <2> HIDE DEF r
    <2> QED
      BY <2>1, <2>2, <1>1, MoveTypes
  <1>12. BufOK'
    BY <1>1, <1>3, <1>4, <1>7 DEF Types, BufOK
  <1>13. HistOK' /\ UOK' /\ WaitOK' /\ OutOK' /\ PrepOK' /\ InOK'
    BY <1>3, FrameHist, FrameU, FrameWait, FrameOut, FramePrep, FrameIn, Zenon DEF Types
  <1>14. DoneOK' /\ WrOK' /\ AxiOK'
    BY <1>3, FrameDone, FrameWr, FrameAxi, Zenon DEF Types
  <1> QED
    BY <1>6, <1>10, <1>11, <1>12, <1>13, <1>14 DEF Types

\* The slot and the counter of beats stay, a denied flit is dropped.
LEMMA DropTypes ==
  ASSUME HistOK, JobOK, NEW h \in Handler, beats[h] # <<>>, Finish(h), req' = req,
         pos' = [pos EXCEPT ![h].flit = FlitLeft(h)]
  PROVE  JobOK'
  <1> DEFINE r == [pos[h] EXCEPT !.flit = FlitLeft(h)]
  <1>1. /\ pos[h] \in PosType /\ FlitLeft(h) \in 0 .. Words
        /\ beats' \in [Handler -> Seq(JobType(Ids))]
    BY Position
  <1>2. r \in PosType
    BY <1>1 DEF PosType
  <1>3. pos' = [pos EXCEPT ![h] = r]
    OBVIOUS
  <1> HIDE DEF r
  <1> QED
    BY <1>1, <1>2, <1>3, MoveTypes

\* drop_denied of the read handler
LEMMA TypesReadDropDenied ==
  ASSUME Types, ReadDropDenied
  PROVE  Types'
  <1> DEFINE h == "read"
  <1>1. h \in Handler /\ h \in ReadPort /\ beats[h] # <<>> /\ Zero \in Cell
    BY Sizes DEF Handler, ReadPort, ReadDropDenied, Zero, Cell
  <1>2. /\ Job(h) \in JobType(Ids) /\ FlitLeft(h) \in 0 .. Words
        /\ Place(h) \in Int /\ (Finish(h) => beats' \in [Handler -> Seq(JobType(Ids))])
    BY <1>1, Position DEF Types
  <1>3. /\ UNCHANGED <<todo, req, before, u, waiting, sending, out, forwarding, tlc, prep, buf,
                       mask, data_in, mask_in, responses, done, writeback, rd, wr,
                       write_order, aw, queue, mem, answer, current, answered>>
        /\ Ids \subseteq Ids' /\ Ids' = Ids
    BY DEF ReadDropDenied, hist, tluh, axi, requester, Ids
  <1>4. /\ SendFlit(h, Job(h).id, Place(h), FlitLeft(h) = 0, Zero) /\ Finish(h)
        /\ pos' = [pos EXCEPT ![h].flit = FlitLeft(h)]
    BY DEF ReadDropDenied
  <1>5. data_out' \in [ReadPort -> Seq(OutType(Ids))]
    <2> DEFINE d == [id |-> Job(h).id, pos |-> Place(h), last |-> FlitLeft(h) = 0, cell |-> Zero]
    <2>1. d \in OutType(Ids)
      BY <1>1, <1>2 DEF OutType, JobType
    <2>2. data_out' = [data_out EXCEPT ![h] = Append(data_out[h], d)] /\ BackOK
      BY <1>4 DEF Types, SendFlit
    <2> HIDE DEF d
    <2> QED
      BY <2>1, <2>2, <1>1, SendFlitTypes
  <1>6. BackOK'
    BY <1>5, <1>3, Zenon DEF Types, BackOK, BackType, OutType
  <1>7. JobOK'
    <2>1. HistOK /\ JobOK /\ req' = req
      BY <1>3 DEF Types
    <2> QED
      BY <2>1, <1>1, <1>4, DropTypes
  <1>8. HistOK' /\ UOK' /\ WaitOK' /\ OutOK' /\ PrepOK' /\ BufOK' /\ InOK'
    BY <1>3, FrameHist, FrameU, FrameWait, FrameOut, FramePrep, FrameBuf, FrameIn, Zenon DEF Types
  <1>9. DoneOK' /\ RdOK' /\ WrOK' /\ AxiOK'
    BY <1>3, FrameDone, FrameRd, FrameWr, FrameAxi, Zenon DEF Types
  <1> QED
    BY <1>6, <1>7, <1>8, <1>9 DEF Types

\* prepare_beat
LEMMA TypesWritePrepareBeat ==
  ASSUME Types, WritePrepareBeat
  PROVE  Types'
  <1> DEFINE h == "write"
             slot == NextSlot(h)
             k == IF First(h) THEN 0 ELSE (mask_in.cntr + 1) % MaskFlits
             beat == [buf[h] EXCEPT ![slot] = Head(data_in[h])]
             strb == [mask[h] EXCEPT ![slot] = Head(mask_in.fifo).bits[k]]
             fifo == IF k + 1 = MaskFlits \/ FlitLeft(h) = 0 THEN Tail(mask_in.fifo) ELSE mask_in.fifo
  <1>1. h \in Handler /\ h \in WritePort /\ beats[h] # <<>> /\ data_in[h] # <<>> /\ mask_in.fifo # <<>>
    BY DEF Handler, WritePort, WritePrepareBeat
  <1>2. /\ Job(h) \in JobType(Ids) /\ FlitLeft(h) \in 0 .. Words /\ slot \in Slot
        /\ LastCntr(h) \in 0 .. MaxBeats - 1 /\ Location(h) \in Int /\ BurstDone(h) \in BOOLEAN
        /\ (Finish(h) => beats' \in [Handler -> Seq(JobType(Ids))])
    BY <1>1, Position DEF Types
  <1>3. /\ UNCHANGED <<todo, req, before, u, waiting, sending, out, forwarding, tlc, prep,
                       responses, done, writeback, data_out, rd,
                       write_order, aw, queue, mem, answer, current, answered>>
        /\ Ids \subseteq Ids' /\ Ids' = Ids
    BY DEF WritePrepareBeat, hist, tluh, requester, Ids
  <1>4. /\ buf' = [buf EXCEPT ![h] = beat]
        /\ mask_in' = [fifo |-> fifo, cntr |-> k]
        /\ pos' = [pos EXCEPT ![h] = [flit |-> FlitLeft(h), slot |-> slot, last |-> LastCntr(h)]]
        /\ \/ /\ SendBeat(h, Job(h).id, Location(h), beat, strb, BurstDone(h))
              /\ mask' = [mask EXCEPT ![h] = NoMask]
           \/ mask' = [mask EXCEPT ![h] = strb] /\ UNCHANGED wr
        /\ data_in' = Take(data_in, h) /\ Finish(h)
    BY DEF WritePrepareBeat
  <1> HIDE DEF slot
  <1>5. /\ data_in \in [WritePort -> Seq(Cell)] /\ mask_in.fifo \in Seq(MaskType(Ids))
        /\ mask_in.cntr \in 0 .. MaskFlits - 1 /\ buf[h] \in Beat /\ mask[h] \in Strobe
    BY <1>1 DEF Types, InOK, BufOK
  <1>6. k \in 0 .. MaskFlits - 1
    BY <1>5, Sizes
  <1> HIDE DEF k
  <1>7. beat \in Beat
    <2>1. Head(data_in[h]) \in Cell
      BY <1>1, <1>5
    <2> QED
      BY <2>1, <1>2, <1>5 DEF Beat
  <1>8. strb \in Strobe
    <2>1. Head(mask_in.fifo) \in MaskType(Ids)
      BY <1>1, <1>5
    <2>2. Head(mask_in.fifo).bits[k] \in BOOLEAN
      BY <2>1, <1>6 DEF MaskType
    <2> QED
      BY <2>2, <1>2, <1>5 DEF Strobe
  <1> HIDE DEF beat, strb
  <1>9. BufOK'
    <2>1. NoMask \in Strobe
      BY DEF NoMask, Strobe
    <2> QED
      BY <2>1, <1>1, <1>4, <1>7, <1>8 DEF Types, BufOK
  <1>10. InOK'
    <2>1. fifo \in Seq(MaskType(Ids))
      BY <1>1, <1>5
    <2> HIDE DEF fifo
    <2>2. mask_in' \in [fifo : Seq(MaskType(Ids)), cntr : 0 .. MaskFlits - 1]
      BY <1>4, <1>6, <2>1
    <2>3. data_in' \in [WritePort -> Seq(Cell)]
      BY <1>1, <1>4, <1>5 DEF Take
    <2> QED
      BY <2>2, <2>3, <1>3, Zenon DEF InOK, MaskType
  <1>11. JobOK'
    <2> DEFINE r == [flit |-> FlitLeft(h), slot |-> slot, last |-> LastCntr(h)]
    <2>1. r \in PosType
      BY <1>2 DEF PosType
    <2>2. pos' = [pos EXCEPT ![h] = r] /\ beats' \in [Handler -> Seq(JobType(Ids))] /\ JobOK /\ req' = req
      BY <1>2, <1>3, <1>4 DEF Types
    <2> HIDE DEF r
    <2> QED
      BY <2>1, <2>2, <1>1, MoveTypes
  <1>12. WrOK'
    <2>1. WrOK /\ Job(h).id \in Ids /\ req' = req
      BY <1>2, <1>3 DEF Types, JobType
    <2>2. CASE SendBeat(h, Job(h).id, Location(h), beat, strb, BurstDone(h))
      BY <2>1, <2>2, <1>1, <1>2, <1>7, <1>8, SendBeatTypes
    <2>3. CASE UNCHANGED wr
      BY <2>1, <2>3, <1>3, FrameWr
    <2> QED
      BY <2>2, <2>3, <1>4
  <1>13. HistOK' /\ UOK' /\ WaitOK' /\ OutOK' /\ PrepOK'
    BY <1>3, FrameHist, FrameU, FrameWait, FrameOut, FramePrep, Zenon DEF Types
  <1>14. DoneOK' /\ BackOK' /\ RdOK' /\ AxiOK'
    BY <1>3, FrameDone, FrameBack, FrameRd, FrameAxi, Zenon DEF Types
  <1> QED
    BY <1>9, <1>10, <1>11, <1>12, <1>13, <1>14 DEF Types

\* drop_denied of the write handler
LEMMA TypesWriteDropDenied ==
  ASSUME Types, WriteDropDenied
  PROVE  Types'
  <1> DEFINE h == "write"
             k == IF First(h) THEN 0 ELSE (mask_in.cntr + 1) % MaskFlits
             fifo == IF DropsMask(k) THEN Tail(mask_in.fifo) ELSE mask_in.fifo
  <1>1. h \in Handler /\ h \in WritePort /\ beats[h] # <<>> /\ data_in[h] # <<>>
        /\ (DropsMask(k) => mask_in.fifo # <<>>)
    BY DEF Handler, WritePort, WriteDropDenied
  <1>2. /\ UNCHANGED <<todo, req, before, u, waiting, sending, out, forwarding, tlc, prep, buf, mask,
                       responses, done, writeback, data_out, rd, wr,
                       write_order, aw, queue, mem, answer, current, answered>>
        /\ Ids \subseteq Ids' /\ Ids' = Ids
    BY DEF WriteDropDenied, hist, tluh, axi, requester, Ids
  <1>3. /\ mask_in' = [fifo |-> fifo, cntr |-> k] /\ data_in' = Take(data_in, h) /\ Finish(h)
        /\ pos' = [pos EXCEPT ![h].flit = FlitLeft(h)]
    BY DEF WriteDropDenied
  <1>4. /\ data_in \in [WritePort -> Seq(Cell)] /\ mask_in.fifo \in Seq(MaskType(Ids))
        /\ mask_in.cntr \in 0 .. MaskFlits - 1
    BY <1>1 DEF Types, InOK
  <1>5. k \in 0 .. MaskFlits - 1
    BY <1>4, Sizes
  <1> HIDE DEF k
  <1>6. InOK'
    <2>1. fifo \in Seq(MaskType(Ids))
      BY <1>1, <1>4
    <2> HIDE DEF fifo
    <2>2. mask_in' \in [fifo : Seq(MaskType(Ids)), cntr : 0 .. MaskFlits - 1]
      BY <1>3, <1>5, <2>1
    <2>3. data_in' \in [WritePort -> Seq(Cell)]
      BY <1>1, <1>3, <1>4 DEF Take
    <2> QED
      BY <2>2, <2>3, <1>2, Zenon DEF InOK, MaskType
  <1>7. JobOK'
    <2>1. HistOK /\ JobOK /\ req' = req
      BY <1>2 DEF Types
    <2> QED
      BY <2>1, <1>1, <1>3, DropTypes
  <1>8. HistOK' /\ UOK' /\ WaitOK' /\ OutOK' /\ PrepOK' /\ BufOK'
    BY <1>2, FrameHist, FrameU, FrameWait, FrameOut, FramePrep, FrameBuf, Zenon DEF Types
  <1>9. DoneOK' /\ BackOK' /\ RdOK' /\ WrOK' /\ AxiOK'
    BY <1>2, FrameDone, FrameBack, FrameRd, FrameWr, FrameAxi, Zenon DEF Types
  <1> QED
    BY <1>6, <1>7, <1>8, <1>9 DEF Types

\* A handler takes a response of memory.
LEMMA TakeRespTypes ==
  ASSUME WrOK, NEW p \in WritePort, wr[p].resp # <<>>, req' = req,
         wr' = [wr EXCEPT ![p].resp = Tail(@)]
  PROVE  WrOK'
  <1> DEFINE W == [addr : Seq(Burst(Ids)), data : Seq(DataType(Ids)), resp : Seq([id : Ids, addr : Nat])]
             w == [wr[p] EXCEPT !.resp = Tail(@)]
  <1>1. wr[p] \in W
    BY DEF WrOK
  <1>2. Tail(wr[p].resp) \in Seq([id : Ids, addr : Nat])
    BY <1>1
  <1>3. w \in W
    BY <1>1, <1>2
  <1>4. wr' = [wr EXCEPT ![p] = w]
    OBVIOUS
  <1> HIDE DEF w, W
  <1>5. wr' \in [WritePort -> W]
    BY <1>3, <1>4 DEF WrOK, W
  <1>6. Ids' = Ids
    BY DEF Ids
  <1> QED
    BY <1>5, <1>6, Zenon DEF WrOK, W, Burst, DataType

\* set_done
LEMMA TypesWriteSetDone ==
  ASSUME Types, WriteSetDone
  PROVE  Types'
  <1>1. /\ UNCHANGED <<todo, req, before, u, waiting, sending, out, forwarding, tlc, prep, beats, pos,
                       buf, mask, data_in, mask_in, writeback, data_out, rd,
                       write_order, aw, queue, mem, answer, current, answered>>
        /\ Ids \subseteq Ids' /\ Ids' = Ids
    BY DEF WriteSetDone, hist, tluh, requester, Ids
  <1>2. WrOK'
    <2>1. WrOK /\ "write" \in WritePort /\ req' = req
      BY <1>1 DEF Types, WritePort
    <2> QED
      BY <2>1, TakeRespTypes DEF WriteSetDone
  <1>3. DoneOK'
    <2>1. /\ responses \in [fifo : Seq(ResponseType(Ids)), received : Nat] /\ done \in Nat
          /\ responses.fifo # <<>>
      BY DEF Types, DoneOK, WriteSetDone
    <2>2. \/ responses' = [fifo |-> Tail(responses.fifo), received |-> 0] /\ done' = done + 1
          \/ responses' = [responses EXCEPT !.received = @ + 1] /\ done' = done
      BY DEF WriteSetDone
    <2>3. responses' \in [fifo : Seq(ResponseType(Ids)), received : Nat] /\ done' \in Nat
      BY <2>1, <2>2, SMTT(30)
    <2> QED
      BY <2>3, <1>1, Zenon DEF DoneOK, ResponseType
  <1>4. HistOK' /\ UOK' /\ WaitOK' /\ OutOK' /\ PrepOK' /\ JobOK'
    BY <1>1, FrameHist, FrameU, FrameWait, FrameOut, FramePrep, FrameJob, Zenon DEF Types
  <1>5. BufOK' /\ InOK' /\ BackOK' /\ RdOK' /\ AxiOK'
    BY <1>1, FrameBuf, FrameIn, FrameBack, FrameRd, FrameAxi, Zenon DEF Types
  <1> QED
    BY <1>2, <1>3, <1>4, <1>5 DEF Types

\* set_done_dropped
LEMMA TypesWriteSetDoneDropped ==
  ASSUME Types, WriteSetDoneDropped
  PROVE  Types'
  <1>1. /\ UNCHANGED <<todo, req, before, u, waiting, sending, out, forwarding, tlc, prep, beats, pos,
                       buf, mask, data_in, mask_in, writeback, data_out, rd, wr,
                       write_order, aw, queue, mem, answer, current, answered>>
        /\ Ids \subseteq Ids' /\ Ids' = Ids
    BY DEF WriteSetDoneDropped, hist, tluh, axi, requester, Ids
  <1>3. DoneOK'
    <2>1. /\ responses \in [fifo : Seq(ResponseType(Ids)), received : Nat] /\ done \in Nat
          /\ responses.fifo # <<>>
      BY DEF Types, DoneOK, WriteSetDoneDropped
    <2>2. responses' = [responses EXCEPT !.fifo = Tail(@)] /\ done' = done + 1
      BY DEF WriteSetDoneDropped
    <2>3. responses' \in [fifo : Seq(ResponseType(Ids)), received : Nat] /\ done' \in Nat
      <3>1. Tail(responses.fifo) \in Seq(ResponseType(Ids)) /\ responses.received \in Nat
        BY <2>1
      <3>2. [responses EXCEPT !.fifo = Tail(@)] \in [fifo : Seq(ResponseType(Ids)), received : Nat]
        BY <2>1, <3>1
      <3> QED
        BY <2>1, <2>2, <3>2
    <2> QED
      BY <2>3, <1>1, Zenon DEF DoneOK, ResponseType
  <1>4. HistOK' /\ UOK' /\ WaitOK' /\ OutOK' /\ PrepOK' /\ JobOK'
    BY <1>1, FrameHist, FrameU, FrameWait, FrameOut, FramePrep, FrameJob, Zenon DEF Types
  <1>5. BufOK' /\ InOK' /\ BackOK' /\ RdOK' /\ WrOK' /\ AxiOK'
    BY <1>1, FrameBuf, FrameIn, FrameBack, FrameRd, FrameWr, FrameAxi, Zenon DEF Types
  <1> QED
    BY <1>3, <1>4, <1>5 DEF Types

\* retrieve_beat of the RMW handler
LEMMA TypesRMWRetrieveBeat ==
  ASSUME Types, RMWRetrieveBeat
  PROVE  Types'
  <1> DEFINE h == "rmw"
             slot == NextSlot(h)
             fetch == First(h) \/ slot = 0
             beat == IF fetch THEN Head(rd[h].data).cells ELSE buf[h]
             w == [slot |-> slot, old |-> beat[slot].val, id |-> Job(h).id, addr |-> Location(h),
                   beat |-> BeatDone(h), burst |-> BurstDone(h), last |-> FlitLeft(h) = 0]
  <1>1. h \in Handler /\ h \in ReadPort /\ beats[h] # <<>>
    BY DEF Handler, ReadPort, RMWRetrieveBeat
  <1>2. /\ Job(h) \in JobType(Ids) /\ FlitLeft(h) \in 0 .. Words /\ slot \in Slot
        /\ LastCntr(h) \in 0 .. MaxBeats - 1 /\ Location(h) \in Int
        /\ BeatDone(h) \in BOOLEAN /\ BurstDone(h) \in BOOLEAN
        /\ (Finish(h) => beats' \in [Handler -> Seq(JobType(Ids))])
    BY <1>1, Position DEF Types
  <1>3. /\ UNCHANGED <<todo, req, before, u, waiting, sending, out, forwarding, tlc, prep,
                       mask, data_in, mask_in, responses, done, data_out, wr,
                       write_order, aw, queue, mem, answer, current, answered>>
        /\ Ids \subseteq Ids' /\ Ids' = Ids
    BY DEF RMWRetrieveBeat, hist, tluh, requester, Ids
  <1>4. /\ fetch => rd[h].data # <<>>
        /\ rd' = IF fetch THEN [rd EXCEPT ![h].data = Tail(@)] ELSE rd
        /\ buf' = [buf EXCEPT ![h] = beat]
        /\ writeback' = [writeback EXCEPT !.fifo = Append(writeback.fifo, w)]
        /\ pos' = [pos EXCEPT ![h] = [flit |-> FlitLeft(h), slot |-> slot, last |-> LastCntr(h)]]
        /\ Finish(h)
    BY DEF RMWRetrieveBeat
  <1> HIDE DEF slot
  <1>5. Job(h).id \in Ids
    BY <1>2 DEF JobType
  <1> HIDE DEF fetch
  <1>6. RdOK' /\ (fetch => Head(rd[h].data).cells \in Beat)
    BY <1>1, <1>3, <1>4, FetchTypes DEF Types
  <1>7. beat \in Beat
    BY <1>1, <1>6 DEF Types, BufOK
  <1> HIDE DEF beat
  <1>8. beat[slot].val \in Value
    BY <1>2, <1>7 DEF Beat, Cell, Value
  <1>9. w \in BackType(Ids)
    BY <1>2, <1>5, <1>8 DEF BackType
  <1> HIDE DEF w
  <1>10. BackOK'
    <2>1. /\ writeback \in [fifo : Seq(BackType(Ids)), buffer : Beat]
          /\ data_out \in [ReadPort -> Seq(OutType(Ids))]
      BY DEF Types, BackOK
    <2>2. Append(writeback.fifo, w) \in Seq(BackType(Ids))
      BY <2>1, <1>9
    <2>3. [writeback EXCEPT !.fifo = Append(writeback.fifo, w)]
             \in [fifo : Seq(BackType(Ids)), buffer : Beat]
      BY <2>1, <2>2
    <2> QED
      BY <2>1, <2>3, <1>3, <1>4, Zenon DEF BackOK, BackType, OutType
  <1>11. JobOK'
    <2> DEFINE r == [flit |-> FlitLeft(h), slot |-> slot, last |-> LastCntr(h)]
    <2>1. r \in PosType
      BY <1>2 DEF PosType
    <2>2. pos' = [pos EXCEPT ![h] = r] /\ beats' \in [Handler -> Seq(JobType(Ids))] /\ JobOK /\ req' = req
      BY <1>2, <1>3, <1>4 DEF Types
    <2> HIDE DEF r
    <2> QED
      BY <2>1, <2>2, <1>1, MoveTypes
  <1>12. BufOK'
    BY <1>1, <1>3, <1>4, <1>7 DEF Types, BufOK
  <1>13. HistOK' /\ UOK' /\ WaitOK' /\ OutOK' /\ PrepOK' /\ InOK'
    BY <1>3, FrameHist, FrameU, FrameWait, FrameOut, FramePrep, FrameIn, Zenon DEF Types
  <1>14. DoneOK' /\ WrOK' /\ AxiOK'
    BY <1>3, FrameDone, FrameWr, FrameAxi, Zenon DEF Types
  <1> QED
    BY <1>6, <1>10, <1>11, <1>12, <1>13, <1>14 DEF Types

\* writeback_data
LEMMA TypesRMWWritebackData ==
  ASSUME Types, RMWWritebackData
  PROVE  Types'
  <1> DEFINE h == "rmw"
             w == Head(writeback.fifo)
             new == Head(data_in[h])
             held == writeback.buffer[w.slot].val
             val == Written(req[w.id].calc, held, w.old, new.val)
             cell == [by |-> w.id, pos |-> new.pos, val |-> val]
             beat == [writeback.buffer EXCEPT ![w.slot] = cell]
             strb == [mask[h] EXCEPT ![w.slot] = TRUE]
  <1>1. /\ h \in Handler /\ h \in ReadPort /\ h \in WritePort
        /\ writeback.fifo # <<>> /\ data_in[h] # <<>>
    BY DEF Handler, ReadPort, WritePort, RMWWritebackData, WritebackReady
  <1>2. /\ UNCHANGED <<todo, req, before, u, waiting, sending, out, forwarding, tlc, prep, beats, pos,
                       buf, mask_in, responses, done, rd,
                       write_order, aw, queue, mem, answer, current, answered>>
        /\ Ids \subseteq Ids' /\ Ids' = Ids
    BY DEF RMWWritebackData, hist, tluh, requester, Ids
  <1>3. /\ writeback' = [fifo |-> Tail(writeback.fifo), buffer |-> beat]
        /\ SendFlit(h, w.id, new.pos, w.last, cell)
        /\ \/ /\ SendBeat(h, w.id, w.addr, beat, strb, w.burst)
              /\ mask' = [mask EXCEPT ![h] = NoMask]
           \/ mask' = [mask EXCEPT ![h] = strb] /\ UNCHANGED wr
        /\ data_in' = Take(data_in, h)
    BY DEF RMWWritebackData
  <1>4. /\ w \in BackType(Ids) /\ new \in Cell /\ mask[h] \in Strobe
        /\ Tail(writeback.fifo) \in Seq(BackType(Ids)) /\ writeback.buffer \in Beat
        /\ data_in \in [WritePort -> Seq(Cell)]
    BY <1>1 DEF Types, BackOK, InOK, BufOK
  <1> HIDE DEF w, new
  <1>5. /\ w.slot \in Slot /\ w.old \in Value /\ w.id \in Ids /\ w.addr \in Int
        /\ w.last \in BOOLEAN /\ w.burst \in BOOLEAN /\ w.id \in Nat
        /\ new.pos \in Nat /\ new.val \in Value
    <2>1. /\ w.slot \in Slot /\ w.old \in Value /\ w.id \in Ids /\ w.addr \in Int
          /\ w.last \in BOOLEAN /\ w.burst \in BOOLEAN
      BY <1>4 DEF BackType
    <2>2. new.pos \in Nat /\ new.val \in Value
      BY <1>4 DEF Cell, Value
    <2>3. w.id \in Nat
      BY <2>1 DEF Ids, Types, HistOK
    <2> QED
      BY <2>1, <2>2, <2>3
  <1>6. val \in 0 .. Values - 1
    <2>1. held \in 0 .. Values - 1
      BY <1>4, <1>5 DEF Beat, Cell
    <2>2. req[w.id].calc \in Arithmetic \cup Logic
      <3>1. req[w.id] \in Request
        BY <1>5, RequestSizes DEF Types, HistOK, Ids
      <3> QED
        BY <3>1 DEF Request
    <2> HIDE DEF held
    <2> QED
      BY <2>1, <2>2, <1>5, WrittenType DEF Value
  <1> HIDE DEF val
  <1>7. cell \in Cell
    BY <1>5, <1>6 DEF Cell
  <1> HIDE DEF cell
  <1>8. beat \in Beat /\ strb \in Strobe
    BY <1>4, <1>5, <1>7 DEF Beat, Strobe
  <1> HIDE DEF beat, strb
  <1>9. BackOK'
    <2> DEFINE d == [id |-> w.id, pos |-> new.pos, last |-> w.last, cell |-> cell]
    <2>1. d \in OutType(Ids)
      BY <1>5, <1>7 DEF OutType
    <2>2. data_out' = [data_out EXCEPT ![h] = Append(data_out[h], d)] /\ BackOK
      BY <1>3 DEF Types, SendFlit
    <2> HIDE DEF d
    <2>3. data_out' \in [ReadPort -> Seq(OutType(Ids))]
      BY <2>1, <2>2, <1>1, SendFlitTypes
    <2>4. writeback' \in [fifo : Seq(BackType(Ids)), buffer : Beat]
      BY <1>3, <1>4, <1>8
    <2> QED
      BY <2>3, <2>4, <1>2, Zenon DEF BackOK, BackType, OutType
  <1>10. BufOK'
    <2>1. NoMask \in Strobe
      BY DEF NoMask, Strobe
    <2> QED
      BY <2>1, <1>1, <1>2, <1>3, <1>8 DEF Types, BufOK
  <1>11. InOK'
    <2>1. data_in' \in [WritePort -> Seq(Cell)]
      BY <1>1, <1>3, <1>4 DEF Take
    <2> QED
      BY <2>1, <1>2, Zenon DEF Types, InOK, MaskType
  <1>12. WrOK'
    <2>1. WrOK /\ req' = req
      BY <1>2 DEF Types
    <2>2. CASE SendBeat(h, w.id, w.addr, beat, strb, w.burst)
      BY <2>1, <2>2, <1>1, <1>5, <1>8, SendBeatTypes
    <2>3. CASE UNCHANGED wr
      BY <2>1, <2>3, <1>2, FrameWr
    <2> QED
      BY <2>2, <2>3, <1>3
  <1>13. HistOK' /\ UOK' /\ WaitOK' /\ OutOK' /\ PrepOK' /\ JobOK'
    BY <1>2, FrameHist, FrameU, FrameWait, FrameOut, FramePrep, FrameJob, Zenon DEF Types
  <1>14. DoneOK' /\ RdOK' /\ AxiOK'
    BY <1>2, FrameDone, FrameRd, FrameAxi, Zenon DEF Types
  <1> QED
    BY <1>9, <1>10, <1>11, <1>12, <1>13, <1>14 DEF Types

\* drop_denied of the RMW handler
LEMMA TypesRMWDropDenied ==
  ASSUME Types, RMWDropDenied
  PROVE  Types'
  <1> DEFINE h == "rmw"
  <1>1. /\ h \in Handler /\ h \in ReadPort /\ h \in WritePort /\ beats[h] # <<>> /\ Zero \in Cell
        /\ data_in[h] # <<>>
    BY Sizes DEF Handler, ReadPort, WritePort, RMWDropDenied, Zero, Cell
  <1>2. /\ Job(h) \in JobType(Ids) /\ FlitLeft(h) \in 0 .. Words
        /\ Place(h) \in Int /\ (Finish(h) => beats' \in [Handler -> Seq(JobType(Ids))])
    BY <1>1, Position DEF Types
  <1>3. /\ UNCHANGED <<todo, req, before, u, waiting, sending, out, forwarding, tlc, prep, buf,
                       mask, mask_in, responses, done, writeback, rd, wr,
                       write_order, aw, queue, mem, answer, current, answered>>
        /\ Ids \subseteq Ids' /\ Ids' = Ids
    BY DEF RMWDropDenied, hist, tluh, axi, requester, Ids
  <1>4. /\ SendFlit(h, Job(h).id, Place(h), FlitLeft(h) = 0, Zero) /\ Finish(h)
        /\ pos' = [pos EXCEPT ![h].flit = FlitLeft(h)] /\ data_in' = Take(data_in, h)
    BY DEF RMWDropDenied
  <1>5. data_out' \in [ReadPort -> Seq(OutType(Ids))]
    <2> DEFINE d == [id |-> Job(h).id, pos |-> Place(h), last |-> FlitLeft(h) = 0, cell |-> Zero]
    <2>1. d \in OutType(Ids)
      BY <1>1, <1>2 DEF OutType, JobType
    <2>2. data_out' = [data_out EXCEPT ![h] = Append(data_out[h], d)] /\ BackOK
      BY <1>4 DEF Types, SendFlit
    <2> HIDE DEF d
    <2> QED
      BY <2>1, <2>2, <1>1, SendFlitTypes
  <1>6. BackOK'
    BY <1>5, <1>3, Zenon DEF Types, BackOK, BackType, OutType
  <1>7. JobOK'
    <2>1. HistOK /\ JobOK /\ req' = req
      BY <1>3 DEF Types
    <2> QED
      BY <2>1, <1>1, <1>4, DropTypes
  <1>8. InOK'
    <2>1. data_in' \in [WritePort -> Seq(Cell)]
      BY <1>1, <1>4 DEF Types, InOK, Take
    <2> QED
      BY <2>1, <1>3, Zenon DEF Types, InOK, MaskType
  <1>9. HistOK' /\ UOK' /\ WaitOK' /\ OutOK' /\ PrepOK' /\ BufOK'
    BY <1>3, FrameHist, FrameU, FrameWait, FrameOut, FramePrep, FrameBuf, Zenon DEF Types
  <1>10. DoneOK' /\ RdOK' /\ WrOK' /\ AxiOK'
    BY <1>3, FrameDone, FrameRd, FrameWr, FrameAxi, Zenon DEF Types
  <1> QED
    BY <1>6, <1>7, <1>8, <1>9, <1>10 DEF Types

\* drop_response of the RMW handler
LEMMA TypesRMWDropResponse ==
  ASSUME Types, RMWDropResponse
  PROVE  Types'
  <1>1. /\ UNCHANGED <<todo, req, before, u, waiting, sending, out, forwarding, tlc, prep, beats, pos,
                       buf, mask, data_in, mask_in, responses, done, writeback, data_out, rd,
                       write_order, aw, queue, mem, answer, current, answered>>
        /\ Ids \subseteq Ids' /\ Ids' = Ids
    BY DEF RMWDropResponse, hist, tluh, handlers, requester, Ids
  <1>2. WrOK'
    <2>1. WrOK /\ "rmw" \in WritePort /\ req' = req
      BY <1>1 DEF Types, WritePort
    <2> QED
      BY <2>1, TakeRespTypes DEF RMWDropResponse
  <1>3. HistOK' /\ UOK' /\ WaitOK' /\ OutOK' /\ PrepOK' /\ JobOK'
    BY <1>1, FrameHist, FrameU, FrameWait, FrameOut, FramePrep, FrameJob, Zenon DEF Types
  <1>4. BufOK' /\ InOK' /\ DoneOK' /\ BackOK' /\ RdOK' /\ AxiOK'
    BY <1>1, FrameBuf, FrameIn, FrameDone, FrameBack, FrameRd, FrameAxi, Zenon DEF Types
  <1> QED
    BY <1>2, <1>3, <1>4 DEF Types

-----------------------------------------------------------------------------
(* The types hold: AXI and memory *)

\* fullfill_write
LEMMA TypesFullfillWrite ==
  ASSUME Types, NEW p \in WritePort, FullfillWrite(p)
  PROVE  Types'
  <1> DEFINE W == [addr : Seq(Burst(Ids)), data : Seq(DataType(Ids)), resp : Seq([id : Ids, addr : Nat])]
             w == [wr[p] EXCEPT !.addr = Tail(@)]
             b == Head(wr[p].addr)
             a == [port |-> p, addr |-> b.addr, beats |-> b.beats, id |-> b.id]
  <1>1. /\ UNCHANGED <<todo, req, before, u, waiting, sending, out, forwarding, tlc, prep, beats, pos,
                       buf, mask, data_in, mask_in, responses, done, writeback, data_out, rd,
                       queue, mem, answer, current, answered>>
        /\ Ids \subseteq Ids' /\ Ids' = Ids
    BY DEF FullfillWrite, hist, tluh, handlers, requester, Ids
  <1>2. /\ wr[p].addr # <<>> /\ wr' = [wr EXCEPT ![p] = w]
        /\ write_order' = Append(write_order, p) /\ aw' = Append(aw, a)
    BY DEF FullfillWrite
  <1>3. wr[p] \in W
    BY DEF Types, WrOK
  <1>4. b \in Burst(Ids) /\ Tail(wr[p].addr) \in Seq(Burst(Ids))
    BY <1>2, <1>3
  <1>5. w \in W
    BY <1>3, <1>4
  <1>6. WrOK'
    <2> HIDE DEF w, W
    <2>1. wr' \in [WritePort -> W]
      BY <1>2, <1>5 DEF Types, WrOK, W
    <2> QED
      BY <2>1, <1>1, Zenon DEF WrOK, W, Burst, DataType
  <1> HIDE DEF b
  <1>7. a \in AwType(Ids)
    BY <1>4 DEF Burst, AwType
  <1> HIDE DEF a
  <1>8. AxiOK'
    <2>1. aw' \in Seq(AwType(Ids)) /\ write_order' \in Seq(WritePort)
      BY <1>2, <1>7 DEF Types, AxiOK
    <2> QED
      BY <2>1, <1>1, Zenon DEF Types, AxiOK, AwType, QueueType
  <1>9. HistOK' /\ UOK' /\ WaitOK' /\ OutOK' /\ PrepOK' /\ JobOK'
    BY <1>1, FrameHist, FrameU, FrameWait, FrameOut, FramePrep, FrameJob, Zenon DEF Types
  <1>10. BufOK' /\ InOK' /\ DoneOK' /\ BackOK' /\ RdOK'
    BY <1>1, FrameBuf, FrameIn, FrameDone, FrameBack, FrameRd, Zenon DEF Types
  <1> QED
    BY <1>6, <1>8, <1>9, <1>10 DEF Types

\* The oldest burst without its first beat.
Rest(b) == [b EXCEPT !.addr = b.addr + FlitsPerBeat, !.beats = b.beats - 1]

\* The oldest burst gets shorter or leaves.
LEMMA Advances ==
  ASSUME NEW B, NEW s \in Seq(B), s # <<>>
  PROVE  /\ s[1] \in B /\ Head(s) = s[1] /\ 1 \in DOMAIN s /\ Tail(s) \in Seq(B)
         /\ s[1].beats = 1 => Advance(s) = Tail(s)
         /\ s[1].beats # 1 => Advance(s) = [s EXCEPT ![1] = Rest(s[1])]
         /\ \A b \in B : [s EXCEPT ![1] = b] \in Seq(B)
  <1>1. s[1] \in B /\ Head(s) = s[1] /\ 1 \in DOMAIN s /\ Tail(s) \in Seq(B)
    OBVIOUS
  <1>2. \A b \in B : [s EXCEPT ![1] = b] \in Seq(B)
    OBVIOUS
  <1> QED
    BY <1>1, <1>2, Zenon DEF Advance, Rest

\* What is left of a burst of the merger.
LEMMA RestOfWrite ==
  ASSUME NEW ids, NEW b \in AwType(ids), b.beats # 1
  PROVE  /\ Rest(b) \in AwType(ids) /\ Rest(b).addr = b.addr + FlitsPerBeat
         /\ Rest(b).beats = b.beats - 1 /\ Rest(b).id = b.id /\ Rest(b).port = b.port
  <1>1. b.addr + FlitsPerBeat \in Nat /\ b.beats - 1 \in Nat \ {0}
    BY Sizes DEF AwType
  <1> QED
    BY <1>1 DEF AwType, Rest

\* What is left of a burst of a handler.
LEMMA RestOfBurst ==
  ASSUME NEW ids, NEW b \in Burst(ids), b.beats # 1
  PROVE  /\ Rest(b) \in Burst(ids) /\ Rest(b).addr = b.addr + FlitsPerBeat
         /\ Rest(b).beats = b.beats - 1 /\ Rest(b).id = b.id
  <1>1. /\ b \in [addr : Nat, beats : Nat \ {0}, id : ids]
        /\ b.addr + b.beats * FlitsPerBeat <= Words
    BY DEF Burst
  <1>2. b.addr + FlitsPerBeat \in Nat /\ b.beats - 1 \in Nat \ {0}
    BY <1>1, Sizes
  <1>3. /\ Rest(b) \in [addr : Nat, beats : Nat \ {0}, id : ids]
        /\ Rest(b).addr = b.addr + FlitsPerBeat /\ Rest(b).beats = b.beats - 1 /\ Rest(b).id = b.id
    BY <1>1, <1>2 DEF Rest
  <1>4. (b.addr + FlitsPerBeat) + (b.beats - 1) * FlitsPerBeat <= Words
    <2>1. (b.beats - 1) * FlitsPerBeat = b.beats * FlitsPerBeat - FlitsPerBeat
      BY <1>1, Sizes
    <2> DEFINE m == b.beats * FlitsPerBeat
    <2>2. m \in Nat
      BY <1>1, Sizes
    <2> HIDE DEF m
    <2>3. b.addr + m <= Words /\ (b.beats - 1) * FlitsPerBeat = m - FlitsPerBeat
      BY <2>1, <1>1 DEF m
    <2> QED
      BY <2>2, <2>3, <1>1, Sizes
  <1> QED
    BY <1>3, <1>4 DEF Burst

\* forward_write_data of the merger
LEMMA TypesForwardWriteData ==
  ASSUME Types, ForwardWriteData
  PROVE  Types'
  <1> DEFINE p == Head(write_order)
             d == Head(wr[p].data)
             burst == Head(aw)
             final == burst.beats = 1
             W == [addr : Seq(Burst(Ids)), data : Seq(DataType(Ids)), resp : Seq([id : Ids, addr : Nat])]
             w == [wr[p] EXCEPT !.data = Tail(@)]
             e == [addr |-> burst.addr, id |-> burst.id, data |-> d.data, strb |-> d.strb, final |-> final]
  <1>1. /\ UNCHANGED <<todo, req, before, u, waiting, sending, out, forwarding, tlc, prep, beats, pos,
                       buf, mask, data_in, mask_in, responses, done, writeback, data_out, rd,
                       mem, answer, current, answered>>
        /\ Ids \subseteq Ids' /\ Ids' = Ids
    BY DEF ForwardWriteData, hist, tluh, handlers, requester, Ids
  <1>2. /\ write_order # <<>> /\ aw # <<>> /\ wr[p].data # <<>> /\ wr' = [wr EXCEPT ![p] = w]
        /\ (write_order' = write_order \/ write_order' = Tail(write_order))
        /\ aw' = Advance(aw)
        /\ queue' = [queue EXCEPT ![burst.port] = Append(queue[burst.port], e)]
    BY DEF ForwardWriteData
  <1>3. p \in WritePort /\ write_order' \in Seq(WritePort) /\ burst \in AwType(Ids)
    <2>1. write_order \in Seq(WritePort) /\ aw \in Seq(AwType(Ids))
      BY DEF Types, AxiOK
    <2>2. write_order # <<>> /\ (write_order' = write_order \/ write_order' = Tail(write_order))
      BY <1>2
    <2>3. p \in WritePort /\ write_order' \in Seq(WritePort)
      BY <2>1, <2>2
    <2>4. burst \in AwType(Ids)
      BY <2>1, <1>2
    <2> QED
      BY <2>3, <2>4
  <1> HIDE DEF p
  <1>4. wr[p] \in W
    BY <1>3 DEF Types, WrOK
  <1>5. d \in DataType(Ids) /\ Tail(wr[p].data) \in Seq(DataType(Ids))
    BY <1>2, <1>4
  <1>6. w \in W
    BY <1>4, <1>5
  <1>7. WrOK'
    <2> HIDE DEF w, W
    <2>1. wr' \in [WritePort -> W]
      BY <1>2, <1>3, <1>6 DEF Types, WrOK, W
    <2> QED
      BY <2>1, <1>1, Zenon DEF WrOK, W, Burst, DataType
  <1>8. aw' \in Seq(AwType(Ids))
    <2>1. aw \in Seq(AwType(Ids))
      BY DEF Types, AxiOK
    <2>2. CASE aw[1].beats = 1
      BY <2>1, <2>2, <1>2, Advances
    <2>3. CASE aw[1].beats # 1
      <3>1. aw' = [aw EXCEPT ![1] = Rest(aw[1])] /\ aw[1] \in AwType(Ids)
        BY <2>1, <2>3, <1>2, Advances
      <3>2. Rest(aw[1]) \in AwType(Ids)
        BY <3>1, <2>3, RestOfWrite
      <3> QED
        BY <2>1, <3>1, <3>2, <1>2, Advances
    <2> QED
      BY <2>2, <2>3
  <1> HIDE DEF d, burst
  <1>9. e \in QueueType(Ids)
    BY <1>3, <1>5 DEF AwType, DataType, QueueType
  <1> HIDE DEF e
  <1>10. queue' \in [WritePort -> Seq(QueueType(Ids))]
    <2>1. burst.port \in WritePort
      BY <1>3 DEF AwType
    <2> QED
      BY <2>1, <1>2, <1>9 DEF Types, AxiOK
  <1>11. AxiOK'
    BY <1>1, <1>3, <1>8, <1>10, Zenon DEF Types, AxiOK, AwType, QueueType
  <1>12. HistOK' /\ UOK' /\ WaitOK' /\ OutOK' /\ PrepOK' /\ JobOK'
    BY <1>1, FrameHist, FrameU, FrameWait, FrameOut, FramePrep, FrameJob, Zenon DEF Types
  <1>13. BufOK' /\ InOK' /\ DoneOK' /\ BackOK' /\ RdOK'
    BY <1>1, FrameBuf, FrameIn, FrameDone, FrameBack, FrameRd, Zenon DEF Types
  <1> QED
    BY <1>7, <1>11, <1>12, <1>13 DEF Types

\* A beat is written.
LEMMA TypesMemWrite ==
  ASSUME Types, NEW p \in WritePort, MemWrite(p)
  PROVE  Types'
  <1> DEFINE W == [addr : Seq(Burst(Ids)), data : Seq(DataType(Ids)), resp : Seq([id : Ids, addr : Nat])]
             b == Head(queue[p])
             r == [id |-> b.id, addr |-> b.addr]
             w == [wr[p] EXCEPT !.resp = Append(@, r)]
  <1>1. /\ UNCHANGED <<todo, req, before, u, waiting, sending, out, forwarding, tlc, prep, beats, pos,
                       buf, mask, data_in, mask_in, responses, done, writeback, data_out, rd,
                       write_order, aw, answer, current, answered>>
        /\ Ids \subseteq Ids' /\ Ids' = Ids
    BY DEF MemWrite, hist, tluh, handlers, requester, Ids
  <1>2. /\ queue[p] # <<>> /\ (wr' = wr \/ wr' = [wr EXCEPT ![p] = w])
        /\ queue' = [queue EXCEPT ![p] = Tail(@)]
        /\ mem' = [a \in DOMAIN mem |-> IF a - b.addr \in Slot /\ b.strb[a - b.addr]
                                        THEN b.data[a - b.addr] ELSE mem[a]]
    BY DEF MemWrite
  <1>3. /\ b \in QueueType(Ids) /\ queue' \in [WritePort -> Seq(QueueType(Ids))]
        /\ mem \in [0 .. Words - 1 -> Cell]
    BY <1>2 DEF Types, AxiOK
  <1> HIDE DEF b
  <1>4. mem' \in [0 .. Words - 1 -> Cell]
    <2>1. b.data \in Beat /\ b.addr \in Nat
      BY <1>3 DEF QueueType
    <2>2. \A s \in Slot : b.data[s] \in Cell
      BY <2>1 DEF Beat
    <2> QED
      BY <2>2, <1>2, <1>3
  <1>5. AxiOK'
    BY <1>1, <1>3, <1>4, Zenon DEF Types, AxiOK, AwType, QueueType
  <1>6. WrOK'
    <2>1. CASE wr' = wr
      BY <2>1, <1>1, FrameWr DEF Types
    <2>2. CASE wr' = [wr EXCEPT ![p] = w]
      <3>1. wr[p] \in W
        BY DEF Types, WrOK
      <3>2. r \in [id : Ids, addr : Nat]
        BY <1>3 DEF QueueType
      <3> HIDE DEF r
      <3>3. Append(wr[p].resp, r) \in Seq([id : Ids, addr : Nat])
        BY <3>1, <3>2
      <3>4. w \in W
        BY <3>1, <3>3
      <3> HIDE DEF w, W
      <3>5. wr' \in [WritePort -> W]
        BY <2>2, <3>4 DEF Types, WrOK, W
      <3> QED
        BY <3>5, <1>1, Zenon DEF WrOK, W, Burst, DataType
    <2> QED
      BY <2>1, <2>2, <1>2
  <1>7. HistOK' /\ UOK' /\ WaitOK' /\ OutOK' /\ PrepOK' /\ JobOK'
    BY <1>1, FrameHist, FrameU, FrameWait, FrameOut, FramePrep, FrameJob, Zenon DEF Types
  <1>8. BufOK' /\ InOK' /\ DoneOK' /\ BackOK' /\ RdOK'
    BY <1>1, FrameBuf, FrameIn, FrameDone, FrameBack, FrameRd, Zenon DEF Types
  <1> QED
    BY <1>5, <1>6, <1>7, <1>8 DEF Types

\* A beat is read.
LEMMA TypesMemRead ==
  ASSUME Types, NEW p \in ReadPort, MemRead(p)
  PROVE  Types'
  <1> DEFINE R == [addr : Seq(Burst(Ids)), data : Seq(Fetched(Ids))]
             s == rd[p].addr
             b == Head(s)
             f == [id |-> b.id, addr |-> b.addr, cells |-> [x \in Slot |-> mem[b.addr + x]]]
             t == Advance(s)
             r == [addr |-> t, data |-> Append(rd[p].data, f)]
  <1>1. /\ UNCHANGED <<todo, req, before, u, waiting, sending, out, forwarding, tlc, prep, beats, pos,
                       buf, mask, data_in, mask_in, responses, done, writeback, data_out, wr,
                       write_order, aw, queue, mem, answer, current, answered>>
        /\ Ids \subseteq Ids' /\ Ids' = Ids
    BY DEF MemRead, hist, tluh, handlers, requester, Ids
  <1>2. s # <<>> /\ rd' = [rd EXCEPT ![p] = r]
    BY DEF MemRead
  <1>3. s \in Seq(Burst(Ids)) /\ rd[p].data \in Seq(Fetched(Ids)) /\ rd \in [ReadPort -> R]
    BY DEF Types, RdOK
  <1> HIDE DEF s
  <1>4. b \in Burst(Ids) /\ b = s[1] /\ 1 \in DOMAIN s /\ Tail(s) \in Seq(Burst(Ids))
    BY <1>2, <1>3
  <1> HIDE DEF b
  <1>5. /\ b.addr \in Nat /\ b.beats \in Nat \ {0} /\ b.id \in Ids
        /\ b.addr + b.beats * FlitsPerBeat <= Words
    BY <1>4 DEF Burst
  <1>6. \A x \in Slot : b.addr + x \in 0 .. Words - 1
    <2>1. b.beats * FlitsPerBeat >= FlitsPerBeat
      <3>1. ASSUME NEW n \in Nat, n >= 1 PROVE n * FlitsPerBeat >= FlitsPerBeat
        <4>1. n - 1 \in Nat /\ n * FlitsPerBeat = (n - 1) * FlitsPerBeat + FlitsPerBeat
          BY <3>1, Sizes
        <4>2. (n - 1) * FlitsPerBeat \in Nat
          BY <4>1, Sizes
        <4> QED
          BY <4>1, <4>2, Sizes
      <3> QED
        BY <3>1, <1>5
    <2> DEFINE m == b.beats * FlitsPerBeat
    <2>2. m \in Nat
      BY <1>5, Sizes
    <2> HIDE DEF m
    <2>3. b.addr + m <= Words /\ m >= FlitsPerBeat
      BY <2>1, <1>5 DEF m
    <2> QED
      BY <2>2, <2>3, <1>5, Sizes
  <1>7. f \in Fetched(Ids)
    <2>1. [x \in Slot |-> mem[b.addr + x]] \in Beat
      BY <1>6 DEF Types, AxiOK, Beat
    <2> QED
      BY <2>1, <1>5 DEF Fetched
  <1>8. t \in Seq(Burst(Ids))
    <2>1. CASE b.beats = 1
      BY <2>1, <1>2, <1>3, <1>4, Advances
    <2>2. CASE b.beats # 1
      <3>1. t = [s EXCEPT ![1] = Rest(b)]
        BY <2>2, <1>2, <1>3, <1>4, Advances
      <3>2. Rest(b) \in Burst(Ids)
        BY <1>4, <2>2, RestOfBurst
      <3> HIDE DEF t
      <3> QED
        BY <3>1, <3>2, <1>3, <1>4
    <2> QED
      BY <2>1, <2>2
  <1> HIDE DEF t, f
  <1>9. r \in R
    BY <1>3, <1>7, <1>8
  <1> HIDE DEF r, R
  <1>10. rd' \in [ReadPort -> R]
    BY <1>2, <1>3, <1>9
  <1>11. RdOK'
    BY <1>10, <1>1, Zenon DEF RdOK, R, Burst, Fetched
  <1>12. HistOK' /\ UOK' /\ WaitOK' /\ OutOK' /\ PrepOK' /\ JobOK'
    BY <1>1, FrameHist, FrameU, FrameWait, FrameOut, FramePrep, FrameJob, Zenon DEF Types
  <1>13. BufOK' /\ InOK' /\ DoneOK' /\ BackOK' /\ WrOK' /\ AxiOK'
    BY <1>1, FrameBuf, FrameIn, FrameDone, FrameBack, FrameWr, FrameAxi, Zenon DEF Types
  <1> QED
    BY <1>11, <1>12, <1>13 DEF Types

-----------------------------------------------------------------------------
(* The types hold: responses *)

\* Sequences of flits are put together.
LEMMA WholeConcat ==
  ASSUME NEW F, NEW s \in Seq(F), NEW m \in Seq(F), NEW a, NEW b, NEW c,
         Whole(s, a, b), Whole(m, b, c)
  PROVE  Whole(s \o m, a, c)
  <1> DEFINE t == s \o m
  <1>1. /\ t \in Seq(F) /\ Len(t) = Len(s) + Len(m) /\ Len(s) \in Nat /\ Len(m) \in Nat
        /\ \A i \in 1 .. Len(s) : t[i] = s[i]
        /\ \A i \in 1 .. Len(m) : t[Len(s) + i] = m[i]
    OBVIOUS
  <1> HIDE DEF t
  <1>2. /\ \A i \in 1 .. Len(s) : s[i].start <=> (IF i = 1 THEN ~ a ELSE s[i - 1].last)
        /\ IF Len(s) = 0 THEN a <=> b ELSE ~ s[Len(s)].last <=> b
        /\ \A i \in 1 .. Len(m) : m[i].start <=> (IF i = 1 THEN ~ b ELSE m[i - 1].last)
        /\ IF Len(m) = 0 THEN b <=> c ELSE ~ m[Len(m)].last <=> c
    BY DEF Whole
  <1>3. ASSUME NEW i \in 1 .. Len(t)
        PROVE  t[i].start <=> (IF i = 1 THEN ~ a ELSE t[i - 1].last)
    <2>1. CASE i <= Len(s)
      <3>1. i \in 1 .. Len(s) /\ t[i] = s[i] /\ (i # 1 => i - 1 \in 1 .. Len(s) /\ t[i - 1] = s[i - 1])
        BY <2>1, <1>1
      <3> QED
        BY <3>1, <1>2
    <2>2. CASE i > Len(s)
      <3> DEFINE j == i - Len(s)
      <3>1. j \in 1 .. Len(m) /\ i = Len(s) + j /\ t[i] = m[j]
        BY <2>2, <1>1
      <3>2. CASE j = 1
        <4>1. m[1].start <=> ~ b
          BY <3>1, <3>2, <1>2
        <4>2. CASE Len(s) = 0
          BY <4>1, <4>2, <3>1, <3>2, <1>2
        <4>3. CASE Len(s) # 0
          <5>1. i # 1 /\ i - 1 = Len(s) /\ Len(s) \in 1 .. Len(s) /\ t[i - 1] = s[Len(s)]
            BY <4>3, <3>1, <3>2, <1>1
          <5> QED
            BY <5>1, <4>1, <4>3, <3>1, <3>2, <1>2
        <4> QED
          BY <4>2, <4>3
      <3>3. CASE j # 1
        <4>1. i # 1 /\ j - 1 \in 1 .. Len(m) /\ i - 1 = Len(s) + (j - 1)
          BY <3>1, <3>3, <1>1
        <4>2. t[i - 1] = m[j - 1]
          BY <4>1, <1>1
        <4> HIDE DEF j
        <4> QED
          BY <4>1, <4>2, <3>1, <3>3, <1>2
      <3> QED
        BY <3>2, <3>3
    <2> QED
      BY <2>1, <2>2, <1>1
  <1>4. IF Len(t) = 0 THEN a <=> c ELSE ~ t[Len(t)].last <=> c
    <2>1. CASE Len(m) = 0
      <3>1. Len(t) = Len(s) /\ (Len(s) # 0 => t[Len(t)] = s[Len(s)]) /\ (b <=> c)
        BY <2>1, <1>1, <1>2
      <3> QED
        BY <3>1, <1>2
    <2>2. CASE Len(m) # 0
      <3>1. Len(t) # 0 /\ Len(m) \in 1 .. Len(m) /\ Len(t) = Len(s) + Len(m) /\ t[Len(t)] = m[Len(m)]
        BY <2>2, <1>1
      <3> QED
        BY <3>1, <2>2, <1>2
    <2> QED
      BY <2>1, <2>2
  <1> QED
    BY <1>3, <1>4, Zenon DEF Whole, t

\* A flit leaves.
LEMMA WholeTail ==
  ASSUME NEW F, NEW s \in Seq(F), s # <<>>, NEW a, NEW c, Whole(s, a, c)
  PROVE  Whole(Tail(s), ~ Head(s).last, c) /\ (Head(s).start <=> ~ a)
  <1> DEFINE t == Tail(s)
  <1>1. /\ t \in Seq(F) /\ Len(t) = Len(s) - 1 /\ Len(s) \in Nat /\ Len(s) >= 1
        /\ \A i \in 1 .. Len(t) : t[i] = s[i + 1]
        /\ Head(s) = s[1]
    OBVIOUS
  <1> HIDE DEF t
  <1>2. /\ \A i \in 1 .. Len(s) : s[i].start <=> (IF i = 1 THEN ~ a ELSE s[i - 1].last)
        /\ ~ s[Len(s)].last <=> c
    BY <1>1 DEF Whole
  <1>3. s[1].start <=> ~ a
    BY <1>1, <1>2
  <1>4. ASSUME NEW i \in 1 .. Len(t)
        PROVE  t[i].start <=> (IF i = 1 THEN ~ ~ s[1].last ELSE t[i - 1].last)
    <2>1. t[i] = s[i + 1] /\ i + 1 \in 1 .. Len(s) /\ i + 1 # 1 /\ (i + 1) - 1 = i
      BY <1>1
    <2>2. s[i + 1].start <=> s[i].last
      BY <2>1, <1>2
    <2>3. i # 1 => t[i - 1] = s[i]
      BY <1>1
    <2> QED
      BY <2>1, <2>2, <2>3
  <1>5. IF Len(t) = 0 THEN ~ s[1].last <=> c ELSE ~ t[Len(t)].last <=> c
    BY <1>1, <1>2
  <1> QED
    BY <1>1, <1>3, <1>4, <1>5, Zenon DEF Whole, t

\* A source sends a part of a message.
LEMMA OutputTypes ==
  ASSUME OutOK, NEW k \in {"READ", "WRITE", "TLC"}, NEW m \in Seq(Flit(Ids)), NEW c,
         Whole(m, k = "READ" /\ sending, c), c <=> (k = "READ" /\ sending'), sending' \in BOOLEAN,
         k # "READ" => sending' = sending,
         Output(k, m), UNCHANGED <<req, forwarding, current>>
  PROVE  OutOK'
  <1>1. /\ out \in [{"READ", "WRITE", "TLC"} -> Seq(Flit(Ids))]
        /\ forwarding \in {"IDLE", "READ", "WRITE", "TLC"} /\ (forwarding # "IDLE" => current # 0)
        /\ \A j \in {"READ", "WRITE", "TLC"} : Whole(out[j], forwarding = j, j = "READ" /\ sending)
    BY DEF OutOK
  <1>2. out' = [out EXCEPT ![k] = out[k] \o m]
    BY DEF Output
  <1>3. out' \in [{"READ", "WRITE", "TLC"} -> Seq(Flit(Ids))]
    BY <1>1, <1>2
  <1>4. ASSUME NEW j \in {"READ", "WRITE", "TLC"}
        PROVE  Whole(out'[j], forwarding = j, j = "READ" /\ sending')
    <2>1. CASE j = k
      <3>1. out'[j] = out[k] \o m /\ out[k] \in Seq(Flit(Ids))
        BY <2>1, <1>1, <1>2
      <3>2. Whole(out[k] \o m, forwarding = k, c)
        BY <3>1, <1>1, WholeConcat
      <3>3. Whole(out[k] \o m, forwarding = k, k = "READ" /\ sending')
        BY <3>2 DEF Whole
      <3> QED
        BY <2>1, <3>1, <3>3
    <2>2. CASE j # k
      <3>1. out'[j] = out[j]
        BY <2>2, <1>1, <1>2
      <3>2. (j = "READ" /\ sending') <=> (j = "READ" /\ sending)
        BY <2>2
      <3>3. Whole(out[j], forwarding = j, j = "READ" /\ sending')
        BY <1>1, <3>2 DEF Whole
      <3> QED
        BY <3>1, <3>3
    <2> QED
      BY <2>1, <2>2
  <1>5. Ids' = Ids
    BY DEF Ids
  <1> QED
    BY <1>1, <1>3, <1>4, <1>5, Zenon DEF OutOK, Flit

\* A single flit.
LEMMA OneFlit ==
  ASSUME NEW f \in Flit(Ids), NEW begun \in BOOLEAN, f.start <=> ~ begun
  PROVE  <<f>> \in Seq(Flit(Ids)) /\ Whole(<<f>>, begun, ~ f.last)
  BY DEF Whole

\* The first flit of a message.
LEMMA StartFlitType ==
  ASSUME NEW id \in Ids, NEW n \in Nat
  PROVE  /\ StartFlit(id, n) \in Flit(Ids) /\ StartFlit(id, n).start
         /\ n = 0 => StartFlit(id, n).last
         /\ n # 0 => ~ StartFlit(id, n).last
  <1>1. Zero \in Cell /\ 0 \in Int /\ (n = 0) \in BOOLEAN
    BY Sizes DEF Zero, Cell
  <1> DEFINE l == n = 0
             f == [start |-> TRUE, id |-> id, pos |-> 0, last |-> l, cell |-> Zero]
  <1>2. StartFlit(id, n) = f
    BY DEF StartFlit
  <1>3. l \in BOOLEAN
    OBVIOUS
  <1> HIDE DEF l
  <1>4. f \in Flit(Ids) /\ f.start = TRUE /\ f.last = l
    BY <1>1, <1>3 DEF Flit
  <1> HIDE DEF f
  <1> QED
    BY <1>2, <1>4, Zenon DEF l

\* The flits that follow.
LEMMA DataFlitType ==
  ASSUME NEW d \in OutType(Ids)
  PROVE  DataFlit(d) \in Flit(Ids) /\ ~ DataFlit(d).start /\ DataFlit(d).last = d.last
  BY DEF DataFlit, Flit, OutType

\* enqueue_response_rd
LEMMA TypesEnqueueResponseRd ==
  ASSUME Types, EnqueueResponseRd
  PROVE  Types'
  <1> DEFINE w == Head(waiting["rd"])
             d == Head(data_out[w.from])
  <1>1. /\ UNCHANGED <<todo, req, before, u, forwarding, tlc, prep, beats, pos,
                       buf, mask, data_in, mask_in, responses, done, writeback, rd, wr,
                       write_order, aw, queue, mem, answer, current, answered>>
        /\ Ids \subseteq Ids' /\ Ids' = Ids
    BY DEF EnqueueResponseRd, hist, axi, requester, Ids
  <1>2. /\ waiting["rd"] # <<>> /\ data_out[w.from] # <<>>
        /\ \/ /\ ~sending /\ Output("READ", <<StartFlit(w.id, w.flits)>>)
              /\ sending' = TRUE /\ UNCHANGED <<waiting, data_out>>
           \/ /\ sending /\ Output("READ", <<DataFlit(d)>>)
              /\ data_out' = Take(data_out, w.from)
              /\ waiting' = IF d.last THEN Take(waiting, "rd") ELSE waiting
              /\ sending' = ~d.last
    BY DEF EnqueueResponseRd
  <1>3. /\ w \in ReadJob(Ids) /\ Tail(waiting["rd"]) \in Seq(ReadJob(Ids))
    BY <1>2 DEF Types, WaitOK
  <1> HIDE DEF w
  <1>4. w.from \in ReadPort /\ w.id \in Ids /\ w.flits \in Nat \ {0}
    BY <1>3 DEF ReadJob
  <1>5. d \in OutType(Ids) /\ data_out \in [ReadPort -> Seq(OutType(Ids))]
    BY <1>2, <1>4 DEF Types, BackOK
  <1> HIDE DEF d
  <1>6. sending \in BOOLEAN /\ d.last \in BOOLEAN
    BY <1>5 DEF Types, OutOK, OutType
  <1>7. OutOK'
    <2>0. OutOK /\ UNCHANGED <<req, forwarding, current>> /\ "READ" \in {"READ", "WRITE", "TLC"}
      BY <1>1 DEF Types
    <2>1. CASE /\ ~sending /\ Output("READ", <<StartFlit(w.id, w.flits)>>) /\ sending' = TRUE
      <3> DEFINE f == StartFlit(w.id, w.flits)
      <3>0. w.flits \in Nat /\ w.flits # 0
        BY <1>4
      <3>1. f \in Flit(Ids) /\ f.start /\ ~ f.last
        BY <1>4, <3>0, StartFlitType
      <3> HIDE DEF f
      <3>2. <<f>> \in Seq(Flit(Ids)) /\ Whole(<<f>>, FALSE, ~ f.last)
        BY <3>1, OneFlit
      <3>3. Whole(<<f>>, "READ" = "READ" /\ sending, TRUE)
        BY <2>1, <3>1, <3>2 DEF Whole
      <3> QED
        BY <2>0, <2>1, <3>2, <3>3, OutputTypes DEF f
    <2>2. CASE /\ sending /\ Output("READ", <<DataFlit(d)>>) /\ sending' = ~d.last
      <3> DEFINE f == DataFlit(d)
      <3>1. f \in Flit(Ids) /\ ~ f.start /\ f.last = d.last
        BY <1>5 DEF DataFlit, Flit, OutType
      <3> HIDE DEF f
      <3>2. <<f>> \in Seq(Flit(Ids)) /\ Whole(<<f>>, TRUE, ~ f.last)
        BY <3>1, OneFlit
      <3>3. Whole(<<f>>, "READ" = "READ" /\ sending, ~ f.last)
        BY <2>2, <3>2 DEF Whole
      <3>4. sending' = ~ f.last /\ sending' \in BOOLEAN /\ (~ f.last <=> ("READ" = "READ" /\ sending'))
        BY <2>2, <3>1, <1>6
      <3>5. Output("READ", <<f>>)
        BY <2>2 DEF f
      <3> QED
        BY <2>0, <3>2, <3>3, <3>4, <3>5, OutputTypes
    <2> QED
      BY <2>1, <2>2, <1>2
  <1>8. WaitOK'
    <2>1. CASE waiting' = waiting
      BY <2>1, <1>1, FrameWait, Zenon DEF Types
    <2>2. CASE waiting' = [waiting EXCEPT !["rd"] = Tail(@)]
      <3>1. /\ DOMAIN waiting' = {"rd", "wr", "hint"} /\ waiting'["rd"] \in Seq(ReadJob(Ids))
            /\ waiting'["wr"] = waiting["wr"] /\ waiting'["hint"] = waiting["hint"]
        BY <2>2, <1>3 DEF Types, WaitOK
      <3> QED
        BY <3>1, <1>1, Zenon DEF Types, WaitOK, ReadJob
    <2> QED
      BY <2>1, <2>2, <1>2 DEF Take
  <1>9. BackOK'
    <2>1. data_out' \in [ReadPort -> Seq(OutType(Ids))]
      <3>1. data_out' = data_out \/ data_out' = [data_out EXCEPT ![w.from] = Tail(data_out[w.from])]
        BY <1>2 DEF Take
      <3>2. Tail(data_out[w.from]) \in Seq(OutType(Ids))
        BY <1>2, <1>4, <1>5
      <3> QED
        BY <3>1, <3>2, <1>4, <1>5
    <2> QED
      BY <2>1, <1>1, Zenon DEF Types, BackOK, BackType, OutType
  <1>10. HistOK' /\ UOK' /\ PrepOK' /\ JobOK' /\ BufOK' /\ InOK'
    BY <1>1, FrameHist, FrameU, FramePrep, FrameJob, FrameBuf, FrameIn, Zenon DEF Types
  <1>11. DoneOK' /\ RdOK' /\ WrOK' /\ AxiOK'
    BY <1>1, FrameDone, FrameRd, FrameWr, FrameAxi, Zenon DEF Types
  <1> QED
    BY <1>7, <1>8, <1>9, <1>10, <1>11 DEF Types

\* An answer without data.
LEMMA AckTypes ==
  ASSUME Types, NEW b \in {"wr", "hint"}, waiting[b] # <<>>,
         Output("WRITE", <<StartFlit(Head(waiting[b]), 0)>>), waiting' = Take(waiting, b),
         UNCHANGED <<req, sending, forwarding, current, tlc>>
  PROVE  OutOK' /\ WaitOK'
  <1> DEFINE id == Head(waiting[b])
             f == StartFlit(id, 0)
  <1>0. Ids' = Ids
    BY DEF Ids
  <1>1. id \in Ids /\ Tail(waiting[b]) \in Seq(Ids)
    BY DEF Types, WaitOK
  <1>2. OutOK'
    <2> HIDE DEF id
    <2>1. f \in Flit(Ids) /\ f.start /\ f.last
      <3>1. 0 \in Nat /\ 0 = 0
        OBVIOUS
      <3> QED
        BY <3>1, <1>1, StartFlitType
    <2>2. Output("WRITE", <<f>>)
      BY DEF id
    <2> HIDE DEF f
    <2>3. <<f>> \in Seq(Flit(Ids)) /\ Whole(<<f>>, FALSE, ~ f.last)
      BY <2>1, OneFlit
    <2>4. Whole(<<f>>, "WRITE" = "READ" /\ sending, FALSE)
      BY <2>1, <2>3 DEF Whole
    <2>5. OutOK /\ sending' \in BOOLEAN /\ "WRITE" \in {"READ", "WRITE", "TLC"}
      BY DEF Types, OutOK
    <2> QED
      BY <2>2, <2>3, <2>4, <2>5, OutputTypes
  <1>3. WaitOK'
    <2> HIDE DEF id
    <2>1. waiting' = [waiting EXCEPT ![b] = Tail(waiting[b])]
      BY DEF Take
    <2>2. /\ DOMAIN waiting' = {"rd", "wr", "hint"} /\ waiting'["rd"] = waiting["rd"]
          /\ waiting'["wr"] \in Seq(Ids) /\ waiting'["hint"] \in Seq(Ids)
      BY <2>1, <1>1 DEF Types, WaitOK
    <2> QED
      BY <2>2, <1>0, Zenon DEF Types, WaitOK, ReadJob
  <1> QED
    BY <1>2, <1>3

\* enqueue_response_wr
LEMMA TypesEnqueueResponseWr ==
  ASSUME Types, EnqueueResponseWr
  PROVE  Types'
  <1>1. /\ UNCHANGED <<todo, req, before, u, sending, forwarding, tlc, prep, beats, pos,
                       buf, mask, data_in, mask_in, responses, writeback, data_out, rd, wr,
                       write_order, aw, queue, mem, answer, current, answered>>
        /\ Ids \subseteq Ids' /\ Ids' = Ids
    BY DEF EnqueueResponseWr, hist, axi, requester, Ids
  <1>2. OutOK' /\ WaitOK'
    <2>1. UNCHANGED <<req, sending, forwarding, current, tlc>>
      BY <1>1
    <2> QED
      BY <2>1, AckTypes DEF EnqueueResponseWr
  <1>3. DoneOK'
    <2>1. done' \in Nat
      BY DEF EnqueueResponseWr, Types, DoneOK
    <2> QED
      BY <2>1, <1>1, Zenon DEF Types, DoneOK, ResponseType
  <1>4. HistOK' /\ UOK' /\ PrepOK' /\ JobOK' /\ BufOK' /\ InOK'
    BY <1>1, FrameHist, FrameU, FramePrep, FrameJob, FrameBuf, FrameIn, Zenon DEF Types
  <1>5. BackOK' /\ RdOK' /\ WrOK' /\ AxiOK'
    BY <1>1, FrameBack, FrameRd, FrameWr, FrameAxi, Zenon DEF Types
  <1> QED
    BY <1>2, <1>3, <1>4, <1>5 DEF Types

\* enqueue_response_hint
LEMMA TypesEnqueueResponseHint ==
  ASSUME Types, EnqueueResponseHint
  PROVE  Types'
  <1>1. /\ UNCHANGED <<todo, req, before, u, sending, forwarding, tlc, prep, beats, pos,
                       buf, mask, data_in, mask_in, responses, done, writeback, data_out, rd, wr,
                       write_order, aw, queue, mem, answer, current, answered>>
        /\ Ids \subseteq Ids' /\ Ids' = Ids
    BY DEF EnqueueResponseHint, hist, handlers, axi, requester, Ids
  <1>2. OutOK' /\ WaitOK'
    <2>1. UNCHANGED <<req, sending, forwarding, current, tlc>>
      BY <1>1
    <2> QED
      BY <2>1, AckTypes DEF EnqueueResponseHint
  <1>4. HistOK' /\ UOK' /\ PrepOK' /\ JobOK' /\ BufOK' /\ InOK'
    BY <1>1, FrameHist, FrameU, FramePrep, FrameJob, FrameBuf, FrameIn, Zenon DEF Types
  <1>5. DoneOK' /\ BackOK' /\ RdOK' /\ WrOK' /\ AxiOK'
    BY <1>1, FrameDone, FrameBack, FrameRd, FrameWr, FrameAxi, Zenon DEF Types
  <1> QED
    BY <1>2, <1>4, <1>5 DEF Types

\* The TL-C handler grants a block.
LEMMA TypesTLCRespond ==
  ASSUME Types, TLCRespond
  PROVE  Types'
  <1> DEFINE id == Head(tlc)
             n == Flits(req[id])
             a == StartFlit(id, n)
             D(k) == DataFlit([id |-> id, pos |-> k - 1, last |-> k = n, cell |-> Zero])
             m == [k \in 1 .. n |-> D(k)]
  <1>1. /\ UNCHANGED <<todo, req, before, u, waiting, sending, forwarding, prep, beats, pos,
                       buf, mask, data_in, mask_in, responses, done, writeback, data_out, rd, wr,
                       write_order, aw, queue, mem, answer, current, answered>>
        /\ Ids \subseteq Ids' /\ Ids' = Ids
    BY DEF TLCRespond, hist, handlers, axi, requester, Ids
  <1>2. tlc # <<>> /\ Output("TLC", <<a>> \o m) /\ tlc' = Tail(tlc)
    BY DEF TLCRespond
  <1>3. id \in Ids /\ Tail(tlc) \in Seq(Ids)
    BY <1>2 DEF Types, WaitOK
  <1> HIDE DEF id
  <1>4. n \in Nat /\ n >= 1
    <2>1. req[id] \in Fitting
      BY <1>3 DEF Types, HistOK, Ids
    <2> QED
      BY <2>1, RequestSizes
  <1>5. /\ Zero \in Cell
    BY Sizes DEF Zero, Cell
  <1> HIDE DEF n
  <1>6. /\ a \in Flit(Ids) /\ a.start /\ ~ a.last
        /\ \A k \in 1 .. n : D(k) \in Flit(Ids) /\ ~ D(k).start /\ (D(k).last <=> k = n)
    <2>1. a \in Flit(Ids) /\ a.start /\ ~ a.last
      <3>1. n # 0
        BY <1>4
      <3> QED
        BY <3>1, <1>3, <1>4, StartFlitType
    <2>2. ASSUME NEW k \in 1 .. n
          PROVE  D(k) \in Flit(Ids) /\ ~ D(k).start /\ (D(k).last <=> k = n)
      <3> DEFINE l == k = n
                 d == [id |-> id, pos |-> k - 1, last |-> l, cell |-> Zero]
      <3>1. k - 1 \in Int /\ l \in BOOLEAN
        OBVIOUS
      <3>2. D(k) = DataFlit(d)
        OBVIOUS
      <3> HIDE DEF l, D
      <3>3. d \in OutType(Ids) /\ d.last = l
        BY <3>1, <1>3, <1>5 DEF OutType
      <3> HIDE DEF d
      <3>4. D(k) \in Flit(Ids) /\ ~ D(k).start /\ D(k).last = l
        BY <3>2, <3>3, DataFlitType
      <3> QED
        BY <3>4, Zenon DEF l
    <2> QED
      BY <2>1, <2>2
  <1> HIDE DEF a, D
  <1>7. <<a>> \in Seq(Flit(Ids)) /\ Whole(<<a>>, FALSE, ~ a.last)
    BY <1>6, OneFlit
  <1>8. m \in Seq(Flit(Ids)) /\ Len(m) = n /\ \A k \in 1 .. n : m[k] = D(k)
    BY <1>4, <1>6
  <1> HIDE DEF m
  <1>9. Whole(m, ~ a.last, FALSE)
    <2>1. \A i \in 1 .. n : m[i].start <=> (IF i = 1 THEN ~ ~ a.last ELSE m[i - 1].last)
      <3>1. TAKE i \in 1 .. n
      <3>2. ~ m[i].start
        BY <1>6, <1>8
      <3>3. i # 1 => i - 1 \in 1 .. n /\ i - 1 # n
        BY <1>4
      <3>4. i # 1 => ~ m[i - 1].last
        BY <3>3, <1>6, <1>8
      <3> QED
        BY <3>2, <3>4, <1>6
    <2>2. m[n].last
      <3>1. n \in 1 .. n
        BY <1>4
      <3>2. m[n] = D(n) /\ (D(n).last <=> n = n)
        BY <3>1, <1>6, <1>8, Zenon
      <3> QED
        BY <3>2, Zenon
    <2> QED
      BY <2>1, <2>2, <1>4, <1>8 DEF Whole
  <1>10. Whole(<<a>> \o m, FALSE, FALSE)
    BY <1>7, <1>8, <1>9, WholeConcat
  <1> DEFINE s == <<a>> \o m
  <1>11. s \in Seq(Flit(Ids)) /\ Whole(s, FALSE, FALSE) /\ Output("TLC", s)
    <2>1. s \in Seq(Flit(Ids))
      BY <1>7, <1>8
    <2> QED
      BY <2>1, <1>2, <1>10, Zenon DEF m
  <1> HIDE DEF s
  <1>12. OutOK'
    <2>1. OutOK /\ sending' \in BOOLEAN /\ "TLC" \in {"READ", "WRITE", "TLC"}
          /\ sending' = sending /\ UNCHANGED <<req, forwarding, current>>
      BY <1>1 DEF Types, OutOK
    <2>2. Whole(s, "TLC" = "READ" /\ sending, FALSE)
      BY <1>11 DEF Whole
    <2> QED
      BY <2>1, <2>2, <1>11, OutputTypes
  <1>13. WaitOK'
    BY <1>1, <1>2, <1>3, Zenon DEF Types, WaitOK, ReadJob
  <1>14. HistOK' /\ UOK' /\ PrepOK' /\ JobOK' /\ BufOK' /\ InOK'
    BY <1>1, FrameHist, FrameU, FramePrep, FrameJob, FrameBuf, FrameIn, Zenon DEF Types
  <1>15. DoneOK' /\ BackOK' /\ RdOK' /\ WrOK' /\ AxiOK'
    BY <1>1, FrameDone, FrameBack, FrameRd, FrameWr, FrameAxi, Zenon DEF Types
  <1> QED
    BY <1>12, <1>13, <1>14, <1>15 DEF Types

\* forward_read, forward_write and forward_tlc
LEMMA TypesForward ==
  ASSUME Types, NEW k \in {"READ", "WRITE", "TLC"}, Forward(k)
  PROVE  Types'
  <1> DEFINE f == Head(out[k])
             id == IF f.start THEN f.id ELSE current
  <1>1. /\ UNCHANGED <<todo, req, before, u, waiting, sending, tlc, prep, beats, pos,
                       buf, mask, data_in, mask_in, responses, done, writeback, data_out, rd, wr,
                       write_order, aw, queue, mem>>
        /\ Ids \subseteq Ids' /\ Ids' = Ids
    BY DEF Forward, hist, handlers, axi, Ids
  <1>2. /\ out[k] # <<>> /\ forwarding \in {"IDLE", k}
        /\ forwarding' = (IF f.last THEN "IDLE" ELSE k) /\ current' = id
        /\ answer' = (IF f.start THEN answer ELSE [answer EXCEPT ![id] = Append(@, f.cell)])
        /\ answered' = (IF f.last THEN answered \cup {id} ELSE answered)
        /\ out' = [out EXCEPT ![k] = Tail(@)]
    BY DEF Forward, MayForward, Take
  <1>3. /\ out \in [{"READ", "WRITE", "TLC"} -> Seq(Flit(Ids))]
        /\ forwarding \in {"IDLE", "READ", "WRITE", "TLC"} /\ (forwarding # "IDLE" => current # 0)
        /\ \A j \in {"READ", "WRITE", "TLC"} : Whole(out[j], forwarding = j, j = "READ" /\ sending)
    BY DEF Types, OutOK
  <1>4. f \in Flit(Ids) /\ out' \in [{"READ", "WRITE", "TLC"} -> Seq(Flit(Ids))]
    BY <1>2, <1>3
  <1>5. /\ Whole(Tail(out[k]), ~ f.last, k = "READ" /\ sending)
        /\ f.start <=> ~ (forwarding = k)
    <2>1. out[k] \in Seq(Flit(Ids)) /\ Whole(out[k], forwarding = k, k = "READ" /\ sending)
      BY <1>3
    <2> QED
      BY <2>1, <1>2, WholeTail
  <1> HIDE DEF f
  <1>6. f.id \in Ids /\ f.cell \in Cell /\ f.last \in BOOLEAN /\ f.start \in BOOLEAN
    BY <1>4 DEF Flit
  <1>7. id \in Ids /\ id # 0
    <2>1. CASE f.start
      BY <2>1, <1>6 DEF Ids
    <2>2. CASE ~ f.start
      BY <2>2, <1>3, <1>5 DEF Types, HistOK, Ids
    <2> QED
      BY <2>1, <2>2
  <1> HIDE DEF id
  <1>8. HistOK'
    <2>1. answer \in Seq(Seq(Cell)) /\ Len(answer) = Len(req) /\ answered \subseteq Ids /\ id \in DOMAIN answer
      BY <1>7 DEF Types, HistOK, Ids
    <2>2. answer' \in Seq(Seq(Cell)) /\ Len(answer') = Len(req)
      <3>1. Append(answer[id], f.cell) \in Seq(Cell)
        BY <2>1, <1>6
      <3> DEFINE c == Append(answer[id], f.cell)
      <3>2. answer' = answer \/ answer' = [answer EXCEPT ![id] = c]
        BY <1>2
      <3> HIDE DEF c
      <3>3. c \in Seq(Cell)
        BY <3>1 DEF c
      <3>4. [answer EXCEPT ![id] = c] \in Seq(Seq(Cell)) /\ Len([answer EXCEPT ![id] = c]) = Len(answer)
        <4> DEFINE S == Seq(Cell)
        <4> HIDE DEF S
        <4>1. answer \in Seq(S) /\ c \in S /\ id \in DOMAIN answer
          BY <2>1, <3>3 DEF S
        <4>2. [answer EXCEPT ![id] = c] \in Seq(S) /\ Len([answer EXCEPT ![id] = c]) = Len(answer)
          BY <4>1
        <4> QED
          BY <4>2 DEF S
      <3> QED
        BY <2>1, <3>2, <3>4
    <2>3. answered' \subseteq Ids /\ current' \in 0 .. Len(req)
      BY <2>1, <1>2, <1>7 DEF Types, HistOK, Ids
    <2> QED
      BY <2>2, <2>3, <1>1, Zenon DEF Types, HistOK, Ids
  <1>9. OutOK'
    <2>1. ASSUME NEW j \in {"READ", "WRITE", "TLC"}
          PROVE  Whole(out'[j], forwarding' = j, j = "READ" /\ sending)
      <3>1. CASE j = k
        <4>1. out'[j] = Tail(out[k]) /\ ((forwarding' = j) <=> ~ f.last)
          BY <3>1, <1>2, <1>3
        <4>2. Whole(Tail(out[k]), forwarding' = j, k = "READ" /\ sending)
          BY <4>1, <1>5 DEF Whole
        <4> QED
          BY <3>1, <4>1, <4>2
      <3>2. CASE j # k
        <4>1. out'[j] = out[j] /\ forwarding' # j /\ forwarding # j
          BY <3>2, <1>2, <1>3
        <4>2. Whole(out[j], forwarding' = j, j = "READ" /\ sending)
          BY <4>1, <1>3 DEF Whole
        <4> QED
          BY <4>1, <4>2
      <3> QED
        BY <3>1, <3>2
    <2>2. forwarding' \in {"IDLE", "READ", "WRITE", "TLC"} /\ current' # 0
      BY <1>2, <1>7
    <2> QED
      BY <2>1, <2>2, <1>1, <1>4, Zenon DEF Types, OutOK, Flit
  <1>10. UOK' /\ WaitOK' /\ PrepOK' /\ JobOK' /\ BufOK' /\ InOK'
    BY <1>1, FrameU, FrameWait, FramePrep, FrameJob, FrameBuf, FrameIn, Zenon DEF Types
  <1>11. DoneOK' /\ BackOK' /\ RdOK' /\ WrOK' /\ AxiOK'
    BY <1>1, FrameDone, FrameBack, FrameRd, FrameWr, FrameAxi, Zenon DEF Types
  <1> QED
    BY <1>8, <1>9, <1>10, <1>11 DEF Types

\* A step that changes nothing.
LEMMA TypesStutter ==
  ASSUME Types, UNCHANGED vars
  PROVE  Types'
  <1>1. /\ UNCHANGED <<todo, req, before, u, waiting, sending, out, forwarding, tlc, prep, beats, pos,
                       buf, mask, data_in, mask_in, responses, done, writeback, data_out, rd, wr,
                       write_order, aw, queue, mem, answer, current, answered>>
        /\ Ids \subseteq Ids'
    BY DEF vars, hist, tluh, handlers, axi, requester, Ids
  <1>2. HistOK' /\ UOK' /\ WaitOK' /\ OutOK' /\ PrepOK' /\ JobOK' /\ BufOK' /\ InOK'
    BY <1>1, FrameHist, FrameU, FrameWait, FrameOut, FramePrep, FrameJob, FrameBuf, FrameIn,
       Zenon DEF Types
  <1>3. DoneOK' /\ BackOK' /\ RdOK' /\ WrOK' /\ AxiOK'
    BY <1>1, FrameDone, FrameBack, FrameRd, FrameWr, FrameAxi, Zenon DEF Types
  <1> QED
    BY <1>2, <1>3 DEF Types

\* Every step keeps the types.
LEMMA TypesNext ==
  ASSUME Types, [Next]_vars
  PROVE  Types'
  <1>1. CASE StartRead \/ StartWrite \/ StartRMW \/ StartHint \/ ForwardToTLC \/ ForwardData
    BY <1>1, TypesStartRead, TypesStartWrite, TypesStartRMW, TypesStartHint, TypesForwardToTLC,
       TypesForwardData, Zenon
  <1>2. CASE \E h \in Handler : PrepareRequest(h)
    BY <1>2, TypesPrepareRequest, Zenon
  <1>3. CASE ReadRetrieveBeat \/ ReadDropDenied
    BY <1>3, TypesReadRetrieveBeat, TypesReadDropDenied, Zenon
  <1>4. CASE WritePrepareBeat \/ WriteDropDenied \/ WriteSetDone \/ WriteSetDoneDropped
    BY <1>4, TypesWritePrepareBeat, TypesWriteDropDenied, TypesWriteSetDone,
       TypesWriteSetDoneDropped, Zenon
  <1>5. CASE RMWRetrieveBeat \/ RMWWritebackData \/ RMWDropDenied \/ RMWDropResponse
    BY <1>5, TypesRMWRetrieveBeat, TypesRMWWritebackData, TypesRMWDropDenied,
       TypesRMWDropResponse, Zenon
  <1>6. CASE \E p \in WritePort : FullfillWrite(p) \/ MemWrite(p)
    BY <1>6, TypesFullfillWrite, TypesMemWrite, Zenon
  <1>7. CASE ForwardWriteData
    BY <1>7, TypesForwardWriteData, Zenon
  <1>8. CASE \E p \in ReadPort : MemRead(p)
    BY <1>8, TypesMemRead, Zenon
  <1>9. CASE EnqueueResponseRd \/ EnqueueResponseWr \/ EnqueueResponseHint \/ TLCRespond
    BY <1>9, TypesEnqueueResponseRd, TypesEnqueueResponseWr, TypesEnqueueResponseHint,
       TypesTLCRespond, Zenon
  <1>10. CASE \E k \in {"READ", "WRITE", "TLC"} : Forward(k)
    BY <1>10, TypesForward, Zenon
  <1>11. CASE UNCHANGED vars
    BY <1>11, TypesStutter, Zenon
  <1> QED
    BY <1>1, <1>2, <1>3, <1>4, <1>5, <1>6, <1>7, <1>8, <1>9, <1>10, <1>11, Zenon DEF Next

\* The types are an invariant.
LEMMA AlwaysTypes == Spec => []Types
  <1>1. Init => Types
    BY TypesInit
  <1>2. Types /\ [Next]_vars => Types'
    BY TypesNext
  <1> QED
    BY <1>1, <1>2, PTL DEF Spec

\* What memory, buffers and answers hold are cells, requests that are answered
\* were accepted, and the counters of the burst handlers stay in their range.
THEOREM TypeCorrect == Spec => []TypeOK
  <1>1. Types => TypeOK
    <2> SUFFICES ASSUME Types PROVE TypeOK
      OBVIOUS
    <2>1. mem \in [0 .. Words - 1 -> Cell]
      BY DEF Types, AxiOK
    <2>2. answered \subseteq DOMAIN req /\ \A id \in DOMAIN answer : answer[id] \in Seq(Cell)
      BY DEF Types, HistOK, Ids
    <2>3. \A h \in Handler : buf[h] \in [Slot -> Cell]
      BY DEF Types, BufOK, Beat
    <2>4. \A h \in Handler : pos[h] \in [flit : 0 .. Words, slot : Slot, last : 0 .. MaxBeats - 1]
      BY DEF Types, JobOK, PosType
    <2> QED
      BY <2>1, <2>2, <2>3, <2>4 DEF TypeOK
  <1> QED
    BY <1>1, AlwaysTypes, PTL

-----------------------------------------------------------------------------
(* Bursts: definitions *)

\* No atomic is misaligned.  The RMW handler asks for the bursts of a denied
\* request, too, but takes no beats for them.
AtomicsAligned == \A id \in DOMAIN req : req[id].op \in RMWOp => ~ Denied(req[id])

Page == MaxBeats * FlitsPerBeat
Els(s) == {s[i] : i \in DOMAIN s}

\* Not more than a page, or from the beginning of one.
Askable(b) == b.addr % Page = 0 \/ (b.beats <= MaxBeats /\ SamePage(b))

\* No burst crosses a page, what is left of a request begins with one.
PagesOK ==
    /\ \A h \in Handler :
          /\ \A r \in Els(prep[h].requests) : Askable(r)
          /\ prep[h].left # 0 => prep[h].addr % Page = 0
    /\ \A p \in ReadPort : \A b \in Els(rd[p].addr) : SamePage(b)
    /\ \A p \in WritePort : \A b \in Els(wr[p].addr) : SamePage(b)
    /\ \A b \in Els(aw) : SamePage(b)

\* The requests R that write through a port, and the locations of their beats.
Role(p) == IF p = "write" THEN PutOp ELSE RMWOp
Writer(R, p, id) == id \in DOMAIN R /\ R[id].op \in Role(p) /\ ~ Denied(R[id])
Begin(q) == BeatAddr(q.addr)
End(q) == BeatAddr(q.addr) + Beats(q) * FlitsPerBeat

\* A burst of the request ends before address e.
EndsBurst(q, e) == e = End(q) \/ (e - Begin(q)) % Page = 0

\* A job of a burst handler is a request.
JobIs(R, h, j) ==
    LET q == R[j.id]
    IN  /\ j.id \in DOMAIN R /\ q.op \in Role(h) /\ j.flits = Flits(q)
        /\ j.slot = FirstSlot(q.addr) /\ (j.denied <=> Denied(q))

\* Counters at tell where in its burst and beat the next flit of request q lies.
AtFlit(q, at) ==
    LET n == q.addr + Flits(q) - at.flit
    IN  /\ at.flit < Flits(q) /\ at.slot = FirstSlot(n - 1)
        /\ (BeatAddr(n) - at.last * FlitsPerBeat - Begin(q)) % Page = 0

\* A burst handler works on its jobs in the order of the requests.
JobsOK(h) ==
    /\ \A j \in Els(beats[h]) : JobIs(req, h, j)
    /\ \A i, j \in DOMAIN beats[h] : i < j => beats[h][i].id < beats[h][j].id
    /\ pos[h].flit # 0 =>
          /\ beats[h] # <<>> /\ pos[h].flit < Job(h).flits
          /\ IF Job(h).denied THEN pos[h].last # MaxBeats - 1 ELSE AtFlit(req[Job(h).id], pos[h])
    /\ pos[h].flit = 0 => pos[h].last # MaxBeats - 1

\* The locations that a beat, a burst or a request stands for.
SpanType == [on : BOOLEAN, id : Nat, lo : Int, hi : Int]
Before(x, y) == x.on /\ y.on => (x.id < y.id \/ (x.id = y.id /\ x.hi <= y.lo))
Covers(x, id, a) == x.on /\ x.id = id /\ x.lo <= a /\ a < x.hi
Sorted(s) == \A i, j \in DOMAIN s : i < j => Before(s[i], s[j])
AllBefore(A, B) == \A x \in A, y \in B : Before(x, y)
Mapped(s, f) == [i \in DOMAIN s |-> f[s[i]]]

OfData == [d \in DataType(Nat) |->
              [on |-> TRUE, id |-> d.id, lo |-> d.addr, hi |-> d.addr + FlitsPerBeat]]
OfBack == [w \in BackType(Nat) |->
              [on |-> w.beat, id |-> w.id, lo |-> BeatAddr(w.addr),
               hi |-> BeatAddr(w.addr) + FlitsPerBeat]]
OfBurst == [b \in Burst(Nat) |->
               [on |-> TRUE, id |-> b.id, lo |-> b.addr, hi |-> b.addr + b.beats * FlitsPerBeat]]
OfWrite(p) == [b \in AwType(Nat) |->
                  [on |-> b.port = p, id |-> b.id, lo |-> b.addr,
                   hi |-> b.addr + b.beats * FlitsPerBeat]]
JobSpans(R, jobs, left) ==
    [i \in DOMAIN jobs |->
        LET j == jobs[i]
            q == R[j.id]
        IN  [on |-> ~ j.denied, id |-> j.id,
             lo |-> IF i = 1 /\ left # 0 THEN BeatAddr(q.addr + j.flits - left) ELSE Begin(q),
             hi |-> End(q)]]
AskSpans(p) ==
    [i \in DOMAIN p.requests |->
        LET r == p.requests[i]
        IN  [on |-> TRUE, id |-> r.id,
             lo |-> IF i = 1 /\ p.left # 0 THEN p.addr ELSE r.addr,
             hi |-> r.addr + r.beats * FlitsPerBeat]]

\* Spans in three places, one after the other.
Stream(X, Y, Z) ==
    /\ Sorted(X) /\ Sorted(Y) /\ Sorted(Z)
    /\ AllBefore(Els(X), Els(Y)) /\ AllBefore(Els(X), Els(Z)) /\ AllBefore(Els(Y), Els(Z))
Pending(X, Y, Z, id, a) == \E x \in Els(X) \cup Els(Y) \cup Els(Z) : Covers(x, id, a)

\* What the RMW handler has not written back.
Back(p) == IF p = "rmw" THEN writeback.fifo ELSE <<>>

\* Beats and bursts of a port on their way to memory.
Data(p) == Mapped(wr[p].data, OfData)
Backs(p) == Mapped(Back(p), OfBack)
Jobs(p) == JobSpans(req, beats[p], pos[p].flit)
Issued(p) == Mapped(aw, OfWrite(p))
Asked(p) == Mapped(wr[p].addr, OfBurst)
Asks(p) == AskSpans(prep[p])

\* Beats are marked where a burst ends.
DataIs(R, p, d) ==
    /\ Writer(R, p, d.id) /\ d.addr \in Nat
    /\ d.last <=> EndsBurst(R[d.id], d.addr + FlitsPerBeat)
BackIs(R, p, w) ==
    /\ Writer(R, p, w.id) /\ w.addr \in Nat
    /\ w.beat => (w.burst <=> EndsBurst(R[w.id], BeatAddr(w.addr) + FlitsPerBeat))
MarksOK(p) ==
    /\ \A d \in Els(wr[p].data) : DataIs(req, p, d)
    /\ \A w \in Els(Back(p)) : BackIs(req, p, w)

\* Bursts end where a burst of the request ends, and not before.
BurstIs(R, p, b) ==
    LET hi == b.addr + b.beats * FlitsPerBeat
    IN  /\ Writer(R, p, b.id) /\ EndsBurst(R[b.id], hi)
        /\ \A e \in Int : b.addr < e /\ e < hi => ~ EndsBurst(R[b.id], e)
AsksOK(p) ==
    /\ \A b \in Els(aw) : b.port = p => BurstIs(req, p, b)
    /\ \A b \in Els(wr[p].addr) : BurstIs(req, p, b)
    /\ \A r \in Els(prep[p].requests) :
          Writer(req, p, r.id) /\ r.addr = Begin(req[r.id]) /\ r.beats = Beats(req[r.id])
    /\ prep[p].left # 0 =>
          LET q == req[Head(prep[p].requests).id]
          IN  /\ prep[p].addr + prep[p].left * FlitsPerBeat = End(q)
              /\ (prep[p].addr - Begin(q)) % Page = 0

\* The beats and the bursts of a port are in the order of their locations, and
\* the locations whose beat and whose burst has not reached memory are the same.
FlowOK(p) ==
    /\ Stream(Data(p), Backs(p), Jobs(p))
    /\ Stream(Issued(p), Asked(p), Asks(p))
    /\ \A id \in Nat, a \in Nat :
          Pending(Data(p), Backs(p), Jobs(p), id, a) <=> Pending(Issued(p), Asked(p), Asks(p), id, a)

\* The merger remembers the port of every burst.
OrderOK ==
    /\ Len(write_order) = Len(aw)
    /\ \A i \in DOMAIN aw : aw[i].port = write_order[i]

BurstsInv ==
    /\ PagesOK /\ OrderOK
    /\ \A p \in WritePort : JobsOK(p) /\ MarksOK(p) /\ AsksOK(p) /\ FlowOK(p)

AlignedBursts == AtomicsAligned => BurstsInv

-----------------------------------------------------------------------------
(* Sequences of spans *)

\* The elements of a sequence that gets longer.
LEMMA ElsAppend ==
  ASSUME NEW T, NEW s \in Seq(T), NEW x \in T
  PROVE  Els(Append(s, x)) = Els(s) \cup {x} /\ Append(s, x) \in Seq(T)
  <1> DEFINE t == Append(s, x)
  <1>1. /\ t \in Seq(T) /\ DOMAIN t = 1 .. Len(s) + 1 /\ DOMAIN s = 1 .. Len(s) /\ Len(s) \in Nat
        /\ \A i \in 1 .. Len(s) : t[i] = s[i]
        /\ t[Len(s) + 1] = x
    OBVIOUS
  <1> HIDE DEF t
  <1>2. ASSUME NEW y \in Els(t) PROVE y \in Els(s) \cup {x}
    <2>1. PICK i \in DOMAIN t : y = t[i]
      BY DEF Els
    <2>2. CASE i = Len(s) + 1
      BY <1>1, <2>1, <2>2
    <2>3. CASE i # Len(s) + 1
      <3>1. i \in DOMAIN s /\ y = s[i]
        BY <1>1, <2>1, <2>3
      <3> QED
        BY <3>1 DEF Els
    <2> QED
      BY <2>2, <2>3
  <1>3. ASSUME NEW y \in Els(s) PROVE y \in Els(t)
    <2>1. PICK i \in DOMAIN s : y = s[i]
      BY DEF Els
    <2>2. i \in DOMAIN t /\ y = t[i]
      BY <1>1, <2>1
    <2> QED
      BY <2>2 DEF Els
  <1>4. x \in Els(t)
    <2>1. Len(s) + 1 \in DOMAIN t
      BY <1>1
    <2> QED
      BY <2>1, <1>1 DEF Els
  <1> QED
    BY <1>1, <1>2, <1>3, <1>4 DEF t

\* The elements of a sequence with one more.
LEMMA ElsMore ==
  ASSUME NEW B, NEW s \in Seq(B), NEW x, NEW t, t = Append(s, x)
  PROVE  Els(t) = Els(s) \cup {x}
  <1> DEFINE T == {x} \cup B
  <1>1. B \subseteq T /\ x \in T
    OBVIOUS
  <1> HIDE DEF T
  <1>2. s \in Seq(T)
    BY <1>1, SeqMono
  <1> QED
    BY <1>1, <1>2, ElsAppend

\* The elements of a sequence and of what follows its head.
LEMMA ElsTail ==
  ASSUME NEW T, NEW s \in Seq(T), s # <<>>
  PROVE  /\ Els(s) = {Head(s)} \cup Els(Tail(s)) /\ Head(s) \in T /\ Tail(s) \in Seq(T)
         /\ Head(s) = s[1] /\ 1 \in DOMAIN s
  <1> DEFINE t == Tail(s)
  <1>1. /\ t \in Seq(T) /\ DOMAIN t = 1 .. Len(s) - 1 /\ DOMAIN s = 1 .. Len(s) /\ Len(s) \in Nat
        /\ Len(s) >= 1 /\ \A i \in 1 .. Len(s) - 1 : t[i] = s[i + 1]
        /\ Head(s) = s[1] /\ s[1] \in T
    OBVIOUS
  <1> HIDE DEF t
  <1>2. ASSUME NEW y \in Els(s) PROVE y \in {Head(s)} \cup Els(t)
    <2>1. PICK i \in DOMAIN s : y = s[i]
      BY DEF Els
    <2>2. CASE i = 1
      BY <1>1, <2>1, <2>2
    <2>3. CASE i # 1
      <3>1. i - 1 \in DOMAIN t /\ y = t[i - 1]
        BY <1>1, <2>1, <2>3
      <3> QED
        BY <3>1 DEF Els
    <2> QED
      BY <2>2, <2>3
  <1>3. ASSUME NEW y \in Els(t) PROVE y \in Els(s)
    <2>1. PICK i \in DOMAIN t : y = t[i]
      BY DEF Els
    <2>2. i + 1 \in DOMAIN s /\ y = s[i + 1]
      BY <1>1, <2>1
    <2> QED
      BY <2>2 DEF Els
  <1>4. Head(s) \in Els(s) /\ 1 \in DOMAIN s
    BY <1>1 DEF Els
  <1> QED
    BY <1>1, <1>2, <1>3, <1>4 DEF t

\* The elements have the type of the sequence.
LEMMA ElsType ==
  ASSUME NEW T, NEW s \in Seq(T)
  PROVE  Els(s) \subseteq T /\ Els(<<>>) = {}
  BY DEF Els

\* Functions are applied to a sequence that changes.
LEMMA MapAppend ==
  ASSUME NEW T, NEW U, NEW f \in [T -> U], NEW s \in Seq(T), NEW x \in T, NEW t, t = Append(s, x)
  PROVE  Mapped(t, f) = Append(Mapped(s, f), f[x])
  <1>1. /\ DOMAIN Append(s, x) = 1 .. Len(s) + 1 /\ DOMAIN s = 1 .. Len(s) /\ Len(s) \in Nat
        /\ \A i \in 1 .. Len(s) : Append(s, x)[i] = s[i] /\ s[i] \in T
        /\ Append(s, x)[Len(s) + 1] = x
    OBVIOUS
  <1>2. Mapped(s, f) \in Seq(U) /\ Len(Mapped(s, f)) = Len(s) /\ \A i \in 1 .. Len(s) : Mapped(s, f)[i] = f[s[i]]
    BY <1>1 DEF Mapped
  <1> DEFINE m == Mapped(s, f)
             a == Append(s, x)
             b == Mapped(a, f)
             c == Append(m, f[x])
  <1>3. /\ DOMAIN b = 1 .. Len(s) + 1 /\ b = [i \in 1 .. Len(s) + 1 |-> f[a[i]]]
    BY <1>1 DEF Mapped
  <1>4. c \in Seq(U) /\ Len(c) = Len(s) + 1 /\ DOMAIN c = 1 .. Len(s) + 1
        /\ (\A i \in 1 .. Len(s) : c[i] = m[i]) /\ c[Len(s) + 1] = f[x]
    BY <1>2
  <1>5. \A i \in 1 .. Len(s) + 1 : c[i] = f[a[i]]
    <2> HIDE DEF m, a, b, c
    <2>1. TAKE i \in 1 .. Len(s) + 1
    <2>2. CASE i = Len(s) + 1
      BY <2>2, <1>1, <1>4 DEF a
    <2>3. CASE i # Len(s) + 1
      <3>1. i \in 1 .. Len(s)
        BY <2>3, <1>1
      <3> QED
        BY <3>1, <1>1, <1>2, <1>4 DEF a, m
    <2> QED
      BY <2>2, <2>3
  <1> HIDE DEF a, c, m
  <1>6. b = c
    <2>1. c = [i \in 1 .. Len(s) + 1 |-> c[i]]
      BY <1>4
    <2>2. b = [i \in 1 .. Len(s) + 1 |-> c[i]]
      BY <1>3, <1>5
    <2> QED
      BY <2>1, <2>2
  <1> QED
    BY <1>2, <1>6 DEF a, c, m

\* The tail of a sequence is a function.
LEMMA TailIs ==
  ASSUME NEW T, NEW s \in Seq(T), s # <<>>
  PROVE  Tail(s) = [i \in 1 .. Len(s) - 1 |-> s[i + 1]]
  <1> DEFINE t == Tail(s)
             n == Len(s) - 1
  <1>1. t \in Seq(T) /\ Len(t) = n /\ n \in Nat /\ \A i \in 1 .. n : t[i] = s[i + 1]
    OBVIOUS
  <1> HIDE DEF t, n
  <1>2. t = [i \in 1 .. n |-> t[i]]
    BY <1>1
  <1>3. t = [i \in 1 .. n |-> s[i + 1]]
    BY <1>1, <1>2
  <1> QED
    BY <1>3 DEF t, n

\* The head of the sequence leaves.
LEMMA MapTail ==
  ASSUME NEW T, NEW U, NEW f \in [T -> U], NEW s \in Seq(T), s # <<>>
  PROVE  /\ Mapped(s, f) \in Seq(U) /\ Mapped(s, f) # <<>> /\ Head(Mapped(s, f)) = f[Head(s)]
         /\ Mapped(Tail(s), f) = Tail(Mapped(s, f))
  <1>1. /\ DOMAIN s = 1 .. Len(s) /\ Len(s) \in Nat /\ Len(s) >= 1 /\ Head(s) = s[1]
        /\ \A i \in 1 .. Len(s) : s[i] \in T
        /\ DOMAIN Tail(s) = 1 .. Len(s) - 1 /\ \A i \in 1 .. Len(s) - 1 : Tail(s)[i] = s[i + 1]
    OBVIOUS
  <1> DEFINE m == Mapped(s, f)
             n == Len(s) - 1
             t == Tail(s)
  <1>2. m \in Seq(U) /\ Len(m) = Len(s) /\ \A i \in 1 .. Len(s) : m[i] = f[s[i]]
    BY <1>1 DEF Mapped
  <1>3. m # <<>> /\ Head(m) = f[Head(s)]
    BY <1>1, <1>2
  <1>4. /\ Tail(m) = [i \in 1 .. n |-> m[i + 1]]
    <2> HIDE DEF m
    <2>1. Tail(m) = [i \in 1 .. Len(m) - 1 |-> m[i + 1]]
      BY <1>2, <1>3, TailIs
    <2> QED
      BY <2>1, <1>2
  <1>5. Mapped(t, f) = [i \in 1 .. n |-> f[t[i]]]
    BY <1>1 DEF Mapped
  <1>6. \A i \in 1 .. n : m[i + 1] = f[t[i]]
    <2> HIDE DEF m
    <2>1. TAKE i \in 1 .. n
    <2>2. i + 1 \in 1 .. Len(s)
      BY <1>1
    <2> QED
      BY <2>2, <1>1, <1>2
  <1> HIDE DEF m, t
  <1>7. Mapped(t, f) = Tail(m)
    BY <1>4, <1>5, <1>6
  <1> QED
    BY <1>2, <1>3, <1>7 DEF m, t

\* The head of the sequence of values.
LEMMA MapHead ==
  ASSUME NEW T, NEW U, NEW f \in [T -> U], NEW s \in Seq(T), s # <<>>
  PROVE  Mapped(s, f) # <<>> /\ Head(Mapped(s, f)) = f[Head(s)]
  BY MapTail, ZenonT(40)

\* The values after the head.
LEMMA MapRest ==
  ASSUME NEW T, NEW U, NEW f \in [T -> U], NEW s \in Seq(T), s # <<>>
  PROVE  Mapped(Tail(s), f) = Tail(Mapped(s, f))
  BY MapTail, Zenon

\* The head of the sequence is replaced.
LEMMA ReplaceHead ==
  ASSUME NEW T, NEW s \in Seq(T), s # <<>>, NEW x \in T
  PROVE  /\ [s EXCEPT ![1] = x] \in Seq(T) /\ [s EXCEPT ![1] = x] # <<>>
         /\ Head([s EXCEPT ![1] = x]) = x /\ Tail([s EXCEPT ![1] = x]) = Tail(s)
  <1> DEFINE e == [s EXCEPT ![1] = x]
  <1>1. /\ e \in Seq(T) /\ Len(e) = Len(s) /\ e # <<>> /\ Head(e) = x
        /\ Len(s) \in Nat /\ \A i \in 1 .. Len(s) - 1 : e[i + 1] = s[i + 1]
    OBVIOUS
  <1> HIDE DEF e
  <1>2. Tail(e) = [i \in 1 .. Len(s) - 1 |-> e[i + 1]] /\ Tail(s) = [i \in 1 .. Len(s) - 1 |-> s[i + 1]]
    <2>1. Tail(e) = [i \in 1 .. Len(e) - 1 |-> e[i + 1]] /\ Tail(s) = [i \in 1 .. Len(s) - 1 |-> s[i + 1]]
      BY <1>1, TailIs
    <2> QED
      BY <2>1, <1>1
  <1>3. Tail(e) = Tail(s)
    BY <1>1, <1>2
  <1> QED
    BY <1>1, <1>3 DEF e

\* A sorted sequence gets longer.
LEMMA SortedAppend ==
  ASSUME NEW s \in Seq(SpanType), NEW x \in SpanType, Sorted(s), AllBefore(Els(s), {x})
  PROVE  Sorted(Append(s, x))
  <1> DEFINE t == Append(s, x)
  <1>1. /\ t \in Seq(SpanType) /\ DOMAIN t = 1 .. Len(s) + 1 /\ DOMAIN s = 1 .. Len(s) /\ Len(s) \in Nat
        /\ \A i \in 1 .. Len(s) : t[i] = s[i]
        /\ t[Len(s) + 1] = x
    OBVIOUS
  <1> HIDE DEF t
  <1>2. ASSUME NEW i \in DOMAIN t, NEW j \in DOMAIN t, i < j PROVE Before(t[i], t[j])
    <2>1. i \in DOMAIN s /\ t[i] = s[i]
      BY <1>1, <1>2
    <2>2. CASE j = Len(s) + 1
      <3>1. s[i] \in Els(s)
        BY <2>1 DEF Els
      <3> QED
        BY <3>1, <2>1, <2>2, <1>1 DEF AllBefore
    <2>3. CASE j # Len(s) + 1
      <3>1. j \in DOMAIN s /\ t[j] = s[j]
        BY <1>1, <2>3
      <3> QED
        BY <3>1, <2>1, <1>2 DEF Sorted
    <2> QED
      BY <2>2, <2>3
  <1> QED
    BY <1>2 DEF Sorted, t

\* A sorted sequence without its head.
LEMMA SortedTail ==
  ASSUME NEW s \in Seq(SpanType), s # <<>>
  PROVE  Sorted(s) <=> Sorted(Tail(s)) /\ AllBefore({Head(s)}, Els(Tail(s)))
  <1> DEFINE t == Tail(s)
  <1>1. /\ t \in Seq(SpanType) /\ DOMAIN t = 1 .. Len(s) - 1 /\ DOMAIN s = 1 .. Len(s) /\ Len(s) \in Nat
        /\ Len(s) >= 1 /\ \A i \in 1 .. Len(s) - 1 : t[i] = s[i + 1]
        /\ Head(s) = s[1]
    OBVIOUS
  <1> HIDE DEF t
  <1>2. ASSUME Sorted(s) PROVE Sorted(t) /\ AllBefore({Head(s)}, Els(t))
    <2>1. ASSUME NEW i \in DOMAIN t, NEW j \in DOMAIN t, i < j PROVE Before(t[i], t[j])
      <3>1. i + 1 \in DOMAIN s /\ j + 1 \in DOMAIN s /\ i + 1 < j + 1 /\ t[i] = s[i + 1] /\ t[j] = s[j + 1]
        BY <1>1, <2>1
      <3> QED
        BY <3>1, <1>2 DEF Sorted
    <2>2. ASSUME NEW y \in Els(t) PROVE Before(Head(s), y)
      <3>1. PICK i \in DOMAIN t : y = t[i]
        BY DEF Els
      <3>2. i + 1 \in DOMAIN s /\ 1 \in DOMAIN s /\ 1 < i + 1 /\ y = s[i + 1]
        BY <1>1, <3>1
      <3> QED
        BY <3>2, <1>1, <1>2 DEF Sorted
    <2> QED
      BY <2>1, <2>2 DEF Sorted, AllBefore
  <1>3. ASSUME Sorted(t), AllBefore({Head(s)}, Els(t)) PROVE Sorted(s)
    <2>1. ASSUME NEW i \in DOMAIN s, NEW j \in DOMAIN s, i < j PROVE Before(s[i], s[j])
      <3>1. j - 1 \in DOMAIN t /\ s[j] = t[j - 1]
        BY <1>1, <2>1
      <3>2. CASE i = 1
        <4>1. t[j - 1] \in Els(t)
          BY <3>1 DEF Els
        <4> QED
          BY <4>1, <3>1, <3>2, <1>1, <1>3 DEF AllBefore
      <3>3. CASE i # 1
        <4>1. i - 1 \in DOMAIN t /\ s[i] = t[i - 1] /\ i - 1 < j - 1
          BY <1>1, <2>1, <3>3
        <4> QED
          BY <4>1, <3>1, <1>3 DEF Sorted
      <3> QED
        BY <3>2, <3>3
    <2> QED
      BY <2>1 DEF Sorted
  <1> QED
    BY <1>2, <1>3 DEF t

\* The first span of the last place shrinks or leaves.
Shrinks(Z, cut, Z2) ==
    \/ Z2 = Tail(Z) /\ cut = Head(Z).hi
    \/ /\ Z2 # <<>> /\ Tail(Z2) = Tail(Z)
       /\ Head(Z2).on /\ Head(Z2).id = Head(Z).id /\ Head(Z2).lo = cut /\ Head(Z2).hi = Head(Z).hi
       /\ Head(Z).lo <= cut /\ cut <= Head(Z).hi

\* A span that is not there leaves, or another such span takes its place.
Idles(Z, Z2) == Z2 = Tail(Z) \/ (Z2 # <<>> /\ Tail(Z2) = Tail(Z) /\ ~ Head(Z2).on)

\* What shrinks in front of others stays in front of them.
LEMMA ShrinkFacts ==
  ASSUME NEW Z \in Seq(SpanType), Z # <<>>, NEW Z2 \in Seq(SpanType), NEW cut \in Int,
         Sorted(Z), Head(Z).on, Shrinks(Z, cut, Z2)
  PROVE  /\ Sorted(Z2)
         /\ \A id \in Nat, a \in Int :
               (\E x \in Els(Z2) : Covers(x, id, a))
                  <=> /\ \E x \in Els(Z) : Covers(x, id, a)
                      /\ ~ (id = Head(Z).id /\ Head(Z).lo <= a /\ a < cut)
         /\ \A w \in SpanType : AllBefore({w}, Els(Z)) => AllBefore({w}, Els(Z2))
  <1> DEFINE z == Head(Z)
             T == Els(Tail(Z))
  <1>1. Els(Z) = {z} \cup T /\ z \in SpanType /\ Tail(Z) \in Seq(SpanType) /\ T \subseteq SpanType
    BY ElsTail, ElsType
  <1>2. Sorted(Tail(Z)) /\ AllBefore({z}, T)
    BY SortedTail
  <1>3. z.on /\ z.id \in Nat /\ z.lo \in Int /\ z.hi \in Int
    BY <1>1 DEF SpanType
  <1>4. ASSUME NEW y \in T PROVE y.id \in Nat /\ y.lo \in Int /\ y.hi \in Int /\ Before(z, y)
    BY <1>1, <1>2, <1>4 DEF SpanType, AllBefore
  <1>5. CASE Z2 = Tail(Z) /\ cut = z.hi
    <2>1. Els(Z2) = T
      BY <1>5
    <2>2. ASSUME NEW id \in Nat, NEW a \in Int
          PROVE (\E x \in Els(Z2) : Covers(x, id, a))
                  <=> /\ \E x \in Els(Z) : Covers(x, id, a)
                      /\ ~ (id = z.id /\ z.lo <= a /\ a < cut)
      <3>1. \A y \in T : Covers(y, id, a) => ~ (id = z.id /\ z.lo <= a /\ a < cut)
        BY <1>3, <1>4, <1>5 DEF Covers, Before
      <3>2. Covers(z, id, a) <=> (id = z.id /\ z.lo <= a /\ a < cut)
        BY <1>3, <1>5 DEF Covers
      <3> HIDE DEF z, T
      <3> QED
        BY <3>1, <3>2, <2>1, <1>1, Zenon
    <2>3. ASSUME NEW w \in SpanType, AllBefore({w}, Els(Z)) PROVE AllBefore({w}, Els(Z2))
      BY <2>1, <2>3, <1>1 DEF AllBefore
    <2> QED
      BY <2>2, <2>3, <1>2, <1>5
  <1>6. CASE /\ Z2 # <<>> /\ Tail(Z2) = Tail(Z)
             /\ Head(Z2).on /\ Head(Z2).id = z.id /\ Head(Z2).lo = cut /\ Head(Z2).hi = z.hi
             /\ z.lo <= cut /\ cut <= z.hi
    <2> DEFINE v == Head(Z2)
    <2>1. Els(Z2) = {v} \cup T /\ v \in SpanType
      BY <1>6, ElsTail
    <2>2. v.on /\ v.id = z.id /\ v.lo = cut /\ v.hi = z.hi /\ z.lo <= cut /\ cut <= z.hi
      BY <1>6
    <2>3. AllBefore({v}, T)
      BY <2>2, <1>3, <1>4 DEF AllBefore, Before
    <2>4. Sorted(Z2)
      <3>1. Els(Tail(Z2)) = T /\ Sorted(Tail(Z2))
        BY <1>2, <1>6
      <3> QED
        BY <3>1, <2>3, <1>6, SortedTail
    <2> HIDE DEF v
    <2>5. ASSUME NEW id \in Nat, NEW a \in Int
          PROVE (\E x \in Els(Z2) : Covers(x, id, a))
                  <=> /\ \E x \in Els(Z) : Covers(x, id, a)
                      /\ ~ (id = z.id /\ z.lo <= a /\ a < cut)
      <3>1. \A y \in T : Covers(y, id, a) => ~ (id = z.id /\ z.lo <= a /\ a < cut)
        BY <1>3, <1>4, <2>2 DEF Covers, Before
      <3>2. Covers(v, id, a) <=> Covers(z, id, a) /\ ~ (id = z.id /\ z.lo <= a /\ a < cut)
        BY <1>3, <2>2 DEF Covers
      <3> HIDE DEF z, T
      <3> QED
        BY <3>1, <3>2, <2>1, <1>1, Zenon
    <2>6. ASSUME NEW w \in SpanType, AllBefore({w}, Els(Z)) PROVE AllBefore({w}, Els(Z2))
      <3>1. Before(w, z) /\ \A y \in T : Before(w, y)
        BY <2>6, <1>1 DEF AllBefore
      <3>2. Before(w, v)
        BY <3>1, <1>3, <2>2 DEF Before, SpanType
      <3> QED
        BY <3>1, <3>2, <2>1 DEF AllBefore
    <2> QED
      BY <2>4, <2>5, <2>6
  <1> QED
    BY <1>5, <1>6 DEF Shrinks

\* A part of the last place goes over to the second one.
LEMMA StreamPass ==
  ASSUME NEW X \in Seq(SpanType), NEW Y \in Seq(SpanType), NEW Z \in Seq(SpanType), Z # <<>>,
         NEW Z2 \in Seq(SpanType), NEW y \in SpanType, Stream(X, Y, Z),
         Head(Z).on, y.on, y.id = Head(Z).id, y.lo = Head(Z).lo, Shrinks(Z, y.hi, Z2)
  PROVE  /\ Stream(X, Append(Y, y), Z2)
         /\ \A id \in Nat, a \in Int : Pending(X, Append(Y, y), Z2, id, a) <=> Pending(X, Y, Z, id, a)
  <1> DEFINE z == Head(Z)
             T == Els(Tail(Z))
  <1>1. /\ Sorted(X) /\ Sorted(Y) /\ Sorted(Z)
        /\ AllBefore(Els(X), Els(Y)) /\ AllBefore(Els(X), Els(Z)) /\ AllBefore(Els(Y), Els(Z))
    BY DEF Stream
  <1>2. Els(Append(Y, y)) = Els(Y) \cup {y} /\ Append(Y, y) \in Seq(SpanType)
    BY ElsAppend
  <1>3. /\ Els(Z) = {z} \cup T /\ z \in SpanType /\ T \subseteq SpanType /\ Tail(Z) \in Seq(SpanType)
        /\ Els(X) \subseteq SpanType /\ Els(Y) \subseteq SpanType
    BY ElsTail, ElsType
  <1>4. y.hi \in Int /\ y.lo \in Int /\ y.id \in Nat /\ z.id \in Nat /\ z.lo \in Int /\ z.hi \in Int
    BY <1>3 DEF SpanType
  <1>5. /\ Sorted(Z2)
        /\ \A id \in Nat, a \in Int :
              (\E x \in Els(Z2) : Covers(x, id, a))
                 <=> /\ \E x \in Els(Z) : Covers(x, id, a)
                     /\ ~ (id = z.id /\ z.lo <= a /\ a < y.hi)
        /\ \A w \in SpanType : AllBefore({w}, Els(Z)) => AllBefore({w}, Els(Z2))
    BY <1>1, <1>4, ShrinkFacts
  <1>6. \A w \in SpanType : Before(w, z) => Before(w, y)
    BY <1>4 DEF Before, SpanType
  <1>7. AllBefore(Els(X), {y}) /\ AllBefore(Els(Y), {y})
    BY <1>1, <1>3, <1>6 DEF AllBefore
  <1>8. AllBefore({y}, Els(Z2))
    <2>1. AllBefore({z}, T)
      BY <1>1, SortedTail
    <2>2. ASSUME NEW t \in T PROVE Before(y, t)
      <3>1. Before(z, t) /\ t.id \in Nat /\ t.lo \in Int
        BY <2>1, <1>3 DEF AllBefore, SpanType
      <3>2. y.hi <= z.hi
        BY <1>4 DEF Shrinks
      <3> QED
        BY <3>1, <3>2, <1>4 DEF Before
    <2>3. CASE Z2 = Tail(Z)
      BY <2>2, <2>3 DEF AllBefore
    <2>4. CASE Z2 # <<>> /\ Tail(Z2) = Tail(Z) /\ Head(Z2).id = z.id /\ Head(Z2).lo = y.hi
      <3>1. Els(Z2) = {Head(Z2)} \cup T
        BY <2>4, ElsTail
      <3>2. Before(y, Head(Z2))
        BY <2>4, <1>4 DEF Before
      <3> QED
        BY <3>1, <3>2, <2>2 DEF AllBefore
    <2> QED
      BY <2>3, <2>4 DEF Shrinks
  <1> HIDE DEF z, T
  <1>9. Stream(X, Append(Y, y), Z2)
    <2>1. Sorted(Append(Y, y))
      BY <1>1, <1>7, SortedAppend
    <2>2. AllBefore(Els(X), Els(Append(Y, y)))
      BY <1>1, <1>2, <1>7 DEF AllBefore
    <2>3. AllBefore(Els(X), Els(Z2)) /\ AllBefore(Els(Y), Els(Z2))
      <3>1. \A w \in Els(X) \cup Els(Y) : AllBefore({w}, Els(Z)) => AllBefore({w}, Els(Z2))
        BY <1>3, <1>5
      <3> QED
        BY <3>1, <1>1 DEF AllBefore
    <2>4. AllBefore(Els(Append(Y, y)), Els(Z2))
      BY <2>3, <1>2, <1>8 DEF AllBefore
    <2> QED
      BY <2>1, <2>2, <2>3, <2>4, <1>1, <1>5 DEF Stream
  <1>10. ASSUME NEW id \in Nat, NEW a \in Int
         PROVE  Pending(X, Append(Y, y), Z2, id, a) <=> Pending(X, Y, Z, id, a)
    <2>1. (\E x \in Els(Z2) : Covers(x, id, a))
             <=> (\E x \in Els(Z) : Covers(x, id, a)) /\ ~ (id = z.id /\ z.lo <= a /\ a < y.hi)
      BY <1>5
    <2>2. Covers(y, id, a) <=> (id = z.id /\ z.lo <= a /\ a < y.hi)
      BY <1>4 DEF Covers, z
    <2>3. Covers(y, id, a) => Covers(z, id, a)
      <3>1. y.hi <= z.hi
        BY <1>4 DEF Shrinks, z
      <3> QED
        BY <3>1, <1>4 DEF Covers, z
    <2>4. z \in Els(Z)
      BY <1>3
    <2> QED
      BY <2>1, <2>2, <2>3, <2>4, <1>2, Zenon DEF Pending
  <1> QED
    BY <1>9, <1>10

\* The second place hands its first span over to the first one.
LEMMA StreamMove ==
  ASSUME NEW X \in Seq(SpanType), NEW Y \in Seq(SpanType), NEW Z \in Seq(SpanType), Y # <<>>,
         Stream(X, Y, Z)
  PROVE  /\ Stream(Append(X, Head(Y)), Tail(Y), Z)
         /\ \A id \in Nat, a \in Int : Pending(Append(X, Head(Y)), Tail(Y), Z, id, a) <=> Pending(X, Y, Z, id, a)
  <1> DEFINE y == Head(Y)
             T == Els(Tail(Y))
  <1>1. /\ Sorted(X) /\ Sorted(Y) /\ Sorted(Z)
        /\ AllBefore(Els(X), Els(Y)) /\ AllBefore(Els(X), Els(Z)) /\ AllBefore(Els(Y), Els(Z))
    BY DEF Stream
  <1>2. Els(Y) = {y} \cup T /\ y \in SpanType
    BY ElsTail
  <1>3. Els(Append(X, y)) = Els(X) \cup {y}
    BY <1>2, ElsAppend
  <1>4. Sorted(Tail(Y)) /\ AllBefore({y}, T)
    BY <1>1, SortedTail
  <1>5. AllBefore(Els(X), T) /\ AllBefore(Els(X), {y}) /\ AllBefore(T, Els(Z)) /\ AllBefore({y}, Els(Z))
    BY <1>1, <1>2 DEF AllBefore
  <1> HIDE DEF y
  <1>6. Sorted(Append(X, y))
    BY <1>1, <1>2, <1>5, SortedAppend
  <1>7. AllBefore(Els(Append(X, y)), T) /\ AllBefore(Els(Append(X, y)), Els(Z))
    BY <1>1, <1>3, <1>4, <1>5 DEF AllBefore
  <1>8. Stream(Append(X, y), Tail(Y), Z)
    BY <1>1, <1>4, <1>5, <1>6, <1>7 DEF Stream
  <1>9. Els(Append(X, y)) \cup T \cup Els(Z) = Els(X) \cup Els(Y) \cup Els(Z)
    BY <1>2, <1>3
  <1> QED
    BY <1>8, <1>9, Zenon DEF Pending, y

\* A span that is not there may be put anywhere.
LEMMA StreamOff ==
  ASSUME NEW X \in Seq(SpanType), NEW Y \in Seq(SpanType), NEW Z \in Seq(SpanType),
         NEW x \in SpanType, ~ x.on, Stream(X, Y, Z)
  PROVE  /\ Stream(Append(X, x), Y, Z) /\ Stream(X, Append(Y, x), Z)
         /\ \A id \in Nat, a \in Int :
               /\ Pending(Append(X, x), Y, Z, id, a) <=> Pending(X, Y, Z, id, a)
               /\ Pending(X, Append(Y, x), Z, id, a) <=> Pending(X, Y, Z, id, a)
  <1>1. /\ Sorted(X) /\ Sorted(Y) /\ Sorted(Z)
        /\ AllBefore(Els(X), Els(Y)) /\ AllBefore(Els(X), Els(Z)) /\ AllBefore(Els(Y), Els(Z))
    BY DEF Stream
  <1>2. Els(Append(X, x)) = Els(X) \cup {x} /\ Els(Append(Y, x)) = Els(Y) \cup {x}
    BY ElsAppend
  <1>3. \A y : Before(x, y) /\ Before(y, x)
    BY DEF Before
  <1>4. Sorted(Append(X, x)) /\ Sorted(Append(Y, x))
    <2>1. AllBefore(Els(X), {x}) /\ AllBefore(Els(Y), {x})
      BY <1>3 DEF AllBefore
    <2> QED
      BY <2>1, <1>1, SortedAppend
  <1>5. /\ AllBefore(Els(Append(X, x)), Els(Y)) /\ AllBefore(Els(Append(X, x)), Els(Z))
        /\ AllBefore(Els(X), Els(Append(Y, x))) /\ AllBefore(Els(Append(Y, x)), Els(Z))
    BY <1>1, <1>2, <1>3 DEF AllBefore
  <1>6. \A id, a : ~ Covers(x, id, a)
    BY DEF Covers
  <1>7. Stream(Append(X, x), Y, Z) /\ Stream(X, Append(Y, x), Z)
    BY <1>1, <1>4, <1>5 DEF Stream
  <1>8. ASSUME NEW id \in Nat, NEW a \in Int
        PROVE  Pending(Append(X, x), Y, Z, id, a) <=> Pending(X, Y, Z, id, a)
    BY <1>2, <1>6, ZenonT(40) DEF Pending
  <1>9. ASSUME NEW id \in Nat, NEW a \in Int
        PROVE  Pending(X, Append(Y, x), Z, id, a) <=> Pending(X, Y, Z, id, a)
    <2>1. Els(X) \cup Els(Append(Y, x)) \cup Els(Z) = (Els(X) \cup Els(Y) \cup Els(Z)) \cup {x}
      BY <1>2
    <2> QED
      BY <2>1, <1>6, Zenon DEF Pending
  <1> QED
    BY <1>7, <1>8, <1>9

\* Spans that are not there change at the head of the first or the last place.
LEMMA IdleFacts ==
  ASSUME NEW Z \in Seq(SpanType), Z # <<>>, NEW Z2 \in Seq(SpanType),
         Sorted(Z), ~ Head(Z).on, Idles(Z, Z2)
  PROVE  /\ Sorted(Z2)
         /\ \A id, a : (\E x \in Els(Z2) : Covers(x, id, a)) <=> \E x \in Els(Z) : Covers(x, id, a)
         /\ \A A : AllBefore(A, Els(Z)) <=> AllBefore(A, Els(Z2))
         /\ \A A : AllBefore(Els(Z), A) <=> AllBefore(Els(Z2), A)
  <1> DEFINE z == Head(Z)
             T == Els(Tail(Z))
             v == Head(Z2)
  <1>1. Els(Z) = {z} \cup T /\ Tail(Z) \in Seq(SpanType) /\ Sorted(Tail(Z)) /\ AllBefore({z}, T)
    BY ElsTail, SortedTail
  <1>2. \A y : /\ Before(z, y) /\ Before(y, z)
               /\ \A id, a : ~ Covers(z, id, a)
    BY DEF Before, Covers
  <1>3. CASE Z2 = Tail(Z)
    <2>1. Els(Z2) = T
      BY <1>3
    <2> HIDE DEF z, T
    <2>2. \A id, a : (\E x \in Els(Z2) : Covers(x, id, a)) <=> \E x \in Els(Z) : Covers(x, id, a)
      BY <2>1, <1>1, <1>2, Zenon
    <2>3. /\ \A A : AllBefore(A, Els(Z)) <=> AllBefore(A, Els(Z2))
          /\ \A A : AllBefore(Els(Z), A) <=> AllBefore(Els(Z2), A)
      BY <2>1, <1>1, <1>2 DEF AllBefore
    <2> QED
      BY <2>2, <2>3, <1>1, <1>3
  <1>4. CASE Z2 # <<>> /\ Tail(Z2) = Tail(Z) /\ ~ v.on
    <2>1. Els(Z2) = {v} \cup T
      BY <1>4, ElsTail
    <2>2. \A y : /\ Before(v, y) /\ Before(y, v)
                 /\ \A id, a : ~ Covers(v, id, a)
      BY <1>4 DEF Before, Covers
    <2>3. Sorted(Z2)
      <3>1. Sorted(Tail(Z2)) /\ AllBefore({v}, Els(Tail(Z2)))
        BY <1>1, <1>4, <2>2 DEF AllBefore
      <3> QED
        BY <3>1, <1>4, SortedTail
    <2> HIDE DEF z, T, v
    <2>4. \A id, a : (\E x \in Els(Z2) : Covers(x, id, a)) <=> \E x \in Els(Z) : Covers(x, id, a)
      BY <2>1, <2>2, <1>1, <1>2, Zenon
    <2>5. /\ \A A : AllBefore(A, Els(Z)) <=> AllBefore(A, Els(Z2))
          /\ \A A : AllBefore(Els(Z), A) <=> AllBefore(Els(Z2), A)
      BY <2>1, <2>2, <1>1, <1>2 DEF AllBefore
    <2> QED
      BY <2>3, <2>4, <2>5
  <1> QED
    BY <1>3, <1>4 DEF Idles

\* The same of a stream.
LEMMA StreamIdle ==
  ASSUME NEW X \in Seq(SpanType), NEW Y \in Seq(SpanType), NEW Z \in Seq(SpanType), Stream(X, Y, Z)
  PROVE  /\ \A Z2 \in Seq(SpanType) : Z # <<>> /\ ~ Head(Z).on /\ Idles(Z, Z2) =>
               /\ Stream(X, Y, Z2)
               /\ \A id \in Nat, a \in Int : Pending(X, Y, Z2, id, a) <=> Pending(X, Y, Z, id, a)
         /\ \A X2 \in Seq(SpanType) : X # <<>> /\ ~ Head(X).on /\ Idles(X, X2) =>
               /\ Stream(X2, Y, Z)
               /\ \A id \in Nat, a \in Int : Pending(X2, Y, Z, id, a) <=> Pending(X, Y, Z, id, a)
  <1>1. /\ Sorted(X) /\ Sorted(Y) /\ Sorted(Z)
        /\ AllBefore(Els(X), Els(Y)) /\ AllBefore(Els(X), Els(Z)) /\ AllBefore(Els(Y), Els(Z))
    BY DEF Stream
  <1>2. ASSUME NEW Z2 \in Seq(SpanType), Z # <<>>, ~ Head(Z).on, Idles(Z, Z2)
        PROVE  /\ Stream(X, Y, Z2)
               /\ \A id \in Nat, a \in Int : Pending(X, Y, Z2, id, a) <=> Pending(X, Y, Z, id, a)
    <2>1. /\ Sorted(Z2)
          /\ \A id, a : (\E x \in Els(Z2) : Covers(x, id, a)) <=> \E x \in Els(Z) : Covers(x, id, a)
          /\ \A A : AllBefore(A, Els(Z)) <=> AllBefore(A, Els(Z2))
      BY <1>1, <1>2, IdleFacts
    <2>2. Stream(X, Y, Z2)
      BY <2>1, <1>1, Zenon DEF Stream
    <2> QED
      BY <2>1, <2>2, Zenon DEF Pending
  <1>3. ASSUME NEW X2 \in Seq(SpanType), X # <<>>, ~ Head(X).on, Idles(X, X2)
        PROVE  /\ Stream(X2, Y, Z)
               /\ \A id \in Nat, a \in Int : Pending(X2, Y, Z, id, a) <=> Pending(X, Y, Z, id, a)
    <2>1. /\ Sorted(X2)
          /\ \A id, a : (\E x \in Els(X2) : Covers(x, id, a)) <=> \E x \in Els(X) : Covers(x, id, a)
          /\ \A A : AllBefore(Els(X), A) <=> AllBefore(Els(X2), A)
      BY <1>1, <1>3, IdleFacts
    <2>2. Stream(X2, Y, Z)
      BY <2>1, <1>1, Zenon DEF Stream
    <2> QED
      BY <2>1, <2>2, Zenon DEF Pending
  <1> QED
    BY <1>2, <1>3

\* A span of a later request is put at the end.
LEMMA StreamMore ==
  ASSUME NEW X \in Seq(SpanType), NEW Y \in Seq(SpanType), NEW Z \in Seq(SpanType),
         NEW z \in SpanType, Stream(X, Y, Z),
         \A x \in Els(X) \cup Els(Y) \cup Els(Z) : x.id < z.id
  PROVE  /\ Stream(X, Y, Append(Z, z))
         /\ \A id \in Nat, a \in Int :
               Pending(X, Y, Append(Z, z), id, a) <=> Pending(X, Y, Z, id, a) \/ Covers(z, id, a)
  <1>1. /\ Sorted(X) /\ Sorted(Y) /\ Sorted(Z)
        /\ AllBefore(Els(X), Els(Y)) /\ AllBefore(Els(X), Els(Z)) /\ AllBefore(Els(Y), Els(Z))
    BY DEF Stream
  <1>2. Els(Append(Z, z)) = Els(Z) \cup {z}
    BY ElsAppend
  <1>3. AllBefore(Els(X), {z}) /\ AllBefore(Els(Y), {z}) /\ AllBefore(Els(Z), {z})
    BY DEF AllBefore, Before
  <1>4. Sorted(Append(Z, z))
    BY <1>1, <1>3, SortedAppend
  <1>5. AllBefore(Els(X), Els(Append(Z, z))) /\ AllBefore(Els(Y), Els(Append(Z, z)))
    BY <1>1, <1>2, <1>3 DEF AllBefore
  <1>6. Stream(X, Y, Append(Z, z))
    BY <1>1, <1>4, <1>5 DEF Stream
  <1> QED
    BY <1>2, <1>6, Zenon DEF Pending

\* The first span of a stream comes first.
LEMMA StreamFirst ==
  ASSUME NEW X \in Seq(SpanType), NEW Y \in Seq(SpanType), NEW Z \in Seq(SpanType), X # <<>>,
         Stream(X, Y, Z), Head(X).on, Head(X).lo < Head(X).hi
  PROVE  /\ Pending(X, Y, Z, Head(X).id, Head(X).lo)
         /\ \A id \in Nat, a \in Int : Pending(X, Y, Z, id, a) =>
               id > Head(X).id \/ (id = Head(X).id /\ a >= Head(X).lo)
  <1> DEFINE x == Head(X)
             T == Els(Tail(X))
  <1>1. /\ Sorted(X) /\ AllBefore(Els(X), Els(Y)) /\ AllBefore(Els(X), Els(Z))
    BY DEF Stream
  <1>2. Els(X) = {x} \cup T /\ x \in SpanType /\ AllBefore({x}, T)
    BY <1>1, ElsTail, SortedTail
  <1>3. x.id \in Nat /\ x.lo \in Int /\ x.hi \in Int
    BY <1>2 DEF SpanType
  <1>4. Els(X) \cup Els(Y) \cup Els(Z) \subseteq SpanType
    BY ElsType
  <1>5. \A y \in Els(X) \cup Els(Y) \cup Els(Z) : y = x \/ Before(x, y)
    BY <1>1, <1>2 DEF AllBefore
  <1>6. Pending(X, Y, Z, x.id, x.lo)
    <2>1. Covers(x, x.id, x.lo)
      BY <1>3 DEF Covers
    <2> HIDE DEF x
    <2> QED
      BY <2>1, <1>2, Zenon DEF Pending
  <1>7. ASSUME NEW id \in Nat, NEW a \in Int, Pending(X, Y, Z, id, a)
        PROVE  id > x.id \/ (id = x.id /\ a >= x.lo)
    <2>1. PICK y \in Els(X) \cup Els(Y) \cup Els(Z) : Covers(y, id, a)
      BY <1>7 DEF Pending
    <2>2. y.id = id /\ y.lo <= a /\ a < y.hi /\ y.on /\ y.lo \in Int /\ y.hi \in Int
      BY <2>1, <1>4 DEF Covers, SpanType
    <2>3. CASE y = x
      BY <2>2, <2>3, <1>3
    <2>4. CASE Before(x, y)
      <3>1. x.id < y.id \/ (x.id = y.id /\ x.hi <= y.lo)
        BY <2>2, <2>4 DEF Before
      <3> HIDE DEF x
      <3>2. x.lo < x.hi
        BY DEF x
      <3> QED
        BY <3>1, <3>2, <2>2, <1>3
    <2> QED
      BY <2>3, <2>4, <1>5
  <1> QED
    BY <1>6, <1>7

\* The first span shrinks or leaves.
LEMMA StreamConsume ==
  ASSUME NEW X \in Seq(SpanType), NEW Y \in Seq(SpanType), NEW Z \in Seq(SpanType), X # <<>>,
         Stream(X, Y, Z), Head(X).on, NEW cut \in Int, NEW X2 \in Seq(SpanType), Shrinks(X, cut, X2)
  PROVE  /\ Stream(X2, Y, Z)
         /\ \A id \in Nat, a \in Int :
               Pending(X2, Y, Z, id, a)
                  <=> Pending(X, Y, Z, id, a) /\ ~ (id = Head(X).id /\ Head(X).lo <= a /\ a < cut)
  <1> DEFINE x == Head(X)
             T == Els(Tail(X))
             V == Els(Y) \cup Els(Z)
  <1>1. /\ Sorted(X) /\ Sorted(Y) /\ Sorted(Z)
        /\ AllBefore(Els(X), Els(Y)) /\ AllBefore(Els(X), Els(Z)) /\ AllBefore(Els(Y), Els(Z))
    BY DEF Stream
  <1>2. Els(X) = {x} \cup T /\ x \in SpanType /\ V \subseteq SpanType
    BY ElsTail, ElsType
  <1>3. x.id \in Nat /\ x.lo \in Int /\ x.hi \in Int /\ x.on
    BY <1>2 DEF SpanType
  <1>4. /\ Sorted(X2)
        /\ \A id \in Nat, a \in Int :
               (\E w \in Els(X2) : Covers(w, id, a))
                  <=> /\ \E w \in Els(X) : Covers(w, id, a)
                      /\ ~ (id = x.id /\ x.lo <= a /\ a < cut)
    BY <1>1, ShrinkFacts
  <1>5. \A w \in Els(X2) : w \in T \/ (w.on /\ w.id = x.id /\ w.hi = x.hi)
    <2>1. CASE X2 = Tail(X)
      BY <2>1
    <2>2. CASE X2 # <<>> /\ Tail(X2) = Tail(X) /\ Head(X2).on /\ Head(X2).id = x.id /\ Head(X2).hi = x.hi
      <3>1. Els(X2) = {Head(X2)} \cup T
        BY <2>2, ElsTail
      <3> QED
        BY <3>1, <2>2
    <2> QED
      BY <2>1, <2>2 DEF Shrinks
  <1>6. cut <= x.hi
    BY <1>3 DEF Shrinks
  <1> HIDE DEF x
  <1>7. ASSUME NEW w \in Els(X2), NEW v \in V PROVE Before(w, v)
    <2>1. CASE w \in T
      BY <2>1, <1>1, <1>2 DEF AllBefore
    <2>2. CASE w.on /\ w.id = x.id /\ w.hi = x.hi
      <3>1. Before(x, v)
        BY <1>1, <1>2 DEF AllBefore
      <3> QED
        BY <3>1, <2>2, <1>3 DEF Before
    <2> QED
      BY <2>1, <2>2, <1>5
  <1>8. Stream(X2, Y, Z)
    BY <1>1, <1>4, <1>7 DEF Stream, AllBefore
  <1>9. ASSUME NEW id \in Nat, NEW a \in Int
        PROVE  Pending(X2, Y, Z, id, a)
                  <=> Pending(X, Y, Z, id, a) /\ ~ (id = x.id /\ x.lo <= a /\ a < cut)
    <2>1. \A v \in V : Covers(v, id, a) => ~ (id = x.id /\ x.lo <= a /\ a < cut)
      <3>1. TAKE v \in V
      <3>2. Before(x, v) /\ v \in SpanType
        BY <1>1, <1>2 DEF AllBefore
      <3>3. v.id \in Nat /\ v.lo \in Int
        BY <3>2 DEF SpanType
      <3>4. v.on => (x.id < v.id \/ (x.id = v.id /\ x.hi <= v.lo))
        BY <3>2, <1>3, Zenon DEF Before
      <3>5. Covers(v, id, a) => v.on /\ v.id = id /\ v.lo <= a
        BY Zenon DEF Covers
      <3> QED
        BY <3>3, <3>4, <3>5, <1>3, <1>6
    <2>2. (\E w \in Els(X2) : Covers(w, id, a))
             <=> (\E w \in Els(X) : Covers(w, id, a)) /\ ~ (id = x.id /\ x.lo <= a /\ a < cut)
      BY <1>4
    <2> QED
      BY <2>1, <2>2, Zenon DEF Pending
  <1> QED
    BY <1>8, <1>9 DEF x

-----------------------------------------------------------------------------
(* Pages *)

\* Multiples are what leaves no remainder.
LEMMA Multiple ==
  ASSUME NEW p \in Nat, p >= 1, NEW x \in Int
  PROVE  x % p = 0 <=> \E k \in Int : x = p * k
  <1> DEFINE k == x \div p
             r == x % p
  <1>1. k \in Int /\ r \in 0 .. p - 1 /\ x = p * k + r
    BY DivMod, Zenon
  <1> HIDE DEF k, r
  <1>2. p * k \in Int
    BY <1>1
  <1>3. r = 0 => \E j \in Int : x = p * j
    <2>1. r = 0 => x = p * k
      BY <1>1, <1>2
    <2> QED
      BY <2>1, <1>1
  <1>4. ASSUME NEW j \in Int, x = p * j PROVE r = 0
    <2>1. p * j \in Int /\ 0 \in 0 .. p - 1
      OBVIOUS
    <2>2. p * k + r = p * j + 0
      BY <1>1, <1>4, <2>1
    <2> QED
      BY <2>1, <2>2, <1>1, DivUnique
  <1> QED
    BY <1>3, <1>4 DEF r

\* Sums and differences of multiples.
LEMMA MultipleSum ==
  ASSUME NEW p \in Nat, p >= 1, NEW x \in Int, NEW y \in Int, x % p = 0, y % p = 0
  PROVE  (x + y) % p = 0 /\ (x - y) % p = 0
  <1>1. PICK j \in Int : x = p * j
    BY Multiple
  <1>2. PICK k \in Int : y = p * k
    BY Multiple
  <1>3. x + y = p * (j + k) /\ x - y = p * (j - k) /\ j + k \in Int /\ j - k \in Int
    BY <1>1, <1>2
  <1> HIDE <1>1, <1>2
  <1>4. \E i \in Int : x + y = p * i
    BY <1>3
  <1>5. \E i \in Int : x - y = p * i
    BY <1>3
  <1>6. x + y \in Int /\ x - y \in Int
    OBVIOUS
  <1> QED
    BY <1>4, <1>5, <1>6, Multiple

\* There is no multiple between two of them.
LEMMA NoMultiple ==
  ASSUME NEW p \in Nat, p >= 1, NEW x \in Int, x % p = 0, x > 0
  PROVE  x >= p
  <1>1. PICK j \in Int : x = p * j
    BY Multiple
  <1>2. p * 0 < p * j
    BY <1>1
  <1>3. p * 0 + p <= p * j
    BY <1>2, MultipleGap
  <1> QED
    BY <1>1, <1>3

\* The multiples closest to zero.
LEMMA MultipleSelf ==
  ASSUME NEW p \in Nat, p >= 1
  PROVE  0 % p = 0 /\ p % p = 0
  <1>1. 0 = p * 0 /\ p = p * 1
    OBVIOUS
  <1> QED
    BY <1>1, Multiple

\* A divisor of a divisor.
LEMMA MultipleDivides ==
  ASSUME NEW d \in Nat, d >= 1, NEW m \in Nat, m >= 1, NEW x \in Int, x % (d * m) = 0
  PROVE  x % d = 0
  <1>1. d * m \in Nat /\ d * m >= 1
    OBVIOUS
  <1>2. PICK j \in Int : x = (d * m) * j
    BY <1>1, Multiple
  <1>3. x = d * (m * j) /\ m * j \in Int
    BY <1>2
  <1> HIDE <1>2
  <1> QED
    BY <1>3, Multiple

\* A block that begins at a multiple of its size d lies in one block of size p,
\* if d divides p.
LEMMA NoCrossing ==
  ASSUME NEW d \in Nat, d >= 1, NEW p \in Nat, p >= 1, p % d = 0, NEW x \in Int, x % d = 0
  PROVE  x + d <= (x - (x % p)) + p
  <1> DEFINE k == x \div p
             r == x % p
  <1>1. k \in Int /\ r \in 0 .. p - 1 /\ x = p * k + r
    BY DivMod, Zenon
  <1> HIDE DEF k, r
  <1>2. PICK m \in Int : p = d * m
    BY Multiple
  <1>3. PICK j \in Int : x = d * j
    BY Multiple
  <1>4. p * k + p = d * (m * (k + 1)) /\ m * (k + 1) \in Int
    BY <1>1, <1>2
  <1>5. p * k \in Int /\ d * j \in Int
    BY <1>1
  <1>6. d * j < d * (m * (k + 1))
    BY <1>1, <1>3, <1>4, <1>5
  <1>7. d * j + d <= d * (m * (k + 1))
    BY <1>4, <1>6, MultipleGap
  <1>8. x + d <= p * k + p
    BY <1>3, <1>4, <1>7
  <1> QED
    BY <1>1, <1>5, <1>8 DEF r

\* The size of a page.
LEMMA PageSize ==
  /\ Page \in Nat /\ Page >= 1 /\ Page >= FlitsPerBeat /\ Page % FlitsPerBeat = 0
  /\ \A x \in Int : x % Page = 0 => x % FlitsPerBeat = 0
  <1>1. /\ FlitsPerBeat \in Nat /\ FlitsPerBeat >= 1 /\ MaxBeats \in Nat /\ MaxBeats >= 1
    BY Sizes
  <1>2. Page = FlitsPerBeat * MaxBeats
    BY <1>1 DEF Page
  <1>3. Page \in Nat /\ Page >= FlitsPerBeat
    BY <1>1, <1>2
  <1>4. Page % FlitsPerBeat = 0
    BY <1>1, <1>2, <1>3, Multiple
  <1>5. \A x \in Int : x % Page = 0 => x % FlitsPerBeat = 0
    BY <1>1, <1>2, MultipleDivides
  <1> QED
    BY <1>1, <1>3, <1>4, <1>5

\* The smaller of two powers of two divides the larger one.
LEMMA PowersDivide ==
  ASSUME NEW i \in Nat, NEW j \in Nat
  PROVE  /\ i <= j => TwoTo(j) % TwoTo(i) = 0
         /\ j < i => TwoTo(i) % TwoTo(j) = 0
         /\ i <= j => TwoTo(i) <= TwoTo(j)
         /\ j < i => TwoTo(j) < TwoTo(i)
  <1>0. ASSUME NEW m \in Nat, NEW n \in Nat, m <= n
        PROVE  TwoTo(n) % TwoTo(m) = 0 /\ TwoTo(m) <= TwoTo(n) /\ (m # n => TwoTo(m) < TwoTo(n))
    <2> DEFINE k == n - m
               a == TwoTo(m)
               b == TwoTo(k)
               c == TwoTo(n)
    <2>1. k \in Nat /\ m + k = n /\ (m # n => k >= 1)
      BY <1>0
    <2> HIDE DEF k
    <2>2. c = a * b
      BY <2>1, TwoToPlus
    <2>3. a \in Nat /\ a >= 1 /\ b \in Nat /\ b >= 1 /\ c \in Nat /\ (k >= 1 => b >= 2)
      BY <2>1, PowerBound
    <2> HIDE DEF a, b, c
    <2>4. c % a = 0
      BY <2>2, <2>3, Multiple
    <2>5. a * b >= a
      BY <2>3
    <2>6. b >= 2 => a * b >= a * 2
      BY <2>3
    <2>7. a * 2 > a
      BY <2>3
    <2>8. a <= c /\ (m # n => a < c)
      BY <2>1, <2>2, <2>3, <2>5, <2>6, <2>7
    <2> QED
      BY <2>4, <2>8 DEF a, c
  <1> QED
    BY <1>0

\* The exponents of the sizes.
LEMMA PowerSizes ==
  /\ \E f \in Nat : FlitsPerBeat = TwoTo(f)
  /\ \E b \in Nat : MaxBeats = TwoTo(b) /\ b >= 2
  /\ \E g \in Nat : Page = TwoTo(g)
  <1>1. PICK f \in Nat : FlitsPerBeat = TwoTo(f)
    BY MemoryAssumption DEF IsPowerOfTwo
  <1>2. PICK b \in Nat : MaxBeats = TwoTo(b)
    BY MemoryAssumption DEF IsPowerOfTwo
  <1>3. b >= 2
    <2>1. TwoTo(0) = 1 /\ TwoTo(0 + 1) = 2 * TwoTo(0)
      BY TwoToStep
    <2>2. TwoTo(1) = 2
      BY <2>1
    <2>3. b # 0 /\ b # 1
      BY <1>2, <2>1, <2>2, Sizes
    <2> QED
      BY <2>3
  <1>4. Page = TwoTo(b + f) /\ b + f \in Nat
    BY <1>1, <1>2, TwoToPlus DEF Page
  <1> QED
    BY <1>1, <1>2, <1>3, <1>4

\* The powers of two.
Powers == {TwoTo(k) : k \in Nat}

\* Powers of two are comparable by division.
LEMMA PowersCompare ==
  ASSUME NEW x \in Powers, NEW y \in Powers
  PROVE  x \in Nat /\ x >= 1 /\ (x <= y => y % x = 0)
  <1>1. PICK i \in Nat : x = TwoTo(i)
    BY DEF Powers
  <1>2. PICK j \in Nat : y = TwoTo(j)
    BY DEF Powers
  <1>3. x \in Nat /\ x >= 1 /\ y \in Nat
    BY <1>1, <1>2, PowerBound
  <1>4. CASE i <= j
    <2>1. TwoTo(j) % TwoTo(i) = 0
      BY <1>4, PowersDivide
    <2> QED
      BY <2>1, <1>1, <1>2, <1>3
  <1>5. CASE j < i
    <2>1. TwoTo(j) < TwoTo(i)
      BY <1>5, PowersDivide
    <2> QED
      BY <2>1, <1>1, <1>2, <1>3
  <1> QED
    BY <1>4, <1>5

\* The sizes are powers of two.
LEMMA SizesArePowers ==
  /\ FlitsPerBeat \in Powers /\ Page \in Powers /\ MaxBeats \in Powers
  /\ \A q \in Fitting : Flits(q) \in Powers
  <1>1. FlitsPerBeat \in Powers /\ Page \in Powers /\ MaxBeats \in Powers
    BY PowerSizes, Zenon DEF Powers
  <1>2. ASSUME NEW q \in Fitting PROVE Flits(q) \in Powers
    <2>1. q.size \in Nat
      BY RequestSizes
    <2> QED
      BY <2>1 DEF Flits, Powers
  <1> QED
    BY <1>1, <1>2

\* A block of n at a multiple of n, and blocks of size p.
LEMMA AlignedBlock ==
  ASSUME NEW p \in Powers, NEW n \in Powers, NEW a \in Nat, a % n = 0
  PROVE  /\ n >= p => n % p = 0 /\ a % p = 0 /\ (n \div p) * p = n
         /\ n <= p => a + n <= (a - (a % p)) + p
  <1>1. p \in Nat /\ p >= 1 /\ n \in Nat /\ n >= 1
    BY PowersCompare
  <1>2. CASE n >= p
    <2>1. n % p = 0
      <3>1. p <= n
        BY <1>1, <1>2
      <3> QED
        BY <3>1, PowersCompare
    <2>2. PICK m \in Int : n = p * m
      <3>1. n \in Int
        BY <1>1
      <3> QED
        BY <2>1, <3>1, <1>1, Multiple, Zenon
    <2>3. m \in Nat /\ m >= 1
      <3>1. CASE m <= 0
        <4>1. p * m <= p * 0
          BY <3>1, <1>1
        <4> QED
          BY <4>1, <2>2, <1>1
      <3> QED
        BY <3>1
    <2>4. a % p = 0
      <3>1. a % (p * m) = 0 /\ a \in Int
        BY <2>2
      <3> QED
        BY <3>1, <2>3, <1>1, MultipleDivides
    <2>5. (n \div p) * p = n
      <3> DEFINE k == n \div p
                 r == n % p
      <3>1. k \in Int /\ n = p * k + r
        BY <1>1, DivMod
      <3>2. r = 0
        BY <2>1
      <3> HIDE DEF k, r
      <3>3. p * k \in Int /\ p * k = k * p
        BY <3>1, <1>1
      <3>4. k * p = n
        BY <3>1, <3>2, <3>3
      <3> QED
        BY <3>4 DEF k
    <2>6. n <= p => n = p
      BY <1>1, <1>2
    <2>7. n <= p => a + n <= (a - (a % p)) + p
      BY <2>4, <2>6, <1>1
    <2> QED
      BY <2>1, <2>4, <2>5, <2>7
  <1>3. CASE n < p
    <2>1. p % n = 0
      <3>1. n <= p
        BY <1>1, <1>3
      <3> QED
        BY <3>1, PowersCompare
    <2>2. a \in Int
      OBVIOUS
    <2>3. a + n <= (a - (a % p)) + p
      BY <2>1, <2>2, <1>1, NoCrossing
    <2> QED
      BY <2>3, <1>1, <1>3
  <1> QED
    BY <1>1, <1>2, <1>3

\* A request that is not denied begins with its first beat or lies in one beat.
LEMMA Aligned ==
  ASSUME NEW q \in Fitting, ~ Denied(q)
  PROVE  /\ Begin(q) \in Nat /\ End(q) \in Nat
         /\ Begin(q) % FlitsPerBeat = 0 /\ End(q) % FlitsPerBeat = 0
         /\ Begin(q) <= q.addr /\ q.addr + Flits(q) <= End(q) /\ End(q) < q.addr + Flits(q) + FlitsPerBeat
         /\ Begin(q) < End(q)
         /\ \/ /\ Flits(q) >= FlitsPerBeat
               /\ Begin(q) = q.addr /\ End(q) = q.addr + Flits(q) /\ Beats(q) * FlitsPerBeat = Flits(q)
            \/ End(q) = Begin(q) + FlitsPerBeat /\ Beats(q) = 1
  <1> DEFINE a == q.addr
             n == Flits(q)
             F == FlitsPerBeat
             B == Begin(q)
             bf == Beats(q) * F
  <1>1. a \in Nat /\ n \in Nat /\ n >= 1 /\ a % n = 0
    BY RequestSizes DEF Denied
  <1>2. F \in Nat /\ F >= 1
    BY Sizes
  <1>3. F \in Powers /\ n \in Powers
    BY SizesArePowers
  <1>4. B = a - (a % F) /\ B + (a % F) = a /\ a % F \in 0 .. F - 1 /\ B \in Nat
    BY RequestSizes, Sizes DEF Begin, BeatAddr, FirstSlot
  <1>5. B % F = 0
    <2>1. a \div F \in Int /\ B = F * (a \div F)
      BY <1>1, BeatDiv DEF Begin
    <2>2. B \in Int
      BY <1>4
    <2> HIDE DEF B
    <2> QED
      BY <2>1, <2>2, <1>2, Multiple, Zenon
  <1>6. End(q) = B + bf
    BY DEF End, Begin
  <1>7. /\ n >= F => n % F = 0 /\ a % F = 0 /\ (n \div F) * F = n
        /\ n <= F => a + n <= (a - (a % F)) + F
    BY <1>1, <1>3, AlignedBlock
  <1>8. /\ n >= F => bf = (n \div F) * F
        /\ ~ (n >= F) => bf = F /\ Beats(q) = 1
    BY <1>2 DEF Beats
  <1> HIDE DEF B, bf, n, a, F
  <1>9. CASE n >= F
    <2>1. n % F = 0 /\ a % F = 0 /\ bf = n
      BY <1>7, <1>8, <1>9
    <2>2. B = a
      BY <2>1, <1>1, <1>4
    <2>3. (B + n) % F = 0
      <3>1. B \in Int /\ n \in Int
        BY <1>1, <1>4
      <3> QED
        BY <3>1, <2>1, <1>2, <1>5, MultipleSum, Zenon
    <2>4. B <= a /\ a + n <= B + n /\ B + n < a + n + F /\ B < B + n /\ B + n \in Nat /\ B + n = a + n
      BY <2>2, <1>1, <1>2
    <2> QED
      BY <2>1, <2>2, <2>3, <2>4, <1>4, <1>5, <1>6, <1>9 DEF B, bf, n, a, F
  <1>10. CASE ~ (n >= F)
    <2>1. a + n <= B + F /\ bf = F /\ Beats(q) = 1
      BY <1>1, <1>2, <1>4, <1>7, <1>8, <1>10
    <2>2. (B + F) % F = 0
      <3>1. B \in Int /\ F \in Int
        BY <1>2, <1>4
      <3>2. F % F = 0
        BY <1>2, MultipleSelf, Zenon
      <3> QED
        BY <3>1, <3>2, <1>2, <1>5, MultipleSum, Zenon
    <2>3. /\ B <= a /\ B + F < a + n + F /\ B < B + F /\ B + F \in Nat
      BY <1>1, <1>2, <1>4
    <2> QED
      BY <2>1, <2>2, <2>3, <1>4, <1>5, <1>6 DEF B, bf, n, a, F
  <1> QED
    BY <1>9, <1>10

\* Numbers with the same quotient.
LEMMA SameQuotient ==
  ASSUME NEW p \in Nat, p >= 1, NEW x \in Int, NEW y \in Int, x <= y
  PROVE  x \div p = y \div p <=> y < (x - (x % p)) + p
  <1> DEFINE j == x \div p
             r == x % p
             k == y \div p
             s == y % p
  <1>1. j \in Int /\ r \in 0 .. p - 1 /\ x = p * j + r
    BY DivMod, Zenon
  <1>2. k \in Int /\ s \in 0 .. p - 1 /\ y = p * k + s
    BY DivMod, Zenon
  <1> HIDE DEF j, r, k, s
  <1> DEFINE pj == p * j
             pk == p * k
  <1>3. pj \in Int /\ pk \in Int /\ x = pj + r /\ y = pk + s
    BY <1>1, <1>2
  <1>4. ASSUME j = k PROVE y < (x - r) + p
    <2>1. pj = pk
      BY <1>4
    <2> HIDE DEF pj, pk
    <2> QED
      BY <2>1, <1>1, <1>2, <1>3
  <1>5. ASSUME y < (x - r) + p PROVE j = k
    <2> DEFINE t == y - pj
    <2>1. t \in 0 .. p - 1 /\ pj + t = pk + s
      <3> HIDE DEF pj, pk
      <3> QED
        BY <1>1, <1>2, <1>3, <1>5
    <2> HIDE DEF t
    <2> QED
      BY <2>1, <1>1, <1>2, DivUnique
  <1> QED
    BY <1>4, <1>5 DEF j, k, r

\* Where a burst may end.
LEMMA OnePage ==
  ASSUME NEW b, b.addr \in Nat, b.beats \in Nat \ {0}
  PROVE  SamePage(b) <=> b.addr + b.beats * FlitsPerBeat <= (b.addr - (b.addr % Page)) + Page
  <1> DEFINE x == b.addr
             n == b.beats * FlitsPerBeat
             y == x + n - 1
             r == x % Page
  <1>1. x \in Int /\ n \in Nat /\ n >= 1
    BY Sizes
  <1>2. Page \in Nat /\ Page >= 1
    BY PageSize
  <1>3. SamePage(b) <=> x \div Page = y \div Page
    BY DEF SamePage, Page
  <1> HIDE DEF n, x
  <1>4. y \in Int /\ x <= y
    BY <1>1
  <1>5. r \in Int
    BY <1>1, <1>2, DivMod
  <1> HIDE DEF y, r
  <1>6. x \div Page = y \div Page <=> y < (x - r) + Page
    BY <1>1, <1>2, <1>4, SameQuotient, Zenon DEF r
  <1>7. y < (x - r) + Page <=> x + n <= (x - r) + Page
    BY <1>1, <1>2, <1>5 DEF y
  <1> QED
    BY <1>3, <1>6, <1>7 DEF x, n, r

\* A beat less.
LEMMA OneLess ==
  ASSUME NEW k \in Nat \ {0}, NEW f \in Nat, f >= 1
  PROVE  /\ k * f \in Nat /\ (k - 1) * f \in Nat /\ k * f = (k - 1) * f + f
         /\ k # 1 => (k - 1) * f >= f
  <1>1. k * f \in Nat /\ (k - 1) * f \in Nat /\ k * f = (k - 1) * f + f
    OBVIOUS
  <1>2. k # 1 => (k - 1) * f >= 1 * f
    OBVIOUS
  <1> QED
    BY <1>1, <1>2

\* What is left of a burst lies in its page.
LEMMA RestSamePage ==
  ASSUME NEW b, b.addr \in Nat, b.beats \in Nat \ {0}, b.beats # 1, SamePage(b), NEW c,
         c.addr = b.addr + FlitsPerBeat, c.beats = b.beats - 1
  PROVE  SamePage(c)
  <1> DEFINE x == b.addr
             z == b.addr + FlitsPerBeat
             y == b.addr + b.beats * FlitsPerBeat - 1
             n == b.beats * FlitsPerBeat
             m == (b.beats - 1) * FlitsPerBeat
  <1>1. Page \in Nat /\ Page >= 1 /\ FlitsPerBeat \in Nat /\ FlitsPerBeat >= 1
    BY PageSize, Sizes
  <1>2. n \in Nat /\ m \in Nat /\ n = m + FlitsPerBeat /\ m >= FlitsPerBeat
    BY <1>1, OneLess
  <1>3. x \div Page = y \div Page
    BY DEF SamePage, Page
  <1>4. SamePage(c) <=> z \div Page = (z + m - 1) \div Page
    BY DEF SamePage, Page
  <1> HIDE DEF m, n
  <1>5. y = x + n - 1 /\ z + m - 1 = y /\ x \in Int /\ y \in Int /\ z \in Int /\ x <= z /\ z <= y
    BY <1>1, <1>2 DEF n
  <1> HIDE DEF x, y, z
  <1>6. x <= y
    BY <1>5
  <1> DEFINE r == x % Page
  <1>7. r \in Int
    BY <1>1, <1>5, DivMod
  <1>8. y < (x - r) + Page
    BY <1>1, <1>3, <1>5, <1>6, SameQuotient, Zenon
  <1>9. z < (x - r) + Page
    <2> HIDE DEF r
    <2> QED
      BY <1>1, <1>5, <1>7, <1>8
  <1>10. x \div Page = z \div Page
    BY <1>1, <1>5, <1>9, SameQuotient, Zenon
  <1> QED
    BY <1>3, <1>4, <1>5, <1>10

\* Bursts that are cut from what may be asked for.
LEMMA CutSamePage ==
  ASSUME NEW b, b.addr \in Nat, b.beats \in Nat \ {0}, b.beats <= MaxBeats, Askable(b)
  PROVE  SamePage(b)
  <1>1. CASE b.addr % Page = 0
    <2>1. Page \in Nat /\ FlitsPerBeat \in Nat /\ MaxBeats \in Nat
      BY PageSize, Sizes
    <2>2. b.beats * FlitsPerBeat <= MaxBeats * FlitsPerBeat /\ b.beats * FlitsPerBeat \in Nat
      BY <2>1
    <2> DEFINE n == b.beats * FlitsPerBeat
    <2>3. n <= Page /\ n \in Nat
      BY <2>2 DEF Page
    <2> HIDE DEF n
    <2>4. b.addr + n <= (b.addr - 0) + Page
      BY <2>1, <2>3
    <2> QED
      BY <2>4, <1>1, OnePage DEF n
  <1> QED
    BY <1>1 DEF Askable

\* The bursts of a request that is not denied.
LEMMA AskableRequest ==
  ASSUME NEW q \in Fitting, ~ Denied(q), NEW r, r.addr = BeatAddr(q.addr), r.beats = Beats(q)
  PROVE  Askable(r)
  <1> DEFINE a == q.addr
             n == Flits(q)
             F == FlitsPerBeat
             B == BeatAddr(q.addr)
  <1>1. a \in Nat /\ n \in Nat /\ n >= 1 /\ a % n = 0 /\ Beats(q) \in Nat /\ Beats(q) >= 1 /\ B \in Nat
    BY RequestSizes DEF Denied
  <1>2. F \in Nat /\ F >= 1 /\ Page \in Nat /\ Page >= 1 /\ Page >= F /\ MaxBeats \in Nat /\ MaxBeats >= 3
    BY Sizes, PageSize
  <1>3. F \in Powers /\ n \in Powers /\ Page \in Powers
    BY SizesArePowers
  <1>4. /\ B % F = 0
        /\ (B = a /\ Beats(q) * F = n) \/ Beats(q) = 1
    BY Aligned DEF Begin
  <1>5. r.addr = B /\ r.beats = Beats(q) /\ r.beats \in Nat \ {0}
    BY <1>1
  <1> HIDE DEF a, n, F, B
  <1>6. CASE Beats(q) = 1
    <2>1. B + F <= (B - (B % Page)) + Page
      BY <1>1, <1>2, <1>3, <1>4, AlignedBlock
    <2>2. r.beats * FlitsPerBeat = F
      BY <1>2, <1>5, <1>6 DEF F
    <2>3. SamePage(r)
      BY <2>1, <2>2, <1>1, <1>5, OnePage
    <2> QED
      BY <2>3, <1>2, <1>5, <1>6 DEF Askable
  <1>7. CASE B = a /\ Beats(q) * F = n
    <2>1. CASE n >= Page
      <3>1. a % Page = 0
        BY <2>1, <1>1, <1>3, AlignedBlock
      <3> QED
        BY <3>1, <1>5, <1>7 DEF Askable
    <2>2. CASE ~ (n >= Page)
      <3>0. n <= Page
        BY <2>2, <1>1, <1>2
      <3>1. a + n <= (a - (a % Page)) + Page
        BY <3>0, <1>1, <1>3, AlignedBlock
      <3>2. r.beats * FlitsPerBeat = n
        BY <1>5, <1>7 DEF F
      <3>3. SamePage(r)
        BY <3>1, <3>2, <1>1, <1>5, <1>7, OnePage
      <3>4. Beats(q) <= MaxBeats
        <4>1. CASE Beats(q) > MaxBeats
          <5>1. Beats(q) * F >= MaxBeats * F + F
            <6>1. Beats(q) >= MaxBeats + 1
              BY <4>1, <1>1, <1>2
            <6>2. Beats(q) * F >= (MaxBeats + 1) * F
              BY <6>1, <1>1, <1>2
            <6>3. (MaxBeats + 1) * F = MaxBeats * F + F
              BY <1>2
            <6> QED
              BY <6>2, <6>3
          <5>2. MaxBeats * F = Page
            BY DEF Page, F
          <5> QED
            BY <5>1, <5>2, <3>0, <1>1, <1>2, <1>7
        <4> QED
          BY <4>1, <1>1, <1>2
      <3> QED
        BY <3>3, <3>4, <1>5 DEF Askable
    <2> QED
      BY <2>1, <2>2
  <1> QED
    BY <1>4, <1>6, <1>7

\* The counter of beats does not stop one short of a page.
LEMMA StaleLast ==
  ASSUME NEW q \in Fitting, ~ Denied(q)
  PROVE  (Beats(q) + 1) % MaxBeats # 0
  <1> DEFINE n == Beats(q)
             M == MaxBeats
  <1>1. n \in Nat /\ n >= 1 /\ M \in Nat /\ M >= 3
    BY RequestSizes, Sizes
  <1> SUFFICES ASSUME (n + 1) % M = 0 PROVE FALSE
    OBVIOUS
  <1>2. PICK b \in Nat : M = TwoTo(b) /\ b >= 2
    BY PowerSizes
  <1>3. n + 1 \in Int /\ n + 1 > 0 /\ n \in Int /\ 1 \in Int
    BY <1>1
  <1> HIDE DEF n, M
  <1>4. n + 1 >= M
    BY <1>1, <1>3, NoMultiple
  <1>5. CASE n = 1
    BY <1>1, <1>4, <1>5
  <1>6. CASE n # 1
    <2>1. Beats(q) * FlitsPerBeat = Flits(q) /\ Flits(q) >= FlitsPerBeat
      BY <1>6, Aligned DEF n
    <2>2. PICK f \in Nat : FlitsPerBeat = TwoTo(f)
      BY PowerSizes
    <2>3. q.size \in Nat
      BY RequestSizes
    <2>4. Flits(q) = TwoTo(q.size)
      BY DEF Flits
    <2>5. q.size < f => FALSE
      <3>1. q.size < f => TwoTo(q.size) < TwoTo(f)
        BY <2>2, <2>3, PowersDivide
      <3>2. TwoTo(q.size) \in Nat /\ TwoTo(f) \in Nat
        BY <2>2, <2>3, PowerBound
      <3> QED
        BY <3>1, <3>2, <2>1, <2>2, <2>4
    <2> DEFINE k == q.size - f
    <2>6. k \in Nat /\ f + k = q.size
      BY <2>2, <2>3, <2>5
    <2> HIDE DEF k
    <2>7. TwoTo(q.size) = TwoTo(f) * TwoTo(k)
      BY <2>2, <2>6, TwoToPlus
    <2>8. TwoTo(f) \in Nat /\ TwoTo(f) >= 1 /\ TwoTo(k) \in Nat
      BY <2>2, <2>6, PowerBound
    <2>9. n = TwoTo(k)
      <3> DEFINE F == TwoTo(f)
                 K == TwoTo(k)
      <3>1. n * F = F * K
        BY <2>1, <2>2, <2>4, <2>7 DEF n
      <3>2. F \in Nat /\ F >= 1 /\ K \in Nat
        BY <2>8
      <3> HIDE DEF F, K
      <3>3. F * n + 0 = F * K + 0 /\ 0 \in 0 .. F - 1 /\ n \in Int /\ K \in Int
        BY <3>1, <3>2, <1>1
      <3>4. n = K
        BY <3>2, <3>3, DivUnique
      <3> QED
        BY <3>4 DEF K
    <2>10. CASE b <= k
      <3>1. n % M = 0
        BY <2>6, <2>9, <2>10, <1>2, PowersDivide
      <3> DEFINE s == n + 1
      <3>2. s % M = 0 /\ s \in Int /\ s - n = 1 /\ M >= 1
        BY <1>1
      <3> HIDE DEF s
      <3>3. 1 % M = 0
        BY <3>1, <3>2, <1>1, <1>3, MultipleSum
      <3> QED
        BY <3>3, <1>1, NoMultiple
    <2>11. CASE k < b
      <3>1. n < M
        BY <2>6, <2>9, <2>11, <1>2, PowersDivide
      <3>2. n + 1 = M
        BY <3>1, <1>1, <1>4
      <3>3. k # 0
        BY <2>9, <1>6, TwoToStep
      <3>4. TwoTo((k - 1) + 1) = 2 * TwoTo(k - 1) /\ k - 1 \in Nat /\ (k - 1) + 1 = k
        <4>1. k - 1 \in Nat /\ (k - 1) + 1 = k
          BY <3>3, <2>6
        <4> QED
          BY <4>1, TwoToStep
      <3>5. TwoTo((b - 1) + 1) = 2 * TwoTo(b - 1) /\ b - 1 \in Nat /\ (b - 1) + 1 = b
        <4>1. b - 1 \in Nat /\ (b - 1) + 1 = b
          BY <1>2
        <4> QED
          BY <4>1, TwoToStep
      <3>6. TwoTo(k - 1) \in Nat /\ TwoTo(b - 1) \in Nat
        BY <3>4, <3>5, PowerBound
      <3> DEFINE x == TwoTo(k - 1)
                 y == TwoTo(b - 1)
      <3>7. n = 2 * x /\ M = 2 * y /\ x \in Nat /\ y \in Nat
        BY <3>4, <3>5, <3>6, <2>9, <1>2
      <3> HIDE DEF x, y
      <3> QED
        BY <3>2, <3>7
    <2> QED
      BY <2>6, <2>10, <2>11, <1>2
  <1> QED
    BY <1>5, <1>6

\* The next location is in the same beat or begins the next one.
LEMMA SlotStep ==
  ASSUME NEW a \in Nat
  PROVE  /\ FirstSlot(a + 1) = (FirstSlot(a) + 1) % FlitsPerBeat
         /\ FirstSlot(a) + 1 = FlitsPerBeat => BeatAddr(a + 1) = BeatAddr(a) + FlitsPerBeat
         /\ FirstSlot(a) + 1 # FlitsPerBeat => BeatAddr(a + 1) = BeatAddr(a)
  <1> DEFINE F == FlitsPerBeat
             x == a \div F
             r == FirstSlot(a)
             y == (a + 1) \div F
             s == FirstSlot(a + 1)
  <1>1. F \in Nat /\ F >= 1 /\ a + 1 \in Nat
    BY Sizes
  <1>2. x \in Nat /\ BeatAddr(a) = F * x /\ r \in 0 .. F - 1 /\ F * x + r = a
    BY BeatDiv, Sizes
  <1>3. y \in Nat /\ BeatAddr(a + 1) = F * y /\ s \in 0 .. F - 1 /\ F * y + s = a + 1
    BY <1>1, BeatDiv, Sizes
  <1> HIDE DEF F, x, r, y, s
  <1>4. F * x \in Nat /\ F * y \in Nat /\ x \in Int /\ y \in Int
    BY <1>1, <1>2, <1>3
  <1>5. CASE r + 1 = F
    <2>1. F * (x + 1) = F * x + F /\ x + 1 \in Int
      BY <1>1, <1>2
    <2>2. F * (x + 1) + 0 = F * y + s /\ 0 \in 0 .. F - 1
      BY <2>1, <1>1, <1>2, <1>3, <1>4, <1>5
    <2>3. x + 1 = y /\ s = 0
      <3> DEFINE z == x + 1
      <3>1. z \in Int /\ F * z + 0 = F * y + s
        BY <2>1, <2>2
      <3> HIDE DEF z
      <3>2. z = y /\ 0 = s
        BY <3>1, <2>2, <1>1, <1>3, <1>4, DivUnique
      <3> QED
        BY <3>2 DEF z
    <2>4. (r + 1) % F = 0
      BY <1>1, <1>5, MultipleSelf
    <2> QED
      BY <2>1, <2>3, <2>4, <1>2, <1>3, <1>5 DEF F, r, s
  <1>6. CASE r + 1 # F
    <2>1. r + 1 \in 0 .. F - 1
      BY <1>1, <1>2, <1>6
    <2>2. F * x + (r + 1) = F * y + s
      BY <1>1, <1>2, <1>3, <1>4
    <2>3. x = y /\ s = r + 1
      BY <2>1, <2>2, <1>1, <1>3, <1>4, DivUnique
    <2>4. (r + 1) % F = r + 1
      <3> DEFINE t == r + 1
                 j == t \div F
                 v == t % F
      <3>1. t \in Int /\ t \in 0 .. F - 1
        BY <2>1
      <3> HIDE DEF t
      <3>2. j \in Int /\ v \in 0 .. F - 1 /\ t = F * j + v
        BY <3>1, <1>1, DivMod, Zenon
      <3> HIDE DEF j, v
      <3>3. F * 0 + t = F * j + v
        BY <3>1, <3>2, <1>1
      <3>4. t = v
        BY <3>1, <3>2, <3>3, <1>1, DivUnique
      <3> QED
        BY <3>4 DEF v, t
    <2> QED
      BY <2>3, <2>4, <1>2, <1>3, <1>6 DEF F, r, s
  <1> QED
    BY <1>5, <1>6

\* A common factor.
LEMMA Unscale ==
  ASSUME NEW f \in Nat, f >= 1, NEW m \in Nat, m >= 1, NEW x \in Int, (x * f) % (m * f) = 0
  PROVE  x % m = 0
  <1>1. m * f \in Nat /\ m * f >= 1 /\ x * f \in Int
    OBVIOUS
  <1>2. PICK k \in Int : x * f = (m * f) * k
    BY <1>1, Multiple
  <1> DEFINE y == m * k
  <1>3. y \in Int /\ f * x + 0 = f * y + 0 /\ 0 \in 0 .. f - 1
    BY <1>2
  <1> HIDE DEF y
  <1>4. x = y
    BY <1>3, DivUnique
  <1>5. \E j \in Int : x = m * j
    BY <1>4 DEF y
  <1> QED
    BY <1>5, Multiple

\* The beat of a location of a request lies among the beats of the request.
LEMMA BeatBounds ==
  ASSUME NEW q \in Fitting, ~ Denied(q), NEW n \in Nat, q.addr <= n, n < q.addr + Flits(q)
  PROVE  /\ BeatAddr(n) \in Nat /\ BeatAddr(n) % FlitsPerBeat = 0
         /\ Begin(q) <= BeatAddr(n) /\ BeatAddr(n) + FlitsPerBeat <= End(q)
         /\ n = q.addr + Flits(q) - 1 => BeatAddr(n) + FlitsPerBeat = End(q)
         /\ BeatAddr(n) + FlitsPerBeat = End(q) /\ FirstSlot(n) + 1 = FlitsPerBeat =>
               n = q.addr + Flits(q) - 1
  <1> DEFINE F == FlitsPerBeat
             a == q.addr
             m == Flits(q)
             B == Begin(q)
             E == End(q)
             x == BeatAddr(n)
             s == FirstSlot(n)
  <1>1. F \in Nat /\ F >= 1 /\ a \in Nat /\ m \in Nat
    BY Sizes, RequestSizes
  <1>2. /\ B \in Nat /\ E \in Nat /\ B % F = 0 /\ E % F = 0
        /\ B <= a /\ a + m <= E /\ E < a + m + F
    BY Aligned
  <1>3. x \in Nat /\ s \in 0 .. F - 1 /\ x + s = n /\ \E k \in Int : x = F * k
    <2> DEFINE k == n \div F
    <2>1. k \in Nat /\ x = F * k /\ s \in Slot /\ x \in Nat /\ x + s = n
      BY BeatDiv, Zenon
    <2>2. s \in 0 .. F - 1
      BY <2>1, Sizes
    <2> HIDE DEF x, s, k
    <2>3. k \in Int
      BY <2>1
    <2> QED
      BY <2>1, <2>2, <2>3
  <1>4. a <= n /\ n < a + m
    OBVIOUS
  <1> HIDE DEF F, a, m, B, E, x, s
  <1>5. x % F = 0 /\ x \in Int /\ B \in Int /\ E \in Int /\ F \in Int
    <2>1. x \in Int
      BY <1>3
    <2>2. x % F = 0
      BY <2>1, <1>1, <1>3, Multiple, Zenon
    <2> QED
      BY <2>1, <2>2, <1>1, <1>2
  <1>6. (B - x) % F = 0 /\ (E - x) % F = 0
    BY <1>1, <1>2, <1>5, MultipleSum, Zenon
  <1>7. B <= x
    <2> DEFINE d == B - x
    <2>1. d % F = 0 /\ d \in Int
      BY <1>5, <1>6
    <2>2. d < F
      BY <1>1, <1>2, <1>3, <1>4
    <2> HIDE DEF d
    <2>3. ~ (d > 0)
      BY <2>1, <2>2, <1>1, NoMultiple
    <2> QED
      BY <2>3, <1>2, <1>3 DEF d
  <1>8. x + F <= E
    <2> DEFINE d == E - x
    <2>1. d % F = 0 /\ d \in Int /\ d > 0
      BY <1>1, <1>2, <1>3, <1>4, <1>6
    <2> HIDE DEF d
    <2>2. d >= F
      BY <2>1, <1>1, NoMultiple
    <2> QED
      BY <2>2, <1>1, <1>2, <1>3 DEF d
  <1>9. ASSUME n = a + m - 1 PROVE x + F = E
    <2> DEFINE d == (E - x) - F
    <2>1. F % F = 0
      BY <1>1, MultipleSelf, Zenon
    <2> DEFINE e == E - x
    <2>5. e \in Int /\ e % F = 0
      BY <1>5, <1>6
    <2> HIDE DEF e
    <2>6. (e - F) % F = 0
      BY <2>1, <2>5, <1>1, <1>5, MultipleSum, Zenon
    <2>7. e - F \in Int
      BY <2>5, <1>1
    <2>2. d % F = 0 /\ d \in Int
      BY <2>6, <2>7 DEF e
    <2>3. d < F
      BY <1>1, <1>2, <1>3, <1>9
    <2> HIDE DEF d
    <2>4. ~ (d > 0)
      BY <2>2, <2>3, <1>1, NoMultiple
    <2> QED
      BY <2>4, <1>1, <1>2, <1>3, <1>8 DEF d
  <1>10. ASSUME x + F = E, s + 1 = F PROVE n = a + m - 1
    BY <1>1, <1>2, <1>3, <1>4, <1>10
  <1> QED
    BY <1>3, <1>5, <1>7, <1>8, <1>9, <1>10 DEF F, a, m, B, E, x, s

\* The counter of beats after a flit.
LastAfter(full, base) == IF ~ full THEN base ELSE IF base = MaxBeats - 1 THEN 0 ELSE base + 1

\* A handler takes the flit for location n, with the counter of beats at base.
LEMMA FlitStep ==
  ASSUME NEW q \in Fitting, ~ Denied(q), NEW n \in Nat, NEW left \in Nat,
         q.addr <= n, n + left + 1 = q.addr + Flits(q),
         NEW base \in 0 .. MaxBeats - 1, (BeatAddr(n) - base * FlitsPerBeat - Begin(q)) % Page = 0,
         NEW full \in BOOLEAN, full <=> (left = 0 \/ FirstSlot(n) + 1 = FlitsPerBeat)
  PROVE  /\ full => (EndsBurst(q, BeatAddr(n) + FlitsPerBeat) <=> (left = 0 \/ base = MaxBeats - 1))
         /\ left # 0 => (BeatAddr(n + 1) - LastAfter(full, base) * FlitsPerBeat - Begin(q)) % Page = 0
         /\ left = 0 => LastAfter(full, base) # MaxBeats - 1
  <1> DEFINE F == FlitsPerBeat
             B == Begin(q)
             E == End(q)
             x == BeatAddr(n)
             M == MaxBeats
             P == Page
             bf == base * F
             g == x - bf - B
  <1>1. F \in Nat /\ F >= 1 /\ M \in Nat /\ M >= 3 /\ P \in Nat /\ P >= 1 /\ M * F = P
    BY Sizes, PageSize DEF Page
  <1>2. B \in Nat /\ E \in Nat
    BY Aligned
  <1>3. /\ x \in Nat /\ B <= x /\ x + F <= E
        /\ left = 0 => x + F = E
        /\ x + F = E /\ FirstSlot(n) + 1 = F => left = 0
    <2>1. n < q.addr + Flits(q) /\ (n = q.addr + Flits(q) - 1 <=> left = 0)
      BY RequestSizes
    <2> QED
      BY <2>1, BeatBounds
  <1>4. base \in Nat /\ base <= M - 1 /\ bf \in Nat
    BY <1>1
  <1>5. g % P = 0
    OBVIOUS
  <1>6. g \in Int
    <2> HIDE DEF bf, x, B
    <2> QED
      BY <1>2, <1>3, <1>4
  <1>7. base = M - 1 => bf = P - F
    <2>1. base = M - 1 => bf = (M - 1) * F
      OBVIOUS
    <2>2. (M - 1) * F = M * F - F
      BY <1>1
    <2> QED
      BY <2>1, <2>2, <1>1
  <1>8. (base + 1) * F = bf + F
    BY <1>1, <1>4
  <1>9. base # M - 1 => bf + 2 * F <= P
    <2>1. base # M - 1 => base + 2 <= M
      BY <1>1, <1>4
    <2>2. base + 2 <= M => (base + 2) * F <= M * F
      BY <1>1, <1>4
    <2>3. (base + 2) * F = bf + 2 * F
      BY <1>1, <1>4
    <2> QED
      BY <2>1, <2>2, <2>3, <1>1
  <1>10. P % P = 0 /\ P \in Int
    BY <1>1, MultipleSelf
  <1>11. full => (EndsBurst(q, x + F) <=> (left = 0 \/ base = M - 1))
    <2> HIDE DEF bf, g, x, B, E, F, P, M
    <2>1. base = M - 1 => ((x + F) - B) % P = 0
      <3>1. base = M - 1 => (x + F) - B = g + P
        BY <1>1, <1>2, <1>3, <1>4, <1>7 DEF g
      <3>2. (g + P) % P = 0
        BY <1>1, <1>5, <1>6, <1>10, MultipleSum
      <3> QED
        BY <3>1, <3>2
    <2>2. ((x + F) - B) % P = 0 => base = M - 1
      <3> SUFFICES ASSUME ((x + F) - B) % P = 0, base # M - 1 PROVE FALSE
        OBVIOUS
      <3> DEFINE d == ((x + F) - B) - g
      <3>1. (x + F) - B \in Int
        BY <1>1, <1>2, <1>3
      <3>2. d % P = 0 /\ d \in Int
        BY <3>1, <1>1, <1>5, <1>6, MultipleSum
      <3>3. d = bf + F
        BY <1>1, <1>2, <1>3, <1>4 DEF g
      <3>4. d > 0 /\ d < P
        BY <3>3, <1>1, <1>4, <1>9
      <3> HIDE DEF d
      <3> QED
        BY <3>2, <3>4, <1>1, NoMultiple
    <2>3. full => (x + F = E <=> left = 0)
      BY <1>3 DEF F
    <2> QED
      BY <2>1, <2>2, <2>3, Zenon DEF EndsBurst, B, E, P
  <1>12. ASSUME left # 0
         PROVE  (BeatAddr(n + 1) - LastAfter(full, base) * F - B) % P = 0
    <2>1. /\ full => BeatAddr(n + 1) = x + F
          /\ ~ full => BeatAddr(n + 1) = x
      BY <1>12, SlotStep
    <2>2. CASE ~ full
      BY <2>1, <2>2, <1>5 DEF LastAfter
    <2>3. CASE full /\ base = M - 1
      <3>1. LastAfter(full, base) * F = 0
        BY <2>3, <1>1 DEF LastAfter
      <3>2. BeatAddr(n + 1) = x + F
        BY <2>1, <2>3
      <3> HIDE DEF bf, x, B, F, P, M
      <3>3. (x + F) - 0 - B = g + P
        BY <2>3, <1>1, <1>2, <1>3, <1>4, <1>7
      <3> HIDE DEF g
      <3>4. (g + P) % P = 0
        BY <1>1, <1>5, <1>6, <1>10, MultipleSum
      <3> QED
        BY <3>1, <3>2, <3>3, <3>4
    <2>4. CASE full /\ base # M - 1
      <3>1. LastAfter(full, base) * F = bf + F
        BY <2>4, <1>8 DEF LastAfter
      <3>2. BeatAddr(n + 1) = x + F
        BY <2>1, <2>4
      <3> HIDE DEF bf, x, B, F, P, M
      <3>3. (x + F) - (bf + F) - B = g
        BY <1>1, <1>2, <1>3, <1>4
      <3> HIDE DEF g
      <3> QED
        BY <3>1, <3>2, <3>3, <1>5
    <2> QED
      BY <2>2, <2>3, <2>4
  <1>13. ASSUME left = 0, LastAfter(full, base) = M - 1
         PROVE  FALSE
    <2>1. base + 1 = M - 1
      BY <1>1, <1>4, <1>13 DEF LastAfter
    <2> DEFINE k == Beats(q)
               kf == Beats(q) * F
    <2>2. k \in Nat /\ kf \in Nat /\ E = B + kf /\ (k + 1) * F = kf + F
      <3>1. k \in Nat
        BY RequestSizes
      <3>2. E = B + kf
        BY DEF End, Begin
      <3> HIDE DEF k, E, B, F
      <3>3. k * F \in Nat /\ (k + 1) * F = k * F + F
        BY <3>1, <1>1
      <3> QED
        BY <3>1, <3>2, <3>3 DEF k
    <2>3. bf + 2 * F = P
      <3>1. base + 2 = M
        BY <2>1, <1>1, <1>4
      <3>2. (base + 2) * F = bf + 2 * F
        BY <1>1, <1>4
      <3> QED
        BY <3>1, <3>2, <1>1
    <2>4. x + F = E
      BY <1>3, <1>13
    <2> HIDE DEF bf, x, B, E, F, P, kf
    <2>5. g + P = kf + F
      BY <2>2, <2>3, <2>4, <1>1, <1>2, <1>3, <1>4
    <2> HIDE DEF g
    <2>6. (g + P) % P = 0
      BY <1>1, <1>5, <1>6, <1>10, MultipleSum
    <2>7. ((k + 1) * F) % (M * F) = 0
      BY <2>2, <2>5, <2>6, <1>1
    <2>8. (k + 1) % M = 0
      <3> HIDE DEF k, M
      <3>1. k + 1 \in Int /\ M >= 1
        BY <2>2, <1>1
      <3> QED
        BY <3>1, <2>7, <1>1, Unscale
    <2> QED
      BY <2>8, StaleLast
  <1> QED
    BY <1>11, <1>12, <1>13

-----------------------------------------------------------------------------
(* The spans of a port *)

\* Spans of known requests.
Spans(ids) == [on : BOOLEAN, id : ids, lo : Int, hi : Int]

\* Functions are applied to the elements.
LEMMA MapType ==
  ASSUME NEW T, NEW U, NEW f, \A x \in T : f[x] \in U, NEW s \in Seq(T)
  PROVE  /\ Mapped(s, f) \in Seq(U) /\ Len(Mapped(s, f)) = Len(s)
         /\ Els(Mapped(s, f)) = {f[x] : x \in Els(s)}
  <1>1. DOMAIN s = 1 .. Len(s) /\ Len(s) \in Nat /\ \A i \in 1 .. Len(s) : s[i] \in T
    OBVIOUS
  <1>2. Mapped(s, f) = [i \in 1 .. Len(s) |-> f[s[i]]]
    BY <1>1 DEF Mapped
  <1>3. \A i \in 1 .. Len(s) : f[s[i]] \in U
    BY <1>1
  <1>4. Mapped(s, f) \in Seq(U) /\ Len(Mapped(s, f)) = Len(s)
    BY <1>1, <1>2, <1>3
  <1>5. Els(Mapped(s, f)) = {f[x] : x \in Els(s)}
    <2>1. DOMAIN Mapped(s, f) = DOMAIN s /\ \A i \in DOMAIN s : Mapped(s, f)[i] = f[s[i]]
      BY DEF Mapped
    <2>2. ASSUME NEW i \in DOMAIN s PROVE f[s[i]] \in {f[x] : x \in Els(s)}
      BY <2>2 DEF Els
    <2>3. ASSUME NEW x \in Els(s) PROVE f[x] \in Els(Mapped(s, f))
      <3>1. PICK i \in DOMAIN s : x = s[i]
        BY DEF Els
      <3> QED
        BY <3>1, <2>1 DEF Els
    <2>4. ASSUME NEW y \in Els(Mapped(s, f)) PROVE y \in {f[x] : x \in Els(s)}
      <3>1. PICK i \in DOMAIN s : y = f[s[i]]
        BY <2>1 DEF Els
      <3> QED
        BY <3>1, <2>2
    <2> QED
      BY <2>3, <2>4
  <1> QED
    BY <1>4, <1>5

\* Beats have addresses.
LEMMA BeatAddrType ==
  ASSUME NEW a \in Int
  PROVE  BeatAddr(a) \in Int /\ BeatAddr(a) + FlitsPerBeat \in Int
  <1>1. a % FlitsPerBeat \in Int
    BY Sizes
  <1> QED
    BY <1>1, Sizes DEF BeatAddr

\* The types of known requests.
LEMMA NatTypes ==
  ASSUME NEW ids, ids \subseteq Nat
  PROVE  /\ DataType(ids) \subseteq DataType(Nat) /\ BackType(ids) \subseteq BackType(Nat)
         /\ Burst(ids) \subseteq Burst(Nat) /\ AwType(ids) \subseteq AwType(Nat)
  <1>1. DataType(ids) \subseteq DataType(Nat) /\ BackType(ids) \subseteq BackType(Nat)
    BY Zenon DEF DataType, BackType
  <1>2. Burst(ids) \subseteq Burst(Nat)
    BY DEF Burst
  <1>3. AwType(ids) \subseteq AwType(Nat)
    BY DEF AwType
  <1> QED
    BY <1>1, <1>2, <1>3

\* Beats, bursts and atomics have spans.
LEMMA SpanOf ==
  ASSUME NEW ids, ids \subseteq Nat
  PROVE  /\ \A d \in DataType(ids) : OfData[d] \in Spans(ids)
         /\ \A w \in BackType(ids) : OfBack[w] \in Spans(ids)
         /\ \A b \in Burst(ids) : OfBurst[b] \in Spans(ids)
         /\ \A p, b : b \in AwType(ids) => OfWrite(p)[b] \in Spans(ids)
  <1>1. ASSUME NEW d \in DataType(ids) PROVE OfData[d] \in Spans(ids)
    <2>0. d \in DataType(Nat)
      BY NatTypes
    <2>1. d.id \in ids /\ d.addr \in Int /\ d.addr + FlitsPerBeat \in Int
      BY Sizes DEF DataType
    <2>2. OfData[d] = [on |-> TRUE, id |-> d.id, lo |-> d.addr, hi |-> d.addr + FlitsPerBeat]
      BY <2>0 DEF OfData
    <2> QED
      BY <2>1, <2>2 DEF Spans
  <1>2. ASSUME NEW w \in BackType(ids) PROVE OfBack[w] \in Spans(ids)
    <2>0. w \in BackType(Nat)
      BY NatTypes
    <2>1. w.id \in ids /\ w.addr \in Int /\ w.beat \in BOOLEAN
      BY DEF BackType
    <2>2. BeatAddr(w.addr) \in Int /\ BeatAddr(w.addr) + FlitsPerBeat \in Int
      BY <2>1, BeatAddrType
    <2>3. OfBack[w] = [on |-> w.beat, id |-> w.id, lo |-> BeatAddr(w.addr),
                       hi |-> BeatAddr(w.addr) + FlitsPerBeat]
      BY <2>0 DEF OfBack
    <2> QED
      BY <2>1, <2>2, <2>3 DEF Spans
  <1>3. ASSUME NEW b \in Burst(ids) PROVE OfBurst[b] \in Spans(ids)
    <2>0. b \in Burst(Nat)
      BY NatTypes
    <2>1. b.id \in ids /\ b.addr \in Int /\ b.beats \in Nat
      BY DEF Burst
    <2>2. b.addr + b.beats * FlitsPerBeat \in Int
      BY <2>1, Sizes
    <2>3. OfBurst[b] = [on |-> TRUE, id |-> b.id, lo |-> b.addr, hi |-> b.addr + b.beats * FlitsPerBeat]
      BY <2>0 DEF OfBurst
    <2> QED
      BY <2>1, <2>2, <2>3 DEF Spans
  <1>4. ASSUME NEW p, NEW b \in AwType(ids) PROVE OfWrite(p)[b] \in Spans(ids)
    <2>0. b \in AwType(Nat)
      BY NatTypes
    <2>1. b.id \in ids /\ b.addr \in Int /\ b.beats \in Nat
      BY DEF AwType
    <2>2. b.addr + b.beats * FlitsPerBeat \in Int
      BY <2>1, Sizes
    <2>3. OfWrite(p)[b] = [on |-> b.port = p, id |-> b.id, lo |-> b.addr,
                           hi |-> b.addr + b.beats * FlitsPerBeat]
      BY <2>0 DEF OfWrite
    <2> DEFINE o == b.port = p
    <2>4. o \in BOOLEAN
      OBVIOUS
    <2> HIDE DEF o
    <2>5. [on |-> o, id |-> b.id, lo |-> b.addr, hi |-> b.addr + b.beats * FlitsPerBeat] \in Spans(ids)
      BY <2>1, <2>2, <2>4 DEF Spans
    <2> QED
      BY <2>3, <2>5, Zenon DEF o
  <1> QED
    BY <1>1, <1>2, <1>3, <1>4

\* Jobs and the bursts of prepare_request have spans.
LEMMA JobSpan ==
  ASSUME NEW R \in Seq(Fitting), NEW jobs \in Seq(JobType(1 .. Len(R))), NEW left \in Nat
  PROVE  JobSpans(R, jobs, left) \in Seq(Spans(1 .. Len(R)))
  <1>1. ASSUME NEW i \in DOMAIN jobs
        PROVE  JobSpans(R, jobs, left)[i] \in Spans(1 .. Len(R))
    <2> DEFINE j == jobs[i]
               q == R[j.id]
               lo == IF i = 1 /\ left # 0 THEN BeatAddr(q.addr + j.flits - left) ELSE Begin(q)
               o == ~ j.denied
    <2>0. j \in JobType(1 .. Len(R))
      OBVIOUS
    <2> HIDE DEF j
    <2>1. j.denied \in BOOLEAN /\ j.id \in 1 .. Len(R) /\ j.flits \in Int
      BY <2>0, Sizes DEF JobType
    <2>2. q \in Fitting
      BY <2>1
    <2>3. q.addr \in Nat /\ Begin(q) \in Int /\ End(q) \in Int
      <3>1. q.addr \in Nat /\ BeatAddr(q.addr) \in Nat /\ Beats(q) \in Nat
        BY <2>2, RequestSizes
      <3> QED
        BY <3>1, Sizes DEF Begin, End
    <2>4. lo \in Int
      <3>0. \A x, y, z \in Int : x + y - z \in Int
        OBVIOUS
      <3>3. q.addr \in Int /\ j.flits \in Int /\ left \in Int
        BY <2>1, <2>3
      <3>1. q.addr + j.flits - left \in Int
        BY <3>0, <3>3, Zenon
      <3>2. BeatAddr(q.addr + j.flits - left) \in Int
        BY <3>1, BeatAddrType
      <3> QED
        BY <3>2, <2>3
    <2>5. JobSpans(R, jobs, left)[i] = [on |-> o, id |-> j.id, lo |-> lo, hi |-> End(q)]
      BY DEF JobSpans, j
    <2>6. o \in BOOLEAN
      OBVIOUS
    <2> HIDE DEF o, lo, q
    <2>7. [on |-> o, id |-> j.id, lo |-> lo, hi |-> End(q)] \in Spans(1 .. Len(R))
      BY <2>1, <2>3, <2>4, <2>6 DEF Spans
    <2> QED
      BY <2>5, <2>7, Zenon
  <1> DEFINE s == JobSpans(R, jobs, left)
  <1>2. s = [i \in DOMAIN jobs |-> s[i]] /\ DOMAIN jobs = 1 .. Len(jobs) /\ Len(jobs) \in Nat
    BY DEF JobSpans
  <1> HIDE DEF s
  <1> QED
    BY <1>1, <1>2 DEF s

\* The same of prepare_request.
LEMMA AskSpan ==
  ASSUME NEW ids, ids \subseteq Nat, NEW p \in [requests : Seq(Burst(ids)), left : Nat, addr : Nat]
  PROVE  AskSpans(p) \in Seq(Spans(ids))
  <1>0. p.requests \in Seq(Burst(ids)) /\ p.addr \in Nat
    OBVIOUS
  <1>1. ASSUME NEW i \in DOMAIN p.requests
        PROVE  AskSpans(p)[i] \in Spans(ids)
    <2> DEFINE r == p.requests[i]
               lo == IF i = 1 /\ p.left # 0 THEN p.addr ELSE r.addr
    <2>1. r \in Burst(ids)
      BY <1>0
    <2>2. r.id \in ids /\ r.addr \in Nat /\ r.beats \in Nat
      BY <2>1 DEF Burst
    <2>3. r.addr + r.beats * FlitsPerBeat \in Int /\ lo \in Int
      BY <2>2, <1>0, Sizes
    <2>4. AskSpans(p)[i] = [on |-> TRUE, id |-> r.id, lo |-> lo, hi |-> r.addr + r.beats * FlitsPerBeat]
      BY DEF AskSpans
    <2> QED
      BY <2>2, <2>3, <2>4 DEF Spans
  <1> DEFINE s == AskSpans(p)
  <1>2. /\ s = [i \in DOMAIN p.requests |-> s[i]]
        /\ DOMAIN p.requests = 1 .. Len(p.requests) /\ Len(p.requests) \in Nat
    BY <1>0 DEF AskSpans
  <1> HIDE DEF s
  <1> QED
    BY <1>1, <1>2 DEF s

\* What a port holds has spans.
LEMMA SpanTypes ==
  Types => \A p \in WritePort :
              /\ Data(p) \in Seq(Spans(Ids)) /\ Backs(p) \in Seq(Spans(Ids)) /\ Jobs(p) \in Seq(Spans(Ids))
              /\ Issued(p) \in Seq(Spans(Ids)) /\ Asked(p) \in Seq(Spans(Ids)) /\ Asks(p) \in Seq(Spans(Ids))
  <1> SUFFICES ASSUME Types, NEW p \in WritePort
               PROVE  /\ Data(p) \in Seq(Spans(Ids)) /\ Backs(p) \in Seq(Spans(Ids))
                      /\ Jobs(p) \in Seq(Spans(Ids)) /\ Issued(p) \in Seq(Spans(Ids))
                      /\ Asked(p) \in Seq(Spans(Ids)) /\ Asks(p) \in Seq(Spans(Ids))
    OBVIOUS
  <1>1. Ids \subseteq Nat /\ req \in Seq(Fitting) /\ p \in Handler
    BY DEF Types, HistOK, Ids, WritePort, Handler
  <1>2. /\ \A d \in DataType(Ids) : OfData[d] \in Spans(Ids)
        /\ \A w \in BackType(Ids) : OfBack[w] \in Spans(Ids)
        /\ \A b \in Burst(Ids) : OfBurst[b] \in Spans(Ids)
        /\ \A b \in AwType(Ids) : OfWrite(p)[b] \in Spans(Ids)
    BY <1>1, SpanOf, Zenon
  <1>3. /\ wr[p].data \in Seq(DataType(Ids)) /\ wr[p].addr \in Seq(Burst(Ids))
        /\ Back(p) \in Seq(BackType(Ids)) /\ aw \in Seq(AwType(Ids))
    <2>1. wr[p].data \in Seq(DataType(Ids)) /\ wr[p].addr \in Seq(Burst(Ids))
      BY DEF Types, WrOK
    <2>2. Back(p) \in Seq(BackType(Ids))
      BY DEF Types, BackOK, Back
    <2> QED
      BY <2>1, <2>2 DEF Types, AxiOK
  <1>4. Data(p) \in Seq(Spans(Ids)) /\ Backs(p) \in Seq(Spans(Ids))
    BY <1>2, <1>3, MapType DEF Data, Backs
  <1>5. Issued(p) \in Seq(Spans(Ids)) /\ Asked(p) \in Seq(Spans(Ids))
    BY <1>2, <1>3, MapType DEF Issued, Asked
  <1>6. Jobs(p) \in Seq(Spans(Ids))
    <2>1. beats[p] \in Seq(JobType(1 .. Len(req))) /\ pos[p].flit \in Nat
      BY <1>1 DEF Types, JobOK, Ids, PosType
    <2> QED
      BY <2>1, <1>1, JobSpan DEF Jobs, Ids
  <1>7. Asks(p) \in Seq(Spans(Ids))
    <2>1. prep[p] \in [requests : Seq(Burst(Ids)), left : Nat, addr : Nat]
      BY <1>1 DEF Types, PrepOK
    <2> QED
      BY <2>1, <1>1, AskSpan DEF Asks
  <1> QED
    BY <1>4, <1>5, <1>6, <1>7

\* Spans of known requests are spans.
LEMMA KnownSpans == Types => Seq(Spans(Ids)) \subseteq Seq(SpanType)
  <1> SUFFICES ASSUME Types PROVE Seq(Spans(Ids)) \subseteq Seq(SpanType)
    OBVIOUS
  <1>1. Ids \subseteq Nat
    BY DEF Ids
  <1>2. Spans(Ids) \subseteq SpanType
    BY <1>1 DEF Spans, SpanType
  <1> QED
    BY <1>2, SeqMono

SpansOK ==
    \A p \in WritePort :
       /\ Data(p) \in Seq(SpanType) /\ Backs(p) \in Seq(SpanType) /\ Jobs(p) \in Seq(SpanType)
       /\ Issued(p) \in Seq(SpanType) /\ Asked(p) \in Seq(SpanType) /\ Asks(p) \in Seq(SpanType)

\* They stay spans.
LEMMA KeepsSpans == Types => SpansOK
  BY SpanTypes, KnownSpans, Zenon DEF SpansOK

\* The same of the next state.
LEMMA NextSpans == Types' => SpansOK'
  BY KeepsSpans, PTL

-----------------------------------------------------------------------------
(* Bursts: what stays *)

\* A stream changes, but not what is pending.
Same(X, Y, Z, X2, Y2, Z2) ==
    /\ Stream(X2, Y2, Z2)
    /\ \A id \in Nat, a \in Int : Pending(X2, Y2, Z2, id, a) <=> Pending(X, Y, Z, id, a)

\* The beats or the bursts of a port move on.
BeatsKept(p) == Same(Data(p), Backs(p), Jobs(p), Data(p)', Backs(p)', Jobs(p)')
BurstsKept(p) == Same(Issued(p), Asked(p), Asks(p), Issued(p)', Asked(p)', Asks(p)')

\* Known requests stay.
Grows(R, R2) == \A id \in DOMAIN R : id \in DOMAIN R2 /\ R2[id] = R[id]

\* The same is pending on both sides.
LEMMA FlowKept ==
  ASSUME NEW p, FlowOK(p), BeatsKept(p), BurstsKept(p)
  PROVE  FlowOK(p)'
  <1> DEFINE X == Data(p)
             Y == Backs(p)
             Z == Jobs(p)
             U == Issued(p)
             V == Asked(p)
             W == Asks(p)
  <1>1. Stream(X', Y', Z') /\ \A id \in Nat, a \in Nat : Pending(X', Y', Z', id, a) <=> Pending(X, Y, Z, id, a)
    BY DEF BeatsKept, Same
  <1>2. Stream(U', V', W') /\ \A id \in Nat, a \in Nat : Pending(U', V', W', id, a) <=> Pending(U, V, W, id, a)
    BY DEF BurstsKept, Same
  <1>3. \A id \in Nat, a \in Nat : Pending(X, Y, Z, id, a) <=> Pending(U, V, W, id, a)
    BY DEF FlowOK
  <1> HIDE DEF X, Y, Z, U, V, W
  <1>4. \A id \in Nat, a \in Nat : Pending(X', Y', Z', id, a) <=> Pending(U', V', W', id, a)
    BY <1>1, <1>2, <1>3, Zenon
  <1> QED
    BY <1>1, <1>2, <1>4, Zenon DEF FlowOK, X, Y, Z, U, V, W

\* A stream that does not change.
LEMMA SameRefl ==
  ASSUME NEW X, NEW Y, NEW Z, Stream(X, Y, Z)
  PROVE  Same(X, Y, Z, X, Y, Z)
  BY DEF Same

\* What is said of a request goes on being true of it.
LEMMA GrowFacts ==
  ASSUME NEW R, NEW R2, Grows(R, R2)
  PROVE  /\ \A h, j : JobIs(R, h, j) => JobIs(R2, h, j) /\ R2[j.id] = R[j.id]
         /\ \A p, id : Writer(R, p, id) => Writer(R2, p, id) /\ R2[id] = R[id]
         /\ \A p, d : DataIs(R, p, d) => DataIs(R2, p, d)
         /\ \A p, w : BackIs(R, p, w) => BackIs(R2, p, w)
         /\ \A p, b : BurstIs(R, p, b) => BurstIs(R2, p, b)
  <1>1. \A h, j : JobIs(R, h, j) => JobIs(R2, h, j) /\ R2[j.id] = R[j.id]
    BY Zenon DEF Grows, JobIs
  <1>2. \A p, id : Writer(R, p, id) => Writer(R2, p, id) /\ R2[id] = R[id]
    BY Zenon DEF Grows, Writer
  <1>3. \A p, d : DataIs(R, p, d) => DataIs(R2, p, d)
    BY <1>2, Zenon DEF DataIs
  <1>4. ASSUME NEW p, NEW w, BackIs(R, p, w) PROVE BackIs(R2, p, w)
    <2>1. Writer(R, p, w.id) /\ w.addr \in Nat
      BY <1>4 DEF BackIs
    <2>2. Writer(R2, p, w.id) /\ R2[w.id] = R[w.id]
      BY <2>1, <1>2
    <2> DEFINE q == R[w.id]
    <2>3. R[w.id] = q /\ R2[w.id] = q
      BY <2>2
    <2> HIDE DEF q
    <2> QED
      BY <2>1, <2>2, <2>3, <1>4 DEF BackIs
  <1>5. \A p, b : BurstIs(R, p, b) => BurstIs(R2, p, b)
    BY <1>2, Zenon DEF BurstIs
  <1> QED
    BY <1>1, <1>2, <1>3, <1>4, <1>5

\* The jobs of a handler have the same spans when a request is accepted.
LEMMA GrowJobs ==
  ASSUME NEW R, NEW R2, Grows(R, R2), NEW jobs \in Seq(JobType(DOMAIN R)), NEW left
  PROVE  JobSpans(R2, jobs, left) = JobSpans(R, jobs, left)
  <1>1. \A i \in DOMAIN jobs : R2[jobs[i].id] = R[jobs[i].id]
    <2> DEFINE J == JobType(DOMAIN R)
    <2>1. \A j \in J : j.id \in DOMAIN R
      BY DEF JobType
    <2> HIDE DEF J
    <2>2. \A i \in DOMAIN jobs : jobs[i] \in J
      BY DEF J
    <2> QED
      BY <2>1, <2>2 DEF Grows
  <1> QED
    BY <1>1 DEF JobSpans

\* Pages do not change.
LEMMA FramePages ==
  ASSUME PagesOK, UNCHANGED <<prep, aw>>, \A p \in ReadPort : rd'[p].addr = rd[p].addr,
         \A p \in WritePort : wr'[p].addr = wr[p].addr
  PROVE  PagesOK'
  BY Zenon DEF PagesOK

\* The order of the ports does not change.
LEMMA FrameOrder ==
  ASSUME OrderOK, UNCHANGED <<write_order, aw>>
  PROVE  OrderOK'
  BY DEF OrderOK

\* The jobs of a handler do not change.
LEMMA FrameJobs ==
  ASSUME Types, NEW h \in Handler, JobsOK(h), beats'[h] = beats[h], pos'[h] = pos[h], Grows(req, req')
  PROVE  JobsOK(h)'
  <1>1. \A j \in Els(beats[h]) : JobIs(req, h, j) /\ JobIs(req', h, j) /\ req'[j.id] = req[j.id]
    <2>1. \A j : JobIs(req, h, j) => JobIs(req', h, j) /\ req'[j.id] = req[j.id]
      BY GrowFacts, ZenonT(40)
    <2> QED
      BY <2>1, Zenon DEF JobsOK
  <1>2. ASSUME beats[h] # <<>> PROVE req'[Job(h).id] = req[Job(h).id]
    <2>1. beats[h] \in Seq(JobType(Ids))
      BY DEF Types, JobOK
    <2>2. Job(h) \in Els(beats[h])
      BY <1>2, <2>1, ElsTail DEF Job
    <2> QED
      BY <2>2, <1>1
  <1>3. Job(h)' = Job(h)
    BY DEF Job
  <1> QED
    BY <1>1, <1>2, <1>3, Zenon DEF JobsOK

\* The beats of a port do not change.
LEMMA FrameMarks ==
  ASSUME NEW p, MarksOK(p), wr'[p].data = wr[p].data, Back(p)' = Back(p), Grows(req, req')
  PROVE  MarksOK(p)'
  <1>1. \A d \in Els(wr[p].data) : DataIs(req', p, d)
    BY GrowFacts, Zenon DEF MarksOK
  <1>2. \A w \in Els(Back(p)) : BackIs(req', p, w)
    BY GrowFacts, Zenon DEF MarksOK
  <1> QED
    BY <1>1, <1>2, Zenon DEF MarksOK

\* The bursts of a port do not change.
LEMMA FrameAsks ==
  ASSUME Types, NEW p \in WritePort, AsksOK(p), UNCHANGED aw, wr'[p].addr = wr[p].addr, prep'[p] = prep[p],
         Grows(req, req')
  PROVE  AsksOK(p)'
  <1>1. /\ \A b \in Els(aw) : b.port = p => BurstIs(req', p, b)
        /\ \A b \in Els(wr[p].addr) : BurstIs(req', p, b)
    BY GrowFacts, Zenon DEF AsksOK
  <1>2. \A r \in Els(prep[p].requests) :
           /\ Writer(req', p, r.id) /\ r.addr = Begin(req'[r.id]) /\ r.beats = Beats(req'[r.id])
           /\ req'[r.id] = req[r.id]
    <2>1. \A r \in Els(prep[p].requests) :
            Writer(req, p, r.id) /\ r.addr = Begin(req[r.id]) /\ r.beats = Beats(req[r.id])
      BY DEF AsksOK
    <2>2. \A r \in Els(prep[p].requests) : Writer(req', p, r.id) /\ req'[r.id] = req[r.id]
      <3>1. \A id : Writer(req, p, id) => Writer(req', p, id) /\ req'[id] = req[id]
        BY Zenon DEF Grows, Writer
      <3> QED
        BY <2>1, <3>1, Zenon
    <2> QED
      BY <2>1, <2>2
  <1>3. ASSUME prep[p].left # 0
        PROVE  LET q == req'[Head(prep[p].requests).id]
               IN  /\ prep[p].addr + prep[p].left * FlitsPerBeat = End(q)
                   /\ (prep[p].addr - Begin(q)) % Page = 0
    <2>1. p \in Handler
      BY DEF WritePort, Handler
    <2>2. prep[p].requests \in Seq(Burst(Ids)) /\ prep[p].requests # <<>>
      BY <1>3, <2>1 DEF Types, PrepOK
    <2>3. Head(prep[p].requests) \in Els(prep[p].requests)
      BY <2>2, ElsTail
    <2>4. req'[Head(prep[p].requests).id] = req[Head(prep[p].requests).id]
      BY <2>3, <1>2
    <2> QED
      BY <2>4, <1>3 DEF AsksOK
  <1> QED
    BY <1>1, <1>2, <1>3, Zenon DEF AsksOK

\* Nor do their spans.
LEMMA FrameBeats ==
  ASSUME Types, NEW p \in WritePort, FlowOK(p), wr'[p].data = wr[p].data, Back(p)' = Back(p),
         beats'[p] = beats[p], pos'[p].flit = pos[p].flit, Grows(req, req')
  PROVE  BeatsKept(p)
  <1>1. Data(p)' = Data(p) /\ Backs(p)' = Backs(p)
    BY Zenon DEF Data, Backs
  <1>2. Jobs(p)' = Jobs(p)
    <2>1. beats[p] \in Seq(JobType(DOMAIN req)) /\ p \in Handler
      <3>1. DOMAIN req = Ids
        BY DEF Types, HistOK, Ids
      <3> QED
        BY <3>1 DEF Types, JobOK, WritePort, Handler
    <2>2. JobSpans(req', beats[p], pos[p].flit) = JobSpans(req, beats[p], pos[p].flit)
      BY <2>1, GrowJobs
    <2> QED
      BY <2>2, Zenon DEF Jobs
  <1>3. Stream(Data(p), Backs(p), Jobs(p))
    BY DEF FlowOK
  <1> QED
    BY <1>1, <1>2, <1>3, SameRefl, Zenon DEF BeatsKept

\* Bursts that do not change.
LEMMA FrameBursts ==
  ASSUME NEW p, FlowOK(p), UNCHANGED aw, wr'[p].addr = wr[p].addr, prep'[p] = prep[p]
  PROVE  BurstsKept(p)
  <1>1. Issued(p)' = Issued(p) /\ Asked(p)' = Asked(p) /\ Asks(p)' = Asks(p)
    BY Zenon DEF Issued, Asked, Asks
  <1>2. Stream(Issued(p), Asked(p), Asks(p))
    BY DEF FlowOK
  <1> QED
    BY <1>1, <1>2, SameRefl, Zenon DEF BurstsKept

\* An accepted request is added to the known ones.
LEMMA AppendGrows ==
  ASSUME req \in Seq(Fitting), NEW q \in Fitting, req' = Append(req, q)
  PROVE  /\ Grows(req, req') /\ Len(req') = Len(req) + 1 /\ req'[Len(req) + 1] = q
         /\ Len(req) + 1 \in DOMAIN req'
  BY DEF Grows

\* Known requests that do not change.
LEMMA SameGrows ==
  ASSUME UNCHANGED req
  PROVE  Grows(req, req')
  BY DEF Grows

\* Nothing that belongs to a burst changes.
LEMMA FrameInv ==
  ASSUME Types, BurstsInv, UNCHANGED <<prep, aw, write_order>>, Grows(req, req'),
         \A p \in WritePort : /\ beats'[p] = beats[p] /\ pos'[p] = pos[p]
                              /\ wr'[p].addr = wr[p].addr /\ wr'[p].data = wr[p].data,
         \A p \in ReadPort : rd'[p].addr = rd[p].addr,
         writeback'.fifo = writeback.fifo
  PROVE  BurstsInv'
  <1>1. PagesOK' /\ OrderOK'
    BY FramePages, FrameOrder DEF BurstsInv
  <1>2. ASSUME NEW p \in WritePort
        PROVE  JobsOK(p)' /\ MarksOK(p)' /\ AsksOK(p)' /\ FlowOK(p)'
    <2>1. JobsOK(p) /\ MarksOK(p) /\ AsksOK(p) /\ FlowOK(p) /\ p \in Handler
      BY DEF BurstsInv, WritePort, Handler
    <2>2. /\ beats'[p] = beats[p] /\ pos'[p] = pos[p] /\ prep'[p] = prep[p]
          /\ wr'[p].addr = wr[p].addr /\ wr'[p].data = wr[p].data
      OBVIOUS
    <2>3. Back(p)' = Back(p)
      BY Zenon DEF Back
    <2>4. JobsOK(p)' /\ MarksOK(p)' /\ AsksOK(p)'
      BY <2>1, <2>2, <2>3, FrameJobs, FrameMarks, FrameAsks
    <2>5. BeatsKept(p) /\ BurstsKept(p)
      BY <2>1, <2>2, <2>3, FrameBeats, FrameBursts
    <2> QED
      BY <2>1, <2>4, <2>5, FlowKept
  <1> QED
    BY <1>1, <1>2 DEF BurstsInv

\* Responses of the memory are not part of a burst.
LEMMA FrameResp ==
  ASSUME WrOK, NEW p \in WritePort, NEW e, wr' = [wr EXCEPT ![p].resp = e]
  PROVE  \A q \in WritePort : wr'[q].addr = wr[q].addr /\ wr'[q].data = wr[q].data
  BY DEF WrOK

\* startHint
LEMMA InvStartHint ==
  ASSUME Types, BurstsInv, StartHint
  PROVE  BurstsInv'
  <1>1. /\ req \in Seq(Fitting) /\ Head(todo) \in Fitting /\ req' = Append(req, Head(todo))
    BY DEF StartHint, Accept, Types, HistOK
  <1>2. UNCHANGED <<prep, aw, write_order, beats, pos, wr, rd, writeback>>
    BY DEF StartHint, Accept, handlers, axi
  <1>3. Grows(req, req')
    BY <1>1, AppendGrows
  <1> QED
    BY <1>2, <1>3, FrameInv

\* Acquires are passed on.
LEMMA InvForwardToTLC ==
  ASSUME Types, BurstsInv, ForwardToTLC
  PROVE  BurstsInv'
  <1>1. /\ req \in Seq(Fitting) /\ Head(todo) \in Fitting /\ req' = Append(req, Head(todo))
    BY DEF ForwardToTLC, Accept, Types, HistOK
  <1>2. UNCHANGED <<prep, aw, write_order, beats, pos, wr, rd, writeback>>
    BY DEF ForwardToTLC, Accept, handlers, axi
  <1>3. Grows(req, req')
    BY <1>1, AppendGrows
  <1> QED
    BY <1>2, <1>3, FrameInv

\* Actions that move no beat and no burst.
LEMMA InvQuiet ==
  ASSUME Types, BurstsInv,
         \/ ForwardData \/ WriteSetDoneDropped \/ EnqueueResponseRd \/ EnqueueResponseWr
         \/ EnqueueResponseHint \/ TLCRespond \/ (\E k \in {"READ", "WRITE", "TLC"} : Forward(k))
         \/ UNCHANGED vars
  PROVE  BurstsInv'
  <1>1. UNCHANGED <<req, prep, aw, write_order, beats, pos, wr, rd, writeback>>
    <2>1. CASE ForwardData
      BY <2>1 DEF ForwardData, hist, axi
    <2>2. CASE WriteSetDoneDropped
      BY <2>2 DEF WriteSetDoneDropped, hist, axi
    <2>3. CASE EnqueueResponseRd
      BY <2>3 DEF EnqueueResponseRd, hist, axi
    <2>4. CASE EnqueueResponseWr
      BY <2>4 DEF EnqueueResponseWr, hist, axi
    <2>5. CASE EnqueueResponseHint
      BY <2>5 DEF EnqueueResponseHint, hist, axi, handlers
    <2>6. CASE TLCRespond
      BY <2>6 DEF TLCRespond, hist, axi, handlers
    <2>7. CASE \E k \in {"READ", "WRITE", "TLC"} : Forward(k)
      BY <2>7 DEF Forward, hist, axi, handlers
    <2>8. CASE UNCHANGED vars
      BY <2>8 DEF vars, hist, axi, handlers
    <2> QED
      BY <2>1, <2>2, <2>3, <2>4, <2>5, <2>6, <2>7, <2>8
  <1> QED
    BY <1>1, SameGrows, FrameInv

\* The memory responds to a burst, a handler takes a response.
LEMMA InvResponses ==
  ASSUME Types, BurstsInv,
         \/ WriteSetDone \/ RMWDropResponse \/ (\E p \in WritePort : MemWrite(p))
  PROVE  BurstsInv'
  <1>1. UNCHANGED <<req, prep, aw, write_order, beats, pos, rd, writeback>>
    <2>1. CASE WriteSetDone
      BY <2>1 DEF WriteSetDone, hist
    <2>2. CASE RMWDropResponse
      BY <2>2 DEF RMWDropResponse, hist, handlers
    <2>3. CASE \E p \in WritePort : MemWrite(p)
      BY <2>3 DEF MemWrite, hist, handlers
    <2> QED
      BY <2>1, <2>2, <2>3
  <1>2. \A q \in WritePort : wr'[q].addr = wr[q].addr /\ wr'[q].data = wr[q].data
    <2>1. \/ \E p \in WritePort : \E e : wr' = [wr EXCEPT ![p].resp = e]
          \/ wr' = wr
      <3>1. CASE WriteSetDone
        <4>1. "write" \in WritePort
          BY DEF WritePort
        <4> QED
          BY <3>1, <4>1, Zenon DEF WriteSetDone
      <3>2. CASE RMWDropResponse
        <4>1. "rmw" \in WritePort
          BY DEF WritePort
        <4> QED
          BY <3>2, <4>1, Zenon DEF RMWDropResponse
      <3>3. CASE \E p \in WritePort : MemWrite(p)
        BY <3>3, Zenon DEF MemWrite
      <3> QED
        BY <3>1, <3>2, <3>3
    <2> QED
      BY <2>1, FrameResp DEF Types
  <1> QED
    BY <1>1, <1>2, SameGrows, FrameInv

\* retrieve_beat and drop_denied of the read handler
LEMMA InvRead ==
  ASSUME Types, BurstsInv, ReadRetrieveBeat \/ ReadDropDenied
  PROVE  BurstsInv'
  <1>1. UNCHANGED <<req, prep, aw, write_order, wr, writeback>>
    BY DEF ReadRetrieveBeat, ReadDropDenied, hist, axi
  <1>2. \A p \in WritePort : p \in Handler /\ p # "read"
    BY DEF WritePort, Handler
  <1>3. \A p \in WritePort : beats'[p] = beats[p] /\ pos'[p] = pos[p]
    <2>1. \A p \in WritePort : beats'[p] = beats[p]
      <3>1. beats' = Take(beats, "read") \/ beats' = beats
        BY DEF ReadRetrieveBeat, ReadDropDenied, Finish
      <3> QED
        BY <3>1, <1>2 DEF Take, Types, JobOK
    <2>2. \A p \in WritePort : pos'[p] = pos[p]
      <3>1. (\E r : pos' = [pos EXCEPT !["read"] = r]) \/ \E r : pos' = [pos EXCEPT !["read"].flit = r]
        BY DEF ReadRetrieveBeat, ReadDropDenied
      <3> QED
        BY <3>1, <1>2 DEF Types, JobOK
    <2> QED
      BY <2>1, <2>2
  <1>4. \A p \in ReadPort : rd'[p].addr = rd[p].addr
    <2>1. (\E r : rd' = [rd EXCEPT !["read"].data = r]) \/ rd' = rd
      BY Zenon DEF ReadRetrieveBeat, ReadDropDenied, axi
    <2> QED
      BY <2>1 DEF Types, RdOK
  <1> QED
    BY <1>1, <1>3, <1>4, SameGrows, FrameInv

-----------------------------------------------------------------------------
(* Bursts: the merger *)

\* The spans of beats and bursts are functions.
LEMMA SpanFuns ==
  /\ OfData \in [DataType(Nat) -> SpanType] /\ OfBack \in [BackType(Nat) -> SpanType]
  /\ OfBurst \in [Burst(Nat) -> SpanType] /\ \A p : OfWrite(p) \in [AwType(Nat) -> SpanType]
  <1>1. Spans(Nat) = SpanType
    BY DEF Spans, SpanType
  <1>2. /\ \A d \in DataType(Nat) : OfData[d] \in SpanType
        /\ \A w \in BackType(Nat) : OfBack[w] \in SpanType
        /\ \A b \in Burst(Nat) : OfBurst[b] \in SpanType
        /\ \A p : \A b \in AwType(Nat) : OfWrite(p)[b] \in SpanType
    BY <1>1, SpanOf
  <1>3. OfData \in [DataType(Nat) -> SpanType]
    BY <1>2 DEF OfData
  <1>4. OfBack \in [BackType(Nat) -> SpanType]
    BY <1>2 DEF OfBack
  <1>5. OfBurst \in [Burst(Nat) -> SpanType]
    BY <1>2 DEF OfBurst
  <1>6. ASSUME NEW p PROVE OfWrite(p) \in [AwType(Nat) -> SpanType]
    BY <1>2 DEF OfWrite
  <1> QED
    BY <1>3, <1>4, <1>5, <1>6

\* The beats and bursts of a port.
LEMMA NatSeqs ==
  ASSUME Types, NEW p \in WritePort
  PROVE  /\ wr[p].data \in Seq(DataType(Nat)) /\ wr[p].addr \in Seq(Burst(Nat))
         /\ Back(p) \in Seq(BackType(Nat)) /\ aw \in Seq(AwType(Nat))
  <1>1. Ids \subseteq Nat
    BY DEF Ids
  <1>2. wr[p].data \in Seq(DataType(Ids)) /\ wr[p].addr \in Seq(Burst(Ids))
    BY DEF Types, WrOK
  <1>3. Back(p) \in Seq(BackType(Ids))
    BY DEF Types, BackOK, Back
  <1>4. aw \in Seq(AwType(Ids))
    BY DEF Types, AxiOK
  <1> QED
    BY <1>1, <1>2, <1>3, <1>4, NatTypes, SeqMono

\* The spans of what has advanced.
LEMMA MapReplace ==
  ASSUME NEW T, NEW U, NEW f \in [T -> U], NEW s \in Seq(T), s # <<>>, NEW x \in T,
         NEW e \in Seq(T), e # <<>>, Head(e) = x, Tail(e) = Tail(s)
  PROVE  /\ Mapped(e, f) # <<>> /\ Head(Mapped(e, f)) = f[x]
         /\ Tail(Mapped(e, f)) = Tail(Mapped(s, f))
  <1>1. e \in Seq(T) /\ e # <<>> /\ Head(e) = x /\ Tail(e) = Tail(s)
    OBVIOUS
  <1>2. /\ Mapped(e, f) \in Seq(U) /\ Mapped(e, f) # <<>> /\ Head(Mapped(e, f)) = f[x]
        /\ Tail(Mapped(e, f)) = Mapped(Tail(e), f)
    <2>1. e \in Seq(T) /\ e # <<>> /\ Head(e) = x
      BY <1>1
    <2>2. /\ Mapped(e, f) \in Seq(U) /\ Mapped(e, f) # <<>> /\ Head(Mapped(e, f)) = f[Head(e)]
          /\ Mapped(Tail(e), f) = Tail(Mapped(e, f))
      BY <2>1, MapTail, ZenonT(40)
    <2> QED
      BY <2>1, <2>2, Zenon
  <1>3. Tail(Mapped(s, f)) = Mapped(Tail(s), f)
    BY MapTail, ZenonT(40)
  <1> QED
    BY <1>1, <1>2, <1>3

\* The bursts that are left.
LEMMA AdvanceEls ==
  ASSUME NEW B, NEW s \in Seq(B), s # <<>>, s[1].beats # 1 => Rest(s[1]) \in B
  PROVE  /\ Els(Advance(s)) \subseteq Els(s) \cup {Rest(s[1])}
         /\ s[1].beats = 1 => Els(Advance(s)) \subseteq Els(s)
         /\ s[1] \in Els(s)
  <1>1. Els(s) = {s[1]} \cup Els(Tail(s)) /\ s[1] \in B
    BY ElsTail
  <1>2. CASE s[1].beats = 1
    <2>1. Advance(s) = Tail(s)
      BY <1>2, Advances
    <2> QED
      BY <1>1, <1>2, <2>1
  <1>3. CASE s[1].beats # 1
    <2> DEFINE x == Rest(s[1])
    <2>0. x \in B
      BY <1>3
    <2>1. Advance(s) = [s EXCEPT ![1] = x]
      BY <1>3, Advances
    <2> HIDE DEF x
    <2>2. Advance(s) \in Seq(B) /\ Advance(s) # <<>> /\ Head(Advance(s)) = x /\ Tail(Advance(s)) = Tail(s)
      BY <2>0, <2>1, ReplaceHead
    <2>3. Els(Advance(s)) = {x} \cup Els(Tail(s))
      BY <2>2, ElsTail
    <2> QED
      BY <2>3, <1>1, <1>3 DEF x
  <1> QED
    BY <1>2, <1>3

\* The memory reads a beat.
LEMMA InvMemRead ==
  ASSUME Types, BurstsInv, NEW p \in ReadPort, MemRead(p)
  PROVE  BurstsInv'
  <1>1. UNCHANGED <<req, prep, aw, write_order, beats, pos, wr, writeback>>
    BY DEF MemRead, hist, handlers
  <1> DEFINE s == rd[p].addr
             b == s[1]
  <1>2. s \in Seq(Burst(Ids)) /\ s # <<>> /\ b \in Burst(Ids)
    BY DEF MemRead, Types, RdOK
  <1>3. rd'[p].addr = Advance(s) /\ \A q \in ReadPort : q # p => rd'[q] = rd[q]
    BY DEF MemRead, Types, RdOK
  <1>4. \A x \in Els(Advance(s)) : SamePage(x)
    <2>1. b.beats # 1 => /\ Rest(b) \in Burst(Ids) /\ Rest(b).addr = b.addr + FlitsPerBeat
                         /\ Rest(b).beats = b.beats - 1
      BY <1>2, RestOfBurst
    <2>2. /\ Els(Advance(s)) \subseteq Els(s) \cup {Rest(b)}
          /\ b.beats = 1 => Els(Advance(s)) \subseteq Els(s)
          /\ b \in Els(s)
      BY <1>2, <2>1, AdvanceEls
    <2>3. \A x \in Els(s) : SamePage(x)
      BY DEF BurstsInv, PagesOK
    <2>4. b.addr \in Nat /\ b.beats \in Nat \ {0} /\ SamePage(b)
      BY <1>2, <2>2, <2>3 DEF Burst
    <2> HIDE DEF b, s
    <2>5. b.beats # 1 => SamePage(Rest(b))
      BY <2>1, <2>4, RestSamePage
    <2> QED
      BY <2>2, <2>3, <2>5
  <1>5. PagesOK'
    <2>1. \A q \in ReadPort : \A x \in Els(rd'[q].addr) : SamePage(x)
      BY <1>3, <1>4 DEF BurstsInv, PagesOK
    <2> QED
      BY <1>1, <2>1, Zenon DEF BurstsInv, PagesOK
  <1>6. OrderOK'
    BY <1>1, FrameOrder DEF BurstsInv
  <1>7. ASSUME NEW q \in WritePort
        PROVE  JobsOK(q)' /\ MarksOK(q)' /\ AsksOK(q)' /\ FlowOK(q)'
    <2>1. JobsOK(q) /\ MarksOK(q) /\ AsksOK(q) /\ FlowOK(q) /\ q \in Handler
      BY DEF BurstsInv, WritePort, Handler
    <2>2. Back(q)' = Back(q) /\ Grows(req, req')
      BY <1>1, SameGrows DEF Back
    <2>3. JobsOK(q)' /\ MarksOK(q)' /\ AsksOK(q)'
      BY <1>1, <2>1, <2>2, FrameJobs, FrameMarks, FrameAsks
    <2>4. BeatsKept(q) /\ BurstsKept(q)
      BY <1>1, <2>1, <2>2, FrameBeats, FrameBursts
    <2> QED
      BY <2>1, <2>3, <2>4, FlowKept
  <1> QED
    BY <1>5, <1>6, <1>7 DEF BurstsInv

\* Bursts with the same place and length.
LEMMA SameBurst ==
  ASSUME NEW a, NEW b, a.addr = b.addr, a.beats = b.beats, a.id = b.id
  PROVE  /\ SamePage(b) => SamePage(a)
         /\ \A R, p : BurstIs(R, p, b) => BurstIs(R, p, a)
  BY Zenon DEF SamePage, BurstIs

\* Two sequences that get longer stay equally long.
LEMMA OrderAppend ==
  ASSUME aw \in Seq(AwType(Ids)), write_order \in Seq(WritePort), OrderOK,
         NEW a \in AwType(Ids), write_order' = Append(write_order, a.port), aw' = Append(aw, a)
  PROVE  OrderOK'
  <1> DEFINE n == Len(aw)
  <1>1. a.port \in WritePort
    BY DEF AwType
  <1>2. n \in Nat /\ Len(write_order) = n /\ DOMAIN aw = 1 .. n /\ \A i \in 1 .. n : aw[i].port = write_order[i]
    BY DEF OrderOK
  <1>3. /\ Len(aw') = n + 1 /\ DOMAIN aw' = 1 .. n + 1 /\ aw'[n + 1] = a
        /\ \A i \in 1 .. n : aw'[i] = aw[i]
    OBVIOUS
  <1>4. /\ Len(write_order') = n + 1 /\ write_order'[n + 1] = a.port
        /\ \A i \in 1 .. n : write_order'[i] = write_order[i]
    BY <1>1, <1>2
  <1> HIDE DEF n
  <1>5. ASSUME NEW i \in DOMAIN aw' PROVE aw'[i].port = write_order'[i]
    <2>1. CASE i = n + 1
      BY <2>1, <1>3, <1>4
    <2>2. CASE i # n + 1
      <3>1. i \in 1 .. n
        BY <2>2, <1>3, <1>2
      <3> QED
        BY <3>1, <1>2, <1>3, <1>4
    <2> QED
      BY <2>1, <2>2
  <1> QED
    BY <1>3, <1>4, <1>5 DEF OrderOK

\* fullfill_write
LEMMA InvFullfillWrite ==
  ASSUME Types, BurstsInv, NEW p \in WritePort, FullfillWrite(p)
  PROVE  BurstsInv'
  <1> DEFINE b == Head(wr[p].addr)
             a == [port |-> p, addr |-> b.addr, beats |-> b.beats, id |-> b.id]
  <1>1. /\ UNCHANGED <<req, prep, beats, pos, writeback, rd>>
        /\ wr[p].addr # <<>> /\ wr' = [wr EXCEPT ![p].addr = Tail(@)]
        /\ write_order' = Append(write_order, p) /\ aw' = Append(aw, a)
    BY DEF FullfillWrite, hist, handlers
  <1>2. /\ wr'[p].addr = Tail(wr[p].addr)
        /\ \A q \in WritePort : q # p => wr'[q].addr = wr[q].addr
        /\ \A q \in WritePort : wr'[q].data = wr[q].data
    BY <1>1 DEF Types, WrOK
  <1>3. Ids \subseteq Nat
    BY DEF Ids
  <1>4. wr[p].addr \in Seq(Burst(Ids)) /\ wr[p].addr \in Seq(Burst(Nat)) /\ aw \in Seq(AwType(Ids))
        /\ aw \in Seq(AwType(Nat)) /\ write_order \in Seq(WritePort)
    <2>1. wr[p].addr \in Seq(Burst(Nat)) /\ aw \in Seq(AwType(Nat))
      BY NatSeqs
    <2> QED
      BY <2>1 DEF Types, WrOK, AxiOK
  <1>5. b \in Burst(Ids) /\ Els(wr[p].addr) = {b} \cup Els(Tail(wr[p].addr))
    BY <1>1, <1>4, ElsTail
  <1>6. a \in AwType(Ids) /\ a \in AwType(Nat) /\ b \in Burst(Nat)
    <2>1. b.addr \in Nat /\ b.beats \in Nat \ {0} /\ b.id \in Ids
      BY <1>5 DEF Burst
    <2> HIDE DEF b
    <2>2. a \in AwType(Ids)
      BY <2>1 DEF AwType
    <2> HIDE DEF a
    <2> QED
      BY <2>2, <1>3, <1>5, NatTypes
  <1>7. a.addr = b.addr /\ a.beats = b.beats /\ a.id = b.id /\ a.port = p
    OBVIOUS
  <1> HIDE DEF a, b
  <1>8. Els(aw') = Els(aw) \cup {a}
    BY <1>1, <1>4, <1>6, ElsAppend
  <1>9. PagesOK'
    <2>1. SamePage(a)
      <3>1. SamePage(b)
        BY <1>5 DEF BurstsInv, PagesOK
      <3> QED
        BY <3>1, <1>7, SameBurst, Zenon
    <2>2. \A x \in Els(aw') : SamePage(x)
      BY <2>1, <1>8 DEF BurstsInv, PagesOK
    <2>3. \A q \in WritePort : \A x \in Els(wr'[q].addr) : SamePage(x)
      <3>1. \A q \in WritePort : Els(wr'[q].addr) \subseteq Els(wr[q].addr)
        BY <1>2, <1>5
      <3> QED
        BY <3>1 DEF BurstsInv, PagesOK
    <2> QED
      BY <2>2, <2>3, <1>1, Zenon DEF BurstsInv, PagesOK
  <1>10. OrderOK'
    BY <1>1, <1>4, <1>6, <1>7, OrderAppend DEF BurstsInv
  <1>11. ASSUME NEW q \in WritePort
         PROVE  JobsOK(q)' /\ MarksOK(q)' /\ AsksOK(q)' /\ FlowOK(q)'
    <2>1. JobsOK(q) /\ MarksOK(q) /\ AsksOK(q) /\ FlowOK(q) /\ q \in Handler
      BY DEF BurstsInv, WritePort, Handler
    <2>2. Back(q)' = Back(q) /\ Grows(req, req') /\ wr'[q].data = wr[q].data
      BY <1>1, <1>2, SameGrows DEF Back
    <2>3. JobsOK(q)' /\ MarksOK(q)' /\ BeatsKept(q)
      BY <1>1, <2>1, <2>2, FrameJobs, FrameMarks, FrameBeats
    <2>4. AsksOK(q)'
      <3>1. \A x \in Els(aw') : x.port = q => BurstIs(req, q, x)
        <4>1. a.port = q => BurstIs(req, q, a)
          <5>1. q = p => BurstIs(req, q, b)
            BY <2>1, <1>5 DEF AsksOK
          <5> QED
            BY <5>1, <1>7, SameBurst, Zenon
        <4> QED
          BY <4>1, <1>8, <2>1 DEF AsksOK
      <3>2. \A x \in Els(wr'[q].addr) : BurstIs(req, q, x)
        <4>1. Els(wr'[q].addr) \subseteq Els(wr[q].addr)
          BY <1>2, <1>5
        <4> QED
          BY <4>1, <2>1 DEF AsksOK
      <3> QED
        BY <3>1, <3>2, <1>1, <2>1, Zenon DEF AsksOK
    <2>5. BurstsKept(q)
      <3>1. Asks(q)' = Asks(q)
        BY <1>1 DEF Asks
      <3>2. OfWrite(q) \in [AwType(Nat) -> SpanType] /\ OfBurst \in [Burst(Nat) -> SpanType]
        BY SpanFuns
      <3>3. OfWrite(q)[a] \in SpanType /\ Issued(q)' = Append(Issued(q), OfWrite(q)[a])
        <4>1. /\ Mapped(aw', OfWrite(q)) = Append(Mapped(aw, OfWrite(q)), OfWrite(q)[a])
              /\ OfWrite(q)[a] \in SpanType
          <5>1. aw \in Seq(AwType(Nat)) /\ a \in AwType(Nat) /\ OfWrite(q) \in [AwType(Nat) -> SpanType]
                /\ aw' = Append(aw, a)
            BY <3>2, <1>1, <1>4, <1>6
          <5>2. OfWrite(q)[a] \in SpanType
            BY <5>1
          <5>3. Mapped(aw', OfWrite(q)) = Append(Mapped(aw, OfWrite(q)), OfWrite(q)[a])
            BY <5>1, MapAppend, Zenon
          <5> QED
            BY <5>2, <5>3
        <4>2. OfWrite(q)' = OfWrite(q)
          BY DEF OfWrite
        <4> QED
          BY <4>1, <4>2, <1>1, Zenon DEF Issued
      <3>4. /\ Issued(q) \in Seq(SpanType) /\ Asked(q) \in Seq(SpanType) /\ Asks(q) \in Seq(SpanType)
            /\ Stream(Issued(q), Asked(q), Asks(q))
        BY KeepsSpans, <2>1 DEF SpansOK, FlowOK
      <3>5. CASE q = p
        <4>1. /\ Asked(q) # <<>> /\ Head(Asked(q)) = OfBurst[b] /\ Asked(q)' = Tail(Asked(q))
          <5>1. /\ Mapped(wr[p].addr, OfBurst) # <<>> /\ Head(Mapped(wr[p].addr, OfBurst)) = OfBurst[b]
                /\ Mapped(Tail(wr[p].addr), OfBurst) = Tail(Mapped(wr[p].addr, OfBurst))
            <6>1. wr[p].addr \in Seq(Burst(Nat)) /\ wr[p].addr # <<>> /\ OfBurst \in [Burst(Nat) -> SpanType]
              BY <3>2, <1>1, <1>4
            <6> DEFINE T == Burst(Nat)
                       f == OfBurst
                       s == wr[p].addr
            <6> HIDE DEF T, f, s
            <6>2. s \in Seq(T) /\ s # <<>> /\ f \in [T -> SpanType]
              BY <6>1 DEF T, f, s
            <6>3. /\ Mapped(s, f) # <<>> /\ Head(Mapped(s, f)) = f[Head(s)]
                  /\ Mapped(Tail(s), f) = Tail(Mapped(s, f))
              BY <6>2, MapTail, ZenonT(40)
            <6> QED
              BY <6>3 DEF f, s, b
          <5> QED
            BY <5>1, <3>5, <1>2, Zenon DEF Asked
        <4>2. OfWrite(q)[a] = OfBurst[b]
          <5>1. OfWrite(q)[a] = [on |-> TRUE, id |-> a.id, lo |-> a.addr,
                                 hi |-> a.addr + a.beats * FlitsPerBeat]
            BY <1>6, <1>7, <3>5 DEF OfWrite
          <5>2. OfBurst[b] = [on |-> TRUE, id |-> b.id, lo |-> b.addr,
                              hi |-> b.addr + b.beats * FlitsPerBeat]
            BY <1>6 DEF OfBurst
          <5> QED
            BY <5>1, <5>2, <1>7
        <4>3. Same(Issued(q), Asked(q), Asks(q), Append(Issued(q), Head(Asked(q))), Tail(Asked(q)), Asks(q))
          BY <3>4, <4>1, StreamMove DEF Same
        <4> QED
          BY <4>1, <4>2, <4>3, <3>1, <3>3, Zenon DEF BurstsKept
      <3>6. CASE q # p
        <4>1. Asked(q)' = Asked(q)
          BY <3>6, <1>2 DEF Asked
        <4>2. ~ OfWrite(q)[a].on
          BY <3>6, <1>6, <1>7 DEF OfWrite
        <4>3. Same(Issued(q), Asked(q), Asks(q), Append(Issued(q), OfWrite(q)[a]), Asked(q), Asks(q))
          BY <3>3, <3>4, <4>2, StreamOff DEF Same
        <4> QED
          BY <4>1, <4>3, <3>1, <3>3, Zenon DEF BurstsKept
      <3> QED
        BY <3>5, <3>6
    <2> QED
      BY <2>1, <2>3, <2>4, <2>5, FlowKept
  <1> QED
    BY <1>9, <1>10, <1>11 DEF BurstsInv

\* The oldest burst of the merger.
LEMMA IssuedHead ==
  ASSUME NEW q, aw \in Seq(AwType(Nat)), aw # <<>>
  PROVE  /\ Issued(q) # <<>> /\ Head(Issued(q)) = OfWrite(q)[Head(aw)]
         /\ Mapped(Tail(aw), OfWrite(q)) = Tail(Issued(q))
  <1>1. OfWrite(q) \in [AwType(Nat) -> SpanType]
    BY SpanFuns
  <1> QED
    BY <1>1, MapTail, ZenonT(40) DEF Issued

\* The oldest beat of a port.
LEMMA DataHead ==
  ASSUME NEW p, wr[p].data \in Seq(DataType(Nat)), wr[p].data # <<>>
  PROVE  /\ Data(p) # <<>> /\ Head(Data(p)) = OfData[Head(wr[p].data)]
         /\ Mapped(Tail(wr[p].data), OfData) = Tail(Data(p))
  <1>1. OfData \in [DataType(Nat) -> SpanType]
    BY SpanFuns
  <1> DEFINE s == wr[p].data
             T == DataType(Nat)
             f == OfData
  <1>2. s \in Seq(T) /\ s # <<>> /\ f \in [T -> SpanType]
    BY <1>1
  <1> HIDE DEF s, T, f
  <1>3. /\ Mapped(s, f) # <<>> /\ Head(Mapped(s, f)) = f[Head(s)]
        /\ Mapped(Tail(s), f) = Tail(Mapped(s, f))
    BY <1>2, MapHead, MapRest, Zenon
  <1> QED
    BY <1>3 DEF Data, s, f

\* The beat that the merger takes next is the first one of the oldest burst.
LEMMA HeadBeat ==
  ASSUME Types, BurstsInv, write_order # <<>>, aw # <<>>, NEW p, p = Head(write_order),
         wr[p].data # <<>>, NEW d, d = Head(wr[p].data), NEW b, b = Head(aw)
  PROVE  /\ p \in WritePort /\ b.port = p /\ b.id = d.id /\ b.addr = d.addr
         /\ d.last <=> b.beats = 1
         /\ Data(p) # <<>> /\ Head(Data(p)) = OfData[d] /\ Data(p) \in Seq(SpanType)
         /\ d \in Els(wr[p].data) /\ d \in DataType(Nat) /\ b \in Els(aw) /\ b \in AwType(Nat)
  <1>1. write_order \in Seq(WritePort) /\ aw \in Seq(AwType(Nat)) /\ p \in WritePort
    <2>1. write_order \in Seq(WritePort)
      BY DEF Types, AxiOK
    <2>2. p \in WritePort
      BY <2>1
    <2> QED
      BY <2>1, <2>2, NatSeqs
  <1>2. wr[p].data \in Seq(DataType(Nat))
    BY <1>1, NatSeqs
  <1>3. /\ d \in Els(wr[p].data) /\ d \in DataType(Nat)
        /\ b \in Els(aw) /\ b \in AwType(Nat) /\ b = aw[1] /\ 1 \in DOMAIN aw /\ p = write_order[1]
    <2>1. d \in Els(wr[p].data) /\ d \in DataType(Nat)
      BY <1>2, ElsTail
    <2>2. b \in Els(aw) /\ b \in AwType(Nat) /\ b = aw[1] /\ 1 \in DOMAIN aw
      BY <1>1, ElsTail
    <2>3. p = write_order[1]
      BY <1>1
    <2> QED
      BY <2>1, <2>2, <2>3
  <1>4. b.port = p
    BY <1>3 DEF BurstsInv, OrderOK
  <1>5. DataIs(req, p, d) /\ BurstIs(req, p, b) /\ FlowOK(p)
    BY <1>1, <1>3, <1>4 DEF BurstsInv, MarksOK, AsksOK
  <1>6. /\ Data(p) \in Seq(SpanType) /\ Backs(p) \in Seq(SpanType) /\ Jobs(p) \in Seq(SpanType)
        /\ Issued(p) \in Seq(SpanType) /\ Asked(p) \in Seq(SpanType) /\ Asks(p) \in Seq(SpanType)
    BY <1>1, KeepsSpans DEF SpansOK
  <1>7. Data(p) # <<>> /\ Head(Data(p)) = OfData[d]
    <2>1. OfData \in [DataType(Nat) -> SpanType]
      BY SpanFuns
    <2> QED
      BY <2>1, <1>2, MapTail, ZenonT(40) DEF Data
  <1>8. Issued(p) # <<>> /\ Head(Issued(p)) = OfWrite(p)[b]
    BY <1>1, IssuedHead, Zenon
  <1>9. /\ d.addr \in Nat /\ d.id \in Nat /\ b.addr \in Nat /\ b.id \in Nat /\ b.beats \in Nat \ {0}
        /\ d.last \in BOOLEAN
    BY <1>3, <1>5 DEF DataIs, DataType, AwType
  <1>10. /\ Head(Data(p)).on /\ Head(Data(p)).id = d.id /\ Head(Data(p)).lo = d.addr
         /\ Head(Data(p)).lo < Head(Data(p)).hi
    <2>1. OfData[d] = [on |-> TRUE, id |-> d.id, lo |-> d.addr, hi |-> d.addr + FlitsPerBeat]
      BY <1>3 DEF OfData
    <2> QED
      BY <2>1, <1>7, <1>9, Sizes
  <1>11. /\ Head(Issued(p)).on /\ Head(Issued(p)).id = b.id /\ Head(Issued(p)).lo = b.addr
         /\ Head(Issued(p)).lo < Head(Issued(p)).hi
    <2>1. OfWrite(p)[b] = [on |-> TRUE, id |-> b.id, lo |-> b.addr,
                           hi |-> b.addr + b.beats * FlitsPerBeat]
      BY <1>3, <1>4 DEF OfWrite
    <2> DEFINE m == b.beats * FlitsPerBeat
    <2>2. m \in Nat /\ m > 0
      <3> DEFINE k == (b.beats - 1) * FlitsPerBeat
      <3>1. m = k + FlitsPerBeat /\ k \in Nat
        BY <1>9, Sizes, OneLess
      <3> HIDE DEF k, m
      <3> QED
        BY <3>1, Sizes
    <2>3. Head(Issued(p)) = [on |-> TRUE, id |-> b.id, lo |-> b.addr, hi |-> b.addr + m]
      BY <2>1, <1>8
    <2> HIDE DEF m
    <2>4. b.addr < b.addr + m
      BY <2>2, <1>9
    <2> QED
      BY <2>3, <2>4
  <1>12. b.id = d.id /\ b.addr = d.addr
    <2>1. /\ Pending(Data(p), Backs(p), Jobs(p), d.id, d.addr)
          /\ \A id \in Nat, a \in Int : Pending(Data(p), Backs(p), Jobs(p), id, a) =>
                id > d.id \/ (id = d.id /\ a >= d.addr)
      BY <1>5, <1>6, <1>7, <1>10, StreamFirst DEF FlowOK
    <2>2. /\ Pending(Issued(p), Asked(p), Asks(p), b.id, b.addr)
          /\ \A id \in Nat, a \in Int : Pending(Issued(p), Asked(p), Asks(p), id, a) =>
                id > b.id \/ (id = b.id /\ a >= b.addr)
      BY <1>5, <1>6, <1>8, <1>11, StreamFirst DEF FlowOK
    <2>3. /\ Pending(Data(p), Backs(p), Jobs(p), b.id, b.addr)
          /\ Pending(Issued(p), Asked(p), Asks(p), d.id, d.addr)
      BY <2>1, <2>2, <1>5, <1>9, Zenon DEF FlowOK
    <2>4. b.id > d.id \/ (b.id = d.id /\ b.addr >= d.addr)
      BY <2>1, <2>3, <1>9, SMTT(30)
    <2>5. d.id > b.id \/ (d.id = b.id /\ d.addr >= b.addr)
      BY <2>2, <2>3, <1>9
    <2> QED
      BY <2>4, <2>5, <1>9
  <1>13. d.last <=> b.beats = 1
    <2> DEFINE q == req[b.id]
               hi == b.addr + b.beats * FlitsPerBeat
               e == b.addr + FlitsPerBeat
    <2>1. d.last <=> EndsBurst(q, e)
      BY <1>5, <1>12 DEF DataIs
    <2>2. EndsBurst(q, hi) /\ \A x \in Int : b.addr < x /\ x < hi => ~ EndsBurst(q, x)
      BY <1>5 DEF BurstIs
    <2> HIDE DEF q
    <2>3. b.beats = 1 => hi = e
      BY <1>9, Sizes
    <2>4. b.beats # 1 => e \in Int /\ b.addr < e /\ e < hi
      <3>1. /\ b.beats * FlitsPerBeat = (b.beats - 1) * FlitsPerBeat + FlitsPerBeat
            /\ (b.beats - 1) * FlitsPerBeat \in Nat
            /\ b.beats # 1 => (b.beats - 1) * FlitsPerBeat >= FlitsPerBeat
        BY <1>9, Sizes, OneLess
      <3> QED
        BY <3>1, <1>9, Sizes, SMTT(30)
    <2> HIDE DEF hi, e
    <2> QED
      BY <2>1, <2>2, <2>3, <2>4, Zenon
  <1> QED
    BY <1>1, <1>3, <1>4, <1>6, <1>7, <1>12, <1>13

\* The spans of the bursts of the merger when the oldest one advances.
LEMMA AdvanceSpans ==
  ASSUME NEW q, aw \in Seq(AwType(Nat)), aw # <<>>, aw' = Advance(aw), NEW b, b = Head(aw)
  PROVE  /\ Issued(q) # <<>> /\ Head(Issued(q)) = OfWrite(q)[b]
         /\ b.beats = 1 => Issued(q)' = Tail(Issued(q))
         /\ b.beats # 1 => /\ Issued(q)' # <<>> /\ Tail(Issued(q)') = Tail(Issued(q))
                           /\ Head(Issued(q)') = OfWrite(q)[Rest(b)]
                           /\ Rest(b) \in AwType(Nat)
  <1>1. OfWrite(q) \in [AwType(Nat) -> SpanType] /\ OfWrite(q)' = OfWrite(q)
    BY SpanFuns DEF OfWrite
  <1>2. /\ Issued(q) # <<>> /\ Head(Issued(q)) = OfWrite(q)[b]
        /\ Mapped(Tail(aw), OfWrite(q)) = Tail(Issued(q))
    BY IssuedHead, Zenon
  <1>3. b = aw[1] /\ b \in AwType(Nat)
    OBVIOUS
  <1>4. CASE b.beats = 1
    <2>1. aw' = Tail(aw)
      BY <1>3, <1>4, Advances
    <2> QED
      BY <2>1, <1>1, <1>2, <1>4, Zenon DEF Issued
  <1>5. CASE b.beats # 1
    <2>1. aw' = [aw EXCEPT ![1] = Rest(b)]
      BY <1>3, <1>5, Advances
    <2>2. Rest(b) \in AwType(Nat)
      BY <1>3, <1>5, RestOfWrite
    <2>3. /\ Mapped(aw', OfWrite(q)) # <<>> /\ Head(Mapped(aw', OfWrite(q))) = OfWrite(q)[Rest(b)]
          /\ Tail(Mapped(aw', OfWrite(q))) = Tail(Mapped(aw, OfWrite(q)))
      <3>1. aw' \in Seq(AwType(Nat)) /\ aw' # <<>> /\ Head(aw') = Rest(b) /\ Tail(aw') = Tail(aw)
        BY <2>1, <2>2, ReplaceHead
      <3> QED
        BY <3>1, <2>2, <1>1, MapReplace, Zenon
    <2> QED
      BY <2>2, <2>3, <1>1, <1>2, <1>5, Zenon DEF Issued
  <1> QED
    BY <1>4, <1>5

\* What is left of a burst ends where the burst ends.
LEMMA RestIs ==
  ASSUME NEW R, NEW p, NEW b, b.addr \in Nat, b.beats \in Nat \ {0}, b.beats # 1, BurstIs(R, p, b),
         NEW c, c.addr = b.addr + FlitsPerBeat, c.beats = b.beats - 1, c.id = b.id
  PROVE  BurstIs(R, p, c) /\ c.addr + c.beats * FlitsPerBeat = b.addr + b.beats * FlitsPerBeat
  <1> DEFINE m == b.beats * FlitsPerBeat
             k == (b.beats - 1) * FlitsPerBeat
  <1>1. m = k + FlitsPerBeat /\ k \in Nat /\ m \in Nat
    BY Sizes, OneLess
  <1>2. c.addr + c.beats * FlitsPerBeat = (b.addr + FlitsPerBeat) + k
    OBVIOUS
  <1> HIDE DEF k, m
  <1>3. c.addr + c.beats * FlitsPerBeat = b.addr + m
    BY <1>1, <1>2, Sizes
  <1> DEFINE hi == b.addr + m
  <1>4. hi \in Nat /\ \A e \in Int : c.addr < e /\ e < hi => b.addr < e /\ e < hi
    BY <1>1, Sizes
  <1>5. /\ Writer(R, p, b.id) /\ EndsBurst(R[b.id], hi)
        /\ \A e \in Int : b.addr < e /\ e < hi => ~ EndsBurst(R[b.id], e)
    BY DEF BurstIs, m
  <1> HIDE DEF hi
  <1>6. /\ Writer(R, p, c.id) /\ EndsBurst(R[c.id], hi)
        /\ \A e \in Int : c.addr < e /\ e < hi => ~ EndsBurst(R[c.id], e)
    BY <1>4, <1>5, Zenon
  <1>7. c.addr + c.beats * FlitsPerBeat = hi
    BY <1>3 DEF hi
  <1>8. BurstIs(R, p, c)
    BY <1>6, <1>7 DEF BurstIs
  <1> QED
    BY <1>3, <1>8 DEF m

\* The merger and the memory agree on whose beat comes next.
LEMMA OrderAdvance ==
  ASSUME aw \in Seq(AwType(Nat)), aw # <<>>, write_order \in Seq(WritePort), OrderOK, aw' = Advance(aw),
         write_order' = IF aw[1].beats = 1 THEN Tail(write_order) ELSE write_order
  PROVE  OrderOK'
  <1> DEFINE n == Len(aw)
  <1>1. n \in Nat /\ n >= 1 /\ Len(write_order) = n /\ \A i \in 1 .. n : aw[i].port = write_order[i]
    BY DEF OrderOK
  <1>2. CASE aw[1].beats = 1
    <2>1. aw' = Tail(aw) /\ write_order' = Tail(write_order) /\ write_order # <<>>
      BY <1>1, <1>2, Advances
    <2>2. Len(aw') = n - 1 /\ DOMAIN aw' = 1 .. n - 1 /\ \A i \in 1 .. n - 1 : aw'[i] = aw[i + 1]
      BY <2>1
    <2>3. Len(write_order') = n - 1 /\ \A i \in 1 .. n - 1 : write_order'[i] = write_order[i + 1]
      BY <2>1, <1>1
    <2> HIDE DEF n
    <2>4. \A i \in 1 .. n - 1 : aw'[i].port = write_order'[i]
      <3> TAKE i \in 1 .. n - 1
      <3>1. i + 1 \in 1 .. n
        BY <1>1
      <3> QED
        BY <3>1, <2>2, <2>3, <1>1
    <2> QED
      BY <2>2, <2>3, <2>4 DEF OrderOK
  <1>3. CASE aw[1].beats # 1
    <2> DEFINE r == Rest(aw[1])
    <2>0. aw[1] \in AwType(Nat)
      OBVIOUS
    <2>1. aw' = [aw EXCEPT ![1] = r] /\ write_order' = write_order
      BY <1>3, Advances
    <2>2. r.port = aw[1].port
      BY <1>3, <2>0, RestOfWrite
    <2> HIDE DEF r
    <2>3. Len(aw') = n /\ DOMAIN aw' = 1 .. n /\ aw'[1] = r /\ \A i \in 1 .. n : i # 1 => aw'[i] = aw[i]
      BY <2>1, <1>1
    <2>4. \A i \in 1 .. n : aw'[i].port = write_order[i]
      BY <2>2, <2>3, <1>1
    <2> QED
      BY <2>1, <2>3, <2>4, <1>1 DEF OrderOK
  <1> QED
    BY <1>2, <1>3

\* A beat reaches the memory: the burst it belongs to shrinks by it.
LEMMA FlowMeets ==
  ASSUME Types, Types', BurstsInv, NEW p \in WritePort, aw # <<>>, wr[p].data # <<>>,
         NEW d, d = Head(wr[p].data), NEW b, b = Head(aw), b \in AwType(Nat), d \in DataType(Nat),
         b.port = p, b.id = d.id, b.addr = d.addr, aw' = Advance(aw), wr'[p].data = Tail(wr[p].data),
         wr'[p].addr = wr[p].addr, Back(p)' = Back(p), UNCHANGED <<req, beats, pos, prep>>
  PROVE  FlowOK(p)'
  <1>4. wr[p].data \in Seq(DataType(Nat)) /\ aw \in Seq(AwType(Nat))
    BY NatSeqs
  <1>14. Data(p) # <<>> /\ Head(Data(p)) = OfData[d] /\ Data(p)' = Tail(Data(p))
    <2>1. /\ Data(p) # <<>> /\ Head(Data(p)) = OfData[d]
          /\ Mapped(Tail(wr[p].data), OfData) = Tail(Data(p))
      BY <1>4, DataHead, Zenon
    <2> QED
      BY <2>1, Zenon DEF Data
  <1>15. /\ Issued(p) # <<>> /\ Head(Issued(p)) = OfWrite(p)[b]
         /\ b.beats = 1 => Issued(p)' = Tail(Issued(p))
         /\ b.beats # 1 => /\ Issued(p)' # <<>> /\ Tail(Issued(p)') = Tail(Issued(p))
                           /\ Head(Issued(p)') = OfWrite(p)[Rest(b)] /\ Rest(b) \in AwType(Nat)
    <2>1. aw \in Seq(AwType(Nat)) /\ aw # <<>> /\ aw' = Advance(aw) /\ b = Head(aw)
      BY <1>4
    <2> QED
      BY <2>1, AdvanceSpans
  <1> DEFINE X == Data(p)
             Y == Backs(p)
             Z == Jobs(p)
             U == Issued(p)
             V == Asked(p)
             W == Asks(p)
             X2 == Data(p)'
             U2 == Issued(p)'
             cut == b.addr + FlitsPerBeat
  <1>1. Backs(p)' = Y /\ Jobs(p)' = Z /\ Asked(p)' = V /\ Asks(p)' = W
    BY Zenon DEF Backs, Jobs, Asked, Asks
  <1>2. /\ X \in Seq(SpanType) /\ Y \in Seq(SpanType) /\ Z \in Seq(SpanType)
        /\ U \in Seq(SpanType) /\ V \in Seq(SpanType) /\ W \in Seq(SpanType)
        /\ X2 \in Seq(SpanType) /\ U2 \in Seq(SpanType)
    BY KeepsSpans, NextSpans DEF SpansOK
  <1>3. /\ Stream(X, Y, Z) /\ Stream(U, V, W)
        /\ \A id \in Nat, a \in Nat : Pending(X, Y, Z, id, a) <=> Pending(U, V, W, id, a)
    BY DEF BurstsInv, FlowOK
  <1>5. b.addr \in Nat /\ b.beats \in Nat \ {0} /\ cut \in Int
    BY Sizes DEF AwType
  <1>6. X # <<>> /\ Head(X) = OfData[d] /\ X2 = Tail(X)
    BY <1>14
  <1>7. OfData[d] = [on |-> TRUE, id |-> b.id, lo |-> b.addr, hi |-> cut]
    BY DEF OfData
  <1>8. Head(X).on /\ Head(X).id = b.id /\ Head(X).lo = b.addr /\ Shrinks(X, cut, X2)
    <2> HIDE DEF X, X2, cut
    <2>1. Head(X).on /\ Head(X).id = b.id /\ Head(X).lo = b.addr /\ Head(X).hi = cut
      BY <1>6, <1>7
    <2> QED
      BY <2>1, <1>6, Zenon DEF Shrinks
  <1>9. OfWrite(p)[b] = [on |-> TRUE, id |-> b.id, lo |-> b.addr, hi |-> b.addr + b.beats * FlitsPerBeat]
    BY DEF OfWrite
  <1>10. U # <<>> /\ Head(U).on /\ Head(U).id = b.id /\ Head(U).lo = b.addr /\ Shrinks(U, cut, U2)
    <2>1. /\ U # <<>> /\ Head(U) = OfWrite(p)[b]
          /\ b.beats = 1 => U2 = Tail(U)
          /\ b.beats # 1 => /\ U2 # <<>> /\ Tail(U2) = Tail(U)
                            /\ Head(U2) = OfWrite(p)[Rest(b)] /\ Rest(b) \in AwType(Nat)
      BY <1>15
    <2> DEFINE hi == b.addr + b.beats * FlitsPerBeat
    <2> HIDE DEF U, U2, hi
    <2>2. Head(U).on /\ Head(U).id = b.id /\ Head(U).lo = b.addr /\ Head(U).hi = hi
      BY <2>1, <1>9 DEF hi
    <2>3. CASE b.beats = 1
      <3>1. cut = hi
        BY <2>3, <1>5, Sizes DEF hi
      <3> QED
        BY <3>1, <2>1, <2>2, <2>3 DEF Shrinks
    <2>4. CASE b.beats # 1
      <3> DEFINE r == Rest(b)
      <3>1. r.addr = cut /\ r.beats = b.beats - 1 /\ r.id = b.id /\ r.port = p /\ r \in AwType(Nat)
        BY <2>4, RestOfWrite
      <3> HIDE DEF r
      <3>2. BurstIs(req, p, b)
        <4>1. b \in Els(aw)
          BY <1>4, ElsTail
        <4> QED
          BY <4>1 DEF BurstsInv, AsksOK
      <3>3. r.addr + r.beats * FlitsPerBeat = hi
        BY <3>1, <3>2, <2>4, <1>5, RestIs DEF hi
      <3>4. OfWrite(p)[r] = [on |-> TRUE, id |-> r.id, lo |-> r.addr, hi |-> r.addr + r.beats * FlitsPerBeat]
        BY <3>1 DEF OfWrite
      <3>5. OfWrite(p)[r] = [on |-> TRUE, id |-> b.id, lo |-> cut, hi |-> hi]
        BY <3>1, <3>3, <3>4
      <3>6. /\ U2 # <<>> /\ Tail(U2) = Tail(U)
            /\ Head(U2).on /\ Head(U2).id = b.id /\ Head(U2).lo = cut /\ Head(U2).hi = hi
        BY <3>5, <2>1, <2>4 DEF r
      <3>7. b.addr <= cut /\ cut <= hi
        <4> DEFINE m == b.beats * FlitsPerBeat
                   k == (b.beats - 1) * FlitsPerBeat
        <4>1. m = k + FlitsPerBeat /\ k \in Nat
          BY <1>5, Sizes, OneLess
        <4>2. hi = b.addr + m
          BY DEF hi
        <4> HIDE DEF k, m
        <4> QED
          BY <4>1, <4>2, <1>5, Sizes
      <3> HIDE DEF cut
      <3> QED
        BY <3>6, <3>7, <2>1, <2>2 DEF Shrinks
    <2> QED
      BY <2>3, <2>4
  <1> HIDE DEF X, Y, Z, U, V, W, X2, U2, cut
  <1>11. /\ Stream(X2, Y, Z)
         /\ \A id \in Nat, a \in Int :
               Pending(X2, Y, Z, id, a)
                  <=> Pending(X, Y, Z, id, a) /\ ~ (id = b.id /\ b.addr <= a /\ a < cut)
    <2>1. /\ Stream(X2, Y, Z)
          /\ \A id \in Nat, a \in Int :
                Pending(X2, Y, Z, id, a)
                   <=> Pending(X, Y, Z, id, a) /\ ~ (id = Head(X).id /\ Head(X).lo <= a /\ a < cut)
      <3>1. X # <<>> /\ Head(X).on /\ Shrinks(X, cut, X2) /\ cut \in Int
        BY <1>5, <1>6, <1>8
      <3> QED
        BY <3>1, <1>2, <1>3, StreamConsume, Zenon
    <2> QED
      BY <2>1, <1>8, Zenon
  <1>12. /\ Stream(U2, V, W)
         /\ \A id \in Nat, a \in Int :
               Pending(U2, V, W, id, a)
                  <=> Pending(U, V, W, id, a) /\ ~ (id = b.id /\ b.addr <= a /\ a < cut)
    <2>1. /\ Stream(U2, V, W)
          /\ \A id \in Nat, a \in Int :
                Pending(U2, V, W, id, a)
                   <=> Pending(U, V, W, id, a) /\ ~ (id = Head(U).id /\ Head(U).lo <= a /\ a < cut)
      BY <1>2, <1>3, <1>5, <1>10, StreamConsume, Zenon
    <2> QED
      BY <2>1, <1>10, Zenon
  <1>13. \A id \in Nat, a \in Nat : Pending(X2, Y, Z, id, a) <=> Pending(U2, V, W, id, a)
    <2>1. \A a \in Nat : a \in Int
      OBVIOUS
    <2> QED
      BY <2>1, <1>3, <1>11, <1>12, Zenon
  <1> QED
    BY <1>1, <1>11, <1>12, <1>13, Zenon DEF FlowOK, X, Y, Z, U, V, W, X2, U2

\* forward_write_data of the merger
LEMMA InvForwardWriteData ==
  ASSUME Types, Types', BurstsInv, ForwardWriteData
  PROVE  BurstsInv'
  <1>1. PICK p, d, b : p = Head(write_order) /\ d = Head(wr[p].data) /\ b = Head(aw)
    OBVIOUS
  <1>2. /\ UNCHANGED <<req, prep, beats, pos, writeback, rd>>
        /\ write_order # <<>> /\ aw # <<>> /\ wr[p].data # <<>>
        /\ wr' = [wr EXCEPT ![p].data = Tail(@)] /\ aw' = Advance(aw)
        /\ write_order' = IF d.last THEN Tail(write_order) ELSE write_order
    <2>1. UNCHANGED <<req, prep, beats, pos, writeback, rd>>
      BY DEF ForwardWriteData, hist, handlers
    <2>2. /\ write_order # <<>> /\ aw # <<>> /\ wr[p].data # <<>>
          /\ wr' = [wr EXCEPT ![p].data = Tail(@)] /\ aw' = Advance(aw)
          /\ write_order' = IF d.last THEN Tail(write_order) ELSE write_order
      BY <1>1 DEF ForwardWriteData
    <2> QED
      BY <2>1, <2>2
  <1>3. /\ p \in WritePort /\ b.port = p /\ b.id = d.id /\ b.addr = d.addr
        /\ d.last <=> b.beats = 1
        /\ d \in Els(wr[p].data) /\ d \in DataType(Nat) /\ b \in Els(aw) /\ b \in AwType(Nat)
    BY <1>1, <1>2, HeadBeat
  <1>4. aw \in Seq(AwType(Nat)) /\ aw \in Seq(AwType(Ids)) /\ write_order \in Seq(WritePort) /\ b = aw[1]
    <2>1. aw \in Seq(AwType(Nat))
      BY <1>3, NatSeqs
    <2>2. aw \in Seq(AwType(Ids)) /\ write_order \in Seq(WritePort)
      BY DEF Types, AxiOK
    <2>3. b = aw[1]
      BY <2>1, <1>1, <1>2
    <2> QED
      BY <2>1, <2>2, <2>3
  <1>5. /\ wr'[p].data = Tail(wr[p].data)
        /\ \A q \in WritePort : wr'[q].addr = wr[q].addr
        /\ \A q \in WritePort : q # p => wr'[q].data = wr[q].data
    BY <1>2, <1>3 DEF Types, WrOK
  <1>6. b.beats # 1 => /\ Rest(b) \in AwType(Nat) /\ Rest(b).addr = b.addr + FlitsPerBeat
                       /\ Rest(b).beats = b.beats - 1 /\ Rest(b).id = b.id /\ Rest(b).port = b.port
    BY <1>3, RestOfWrite
  <1>7. /\ Els(aw') \subseteq Els(aw) \cup {Rest(b)}
        /\ b.beats = 1 => Els(aw') \subseteq Els(aw)
    BY <1>2, <1>4, <1>6, AdvanceEls
  <1>8. b.addr \in Nat /\ b.beats \in Nat \ {0}
    BY <1>3 DEF AwType
  <1>9. PagesOK'
    <2>1. \A x \in Els(aw) : SamePage(x)
      BY DEF BurstsInv, PagesOK
    <2>2. b.beats # 1 => SamePage(Rest(b))
      BY <2>1, <1>3, <1>6, <1>8, RestSamePage
    <2>3. \A x \in Els(aw') : SamePage(x)
      BY <2>1, <2>2, <1>7
    <2> QED
      BY <2>3, <1>2, <1>5, Zenon DEF BurstsInv, PagesOK
  <1>10. OrderOK'
    <2>1. write_order' = IF aw[1].beats = 1 THEN Tail(write_order) ELSE write_order
      BY <1>2, <1>3, <1>4, Zenon
    <2> QED
      BY <2>1, <1>2, <1>4, OrderAdvance DEF BurstsInv
  <1>11. ASSUME NEW q \in WritePort
         PROVE  JobsOK(q)' /\ MarksOK(q)' /\ AsksOK(q)' /\ FlowOK(q)'
    <2>1. JobsOK(q) /\ MarksOK(q) /\ AsksOK(q) /\ FlowOK(q) /\ q \in Handler
      BY DEF BurstsInv, WritePort, Handler
    <2>2. Back(q)' = Back(q) /\ Grows(req, req') /\ wr'[q].addr = wr[q].addr
      BY <1>2, <1>5, SameGrows DEF Back
    <2>3. JobsOK(q)'
      BY <1>2, <2>1, <2>2, FrameJobs
    <2>4. MarksOK(q)'
      <3>1. Els(wr'[q].data) \subseteq Els(wr[q].data)
        <4>1. wr[p].data \in Seq(DataType(Nat)) /\ wr[p].data # <<>>
          BY <1>2, <1>3, NatSeqs
        <4>2. Els(Tail(wr[p].data)) \subseteq Els(wr[p].data)
          BY <4>1, ElsTail
        <4> QED
          BY <4>2, <1>5
      <3> QED
        BY <3>1, <2>1, <2>2, <1>2, Zenon DEF MarksOK
    <2>5. AsksOK(q)'
      <3>1. b.beats # 1 /\ q = p => BurstIs(req, q, Rest(b))
        <4>1. q = p => BurstIs(req, q, b)
          BY <2>1, <1>3 DEF AsksOK
        <4> QED
          BY <4>1, <1>6, <1>8, RestIs
      <3>2. b.beats # 1 /\ Rest(b).port = q => BurstIs(req, q, Rest(b))
        BY <3>1, <1>3, <1>6
      <3>3. \A x \in Els(aw') : x.port = q => BurstIs(req, q, x)
        <4>1. \A x \in Els(aw) : x.port = q => BurstIs(req, q, x)
          BY <2>1 DEF AsksOK
        <4> QED
          BY <4>1, <3>2, <1>7
      <3> QED
        BY <3>3, <2>1, <2>2, <1>2, Zenon DEF AsksOK
    <2>6. CASE q = p
      <3>1. FlowOK(p)'
        BY <2>2, <2>6, <1>1, <1>2, <1>3, <1>5, FlowMeets
      <3> QED
        BY <3>1, <2>3, <2>4, <2>5, <2>6
    <2>7. CASE q # p
      <3>1. BeatsKept(q)
        BY <2>1, <2>2, <2>7, <1>2, <1>5, FrameBeats
      <3>2. Asked(q)' = Asked(q) /\ Asks(q)' = Asks(q)
        BY <1>2, <2>2, Zenon DEF Asked, Asks
      <3>3. /\ Issued(q) # <<>> /\ Head(Issued(q)) = OfWrite(q)[b]
            /\ b.beats = 1 => Issued(q)' = Tail(Issued(q))
            /\ b.beats # 1 => /\ Issued(q)' # <<>> /\ Tail(Issued(q)') = Tail(Issued(q))
                              /\ Head(Issued(q)') = OfWrite(q)[Rest(b)]
        BY <1>1, <1>2, <1>4, AdvanceSpans
      <3>4. ~ OfWrite(q)[b].on /\ (b.beats # 1 => ~ OfWrite(q)[Rest(b)].on)
        BY <1>3, <1>6, <2>7 DEF OfWrite
      <3>5. ~ Head(Issued(q)).on /\ Idles(Issued(q), Issued(q)')
        BY <3>3, <3>4, Zenon DEF Idles
      <3>6. /\ Issued(q) \in Seq(SpanType) /\ Asked(q) \in Seq(SpanType) /\ Asks(q) \in Seq(SpanType)
            /\ Issued(q)' \in Seq(SpanType) /\ Stream(Issued(q), Asked(q), Asks(q))
        BY KeepsSpans, NextSpans, <2>1 DEF SpansOK, FlowOK
      <3>7. Same(Issued(q), Asked(q), Asks(q), Issued(q)', Asked(q), Asks(q))
        BY <3>3, <3>5, <3>6, StreamIdle, Zenon DEF Same
      <3>8. BurstsKept(q)
        BY <3>2, <3>7, Zenon DEF BurstsKept
      <3> QED
        BY <3>1, <3>8, <2>1, <2>3, <2>4, <2>5, FlowKept
    <2> QED
      BY <2>6, <2>7
  <1> QED
    BY <1>9, <1>10, <1>11 DEF BurstsInv

-----------------------------------------------------------------------------
(* Bursts: requests *)

\* A function on the first n numbers.
Lists(b, n) == b = [i \in 1 .. n |-> b[i]]

\* A sequence with one more element.
LEMMA IsAppend ==
  ASSUME NEW T, NEW m \in Seq(T), NEW z \in T, NEW n, Len(m) = n, NEW b,
         Lists(b, n + 1), \A i \in 1 .. n : b[i] = m[i], b[n + 1] = z
  PROVE  b = Append(m, z)
  <1> DEFINE c == Append(m, z)
  <1>1. c \in Seq(T) /\ Len(c) = n + 1 /\ n \in Nat /\ (\A i \in 1 .. n : c[i] = m[i]) /\ c[n + 1] = z
    OBVIOUS
  <1> HIDE DEF c
  <1>2. c = [i \in 1 .. n + 1 |-> c[i]]
    BY <1>1
  <1>3. \A i \in 1 .. n + 1 : b[i] = c[i]
    <2> TAKE i \in 1 .. n + 1
    <2>1. i \in 1 .. n \/ i = n + 1
      BY <1>1
    <2> QED
      BY <2>1, <1>1
  <1>4. b = c
    BY <1>2, <1>3 DEF Lists
  <1> QED
    BY <1>4 DEF c

\* The span of a job before its first flit.
WholeSpan(R, j) == [on |-> ~ j.denied, id |-> j.id, lo |-> Begin(R[j.id]), hi |-> End(R[j.id])]

\* A sequence has got one more element.
Longer(t, s, x) == t = Append(s, x)

\* A handler gets another job.
LEMMA AppendJob ==
  ASSUME NEW R, NEW R2, Grows(R, R2), NEW jobs \in Seq(JobType(DOMAIN R)), NEW left,
         jobs = <<>> => left = 0, NEW j, NEW jobs2, Longer(jobs2, jobs, j),
         JobSpans(R, jobs, left) \in Seq(SpanType), WholeSpan(R2, j) \in SpanType
  PROVE  Longer(JobSpans(R2, jobs2, left), JobSpans(R, jobs, left), WholeSpan(R2, j))
  <1> DEFINE n == Len(jobs)
             z == WholeSpan(R2, j)
             m == JobSpans(R2, jobs, left)
             b == JobSpans(R2, jobs2, left)
  <1>1. m = JobSpans(R, jobs, left)
    BY GrowJobs
  <1>2. /\ n \in Nat /\ DOMAIN jobs = 1 .. n /\ DOMAIN jobs2 = 1 .. n + 1
        /\ (\A i \in 1 .. n : jobs2[i] = jobs[i]) /\ jobs2[n + 1] = j /\ (n = 0 => jobs = <<>>)
    BY DEF Longer
  <1>3. m \in Seq(SpanType) /\ Len(m) = n
    <2>1. DOMAIN m = 1 .. n
      BY <1>2 DEF JobSpans
    <2>2. m \in Seq(SpanType)
      BY <1>1
    <2> HIDE DEF m
    <2> QED
      BY <2>1, <2>2, <1>2
  <1>4. Lists(b, n + 1)
    BY <1>2 DEF JobSpans, Lists
  <1>5. \A i \in 1 .. n : b[i] = m[i]
    <2>1. \A i \in 1 .. n : i \in DOMAIN jobs /\ i \in DOMAIN jobs2
      BY <1>2
    <2> QED
      BY <2>1, <1>2, Zenon DEF JobSpans
  <1>6. b[n + 1] = z
    <2>1. ~ (n + 1 = 1 /\ left # 0)
      BY <1>2
    <2>2. n + 1 \in DOMAIN jobs2
      BY <1>2
    <2> QED
      BY <2>1, <2>2, <1>2, Zenon DEF JobSpans, WholeSpan
  <1> HIDE DEF b, m, n
  <1> DEFINE y == z
  <1>7. b[n + 1] = y /\ y \in SpanType
    BY <1>6
  <1> HIDE DEF y
  <1>8. b = Append(m, y)
    BY <1>3, <1>4, <1>5, <1>7, IsAppend
  <1> QED
    BY <1>1, <1>8 DEF b, y, Longer

\* A handler gets another request to ask for.
LEMMA AppendAsk ==
  ASSUME NEW T, NEW p, p.requests \in Seq(T), p.requests = <<>> => p.left = 0, NEW r, NEW p2,
         p2.requests = Append(p.requests, r), p2.left = p.left, p2.addr = p.addr,
         AskSpans(p) \in Seq(SpanType), NEW z \in SpanType,
         z = [on |-> TRUE, id |-> r.id, lo |-> r.addr, hi |-> r.addr + r.beats * FlitsPerBeat]
  PROVE  AskSpans(p2) = Append(AskSpans(p), z)
  <1> DEFINE s == p.requests
             s2 == p2.requests
             n == Len(s)
             m == AskSpans(p)
             b == AskSpans(p2)
  <1>2. /\ n \in Nat /\ DOMAIN s = 1 .. n /\ DOMAIN s2 = 1 .. n + 1
        /\ (\A i \in 1 .. n : s2[i] = s[i]) /\ s2[n + 1] = r /\ (n = 0 => s = <<>>)
    OBVIOUS
  <1>3. m \in Seq(SpanType) /\ Len(m) = n
    <2>1. DOMAIN m = 1 .. n
      BY <1>2 DEF AskSpans
    <2>2. m \in Seq(SpanType)
      OBVIOUS
    <2> HIDE DEF m
    <2> QED
      BY <2>1, <2>2, <1>2
  <1>4. Lists(b, n + 1)
    BY <1>2 DEF AskSpans, Lists
  <1>5. \A i \in 1 .. n : b[i] = m[i]
    <2>1. \A i \in 1 .. n : i \in DOMAIN s /\ i \in DOMAIN s2
      BY <1>2
    <2> QED
      BY <2>1, <1>2, Zenon DEF AskSpans
  <1>6. b[n + 1] = z
    <2>1. ~ (n + 1 = 1 /\ p2.left # 0)
      BY <1>2
    <2>2. n + 1 \in DOMAIN s2
      BY <1>2
    <2> QED
      BY <2>1, <2>2, <1>2, Zenon DEF AskSpans
  <1> HIDE DEF b, m, n, s, s2
  <1> DEFINE y == z
  <1>7. b[n + 1] = y /\ y \in SpanType
    BY <1>6
  <1> HIDE DEF y
  <1>8. b = Append(m, y)
    BY <1>3, <1>4, <1>5, <1>7, IsAppend
  <1> QED
    BY <1>8 DEF b, m, y

\* What the method start hands on.
NewJob(q, id) == [denied |-> Denied(q), flits |-> Flits(q), slot |-> FirstSlot(q.addr), id |-> id]
NewAsk(q, id) == [addr |-> BeatAddr(q.addr), beats |-> Beats(q), id |-> id]

\* A burst handler is started.
LEMMA StartFacts ==
  ASSUME Types, NEW h \in Handler, NEW q, NEW id, Start(h, q, id), h = "rmw" => ~ Denied(q)
  PROVE  /\ beats'[h] = Append(beats[h], NewJob(q, id))
         /\ \A g \in Handler : g # h => beats'[g] = beats[g] /\ prep'[g] = prep[g]
         /\ Denied(q) => prep'[h] = prep[h]
         /\ ~ Denied(q) => /\ prep'[h].requests = Append(prep[h].requests, NewAsk(q, id))
                           /\ prep'[h].left = prep[h].left /\ prep'[h].addr = prep[h].addr
  <1> DEFINE j == NewJob(q, id)
             r == NewAsk(q, id)
  <1>1. beats' = [beats EXCEPT ![h] = Append(@, j)]
    BY DEF Start, NewJob
  <1>2. Denied(q) => prep' = prep
    BY DEF Start
  <1>3. ~ Denied(q) => prep' = [prep EXCEPT ![h].requests = Append(@, r)]
    BY DEF Start, NewAsk
  <1> HIDE DEF j, r
  <1>4. beats'[h] = Append(beats[h], j) /\ \A g \in Handler : g # h => beats'[g] = beats[g]
    BY <1>1 DEF Types, JobOK
  <1>5. \A g \in Handler : g # h => prep'[g] = prep[g]
    BY <1>2, <1>3 DEF Types, PrepOK
  <1>6. ASSUME ~ Denied(q)
        PROVE  /\ prep'[h].requests = Append(prep[h].requests, r)
               /\ prep'[h].left = prep[h].left /\ prep'[h].addr = prep[h].addr
    BY <1>3, <1>6 DEF Types, PrepOK
  <1> QED
    BY <1>2, <1>4, <1>5, <1>6 DEF j, r

\* The new job is the last one of its handler.
LEMMA StartJobs ==
  ASSUME Types, NEW h \in Handler, JobsOK(h), NEW q \in Fitting, req' = Append(req, q), q.op \in Role(h),
         NEW id, id = Len(req) + 1, beats'[h] = Append(beats[h], NewJob(q, id)), UNCHANGED pos
  PROVE  JobsOK(h)'
  <1>1. req \in Seq(Fitting)
    BY DEF Types, HistOK
  <1>2. Grows(req, req') /\ id \in DOMAIN req' /\ req'[id] = q
    BY <1>1, AppendGrows
  <1> DEFINE j == NewJob(q, id)
             s == beats[h]
             n == Len(s)
  <1>3. j.id = id /\ j.flits = Flits(q) /\ j.slot = FirstSlot(q.addr) /\ (j.denied <=> Denied(q))
    <2> DEFINE o == Denied(q)
    <2>1. j = [denied |-> o, flits |-> Flits(q), slot |-> FirstSlot(q.addr), id |-> id]
      BY DEF NewJob
    <2> HIDE DEF o, j
    <2>2. j.id = id /\ j.flits = Flits(q) /\ j.slot = FirstSlot(q.addr)
      BY <2>1
    <2>3. j.denied = o
      BY <2>1
    <2> QED
      BY <2>2, <2>3 DEF o
  <1>4. JobIs(req', h, j)
    BY <1>2, <1>3, Zenon DEF JobIs
  <1>5. j \in JobType(1 .. Len(req) + 1)
    <2>1. Flits(q) \in 1 .. Words /\ FirstSlot(q.addr) \in Slot /\ Denied(q) \in BOOLEAN
      BY RequestSizes
    <2>2. id \in 1 .. Len(req) + 1
      BY <1>1
    <2> QED
      BY <2>1, <2>2 DEF NewJob, JobType
  <1>6. s \in Seq(JobType(Ids)) /\ s \in Seq(JobType(1 .. Len(req) + 1))
    <2>1. s \in Seq(JobType(Ids))
      BY DEF Types, JobOK
    <2>2. Ids \subseteq 1 .. Len(req) + 1
      BY <1>1 DEF Ids
    <2>3. JobType(Ids) \subseteq JobType(1 .. Len(req) + 1)
      BY <2>2 DEF JobType
    <2> QED
      BY <2>1, <2>3, SeqMono
  <1>7. n \in Nat /\ DOMAIN s = 1 .. n /\ \A i \in 1 .. n : s[i].id \in 1 .. Len(req)
    <2>1. n \in Nat /\ DOMAIN s = 1 .. n /\ \A i \in 1 .. n : s[i] \in JobType(Ids)
      BY <1>6
    <2> QED
      BY <2>1 DEF JobType, Ids
  <1> HIDE DEF j
  <1>8. beats'[h] = Append(s, j)
    BY DEF j
  <1>9. Els(beats'[h]) = Els(s) \cup {j}
    BY <1>5, <1>6, <1>8, ElsAppend
  <1>10. /\ DOMAIN beats'[h] = 1 .. n + 1 /\ beats'[h][n + 1] = j
         /\ \A i \in 1 .. n : beats'[h][i] = s[i]
    BY <1>5, <1>6, <1>8
  <1>11. \A x \in Els(s) : JobIs(req', h, x) /\ req'[x.id] = req[x.id]
    <2>1. \A x : JobIs(req, h, x) => JobIs(req', h, x) /\ req'[x.id] = req[x.id]
      BY <1>2, GrowFacts, Zenon
    <2> QED
      BY <2>1, Zenon DEF JobsOK
  <1>12. \A i, k \in DOMAIN beats'[h] : i < k => beats'[h][i].id < beats'[h][k].id
    <2> TAKE i, k \in DOMAIN beats'[h]
    <2> HAVE i < k
    <2>1. i \in 1 .. n /\ beats'[h][i] = s[i]
      BY <1>7, <1>10
    <2>2. CASE k = n + 1
      BY <2>1, <2>2, <1>1, <1>3, <1>7, <1>10
    <2>3. CASE k # n + 1
      <3>1. k \in 1 .. n /\ beats'[h][k] = s[k]
        BY <2>3, <1>7, <1>10
      <3> QED
        BY <2>1, <3>1, <1>7 DEF JobsOK
    <2> QED
      BY <2>2, <2>3
  <1>13. ASSUME pos[h].flit # 0
         PROVE  /\ beats'[h] # <<>> /\ Job(h)' = Job(h) /\ req'[Job(h).id] = req[Job(h).id]
    <2>1. s # <<>>
      BY <1>13 DEF JobsOK
    <2>2. Job(h) = s[1] /\ Job(h) \in Els(s)
      BY <2>1, <1>6, ElsTail DEF Job
    <2>3. beats'[h] # <<>> /\ Head(beats'[h]) = s[1]
      BY <2>1, <1>5, <1>6, <1>8
    <2>4. Job(h)' = Head(beats'[h])
      BY DEF Job
    <2> QED
      BY <2>2, <2>3, <2>4, <1>11
  <1>14. \A x \in Els(beats'[h]) : JobIs(req', h, x)
    BY <1>4, <1>9, <1>11
  <1>15. pos[h].flit # 0 =>
           /\ beats'[h] # <<>> /\ pos[h].flit < Job(h)'.flits
           /\ IF Job(h)'.denied THEN pos[h].last # MaxBeats - 1 ELSE AtFlit(req'[Job(h)'.id], pos[h])
    BY <1>13, Zenon DEF JobsOK
  <1>16. pos[h].flit = 0 => pos[h].last # MaxBeats - 1
    BY DEF JobsOK
  <1> QED
    BY <1>12, <1>14, <1>15, <1>16, Zenon DEF JobsOK

\* The new request is the last one its handler asks for.
LEMMA StartAsks ==
  ASSUME Types, NEW p \in WritePort, AsksOK(p), NEW q \in Fitting, ~ Denied(q), req' = Append(req, q),
         q.op \in Role(p), NEW id, id = Len(req) + 1,
         prep'[p].requests = Append(prep[p].requests, NewAsk(q, id)),
         prep'[p].left = prep[p].left, prep'[p].addr = prep[p].addr,
         UNCHANGED aw, wr'[p].addr = wr[p].addr
  PROVE  AsksOK(p)'
  <1>1. req \in Seq(Fitting) /\ p \in Handler
    BY DEF Types, HistOK, WritePort, Handler
  <1>2. Grows(req, req') /\ id \in DOMAIN req' /\ req'[id] = q
    BY <1>1, AppendGrows
  <1> DEFINE r == NewAsk(q, id)
             s == prep[p].requests
  <1>3. r.id = id /\ r.addr = Begin(q) /\ r.beats = Beats(q)
    BY DEF NewAsk, Begin
  <1>4. Writer(req', p, r.id) /\ r.addr = Begin(req'[r.id]) /\ r.beats = Beats(req'[r.id])
    BY <1>2, <1>3, Zenon DEF Writer
  <1> DEFINE T == {r} \cup Burst(Ids)
  <1>5. s \in Seq(Burst(Ids)) /\ s \in Seq(T) /\ r \in T
    <2>1. s \in Seq(Burst(Ids))
      BY <1>1 DEF Types, PrepOK
    <2>2. Burst(Ids) \subseteq T /\ r \in T
      OBVIOUS
    <2> HIDE DEF r, s, T
    <2> QED
      BY <2>1, <2>2, SeqMono
  <1> HIDE DEF r, T
  <1>6. prep'[p].requests = Append(s, r)
    BY DEF r
  <1>7. Els(prep'[p].requests) = Els(s) \cup {r}
    BY <1>5, <1>6, ElsAppend
  <1>8. \A id2 : Writer(req, p, id2) => Writer(req', p, id2) /\ req'[id2] = req[id2]
    BY <1>2, Zenon DEF Grows, Writer
  <1>9. \A x \in Els(s) : /\ Writer(req', p, x.id) /\ req'[x.id] = req[x.id]
                          /\ x.addr = Begin(req'[x.id]) /\ x.beats = Beats(req'[x.id])
    <2>1. \A x \in Els(s) : Writer(req, p, x.id) /\ x.addr = Begin(req[x.id]) /\ x.beats = Beats(req[x.id])
      BY DEF AsksOK
    <2>2. \A x \in Els(s) : Writer(req', p, x.id) /\ req'[x.id] = req[x.id]
      BY <2>1, <1>8, Zenon
    <2> QED
      BY <2>1, <2>2
  <1>10. \A x \in Els(prep'[p].requests) :
            Writer(req', p, x.id) /\ x.addr = Begin(req'[x.id]) /\ x.beats = Beats(req'[x.id])
    BY <1>4, <1>7, <1>9
  <1>11. /\ \A b \in Els(aw) : b.port = p => BurstIs(req', p, b)
         /\ \A b \in Els(wr[p].addr) : BurstIs(req', p, b)
    <2>1. \A b : BurstIs(req, p, b) => BurstIs(req', p, b)
      BY <1>2, GrowFacts, Zenon
    <2> QED
      BY <2>1, Zenon DEF AsksOK
  <1>12. ASSUME prep[p].left # 0
         PROVE  LET k == req'[Head(prep'[p].requests).id]
                IN  /\ prep[p].addr + prep[p].left * FlitsPerBeat = End(k)
                    /\ (prep[p].addr - Begin(k)) % Page = 0
    <2>1. s # <<>>
      BY <1>1, <1>12 DEF Types, PrepOK
    <2>2. Head(s) \in Els(s)
      BY <2>1, <1>5, ElsTail
    <2>3. Head(prep'[p].requests) = Head(s)
      <3>1. Head(Append(s, r)) = Head(s)
        BY <2>1, <1>5
      <3> QED
        BY <3>1, <1>6
    <2>4. req'[Head(prep'[p].requests).id] = req[Head(s).id]
      BY <2>2, <2>3, <1>9
    <2> QED
      BY <2>4, <1>12 DEF AsksOK
  <1> QED
    BY <1>10, <1>11, <1>12, Zenon DEF AsksOK

\* The new request comes after everything that is pending.
LEMMA StartFlow ==
  ASSUME Types, NEW p \in WritePort, JobsOK(p), FlowOK(p), NEW q \in Fitting, req' = Append(req, q),
         NEW id, id = Len(req) + 1, beats'[p] = Append(beats[p], NewJob(q, id)),
         Denied(q) => prep'[p] = prep[p],
         ~ Denied(q) => /\ prep'[p].requests = Append(prep[p].requests, NewAsk(q, id))
                        /\ prep'[p].left = prep[p].left /\ prep'[p].addr = prep[p].addr,
         UNCHANGED <<aw, wr, pos, writeback>>
  PROVE  FlowOK(p)'
  <1>1. req \in Seq(Fitting) /\ p \in Handler /\ id \in Nat
    BY DEF Types, HistOK, WritePort, Handler
  <1>2. Grows(req, req') /\ id \in DOMAIN req' /\ req'[id] = q
    BY <1>1, AppendGrows
  <1>3. Data(p)' = Data(p) /\ Backs(p)' = Backs(p) /\ Issued(p)' = Issued(p) /\ Asked(p)' = Asked(p)
    <2>1. Back(p)' = Back(p)
      BY DEF Back
    <2> QED
      BY <2>1, Zenon DEF Data, Backs, Issued, Asked, OfWrite, OfData, OfBack, OfBurst
  <1> DEFINE X == Data(p)
             Y == Backs(p)
             Z == Jobs(p)
             U == Issued(p)
             V == Asked(p)
             W == Asks(p)
             o == ~ Denied(q)
             z == [on |-> o, id |-> id, lo |-> Begin(q), hi |-> End(q)]
  <1>4. o \in BOOLEAN /\ Begin(q) \in Int /\ End(q) \in Int
    <2>1. BeatAddr(q.addr) \in Nat /\ Beats(q) \in Nat
      BY RequestSizes
    <2>2. Beats(q) * FlitsPerBeat \in Nat
      BY <2>1, Sizes
    <2> HIDE DEF o
    <2>3. Begin(q) \in Int /\ End(q) \in Int
      BY <2>1, <2>2 DEF Begin, End
    <2> QED
      BY <2>3 DEF o
  <1> HIDE DEF o
  <1>5. z \in SpanType /\ z.id = id /\ z.on = o
    BY <1>1, <1>4 DEF SpanType
  <1>6. /\ X \in Seq(SpanType) /\ Y \in Seq(SpanType) /\ Z \in Seq(SpanType)
        /\ U \in Seq(SpanType) /\ V \in Seq(SpanType) /\ W \in Seq(SpanType)
    BY KeepsSpans DEF SpansOK
  <1>7. /\ Stream(X, Y, Z) /\ Stream(U, V, W)
        /\ \A i \in Nat, a \in Nat : Pending(X, Y, Z, i, a) <=> Pending(U, V, W, i, a)
    BY DEF FlowOK
  <1>8. /\ \A x \in Els(X) \cup Els(Y) \cup Els(Z) : x.id < id
        /\ \A x \in Els(U) \cup Els(V) \cup Els(W) : x.id < id
    <2>1. \A x \in Spans(Ids) : x.id < id
      BY <1>1 DEF Spans, Ids
    <2>2. /\ X \in Seq(Spans(Ids)) /\ Y \in Seq(Spans(Ids)) /\ Z \in Seq(Spans(Ids))
          /\ U \in Seq(Spans(Ids)) /\ V \in Seq(Spans(Ids)) /\ W \in Seq(Spans(Ids))
      BY SpanTypes
    <2> HIDE DEF X, Y, Z, U, V, W
    <2>3. \A s \in Seq(Spans(Ids)) : Els(s) \subseteq Spans(Ids)
      BY ElsType
    <2> QED
      BY <2>1, <2>2, <2>3
  <1>9. Jobs(p)' = Append(Z, z)
    <2> DEFINE j == NewJob(q, id)
    <2>1. beats[p] \in Seq(JobType(DOMAIN req))
      <3>1. DOMAIN req = Ids
        BY <1>1 DEF Ids
      <3> QED
        BY <3>1, <1>1 DEF Types, JobOK
    <2>2. beats[p] = <<>> => pos[p].flit = 0
      BY DEF JobsOK
    <2>3. z = WholeSpan(req', j)
      <3>1. j.id = id /\ j.denied = Denied(q)
        BY DEF NewJob
      <3> HIDE DEF j
      <3> QED
        BY <3>1, <1>2, Zenon DEF o, WholeSpan
    <2>4. JobSpans(req', beats'[p], pos[p].flit) = Append(JobSpans(req, beats[p], pos[p].flit), z)
      <3>1. JobSpans(req, beats[p], pos[p].flit) \in Seq(SpanType)
        BY <1>6 DEF Jobs
      <3>2. z \in SpanType
        BY <1>5
      <3>3. beats'[p] = Append(beats[p], j)
        OBVIOUS
      <3> HIDE DEF z, j, X, Y, Z, U, V, W
      <3> DEFINE R == req
                 R2 == req'
                 jobs == beats[p]
                 jobs2 == beats'[p]
                 left == pos[p].flit
      <3>4. /\ Grows(R, R2) /\ jobs \in Seq(JobType(DOMAIN R)) /\ (jobs = <<>> => left = 0)
            /\ Longer(jobs2, jobs, j) /\ JobSpans(R, jobs, left) \in Seq(SpanType)
            /\ WholeSpan(R2, j) \in SpanType
        BY <3>1, <3>2, <3>3, <2>1, <2>2, <2>3, <1>2 DEF Longer
      <3> HIDE DEF R, R2, jobs, jobs2, left
      <3>5. Longer(JobSpans(R2, jobs2, left), JobSpans(R, jobs, left), WholeSpan(R2, j))
        BY <3>4, AppendJob, Zenon
      <3> QED
        BY <3>5, <2>3 DEF R, R2, jobs, jobs2, left, Longer
    <2> HIDE DEF z
    <2> QED
      BY <2>4, Zenon DEF Jobs
  <1>10. IF o THEN Asks(p)' = Append(W, z) ELSE Asks(p)' = W
    <2>1. CASE ~ o
      <3>1. prep'[p] = prep[p]
        BY <2>1 DEF o
      <3> QED
        BY <3>1, <2>1 DEF Asks
    <2>2. CASE o
      <3> DEFINE r == NewAsk(q, id)
      <3>1. /\ prep'[p].requests = Append(prep[p].requests, r)
            /\ prep'[p].left = prep[p].left /\ prep'[p].addr = prep[p].addr
        BY <2>2 DEF o
      <3>2. prep[p].requests \in Seq(Burst(Ids)) /\ (prep[p].requests = <<>> => prep[p].left = 0)
        BY <1>1 DEF Types, PrepOK
      <3>3. z = [on |-> TRUE, id |-> r.id, lo |-> r.addr, hi |-> r.addr + r.beats * FlitsPerBeat]
        <4>1. r.id = id /\ r.addr = BeatAddr(q.addr) /\ r.beats = Beats(q)
          BY DEF NewAsk
        <4>2. o = TRUE
          BY <2>2, <1>4
        <4> HIDE DEF r
        <4> QED
          BY <4>1, <4>2 DEF Begin, End
      <3>4. AskSpans(prep[p]) \in Seq(SpanType)
        BY <1>6 DEF Asks
      <3>5. z \in SpanType
        BY <1>5
      <3> HIDE DEF z, r
      <3>6. AskSpans(prep'[p]) = Append(AskSpans(prep[p]), z)
        BY <3>1, <3>2, <3>3, <3>4, <3>5, AppendAsk
      <3>7. Asks(p)' = Append(W, z)
        BY <3>6, Zenon DEF Asks
      <3> QED
        BY <3>7, <2>2
    <2> QED
      BY <2>1, <2>2, <1>4
  <1> HIDE DEF X, Y, Z, U, V, W, z
  <1>11. /\ Stream(X, Y, Append(Z, z))
         /\ \A i \in Nat, a \in Int :
               Pending(X, Y, Append(Z, z), i, a) <=> Pending(X, Y, Z, i, a) \/ Covers(z, i, a)
    BY <1>5, <1>6, <1>7, <1>8, StreamMore
  <1>12. CASE o
    <2>1. /\ Stream(U, V, Append(W, z))
          /\ \A i \in Nat, a \in Int :
               Pending(U, V, Append(W, z), i, a) <=> Pending(U, V, W, i, a) \/ Covers(z, i, a)
      BY <1>5, <1>6, <1>7, <1>8, StreamMore
    <2> DEFINE ZZ == Append(Z, z)
               WW == Append(W, z)
    <2> HIDE DEF ZZ, WW
    <2>2. \A i \in Nat, a \in Nat : Pending(X, Y, ZZ, i, a) <=> Pending(U, V, WW, i, a)
      <3>1. \A a \in Nat : a \in Int
        OBVIOUS
      <3> QED
        BY <3>1, <2>1, <1>7, <1>11, Zenon DEF ZZ, WW
    <2>3. Asks(p)' = WW /\ Jobs(p)' = ZZ /\ Stream(X, Y, ZZ) /\ Stream(U, V, WW)
      BY <1>9, <1>10, <1>11, <1>12, <2>1 DEF ZZ, WW
    <2> QED
      BY <2>2, <2>3, <1>3, Zenon DEF FlowOK, X, Y, U, V
  <1>13. CASE ~ o
    <2> DEFINE ZZ == Append(Z, z)
    <2> HIDE DEF ZZ
    <2>1. \A i, a : ~ Covers(z, i, a)
      BY <1>5, <1>13, Zenon DEF Covers
    <2>2. \A i \in Nat, a \in Nat : Pending(X, Y, ZZ, i, a) <=> Pending(U, V, W, i, a)
      <3>1. \A a \in Nat : a \in Int
        OBVIOUS
      <3> QED
        BY <3>1, <2>1, <1>7, <1>11, Zenon DEF ZZ
    <2>3. Asks(p)' = W /\ Jobs(p)' = ZZ /\ Stream(X, Y, ZZ)
      BY <1>9, <1>10, <1>11, <1>13 DEF ZZ
    <2> QED
      BY <2>2, <2>3, <1>3, <1>7, Zenon DEF FlowOK, X, Y, U, V, W
  <1> QED
    BY <1>12, <1>13

\* The method start of a burst handler
LEMMA InvStart ==
  ASSUME Types, BurstsInv, AtomicsAligned', NEW h \in Handler, NEW q \in Fitting, req' = Append(req, q),
         Start(h, q, Len(req) + 1), h \in WritePort => q.op \in Role(h),
         UNCHANGED <<pos, wr, rd, aw, write_order, writeback>>
  PROVE  BurstsInv'
  <1> DEFINE id == Len(req) + 1
             r == NewAsk(q, id)
  <1>1. req \in Seq(Fitting)
    BY DEF Types, HistOK
  <1>2. Grows(req, req') /\ id \in DOMAIN req' /\ req'[id] = q
    BY <1>1, AppendGrows
  <1>3. h = "rmw" => ~ Denied(q)
    <2>1. h = "rmw" => q.op \in RMWOp
      BY DEF Role, WritePort
    <2> QED
      BY <2>1, <1>2 DEF AtomicsAligned
  <1> HIDE DEF id
  <1>4. /\ beats'[h] = Append(beats[h], NewJob(q, id))
        /\ \A g \in Handler : g # h => beats'[g] = beats[g] /\ prep'[g] = prep[g]
        /\ Denied(q) => prep'[h] = prep[h]
        /\ ~ Denied(q) => /\ prep'[h].requests = Append(prep[h].requests, r)
                          /\ prep'[h].left = prep[h].left /\ prep'[h].addr = prep[h].addr
    <2>1. Start(h, q, id)
      BY DEF id
    <2> QED
      BY <2>1, <1>3, StartFacts
  <1>5. \A g \in Handler : /\ \A x \in Els(prep'[g].requests) : Askable(x)
                           /\ prep'[g].left # 0 => prep'[g].addr % Page = 0
    <2> TAKE g \in Handler
    <2>1. /\ \A x \in Els(prep[g].requests) : Askable(x)
          /\ prep[g].left # 0 => prep[g].addr % Page = 0
      BY DEF BurstsInv, PagesOK
    <2>2. CASE prep'[g] = prep[g]
      BY <2>1, <2>2
    <2>3. CASE prep'[g] # prep[g]
      <3>1. g = h /\ ~ Denied(q)
        BY <2>3, <1>4
      <3>2. r.addr = BeatAddr(q.addr) /\ r.beats = Beats(q)
        BY DEF NewAsk
      <3>3. Askable(r)
        BY <3>1, <3>2, AskableRequest
      <3> DEFINE s == prep[h].requests
                 B == Burst(Ids)
      <3>4. s \in Seq(B)
        BY DEF Types, PrepOK
      <3> HIDE DEF r, B
      <3>5. Els(prep'[h].requests) = Els(s) \cup {r}
        <4>1. prep'[h].requests = Append(s, r)
          BY <3>1, <1>4
        <4> DEFINE t == prep'[h].requests
        <4>2. t = Append(s, r)
          BY <4>1
        <4> HIDE DEF s, t
        <4>3. Els(t) = Els(s) \cup {r}
          BY <4>2, <3>4, ElsMore, Zenon
        <4> QED
          BY <4>3 DEF t
      <3> QED
        BY <2>1, <3>1, <3>3, <3>5, <1>4
    <2> QED
      BY <2>2, <2>3
  <1>6. PagesOK'
    BY <1>5, Zenon DEF BurstsInv, PagesOK
  <1>7. OrderOK'
    BY FrameOrder DEF BurstsInv
  <1>8. ASSUME NEW p \in WritePort
        PROVE  JobsOK(p)' /\ MarksOK(p)' /\ AsksOK(p)' /\ FlowOK(p)'
    <2>1. JobsOK(p) /\ MarksOK(p) /\ AsksOK(p) /\ FlowOK(p) /\ p \in Handler
      BY DEF BurstsInv, WritePort, Handler
    <2>2. Back(p)' = Back(p)
      BY DEF Back
    <2>3. MarksOK(p)'
      BY <2>1, <2>2, <1>2, FrameMarks
    <2>4. CASE p # h
      <3>1. beats'[p] = beats[p] /\ prep'[p] = prep[p]
        BY <2>1, <2>4, <1>4
      <3>2. JobsOK(p)' /\ AsksOK(p)'
        BY <3>1, <2>1, <1>2, FrameJobs, FrameAsks
      <3>3. BeatsKept(p) /\ BurstsKept(p)
        BY <3>1, <2>1, <2>2, <1>2, FrameBeats, FrameBursts
      <3> QED
        BY <3>2, <3>3, <2>1, <2>3, FlowKept
    <2>5. CASE p = h
      <3>1. /\ q.op \in Role(p) /\ id = Len(req) + 1
            /\ beats'[p] = Append(beats[p], NewJob(q, id))
            /\ Denied(q) => prep'[p] = prep[p]
            /\ ~ Denied(q) => /\ prep'[p].requests = Append(prep[p].requests, NewAsk(q, id))
                              /\ prep'[p].left = prep[p].left /\ prep'[p].addr = prep[p].addr
        BY <2>5, <1>4 DEF id
      <3>2. JobsOK(p)'
        BY <3>1, <2>1, StartJobs
      <3>3. FlowOK(p)'
        BY <3>1, <2>1, StartFlow
      <3>4. AsksOK(p)'
        <4>1. CASE Denied(q)
          BY <4>1, <3>1, <2>1, <1>2, FrameAsks
        <4>2. CASE ~ Denied(q)
          BY <4>2, <3>1, <2>1, StartAsks
        <4> QED
          BY <4>1, <4>2
      <3> QED
        BY <3>2, <3>3, <3>4, <2>3
    <2> QED
      BY <2>4, <2>5
  <1> QED
    BY <1>6, <1>7, <1>8 DEF BurstsInv

\* startRead, startWrite and startRMW
LEMMA InvStarts ==
  ASSUME Types, BurstsInv, AtomicsAligned', StartRead \/ StartWrite \/ StartRMW
  PROVE  BurstsInv'
  <1> DEFINE q == Head(todo)
  <1>1. q \in Fitting /\ req' = Append(req, q)
    <2>1. todo # <<>> /\ req' = Append(req, q)
      BY DEF StartRead, StartWrite, StartRMW, Accept
    <2> QED
      BY <2>1 DEF Types, HistOK
  <1>2. UNCHANGED <<pos, wr, rd, aw, write_order, writeback>>
    BY DEF StartRead, StartWrite, StartRMW, Accept, axi
  <1>3. CASE StartRead
    <2>1. Start("read", q, Len(req) + 1) /\ "read" \in Handler /\ ~ ("read" \in WritePort)
      BY <1>3 DEF StartRead, Handler, WritePort
    <2> QED
      BY <2>1, <1>1, <1>2, InvStart
  <1>4. CASE StartWrite
    <2>1. Start("write", q, Len(req) + 1) /\ "write" \in Handler /\ q.op \in Role("write")
      BY <1>4 DEF StartWrite, Accept, Handler, Role
    <2> QED
      BY <2>1, <1>1, <1>2, InvStart
  <1>5. CASE StartRMW
    <2>1. Start("rmw", q, Len(req) + 1) /\ "rmw" \in Handler /\ q.op \in Role("rmw")
      BY <1>5 DEF StartRMW, Accept, Handler, Role
    <2> QED
      BY <2>1, <1>1, <1>2, InvStart
  <1> QED
    BY <1>3, <1>4, <1>5

-----------------------------------------------------------------------------
(* Bursts: prepare_request *)

AskLeft(p) == IF p.left = 0 THEN Head(p.requests).beats ELSE p.left
AskAddr(p) == IF p.left = 0 THEN Head(p.requests).addr ELSE p.addr
AskMore(p) == AskLeft(p) > MaxBeats
Cut(p) == [addr |-> AskAddr(p), beats |-> IF AskMore(p) THEN MaxBeats ELSE AskLeft(p),
           id |-> Head(p.requests).id]
AskRest(p) == [requests |-> IF AskMore(p) THEN p.requests ELSE Tail(p.requests),
               left |-> IF AskMore(p) THEN AskLeft(p) - MaxBeats ELSE 0,
               addr |-> AskAddr(p) + Page]

\* Products of differences.
LEMMA Distribute ==
  ASSUME NEW k \in Int, NEW m \in Int, NEW f \in Int
  PROVE  (k - m) * f = k * f - m * f /\ k * f \in Int /\ m * f \in Int
  OBVIOUS

\* More beats take more flits.
LEMMA ScaleUp ==
  ASSUME NEW k \in Nat, NEW m \in Nat, NEW f \in Nat, k <= m
  PROVE  k * f <= m * f /\ k * f \in Nat
  <1>1. m - k \in Nat /\ (m - k) * f \in Nat
    OBVIOUS
  <1>2. (m - k) * f = m * f - k * f /\ k * f \in Nat /\ m * f \in Nat
    BY Distribute
  <1> QED
    BY <1>1, <1>2

\* A burst of a request is cut at the end of a page or of the request.
LEMMA CutBurst ==
  ASSUME NEW q \in Fitting, ~ Denied(q), NEW a \in Nat, NEW left \in Nat \ {0},
         a + left * FlitsPerBeat = End(q), (a - Begin(q)) % Page = 0,
         NEW n, n = IF left > MaxBeats THEN MaxBeats ELSE left
  PROVE  /\ n \in Nat \ {0} /\ n <= MaxBeats
         /\ EndsBurst(q, a + n * FlitsPerBeat)
         /\ \A e \in Int : a < e /\ e < a + n * FlitsPerBeat => ~ EndsBurst(q, e)
         /\ a + n * FlitsPerBeat <= End(q)
         /\ left <= MaxBeats => a + n * FlitsPerBeat = End(q)
         /\ left > MaxBeats => /\ n * FlitsPerBeat = Page
                               /\ a + Page + (left - MaxBeats) * FlitsPerBeat = End(q)
                               /\ ((a + Page) - Begin(q)) % Page = 0
  <1>1. /\ FlitsPerBeat \in Nat /\ FlitsPerBeat >= 1 /\ MaxBeats \in Nat /\ MaxBeats >= 1
        /\ Page \in Nat /\ Page >= 1 /\ Begin(q) \in Int /\ End(q) \in Int
    BY Sizes, PageSize, Aligned
  <1>2. n \in Nat \ {0} /\ n <= MaxBeats /\ n <= left
    BY <1>1
  <1> DEFINE F == FlitsPerBeat
             w == n * F
             l == left * F
             r == (left - MaxBeats) * F
             B == Begin(q)
             E == End(q)
             P == Page
  <1>3. w \in Nat /\ l \in Nat /\ w <= l /\ w <= P
    <2>1. n * F \in Nat /\ n * F <= left * F /\ n * F <= MaxBeats * F
      BY <1>1, <1>2, ScaleUp
    <2> QED
      BY <2>1, <1>1 DEF Page
  <1>4. r = l - P /\ (left > MaxBeats => w = P) /\ (left <= MaxBeats => w = l)
    <2>1. (left - MaxBeats) * F = left * F - MaxBeats * F
      BY <1>1, Distribute
    <2> QED
      BY <2>1, <1>1 DEF Page
  <1>5. ((a + P) - B) % P = 0
    <2>1. P % P = 0
      BY <1>1, MultipleSelf
    <2>2. a - B \in Int /\ P \in Int
      BY <1>1
    <2>3. ((a - B) + P) % P = 0
      BY <2>1, <2>2, <1>1, MultipleSum
    <2>4. (a - B) + P = (a + P) - B
      BY <1>1
    <2> QED
      BY <2>3, <2>4
  <1> HIDE DEF w, l, r, F, P
  <1>6. a + l = E
    BY DEF l, F, E
  <1>7. left > MaxBeats => w = P /\ a + P + r = E
    BY <1>1, <1>3, <1>4, <1>6 DEF P
  <1>8. a + w <= E /\ (left <= MaxBeats => a + w = E)
    BY <1>1, <1>3, <1>4, <1>6
  <1>9. EndsBurst(q, a + w)
    <2>1. CASE left > MaxBeats
      <3>1. EndsBurst(q, a + P)
        <4>1. ((a + P) - Begin(q)) % P = 0
          BY <1>5
        <4>2. ((a + Page) - Begin(q)) % Page = 0
          BY <4>1 DEF P
        <4>3. EndsBurst(q, a + Page)
          BY <4>2, Zenon DEF EndsBurst
        <4> QED
          BY <4>3 DEF P
      <3> QED
        BY <3>1, <2>1, <1>7
    <2>2. CASE left <= MaxBeats
      BY <2>2, <1>8 DEF EndsBurst
    <2> QED
      BY <2>1, <2>2, <1>1
  <1>10. ASSUME NEW e \in Int, a < e, e < a + w PROVE ~ EndsBurst(q, e)
    <2>1. e # E
      BY <1>1, <1>3, <1>8, <1>10
    <2>2. ASSUME (e - B) % P = 0 PROVE FALSE
      <3>1. e - B \in Int /\ a - B \in Int /\ P \in Nat /\ P >= 1 /\ (a - B) % P = 0
        BY <1>1 DEF P
      <3>2. ((e - B) - (a - B)) % P = 0
        BY <2>2, <3>1, MultipleSum
      <3>3. (e - B) - (a - B) = e - a /\ e - a \in Int /\ e - a > 0
        BY <1>1, <1>10
      <3>4. e - a >= P
        BY <3>1, <3>2, <3>3, NoMultiple
      <3> QED
        BY <3>1, <3>4, <1>3, <1>10
    <2> QED
      BY <2>1, <2>2 DEF EndsBurst, P
  <1> QED
    BY <1>2, <1>5, <1>7, <1>8, <1>9, <1>10 DEF w, r, F, P

\* What is left of the requests begins at a page.
LEMMA CutPages ==
  ASSUME NEW p, NEW ids, p \in [requests : Seq(Burst(ids)), left : Nat, addr : Nat], p.requests # <<>>,
         Askable(Head(p.requests)), p.left # 0 => p.addr % Page = 0
  PROVE  /\ SamePage(Cut(p)) /\ AskLeft(p) \in Nat \ {0} /\ AskAddr(p) \in Nat
         /\ AskRest(p).left # 0 => AskRest(p).addr % Page = 0
  <1>0. p.left \in Nat /\ p.addr \in Nat /\ p.requests \in Seq(Burst(ids))
    OBVIOUS
  <1>1. Head(p.requests) \in Burst(ids)
    BY <1>0
  <1> DEFINE r == Head(p.requests)
             left == AskLeft(p)
             addr == AskAddr(p)
             c == Cut(p)
  <1>2. r.addr \in Nat /\ r.beats \in Nat \ {0}
    BY <1>1 DEF Burst
  <1> HIDE DEF r
  <1>3. /\ left \in Nat \ {0} /\ addr \in Nat
        /\ addr % Page = 0 \/ (left = r.beats /\ addr = r.addr)
    <2>1. CASE p.left = 0
      BY <2>1, <1>2 DEF AskLeft, AskAddr, r
    <2>2. CASE p.left # 0
      BY <2>2, <1>0 DEF AskLeft, AskAddr
    <2> QED
      BY <2>1, <2>2
  <1>4. MaxBeats \in Nat /\ MaxBeats >= 1 /\ Page \in Nat /\ Page >= 1
    BY Sizes, PageSize
  <1>5. c.addr = addr /\ c.beats = IF left > MaxBeats THEN MaxBeats ELSE left
    BY DEF Cut, AskMore
  <1> HIDE DEF left, addr, c
  <1>6. c.beats \in Nat \ {0} /\ c.beats <= MaxBeats /\ c.addr \in Nat
    BY <1>3, <1>4, <1>5
  <1>7. addr % Page = 0 \/ (left <= MaxBeats /\ c.addr = r.addr /\ c.beats = r.beats /\ SamePage(r))
    <2>1. CASE addr % Page = 0
      BY <2>1
    <2>2. CASE addr % Page # 0
      <3>1. left = r.beats /\ addr = r.addr
        BY <2>2, <1>3
      <3>2. r.beats <= MaxBeats /\ SamePage(r)
        BY <3>1, <2>2 DEF Askable, r
      <3> QED
        BY <3>1, <3>2, <1>2, <1>4, <1>5
    <2> QED
      BY <2>1, <2>2
  <1>8. SamePage(c)
    <2>1. CASE addr % Page = 0
      <3>1. Askable(c)
        BY <2>1, <1>5 DEF Askable
      <3> QED
        BY <3>1, <1>6, CutSamePage
    <2>2. CASE c.addr = r.addr /\ c.beats = r.beats /\ SamePage(r)
      BY <2>2 DEF SamePage
    <2> QED
      BY <2>1, <2>2, <1>7
  <1>9. left > MaxBeats => (addr + Page) % Page = 0
    <2> SUFFICES ASSUME left > MaxBeats PROVE (addr + Page) % Page = 0
      OBVIOUS
    <2>1. addr % Page = 0
      BY <1>3, <1>4, <1>7
    <2>2. Page % Page = 0 /\ addr \in Int /\ Page \in Int
      BY <1>3, <1>4, MultipleSelf
    <2> QED
      BY <2>1, <2>2, <1>4, MultipleSum
  <1>10. AskRest(p).left # 0 => left > MaxBeats /\ AskRest(p).addr = addr + Page
    BY DEF AskRest, AskMore, left, addr
  <1> QED
    BY <1>3, <1>8, <1>9, <1>10 DEF c, left, addr

\* The spans of the requests behind the first one stay.
LEMMA AskTail ==
  ASSUME NEW T, NEW p, p.requests \in Seq(T), p.requests # <<>>, NEW p2,
         p2.requests = p.requests, AskSpans(p) \in Seq(SpanType), AskSpans(p2) \in Seq(SpanType)
  PROVE  AskSpans(p2) # <<>> /\ Tail(AskSpans(p2)) = Tail(AskSpans(p))
  <1> DEFINE s == p.requests
             Z == AskSpans(p)
             Z2 == AskSpans(p2)
             n == Len(s)
  <1>1. /\ n \in Nat /\ n >= 1 /\ DOMAIN s = 1 .. n
        /\ DOMAIN Z = 1 .. n /\ DOMAIN Z2 = 1 .. n
    BY DEF AskSpans
  <1>2. \A i \in 1 .. n : i # 1 => Z2[i] = Z[i]
    BY <1>1 DEF AskSpans
  <1> HIDE DEF n, Z, Z2
  <1>3. Len(Z) = n /\ Len(Z2) = n /\ Z # <<>> /\ Z2 # <<>>
    BY <1>1 DEF Z, Z2
  <1>4. Tail(Z) = [i \in 1 .. Len(Z) - 1 |-> Z[i + 1]] /\ Tail(Z2) = [i \in 1 .. Len(Z2) - 1 |-> Z2[i + 1]]
    BY <1>3, TailIs DEF Z, Z2
  <1>5. \A i \in 1 .. n - 1 : Z2[i + 1] = Z[i + 1]
    BY <1>1, <1>2
  <1> QED
    BY <1>3, <1>4, <1>5 DEF Z, Z2

\* The first request leaves.
LEMMA AskLeaves ==
  ASSUME NEW T, NEW p, p.requests \in Seq(T), p.requests # <<>>, NEW p2,
         p2.requests = Tail(p.requests), p2.left = 0,
         AskSpans(p) \in Seq(SpanType), AskSpans(p2) \in Seq(SpanType)
  PROVE  AskSpans(p2) = Tail(AskSpans(p))
  <1> DEFINE s == p.requests
             t == p2.requests
             Z == AskSpans(p)
             Z2 == AskSpans(p2)
             n == Len(s)
  <1>1. /\ n \in Nat /\ n >= 1 /\ DOMAIN s = 1 .. n /\ DOMAIN t = 1 .. n - 1
        /\ \A i \in 1 .. n - 1 : t[i] = s[i + 1]
    OBVIOUS
  <1>2. DOMAIN Z = DOMAIN s /\ DOMAIN Z2 = DOMAIN t /\ Z2 = [i \in DOMAIN t |-> Z2[i]]
    BY DEF AskSpans
  <1>3. \A i \in 1 .. n - 1 : Z2[i] = Z[i + 1]
    <2> TAKE i \in 1 .. n - 1
    <2> DEFINE r == s[i + 1]
    <2>1. i \in DOMAIN t /\ i + 1 \in DOMAIN s /\ t[i] = r /\ i + 1 # 1
      BY <1>1
    <2>2. Z2[i] = [on |-> TRUE, id |-> r.id, lo |-> r.addr, hi |-> r.addr + r.beats * FlitsPerBeat]
      BY <2>1 DEF AskSpans
    <2>3. Z[i + 1] = [on |-> TRUE, id |-> r.id, lo |-> r.addr, hi |-> r.addr + r.beats * FlitsPerBeat]
      BY <2>1 DEF AskSpans
    <2> QED
      BY <2>2, <2>3
  <1> HIDE DEF n, Z, Z2, s, t
  <1>4. Len(Z) = n /\ Z # <<>>
    BY <1>1, <1>2 DEF Z
  <1>5. Tail(Z) = [i \in 1 .. Len(Z) - 1 |-> Z[i + 1]]
    BY <1>4, TailIs DEF Z
  <1>6. Z2 = [i \in 1 .. n - 1 |-> Z2[i]]
    BY <1>1, <1>2
  <1>7. Z2 = [i \in 1 .. n - 1 |-> Z[i + 1]]
    BY <1>6, <1>3
  <1> QED
    BY <1>4, <1>5, <1>7 DEF Z, Z2

\* The first span of the requests.
LEMMA AskHead ==
  ASSUME NEW T, NEW p, p.requests \in Seq(T), p.requests # <<>>, AskSpans(p) \in Seq(SpanType),
         NEW r, r = Head(p.requests)
  PROVE  /\ AskSpans(p) # <<>>
         /\ Head(AskSpans(p)) = [on |-> TRUE, id |-> r.id, lo |-> AskAddr(p),
                                 hi |-> r.addr + r.beats * FlitsPerBeat]
  <1> DEFINE Z == AskSpans(p)
  <1>1. r = p.requests[1] /\ 1 \in DOMAIN p.requests
    OBVIOUS
  <1>2. /\ Z[1] = [on |-> TRUE, id |-> r.id, lo |-> AskAddr(p), hi |-> r.addr + r.beats * FlitsPerBeat]
        /\ 1 \in DOMAIN Z
    BY <1>1 DEF AskSpans, AskAddr
  <1> HIDE DEF Z
  <1>3. Z # <<>> /\ Head(Z) = Z[1]
    BY <1>2 DEF Z
  <1> QED
    BY <1>2, <1>3 DEF Z

\* The spans of the requests when a burst is cut off the first one.
LEMMA AskShrinks ==
  ASSUME NEW ids, NEW p, p.requests \in Seq(Burst(ids)), p.requests # <<>>,
         AskSpans(p) \in Seq(SpanType), AskSpans(AskRest(p)) \in Seq(SpanType),
         NEW hi \in Int, hi = Head(p.requests).addr + Head(p.requests).beats * FlitsPerBeat,
         AskAddr(p) \in Nat, AskLeft(p) \in Nat \ {0},
         NEW cut \in Int, cut = AskAddr(p) + Cut(p).beats * FlitsPerBeat, AskAddr(p) <= cut, cut <= hi,
         ~ AskMore(p) => cut = hi, AskMore(p) => cut = AskAddr(p) + Page
  PROVE  Shrinks(AskSpans(p), cut, AskSpans(AskRest(p)))
  <1> DEFINE r == Head(p.requests)
             p2 == AskRest(p)
             Z == AskSpans(p)
             Z2 == AskSpans(p2)
             B == Burst(ids)
  <1>1. /\ Z # <<>> /\ Head(Z) = [on |-> TRUE, id |-> r.id, lo |-> AskAddr(p), hi |-> hi]
    BY AskHead
  <1>2. CASE AskMore(p)
    <2>1. p2.requests = p.requests /\ p2.addr = cut /\ p2.left # 0
      <3>1. AskLeft(p) - MaxBeats # 0
        BY <1>2, Sizes DEF AskMore
      <3> QED
        BY <3>1, <1>2 DEF AskRest
    <2>2. AskAddr(p2) = cut
      BY <2>1 DEF AskAddr
    <2> HIDE DEF p2, B
    <2>3. p.requests \in Seq(B) /\ p2.requests \in Seq(B) /\ p2.requests # <<>>
      BY <2>1 DEF B
    <2>4. Z2 # <<>> /\ Head(Z2) = [on |-> TRUE, id |-> r.id, lo |-> cut, hi |-> hi]
      <3>1. AskSpans(p2) \in Seq(SpanType)
        BY DEF p2
      <3>2. /\ AskSpans(p2) # <<>>
            /\ Head(AskSpans(p2)) = [on |-> TRUE, id |-> Head(p2.requests).id, lo |-> AskAddr(p2),
                                     hi |-> Head(p2.requests).addr + Head(p2.requests).beats * FlitsPerBeat]
        BY <2>3, <3>1, AskHead
      <3> QED
        BY <3>2, <2>1, <2>2
    <2>5. Tail(Z2) = Tail(Z)
      BY <2>1, <2>3, AskTail DEF p2
    <2> HIDE DEF Z, Z2, r
    <2> QED
      BY <1>1, <2>4, <2>5 DEF Shrinks, Z, Z2, p2
  <1>3. CASE ~ AskMore(p)
    <2>1. p2.requests = Tail(p.requests) /\ p2.left = 0
      BY <1>3 DEF AskRest
    <2> HIDE DEF p2, B
    <2>2. p.requests \in Seq(B)
      BY DEF B
    <2>3. Z2 = Tail(Z)
      BY <2>1, <2>2, AskLeaves DEF p2
    <2>4. Head(Z).hi = cut
      BY <1>1, <1>3
    <2> QED
      BY <2>3, <2>4 DEF Shrinks, p2
  <1> QED
    BY <1>2, <1>3

\* What prepare_request changes.
LEMMA PrepareFacts ==
  ASSUME Types, NEW h \in Handler, PrepareRequest(h)
  PROVE  /\ prep[h] \in [requests : Seq(Burst(Ids)), left : Nat, addr : Nat] /\ prep[h].requests # <<>>
         /\ prep'[h] = AskRest(prep[h]) /\ \A g \in Handler : g # h => prep'[g] = prep[g]
         /\ \A p \in ReadPort :
               /\ p = h => rd'[p].addr = Append(rd[p].addr, Cut(prep[h]))
               /\ p # h => rd'[p].addr = rd[p].addr
         /\ \A p \in WritePort :
               /\ p = h => wr'[p].addr = Append(wr[p].addr, Cut(prep[h]))
               /\ p # h => wr'[p].addr = wr[p].addr
               /\ wr'[p].data = wr[p].data
         /\ UNCHANGED <<req, beats, pos, writeback, aw, write_order>>
  <1> DEFINE b == Cut(prep[h])
             r == AskRest(prep[h])
  <1>1. /\ prep' = [prep EXCEPT ![h] = r]
        /\ IF h \in ReadPort THEN rd' = [rd EXCEPT ![h].addr = Append(@, b)] ELSE UNCHANGED rd
        /\ IF h \in WritePort THEN wr' = [wr EXCEPT ![h].addr = Append(@, b)] ELSE UNCHANGED wr
    BY DEF PrepareRequest, Cut, AskRest, AskMore, AskLeft, AskAddr, Page
  <1>2. UNCHANGED <<req, beats, pos, writeback, aw, write_order>> /\ prep[h].requests # <<>>
    BY DEF PrepareRequest, hist
  <1> HIDE DEF b, r
  <1>3. /\ prep[h] \in [requests : Seq(Burst(Ids)), left : Nat, addr : Nat]
        /\ prep'[h] = r /\ \A g \in Handler : g # h => prep'[g] = prep[g]
    BY <1>1 DEF Types, PrepOK
  <1>4. \A p \in ReadPort : /\ p = h => rd'[p].addr = Append(rd[p].addr, b)
                            /\ p # h => rd'[p].addr = rd[p].addr
    BY <1>1 DEF Types, RdOK
  <1>5. \A p \in WritePort : /\ p = h => wr'[p].addr = Append(wr[p].addr, b)
                             /\ p # h => wr'[p].addr = wr[p].addr
                             /\ wr'[p].data = wr[p].data
    BY <1>1, SMTT(30) DEF Types, WrOK
  <1> QED
    BY <1>2, <1>3, <1>4, <1>5 DEF b, r

\* Where the next burst of a writing handler lies in its request.
LEMMA PrepareWhere ==
  ASSUME Types, NEW p \in WritePort, AsksOK(p), prep[p].requests # <<>>,
         NEW r, r = Head(prep[p].requests), NEW q, q = req[r.id], NEW a, a = AskAddr(prep[p]),
         NEW left, left = AskLeft(prep[p])
  PROVE  /\ Writer(req, p, r.id) /\ q \in Fitting /\ ~ Denied(q)
         /\ a \in Nat /\ left \in Nat \ {0} /\ r.addr + r.beats * FlitsPerBeat = End(q)
         /\ a + left * FlitsPerBeat = End(q) /\ (a - Begin(q)) % Page = 0
  <1>1. /\ prep[p].requests \in Seq(Burst(Ids)) /\ prep[p].left \in Nat /\ prep[p].addr \in Nat
        /\ req \in Seq(Fitting)
    BY DEF Types, PrepOK, HistOK, WritePort, Handler
  <1>2. r \in Burst(Ids) /\ r \in Els(prep[p].requests)
    BY <1>1, ElsTail
  <1>3. Writer(req, p, r.id) /\ r.addr = Begin(q) /\ r.beats = Beats(q)
    BY <1>2 DEF AsksOK
  <1>4. q \in Fitting /\ ~ Denied(q)
    BY <1>1, <1>3 DEF Writer
  <1>5. r.addr + r.beats * FlitsPerBeat = End(q)
    BY <1>3 DEF End, Begin
  <1>6. r.addr \in Nat /\ r.beats \in Nat \ {0}
    BY <1>2 DEF Burst
  <1>7. CASE prep[p].left = 0
    <2>1. a = r.addr /\ left = r.beats
      BY <1>7 DEF AskAddr, AskLeft
    <2>2. a - Begin(q) = 0 /\ 0 % Page = 0
      BY <2>1, <1>3, <1>6, PageSize, MultipleSelf
    <2> QED
      BY <2>1, <2>2, <1>3, <1>4, <1>5, <1>6
  <1>8. CASE prep[p].left # 0
    <2>1. a = prep[p].addr /\ left = prep[p].left
      BY <1>8 DEF AskAddr, AskLeft
    <2>2. a + left * FlitsPerBeat = End(q) /\ (a - Begin(q)) % Page = 0
      BY <2>1, <1>8 DEF AsksOK
    <2> QED
      BY <2>1, <2>2, <1>1, <1>3, <1>4, <1>5, <1>8
  <1> QED
    BY <1>7, <1>8

\* The requests and bursts of a writing handler after prepare_request.
LEMMA PrepareAsks ==
  ASSUME Types, NEW p \in WritePort, AsksOK(p), prep[p].requests # <<>>, prep'[p] = AskRest(prep[p]),
         wr'[p].addr = Append(wr[p].addr, Cut(prep[p])), UNCHANGED <<req, aw>>
  PROVE  AsksOK(p)'
  <1> DEFINE r == Head(prep[p].requests)
             q == req[r.id]
             a == AskAddr(prep[p])
             left == AskLeft(prep[p])
             c == Cut(prep[p])
             hi == c.addr + c.beats * FlitsPerBeat
  <1>1. /\ Writer(req, p, r.id) /\ q \in Fitting /\ ~ Denied(q) /\ a \in Nat /\ left \in Nat \ {0}
        /\ a + left * FlitsPerBeat = End(q) /\ (a - Begin(q)) % Page = 0
    BY PrepareWhere
  <1>2. c.addr = a /\ c.beats = (IF left > MaxBeats THEN MaxBeats ELSE left) /\ c.id = r.id
    BY DEF Cut, AskMore
  <1>3. wr[p].addr \in Seq(Burst(Ids)) /\ prep[p].requests \in Seq(Burst(Ids))
    BY DEF Types, PrepOK, WrOK, WritePort, Handler
  <1>4. AskRest(prep[p]).left # 0 =>
           /\ AskRest(prep[p]).requests = prep[p].requests /\ left > MaxBeats
           /\ AskRest(prep[p]).left = left - MaxBeats /\ AskRest(prep[p]).addr = a + Page
    BY DEF AskRest, AskMore
  <1>5. Els(AskRest(prep[p]).requests) \subseteq Els(prep[p].requests)
    <2>1. Els(prep[p].requests) = {r} \cup Els(Tail(prep[p].requests))
      BY <1>3, ElsTail
    <2>2. \/ AskRest(prep[p]).requests = prep[p].requests
          \/ AskRest(prep[p]).requests = Tail(prep[p].requests)
      BY DEF AskRest
    <2> QED
      BY <2>1, <2>2
  <1> HIDE DEF left, a, c
  <1>6. EndsBurst(q, hi) /\ \A e \in Int : c.addr < e /\ e < hi => ~ EndsBurst(q, e)
    BY <1>1, <1>2, CutBurst
  <1>7. BurstIs(req, p, c)
    BY <1>1, <1>2, <1>6 DEF BurstIs
  <1>8. Els(wr'[p].addr) = Els(wr[p].addr) \cup {c}
    <2> DEFINE s == wr[p].addr
               t == wr'[p].addr
               B == Burst(Ids)
    <2>1. s \in Seq(B) /\ t = Append(s, c)
      BY <1>3 DEF c
    <2> HIDE DEF s, t, B
    <2>2. Els(t) = Els(s) \cup {c}
      BY <2>1, ElsMore
    <2> QED
      BY <2>2 DEF s, t
  <1>9. \A b \in Els(wr'[p].addr) : BurstIs(req, p, b)
    BY <1>7, <1>8 DEF AsksOK
  <1>10. prep'[p].left # 0 =>
            LET g == req[Head(prep'[p].requests).id]
            IN  /\ prep'[p].addr + prep'[p].left * FlitsPerBeat = End(g)
                /\ (prep'[p].addr - Begin(g)) % Page = 0
    <2> SUFFICES ASSUME prep'[p].left # 0
                 PROVE  /\ prep'[p].addr + prep'[p].left * FlitsPerBeat = End(q)
                        /\ (prep'[p].addr - Begin(q)) % Page = 0
                        /\ Head(prep'[p].requests) = r
      BY Zenon
    <2>1. /\ prep'[p].requests = prep[p].requests /\ left > MaxBeats
          /\ prep'[p].left = left - MaxBeats /\ prep'[p].addr = a + Page
      BY <1>4 DEF left, a
    <2>2. /\ a + Page + (left - MaxBeats) * FlitsPerBeat = End(q)
          /\ ((a + Page) - Begin(q)) % Page = 0
      BY <1>1, <2>1, CutBurst
    <2>3. (a + Page) + (left - MaxBeats) * FlitsPerBeat = End(q)
      BY <2>2
    <2> QED
      BY <2>1, <2>2, <2>3
  <1>11. \A x \in Els(prep'[p].requests) :
            Writer(req, p, x.id) /\ x.addr = Begin(req[x.id]) /\ x.beats = Beats(req[x.id])
    BY <1>5 DEF AsksOK
  <1>12. \A b \in Els(aw) : b.port = p => BurstIs(req, p, b)
    BY DEF AsksOK
  <1> QED
    BY <1>9, <1>10, <1>11, <1>12, Zenon DEF AsksOK

\* The bursts of a writing handler move on.
LEMMA PrepareKept ==
  ASSUME Types, Types', NEW p \in WritePort, AsksOK(p), FlowOK(p), prep[p].requests # <<>>,
         prep'[p] = AskRest(prep[p]), wr'[p].addr = Append(wr[p].addr, Cut(prep[p])), UNCHANGED <<req, aw>>
  PROVE  BurstsKept(p)
  <1> DEFINE r == Head(prep[p].requests)
             q == req[r.id]
             a == AskAddr(prep[p])
             left == AskLeft(prep[p])
             c == Cut(prep[p])
             cut == a + c.beats * FlitsPerBeat
             hi == r.addr + r.beats * FlitsPerBeat
             X == Issued(p)
             Y == Asked(p)
             Z == Asks(p)
             Z2 == Asks(p)'
             y == OfBurst[c]
  <1>1. /\ q \in Fitting /\ ~ Denied(q) /\ a \in Nat /\ left \in Nat \ {0} /\ hi = End(q)
        /\ a + left * FlitsPerBeat = End(q) /\ (a - Begin(q)) % Page = 0
    BY PrepareWhere
  <1>2. /\ c.addr = a /\ c.beats = (IF left > MaxBeats THEN MaxBeats ELSE left) /\ c.id = r.id
        /\ c = [addr |-> c.addr, beats |-> c.beats, id |-> c.id]
        /\ AskMore(prep[p]) <=> left > MaxBeats
    BY DEF Cut, AskMore
  <1>3. /\ wr[p].addr \in Seq(Burst(Nat)) /\ prep[p].requests \in Seq(Burst(Ids)) /\ Ids \subseteq Nat
        /\ MaxBeats \in Nat
    <2>1. wr[p].addr \in Seq(Burst(Nat)) /\ MaxBeats \in Nat
      BY NatSeqs, Sizes
    <2>2. PrepOK /\ p \in Handler
      BY DEF Types, WritePort, Handler
    <2>3. Ids \subseteq Nat
      BY DEF Ids
    <2>4. prep[p].requests \in Seq(Burst(Ids))
      BY <2>2 DEF PrepOK
    <2> QED
      BY <2>1, <2>3, <2>4
  <1>4. r \in Burst(Ids)
    BY <1>3, ElsTail
  <1>5. r.id \in Nat /\ hi <= Words
    BY <1>3, <1>4 DEF Burst
  <1> HIDE DEF left, a, c, r, q
  <1>6. /\ c.beats \in Nat \ {0} /\ cut <= hi
        /\ left <= MaxBeats => cut = hi
        /\ left > MaxBeats => cut = a + Page
    <2>1. /\ c.beats \in Nat \ {0} /\ a + c.beats * FlitsPerBeat <= End(q)
          /\ left <= MaxBeats => a + c.beats * FlitsPerBeat = End(q)
          /\ left > MaxBeats => c.beats * FlitsPerBeat = Page
      BY <1>1, <1>2, CutBurst
    <2> QED
      BY <2>1, <1>1
  <1>7. cut \in Nat /\ a <= cut /\ hi \in Nat /\ End(q) \in Nat
    <2>1. End(q) \in Nat
      BY <1>1, Aligned
    <2>2. c.beats * FlitsPerBeat \in Nat
      BY <1>6, Sizes
    <2> QED
      BY <2>1, <2>2, <1>1
  <1>8. c \in Burst(Nat)
    <2>1. c \in [addr : Nat, beats : Nat \ {0}, id : Nat]
      BY <1>1, <1>2, <1>5, <1>6
    <2>2. c.addr + c.beats * FlitsPerBeat <= Words
      <3>1. c.addr + c.beats * FlitsPerBeat = cut
        BY <1>2
      <3> HIDE DEF cut, hi
      <3> QED
        BY <3>1, <1>5, <1>6, <1>7, Sizes
    <2> QED
      BY <2>1, <2>2 DEF Burst
  <1>9. y = [on |-> TRUE, id |-> r.id, lo |-> a, hi |-> cut] /\ y \in SpanType
    <2>1. y = [on |-> TRUE, id |-> r.id, lo |-> a, hi |-> cut]
      BY <1>2, <1>8 DEF OfBurst
    <2> HIDE DEF y, cut
    <2> QED
      BY <2>1, <1>1, <1>5, <1>7 DEF SpanType
  <1>10. /\ X \in Seq(SpanType) /\ Y \in Seq(SpanType) /\ Z \in Seq(SpanType) /\ Z2 \in Seq(SpanType)
         /\ Stream(X, Y, Z)
    <2>1. Stream(X, Y, Z)
      BY DEF FlowOK
    <2> QED
      BY <2>1, KeepsSpans, NextSpans DEF SpansOK
  <1>11. Z = AskSpans(prep[p]) /\ Z2 = AskSpans(AskRest(prep[p]))
    BY DEF Asks
  <1>12. /\ Z # <<>> /\ Head(Z) = [on |-> TRUE, id |-> r.id, lo |-> a, hi |-> hi]
    <2>1. AskSpans(prep[p]) \in Seq(SpanType)
      BY <1>10, <1>11
    <2>2. /\ AskSpans(prep[p]) # <<>>
          /\ Head(AskSpans(prep[p])) = [on |-> TRUE, id |-> r.id, lo |-> AskAddr(prep[p]),
                                        hi |-> r.addr + r.beats * FlitsPerBeat]
      BY <2>1, <1>3, AskHead DEF r
    <2> QED
      BY <2>2, <1>11 DEF a
  <1>13. Shrinks(Z, cut, Z2)
    <2>1. AskSpans(prep[p]) \in Seq(SpanType) /\ AskSpans(AskRest(prep[p])) \in Seq(SpanType)
      BY <1>10, <1>11
    <2>2. /\ ~ AskMore(prep[p]) => cut = hi
          /\ AskMore(prep[p]) => cut = a + Page
      BY <1>1, <1>2, <1>3, <1>6
    <2>3. cut \in Int /\ hi \in Int
      BY <1>7
    <2>4. Shrinks(AskSpans(prep[p]), cut, AskSpans(AskRest(prep[p])))
      BY <2>1, <2>2, <2>3, <1>1, <1>3, <1>6, <1>7, AskShrinks DEF a, r, left, c
    <2> QED
      BY <2>4, <1>11
  <1>14. Issued(p)' = X /\ Asked(p)' = Append(Y, y)
    <2>1. Issued(p)' = X
      BY DEF Issued, OfWrite
    <2>2. Asked(p)' = Append(Y, y)
      <3> DEFINE T == Burst(Nat)
                 f == OfBurst
                 s == wr[p].addr
                 t == wr'[p].addr
      <3>1. s \in Seq(T) /\ c \in T /\ f \in [T -> SpanType] /\ t = Append(s, c)
        BY <1>3, <1>8, SpanFuns DEF c
      <3> HIDE DEF T, f, s, t
      <3>2. Mapped(t, f) = Append(Mapped(s, f), f[c])
        BY <3>1, MapAppend
      <3>3. OfBurst' = OfBurst
        BY DEF OfBurst
      <3> QED
        BY <3>2, <3>3 DEF f, s, t, Asked
    <2> QED
      BY <2>1, <2>2
  <1> HIDE DEF X, Y, Z, Z2, y, cut, hi
  <1>15. /\ Head(Z).on /\ y.on /\ y.id = Head(Z).id /\ y.lo = Head(Z).lo /\ y.hi = cut
    BY <1>9, <1>12
  <1>16. Same(X, Y, Z, X, Append(Y, y), Z2)
    <2>1. /\ X \in Seq(SpanType) /\ Y \in Seq(SpanType) /\ Z \in Seq(SpanType) /\ Z # <<>>
          /\ Z2 \in Seq(SpanType) /\ y \in SpanType /\ Stream(X, Y, Z) /\ Head(Z).on /\ y.on
          /\ y.id = Head(Z).id /\ y.lo = Head(Z).lo /\ Shrinks(Z, y.hi, Z2)
      BY <1>9, <1>10, <1>12, <1>13, <1>15
    <2>2. /\ Stream(X, Append(Y, y), Z2)
          /\ \A id \in Nat, b \in Int : Pending(X, Append(Y, y), Z2, id, b) <=> Pending(X, Y, Z, id, b)
      BY <2>1, StreamPass
    <2> QED
      BY <2>2, Zenon DEF Same
  <1> QED
    BY <1>14, <1>16 DEF BurstsKept, X, Y, Z, Z2

\* prepare_request
LEMMA InvPrepareRequest ==
  ASSUME Types, Types', BurstsInv, NEW h \in Handler, PrepareRequest(h)
  PROVE  BurstsInv'
  <1> DEFINE c == Cut(prep[h])
             B == Burst(Ids)
  <1>1. /\ prep[h] \in [requests : Seq(B), left : Nat, addr : Nat] /\ prep[h].requests # <<>>
        /\ prep'[h] = AskRest(prep[h]) /\ \A g \in Handler : g # h => prep'[g] = prep[g]
        /\ \A p \in ReadPort :
              /\ p = h => rd'[p].addr = Append(rd[p].addr, c)
              /\ p # h => rd'[p].addr = rd[p].addr
        /\ \A p \in WritePort :
              /\ p = h => wr'[p].addr = Append(wr[p].addr, c)
              /\ p # h => wr'[p].addr = wr[p].addr
              /\ wr'[p].data = wr[p].data
        /\ UNCHANGED <<req, beats, pos, writeback, aw, write_order>>
    BY PrepareFacts
  <1>2. /\ \A p \in ReadPort : rd[p].addr \in Seq(B)
        /\ \A p \in WritePort : wr[p].addr \in Seq(B)
        /\ prep[h].requests \in Seq(B)
    BY <1>1 DEF Types, RdOK, WrOK
  <1>3. Els(prep[h].requests) = {Head(prep[h].requests)} \cup Els(Tail(prep[h].requests))
    <2> DEFINE s == prep[h].requests
    <2>1. s \in Seq(B) /\ s # <<>>
      BY <1>1, <1>2
    <2> HIDE DEF s, B
    <2>2. Els(s) = {Head(s)} \cup Els(Tail(s))
      BY <2>1, ElsTail
    <2> QED
      BY <2>2 DEF s
  <1>4. /\ \A x \in Els(prep[h].requests) : Askable(x)
        /\ prep[h].left # 0 => prep[h].addr % Page = 0
    BY DEF BurstsInv, PagesOK
  <1>5. /\ SamePage(c)
        /\ AskRest(prep[h]).left # 0 => AskRest(prep[h]).addr % Page = 0
    BY <1>1, <1>3, <1>4, CutPages
  <1>6. \A x \in Els(AskRest(prep[h]).requests) : Askable(x)
    <2>1. \/ AskRest(prep[h]).requests = prep[h].requests
          \/ AskRest(prep[h]).requests = Tail(prep[h].requests)
      BY DEF AskRest
    <2> QED
      BY <2>1, <1>3, <1>4
  <1> HIDE DEF c, B
  <1>7. ASSUME NEW s \in Seq(B), NEW t, t = s \/ t = Append(s, c), \A x \in Els(s) : SamePage(x)
        PROVE  \A x \in Els(t) : SamePage(x)
    <2>1. CASE t = s
      BY <2>1, <1>7
    <2>2. CASE t = Append(s, c)
      <3>1. Els(t) = Els(s) \cup {c}
        BY <2>2, ElsMore
      <3> QED
        BY <3>1, <1>5, <1>7
    <2> QED
      BY <2>1, <2>2, <1>7
  <1>8. PagesOK'
    <2>1. \A g \in Handler : /\ \A x \in Els(prep'[g].requests) : Askable(x)
                             /\ prep'[g].left # 0 => prep'[g].addr % Page = 0
      <3> TAKE g \in Handler
      <3>1. CASE g = h
        BY <3>1, <1>1, <1>5, <1>6
      <3>2. CASE g # h
        BY <3>2, <1>1 DEF BurstsInv, PagesOK
      <3> QED
        BY <3>1, <3>2
    <2>2. \A p \in ReadPort : \A x \in Els(rd'[p].addr) : SamePage(x)
      <3> TAKE p \in ReadPort
      <3> DEFINE s == rd[p].addr
                 t == rd'[p].addr
      <3>1. s \in Seq(B) /\ (t = s \/ t = Append(s, c)) /\ \A x \in Els(s) : SamePage(x)
        BY <1>1, <1>2 DEF BurstsInv, PagesOK
      <3> HIDE DEF s, t
      <3>2. \A x \in Els(t) : SamePage(x)
        BY <3>1, <1>7
      <3> QED
        BY <3>2 DEF t
    <2>3. \A p \in WritePort : \A x \in Els(wr'[p].addr) : SamePage(x)
      <3> TAKE p \in WritePort
      <3> DEFINE s == wr[p].addr
                 t == wr'[p].addr
      <3>1. s \in Seq(B) /\ (t = s \/ t = Append(s, c)) /\ \A x \in Els(s) : SamePage(x)
        BY <1>1, <1>2 DEF BurstsInv, PagesOK
      <3> HIDE DEF s, t
      <3>2. \A x \in Els(t) : SamePage(x)
        BY <3>1, <1>7
      <3> QED
        BY <3>2 DEF t
    <2>4. \A x \in Els(aw') : SamePage(x)
      BY <1>1 DEF BurstsInv, PagesOK
    <2> QED
      BY <2>1, <2>2, <2>3, <2>4, Zenon DEF PagesOK
  <1>9. OrderOK'
    BY <1>1, FrameOrder DEF BurstsInv
  <1>10. ASSUME NEW p \in WritePort
         PROVE  JobsOK(p)' /\ MarksOK(p)' /\ AsksOK(p)' /\ FlowOK(p)'
    <2>1. JobsOK(p) /\ MarksOK(p) /\ AsksOK(p) /\ FlowOK(p) /\ p \in Handler
      BY DEF BurstsInv, WritePort, Handler
    <2>2. Back(p)' = Back(p) /\ Grows(req, req')
      BY <1>1, SameGrows DEF Back
    <2>3. JobsOK(p)' /\ MarksOK(p)' /\ BeatsKept(p)
      BY <1>1, <2>1, <2>2, FrameJobs, FrameMarks, FrameBeats
    <2>4. AsksOK(p)' /\ BurstsKept(p)
      <3>1. CASE p = h
        <4>1. /\ prep[p].requests # <<>> /\ prep'[p] = AskRest(prep[p])
              /\ wr'[p].addr = Append(wr[p].addr, Cut(prep[p])) /\ UNCHANGED <<req, aw>>
          BY <3>1, <1>1 DEF c
        <4> QED
          BY <4>1, <2>1, PrepareAsks, PrepareKept
      <3>2. CASE p # h
        <4>1. prep'[p] = prep[p] /\ wr'[p].addr = wr[p].addr /\ UNCHANGED aw
          BY <3>2, <1>1, <2>1
        <4> QED
          BY <4>1, <2>1, <2>2, FrameAsks, FrameBursts
      <3> QED
        BY <3>1, <3>2
    <2> QED
      BY <2>1, <2>3, <2>4, FlowKept
  <1> QED
    BY <1>8, <1>9, <1>10 DEF BurstsInv

-----------------------------------------------------------------------------
(* Bursts: the flits of a handler *)

\* The oldest request of a handler that writes.
LEMMA OldestJob ==
  ASSUME Types, NEW h \in WritePort, JobsOK(h), beats[h] # <<>>, NEW j, j = Job(h), NEW q, q = req[j.id]
  PROVE  /\ j \in JobType(Ids) /\ j \in Els(beats[h]) /\ JobIs(req, h, j) /\ q \in Fitting
         /\ j.flits = Flits(q) /\ Flits(q) \in Nat \ {0} /\ q.addr \in Nat
         /\ pos[h] \in PosType /\ req \in Seq(Fitting)
         /\ ~ j.denied => ~ Denied(q) /\ Writer(req, h, j.id)
  <1>1. beats[h] \in Seq(JobType(Ids)) /\ pos[h] \in PosType /\ req \in Seq(Fitting)
    BY DEF Types, JobOK, HistOK, WritePort, Handler
  <1>2. j \in JobType(Ids) /\ j \in Els(beats[h])
    BY <1>1, ElsTail DEF Job
  <1>3. JobIs(req, h, j)
    BY <1>2 DEF JobsOK
  <1>4. q \in Fitting /\ j.flits = Flits(q)
    BY <1>1, <1>3 DEF JobIs
  <1>5. Flits(q) \in Nat \ {0} /\ q.addr \in Nat
    BY <1>4, RequestSizes, Sizes
  <1>6. ~ j.denied => ~ Denied(q) /\ Writer(req, h, j.id)
    BY <1>3, Zenon DEF JobIs, Writer
  <1> QED
    BY <1>1, <1>2, <1>3, <1>4, <1>5, <1>6

\* Where the flit that a handler takes next lies.
LEMMA JobPlace ==
  ASSUME Types, NEW h \in WritePort, JobsOK(h), beats[h] # <<>>, NEW j, j = Job(h), NEW q, q = req[j.id],
         NEW n, n = Location(h), NEW left, left = FlitLeft(h)
  PROVE  /\ left \in Nat /\ n \in Nat /\ q.addr <= n /\ n + left + 1 = q.addr + Flits(q)
         /\ First(h) => n = q.addr
         /\ ~ First(h) => n = (q.addr + Flits(q)) - pos[h].flit /\ left + 1 = pos[h].flit
  <1>1. /\ j.flits = Flits(q) /\ Flits(q) \in Nat \ {0} /\ q.addr \in Nat /\ pos[h] \in PosType
    BY OldestJob
  <1>2. pos[h].flit \in Nat
    BY <1>1 DEF PosType
  <1> DEFINE f == Flits(q)
             a == q.addr
             k == pos[h].flit
  <1>3. n = a + (f - 1 - left)
    BY <1>1 DEF Location, Place
  <1>4. CASE First(h)
    <2>1. left = f - 1 /\ k = 0
      BY <1>1, <1>4 DEF FlitLeft, First
    <2> HIDE DEF f, a, k
    <2>2. f \in Nat \ {0} /\ a \in Nat
      BY <1>1 DEF f, a
    <2>3. left \in Nat /\ n = a /\ n + left + 1 = a + f
      BY <2>1, <2>2, <1>3
    <2> QED
      BY <2>2, <2>3, <1>4 DEF f, a, k
  <1>5. CASE ~ First(h)
    <2>1. left = k - 1 /\ k # 0 /\ k < f
      <3>1. k # 0 /\ left = k - 1
        BY <1>5 DEF FlitLeft, First
      <3>2. k < Job(h).flits
        BY <3>1 DEF JobsOK
      <3> QED
        BY <3>1, <3>2, <1>1
    <2> HIDE DEF f, a, k
    <2>2. f \in Nat \ {0} /\ a \in Nat /\ k \in Nat
      BY <1>1, <1>2 DEF f, a, k
    <2>3. left \in Nat /\ n \in Nat /\ a <= n /\ n + left + 1 = a + f /\ n = (a + f) - k /\ left + 1 = k
      BY <2>1, <2>2, <1>3
    <2> QED
      BY <2>2, <2>3, <1>5 DEF f, a, k
  <1> QED
    BY <1>4, <1>5

\* The counters of a handler that takes a flit.
LEMMA JobCounters ==
  ASSUME Types, NEW h \in WritePort, JobsOK(h), beats[h] # <<>>, NEW j, j = Job(h), ~ j.denied,
         NEW q, q = req[j.id], NEW n, n = Location(h), NEW left, left = FlitLeft(h),
         NEW base, base = IF First(h) THEN 0 ELSE pos[h].last
  PROVE  /\ NextSlot(h) = FirstSlot(n) /\ base \in 0 .. MaxBeats - 1
         /\ (BeatAddr(n) - base * FlitsPerBeat - Begin(q)) % Page = 0
         /\ BurstDone(h) <=> (left = 0 \/ base = MaxBeats - 1)
         /\ BeatDone(h) <=> (left = 0 \/ FirstSlot(n) + 1 = FlitsPerBeat)
         /\ LastCntr(h) = LastAfter(BeatDone(h), base)
  <1>1. /\ JobIs(req, h, j) /\ q \in Fitting /\ Flits(q) \in Nat \ {0} /\ q.addr \in Nat
        /\ pos[h] \in PosType /\ ~ Denied(q)
    BY OldestJob
  <1>2. pos[h].flit \in Nat /\ pos[h].last \in 0 .. MaxBeats - 1 /\ MaxBeats \in Nat /\ MaxBeats >= 3
    <2>1. MaxBeats \in Nat /\ MaxBeats >= 3
      BY MemoryAssumption
    <2> QED
      BY <2>1, <1>1 DEF PosType
  <1>3. /\ left \in Nat /\ n \in Nat /\ q.addr <= n /\ n + left + 1 = q.addr + Flits(q)
        /\ First(h) => n = q.addr
        /\ ~ First(h) => n = (q.addr + Flits(q)) - pos[h].flit /\ left + 1 = pos[h].flit
    BY JobPlace
  <1>4. First(h) => pos[h].last # MaxBeats - 1
    BY DEF JobsOK, First
  <1>5. ~ First(h) => AtFlit(q, pos[h])
    <2>1. pos[h].flit # 0 => AtFlit(req[Job(h).id], pos[h])
      BY DEF JobsOK
    <2> QED
      BY <2>1 DEF First
  <1>6. base \in 0 .. MaxBeats - 1 /\ (First(h) => base = 0 /\ base # MaxBeats - 1)
        /\ (~ First(h) => base = pos[h].last)
    BY <1>2
  <1>7. BurstDone(h) <=> (left = 0 \/ base = MaxBeats - 1)
    BY <1>4, <1>6 DEF BurstDone
  <1>8. LastCntr(h) = LastAfter(BeatDone(h), base)
    BY <1>4, <1>6 DEF LastCntr, LastAfter
  <1>9. /\ NextSlot(h) = FirstSlot(n) /\ (BeatAddr(n) - base * FlitsPerBeat - Begin(q)) % Page = 0
    <2>1. CASE First(h)
      <3>1. NextSlot(h) = FirstSlot(n)
        BY <2>1, <1>1, <1>3 DEF NextSlot, JobIs
      <3>2. BeatAddr(n) = Begin(q) /\ Begin(q) \in Int
        BY <2>1, <1>1, <1>3, Aligned DEF Begin
      <3>3. BeatAddr(n) - base * FlitsPerBeat - Begin(q) = 0
        BY <2>1, <1>6, <3>2, Sizes
      <3>4. 0 % Page = 0
        BY PageSize, MultipleSelf
      <3> QED
        BY <3>1, <3>3, <3>4
    <2>2. CASE ~ First(h)
      <3> DEFINE m == n - 1
                 f == Flits(q)
                 k == pos[h].flit
                 a == q.addr
      <3>0. /\ n = (a + f) - k /\ k < f /\ a \in Nat /\ f \in Nat /\ k \in Nat
            /\ q.addr + Flits(q) - pos[h].flit = a + (f - k)
        BY <2>2, <1>1, <1>2, <1>3, <1>5 DEF AtFlit
      <3> HIDE DEF f, k, a
      <3>1. m \in Nat /\ n = m + 1 /\ a + (f - k) = n
        BY <3>0
      <3>2. pos[h].slot = FirstSlot(m) /\ (BeatAddr(n) - pos[h].last * FlitsPerBeat - Begin(q)) % Page = 0
        <4>1. q.addr + Flits(q) - pos[h].flit = n
          BY <3>0, <3>1
        <4> QED
          BY <4>1, <2>2, <1>5 DEF AtFlit
      <3>3. NextSlot(h) = (FirstSlot(m) + 1) % FlitsPerBeat
        BY <2>2, <3>2 DEF NextSlot
      <3>4. FirstSlot(m + 1) = (FirstSlot(m) + 1) % FlitsPerBeat
        BY <3>1, SlotStep
      <3> QED
        BY <3>1, <3>2, <3>3, <3>4, <2>2, <1>6
    <2> QED
      BY <2>1, <2>2
  <1>10. BeatDone(h) <=> (left = 0 \/ FirstSlot(n) + 1 = FlitsPerBeat)
    BY <1>9 DEF BeatDone
  <1> QED
    BY <1>6, <1>7, <1>8, <1>9, <1>10

StepFrom(q, n, left, base, full) ==
    /\ q \in Fitting /\ ~ Denied(q) /\ n \in Nat /\ left \in Nat
    /\ q.addr <= n /\ n + left + 1 = q.addr + Flits(q)
    /\ base \in 0 .. MaxBeats - 1 /\ (BeatAddr(n) - base * FlitsPerBeat - Begin(q)) % Page = 0
    /\ full \in BOOLEAN /\ (full <=> (left = 0 \/ FirstSlot(n) + 1 = FlitsPerBeat))
StepTo(q, n, left, base, full) ==
    /\ full => (EndsBurst(q, BeatAddr(n) + FlitsPerBeat) <=> (left = 0 \/ base = MaxBeats - 1))
    /\ left # 0 => (BeatAddr(n + 1) - LastAfter(full, base) * FlitsPerBeat - Begin(q)) % Page = 0
    /\ left = 0 => LastAfter(full, base) # MaxBeats - 1

\* What FlitStep says of every flit.
LEMMA FlitSteps ==
  ASSUME NEW q, NEW n, NEW left, NEW base, NEW full, StepFrom(q, n, left, base, full)
  PROVE  StepTo(q, n, left, base, full)
  <1>1. /\ q \in Fitting /\ ~ Denied(q) /\ n \in Nat /\ left \in Nat
        /\ q.addr <= n /\ n + left + 1 = q.addr + Flits(q)
        /\ base \in 0 .. MaxBeats - 1 /\ (BeatAddr(n) - base * FlitsPerBeat - Begin(q)) % Page = 0
        /\ full \in BOOLEAN /\ (full <=> (left = 0 \/ FirstSlot(n) + 1 = FlitsPerBeat))
    BY Zenon DEF StepFrom
  <1> QED
    BY <1>1, FlitStep, Zenon DEF StepTo

\* The beat that the flit lies in, and the counters after it.
LEMMA JobStep ==
  ASSUME Types, NEW h \in WritePort, JobsOK(h), beats[h] # <<>>, NEW j, j = Job(h), ~ j.denied,
         NEW q, q = req[j.id], NEW n, n = Location(h), NEW left, left = FlitLeft(h)
  PROVE  /\ BeatDone(h) => (BurstDone(h) <=> EndsBurst(q, BeatAddr(n) + FlitsPerBeat))
         /\ left # 0 => (BeatAddr(n + 1) - LastCntr(h) * FlitsPerBeat - Begin(q)) % Page = 0
         /\ left = 0 => LastCntr(h) # MaxBeats - 1
         /\ NextSlot(h) = FirstSlot(n)
         /\ BeatAddr(n) \in Nat /\ Begin(q) <= BeatAddr(n) /\ BeatAddr(n) + FlitsPerBeat <= End(q)
         /\ left = 0 => BeatAddr(n) + FlitsPerBeat = End(q)
         /\ left # 0 => BeatAddr(n + 1) = (IF BeatDone(h) THEN BeatAddr(n) + FlitsPerBeat ELSE BeatAddr(n))
         /\ ~ BeatDone(h) => left # 0
  <1> DEFINE base == IF First(h) THEN 0 ELSE pos[h].last
             full == BeatDone(h)
  <1>1. q \in Fitting /\ ~ Denied(q) /\ Flits(q) \in Nat \ {0} /\ q.addr \in Nat
    BY OldestJob
  <1>2. left \in Nat /\ n \in Nat /\ q.addr <= n /\ n + left + 1 = q.addr + Flits(q)
    BY JobPlace
  <1>3. /\ NextSlot(h) = FirstSlot(n) /\ base \in 0 .. MaxBeats - 1
        /\ (BeatAddr(n) - base * FlitsPerBeat - Begin(q)) % Page = 0
        /\ BurstDone(h) <=> (left = 0 \/ base = MaxBeats - 1)
        /\ full <=> (left = 0 \/ FirstSlot(n) + 1 = FlitsPerBeat)
        /\ LastCntr(h) = LastAfter(full, base)
    BY JobCounters
  <1>4. full \in BOOLEAN
    BY DEF BeatDone
  <1> HIDE DEF base, full
  <1>5. /\ full => (EndsBurst(q, BeatAddr(n) + FlitsPerBeat) <=> (left = 0 \/ base = MaxBeats - 1))
        /\ left # 0 => (BeatAddr(n + 1) - LastAfter(full, base) * FlitsPerBeat - Begin(q)) % Page = 0
        /\ left = 0 => LastAfter(full, base) # MaxBeats - 1
    <2>1. q \in Fitting /\ ~ Denied(q) /\ n \in Nat /\ left \in Nat
      BY <1>1, <1>2
    <2>2. q.addr <= n /\ n + left + 1 = q.addr + Flits(q)
      BY <1>2
    <2>3. base \in 0 .. MaxBeats - 1 /\ (BeatAddr(n) - base * FlitsPerBeat - Begin(q)) % Page = 0
      BY <1>3
    <2>4. full \in BOOLEAN /\ (full <=> (left = 0 \/ FirstSlot(n) + 1 = FlitsPerBeat))
      BY <1>3, <1>4
    <2> QED
      <3>1. StepFrom(q, n, left, base, full)
        BY <2>1, <2>2, <2>3, <2>4, Zenon DEF StepFrom
      <3>2. StepTo(q, n, left, base, full)
        BY <3>1, FlitSteps, Zenon
      <3> QED
        BY <3>2, Zenon DEF StepTo
  <1>6. n < q.addr + Flits(q) /\ (left = 0 => n = q.addr + Flits(q) - 1)
    BY <1>1, <1>2
  <1>7. /\ BeatAddr(n) \in Nat /\ Begin(q) <= BeatAddr(n) /\ BeatAddr(n) + FlitsPerBeat <= End(q)
        /\ left = 0 => BeatAddr(n) + FlitsPerBeat = End(q)
    BY <1>1, <1>2, <1>6, BeatBounds
  <1>8. left # 0 => BeatAddr(n + 1) = (IF full THEN BeatAddr(n) + FlitsPerBeat ELSE BeatAddr(n))
    BY <1>2, <1>3, SlotStep
  <1> QED
    BY <1>3, <1>5, <1>7, <1>8 DEF full

\* The spans of the requests behind the first one do not depend on its flits.
LEMMA JobTail ==
  ASSUME NEW T, NEW R, NEW jobs \in Seq(T), jobs # <<>>, NEW l, NEW l2,
         JobSpans(R, jobs, l) \in Seq(SpanType), JobSpans(R, jobs, l2) \in Seq(SpanType)
  PROVE  JobSpans(R, jobs, l2) # <<>> /\ Tail(JobSpans(R, jobs, l2)) = Tail(JobSpans(R, jobs, l))
  <1> DEFINE Z == JobSpans(R, jobs, l)
             Z2 == JobSpans(R, jobs, l2)
             n == Len(jobs)
  <1>1. /\ n \in Nat /\ n >= 1 /\ DOMAIN jobs = 1 .. n
    OBVIOUS
  <1>2. DOMAIN Z = DOMAIN jobs /\ DOMAIN Z2 = DOMAIN jobs
    BY DEF JobSpans
  <1>3. \A i \in DOMAIN jobs : i # 1 => Z2[i] = Z[i]
    BY Zenon DEF JobSpans
  <1> HIDE DEF n, Z, Z2
  <1>4. Len(Z) = n /\ Len(Z2) = n /\ Z # <<>> /\ Z2 # <<>>
    BY <1>1, <1>2 DEF Z, Z2
  <1>5. Tail(Z) = [i \in 1 .. Len(Z) - 1 |-> Z[i + 1]] /\ Tail(Z2) = [i \in 1 .. Len(Z2) - 1 |-> Z2[i + 1]]
    BY <1>4, TailIs DEF Z, Z2
  <1>6. \A i \in 1 .. n - 1 : Z2[i + 1] = Z[i + 1]
    BY <1>1, <1>3
  <1> QED
    BY <1>4, <1>5, <1>6 DEF Z, Z2

\* The first request leaves.
LEMMA JobLeaves ==
  ASSUME NEW T, NEW R, NEW jobs \in Seq(T), jobs # <<>>, NEW l, NEW t, t = Tail(jobs),
         JobSpans(R, jobs, l) \in Seq(SpanType)
  PROVE  JobSpans(R, t, 0) = Tail(JobSpans(R, jobs, l))
  <1> DEFINE Z == JobSpans(R, jobs, l)
             Z2 == JobSpans(R, t, 0)
             n == Len(jobs)
  <1>1. /\ n \in Nat /\ n >= 1 /\ DOMAIN jobs = 1 .. n /\ DOMAIN t = 1 .. n - 1
        /\ \A i \in 1 .. n - 1 : t[i] = jobs[i + 1]
    OBVIOUS
  <1>2. DOMAIN Z = DOMAIN jobs /\ DOMAIN Z2 = DOMAIN t /\ Z2 = [i \in DOMAIN t |-> Z2[i]]
    BY DEF JobSpans
  <1>3. \A i \in 1 .. n - 1 : Z2[i] = Z[i + 1]
    <2> TAKE i \in 1 .. n - 1
    <2> DEFINE j == jobs[i + 1]
               k == i + 1
    <2>1. i \in DOMAIN t /\ k \in DOMAIN jobs /\ t[i] = j /\ jobs[k] = j /\ k # 1
      BY <1>1
    <2> HIDE DEF j, k
    <2>2. Z2[i] = [on |-> ~ j.denied, id |-> j.id, lo |-> Begin(R[j.id]), hi |-> End(R[j.id])]
      BY <2>1, Zenon DEF JobSpans
    <2>3. Z[k] = [on |-> ~ j.denied, id |-> j.id, lo |-> Begin(R[j.id]), hi |-> End(R[j.id])]
      BY <2>1, Zenon DEF JobSpans
    <2> QED
      BY <2>2, <2>3, Zenon DEF k
  <1> HIDE DEF n, Z, Z2
  <1>4. Len(Z) = n /\ Z # <<>>
    BY <1>1, <1>2 DEF Z
  <1>5. Tail(Z) = [i \in 1 .. Len(Z) - 1 |-> Z[i + 1]]
    BY <1>4, TailIs DEF Z
  <1>6. Z2 = [i \in 1 .. n - 1 |-> Z2[i]]
    BY <1>1, <1>2
  <1>7. Z2 = [i \in 1 .. n - 1 |-> Z[i + 1]]
    BY <1>6, <1>3
  <1> QED
    BY <1>4, <1>5, <1>7 DEF Z, Z2

JobLo(q, j, l) == IF l # 0 THEN BeatAddr(q.addr + j.flits - l) ELSE Begin(q)

\* The first span of the requests.
LEMMA JobHead ==
  ASSUME NEW T, NEW R, NEW jobs \in Seq(T), jobs # <<>>, NEW l, NEW j, j = Head(jobs), NEW o, o = ~ j.denied,
         JobSpans(R, jobs, l) \in Seq(SpanType)
  PROVE  /\ JobSpans(R, jobs, l) # <<>>
         /\ Head(JobSpans(R, jobs, l)) = [on |-> o, id |-> j.id, lo |-> JobLo(R[j.id], j, l),
                                          hi |-> End(R[j.id])]
  <1> DEFINE Z == JobSpans(R, jobs, l)
  <1>1. j = jobs[1] /\ 1 \in DOMAIN jobs
    OBVIOUS
  <1>2. Z[1] = [on |-> o, id |-> j.id, lo |-> JobLo(R[j.id], j, l), hi |-> End(R[j.id])]
    BY <1>1, Zenon DEF JobSpans, JobLo
  <1>3. 1 \in DOMAIN Z
    BY <1>1 DEF JobSpans
  <1> HIDE DEF Z
  <1>4. Z # <<>> /\ Head(Z) = Z[1]
    BY <1>3 DEF Z
  <1> QED
    BY <1>2, <1>4, Zenon DEF Z

\* The first span of the requests, if the request is denied.
LEMMA JobHeadOff ==
  ASSUME NEW T, NEW R, NEW jobs \in Seq(T), jobs # <<>>, NEW l, Head(jobs).denied,
         JobSpans(R, jobs, l) \in Seq(SpanType)
  PROVE  JobSpans(R, jobs, l) # <<>> /\ ~ Head(JobSpans(R, jobs, l)).on
  <1> DEFINE j == Head(jobs)
             o == ~ j.denied
             Z == JobSpans(R, jobs, l)
  <1>1. jobs[1] = j /\ 1 \in DOMAIN jobs
    OBVIOUS
  <1>2. Z[1] = [on |-> o, id |-> j.id, lo |-> JobLo(R[j.id], j, l), hi |-> End(R[j.id])]
    BY <1>1, Zenon DEF JobSpans, JobLo
  <1>3. 1 \in DOMAIN Z
    BY <1>1 DEF JobSpans
  <1>4. o = FALSE
    OBVIOUS
  <1> HIDE DEF Z, o, j
  <1>5. ~ Z[1].on
    BY <1>2, <1>4
  <1>6. Z # <<>> /\ Head(Z) = Z[1]
    BY <1>3 DEF Z
  <1> QED
    BY <1>5, <1>6 DEF Z

\* Sequences with the same head and the same tail.
LEMMA SameSeq ==
  ASSUME NEW T, NEW s \in Seq(T), NEW t \in Seq(T), s # <<>>, t # <<>>, Head(s) = Head(t), Tail(s) = Tail(t)
  PROVE  s = t
  <1>1. Tail(s) = [i \in 1 .. Len(s) - 1 |-> s[i + 1]] /\ Tail(t) = [i \in 1 .. Len(t) - 1 |-> t[i + 1]]
    BY TailIs
  <1>2. Len(s) \in Nat /\ Len(s) >= 1 /\ Len(t) \in Nat /\ Len(t) >= 1 /\ Head(s) = s[1] /\ Head(t) = t[1]
    OBVIOUS
  <1>3. Len(Tail(s)) = Len(s) - 1 /\ Len(Tail(t)) = Len(t) - 1
    OBVIOUS
  <1>4. Len(s) = Len(t)
    <2> DEFINE m == Len(Tail(s))
               n == Len(Tail(t))
    <2>1. m = n
      BY Zenon
    <2>2. m = Len(s) - 1 /\ n = Len(t) - 1
      BY <1>3
    <2> HIDE DEF m, n
    <2> QED
      BY <2>1, <2>2, <1>2
  <1>5. \A i \in 1 .. Len(s) : s[i] = t[i]
    <2> TAKE i \in 1 .. Len(s)
    <2>1. CASE i = 1
      BY <2>1, <1>2
    <2>2. CASE i # 1
      <3> DEFINE k == i - 1
      <3>1. k \in 1 .. Len(s) - 1 /\ k + 1 = i /\ k \in 1 .. Len(t) - 1
        BY <2>2, <1>2, <1>4
      <3> HIDE DEF k
      <3>2. Tail(s)[k] = s[k + 1] /\ Tail(t)[k] = t[k + 1]
        BY <3>1, <1>1
      <3> QED
        BY <3>1, <3>2
    <2> QED
      BY <2>1, <2>2
  <1> QED
    BY <1>4, <1>5

\* The requests of a handler, the oldest of which may leave.
LEMMA LeavingJobs ==
  ASSUME Types, NEW h \in WritePort, JobsOK(h), beats[h] # <<>>, UNCHANGED req,
         beats'[h] = Tail(beats[h]) \/ beats'[h] = beats[h]
  PROVE  /\ \A j \in Els(beats'[h]) : JobIs(req, h, j)
         /\ \A i, j \in DOMAIN beats'[h] : i < j => beats'[h][i].id < beats'[h][j].id
  <1> DEFINE s == beats[h]
             t == beats'[h]
             T == JobType(Ids)
  <1>1. s \in Seq(T)
    BY DEF Types, JobOK, WritePort, Handler
  <1>2. /\ \A j \in Els(s) : JobIs(req, h, j)
        /\ \A i, j \in DOMAIN s : i < j => s[i].id < s[j].id
    BY DEF JobsOK
  <1>3. t = Tail(s) \/ t = s
    OBVIOUS
  <1> HIDE DEF s, t, T
  <1>4. s # <<>>
    BY DEF s
  <1>5. CASE t = s
    BY <1>2, <1>5 DEF t
  <1>6. CASE t = Tail(s)
    <2>1. Els(s) = {Head(s)} \cup Els(t)
      BY <1>1, <1>4, <1>6, ElsTail
    <2>2. t = [i \in 1 .. Len(s) - 1 |-> s[i + 1]] /\ Len(s) \in Nat /\ DOMAIN s = 1 .. Len(s)
      BY <1>1, <1>4, <1>6, TailIs
    <2>3. ASSUME NEW i \in DOMAIN t, NEW j \in DOMAIN t, i < j PROVE t[i].id < t[j].id
      <3>1. /\ i + 1 \in DOMAIN s /\ j + 1 \in DOMAIN s /\ i + 1 < j + 1
            /\ t[i] = s[i + 1] /\ t[j] = s[j + 1]
        BY <2>2, <2>3
      <3> QED
        BY <3>1, <1>2
    <2> QED
      BY <2>1, <2>3, <1>2 DEF t
  <1> QED
    BY <1>3, <1>5, <1>6

\* A handler takes a flit.
LEMMA StepJobs ==
  ASSUME Types, NEW h \in WritePort, JobsOK(h), beats[h] # <<>>, ~ Job(h).denied, UNCHANGED req,
         pos'[h] = [flit |-> FlitLeft(h), slot |-> NextSlot(h), last |-> LastCntr(h)],
         beats'[h] = IF FlitLeft(h) = 0 THEN Tail(beats[h]) ELSE beats[h]
  PROVE  JobsOK(h)'
  <1> DEFINE j == Job(h)
             q == req[j.id]
             n == Location(h)
             left == FlitLeft(h)
             last == LastCntr(h)
  <1>1. /\ \A x \in Els(beats'[h]) : JobIs(req, h, x)
        /\ \A i, k \in DOMAIN beats'[h] : i < k => beats'[h][i].id < beats'[h][k].id
    BY LeavingJobs
  <1>2. q \in Fitting /\ j.flits = Flits(q) /\ Flits(q) \in Nat \ {0} /\ q.addr \in Nat
    BY OldestJob
  <1>3. left \in Nat /\ n \in Nat /\ q.addr <= n /\ n + left + 1 = q.addr + Flits(q)
    BY JobPlace
  <1>4. /\ left # 0 => (BeatAddr(n + 1) - last * FlitsPerBeat - Begin(q)) % Page = 0
        /\ left = 0 => last # MaxBeats - 1
        /\ NextSlot(h) = FirstSlot(n)
    BY JobStep
  <1>5. pos'[h].flit = left /\ pos'[h].slot = FirstSlot(n) /\ pos'[h].last = last
    BY <1>4
  <1>6. left # 0 => beats'[h] = beats[h] /\ Job(h)' = j
    BY DEF Job
  <1> HIDE DEF left, n, last, q, j
  <1>7. left # 0 => left < Flits(q) /\ AtFlit(q, pos'[h])
    <2> SUFFICES ASSUME left # 0 PROVE left < Flits(q) /\ AtFlit(q, pos'[h])
      OBVIOUS
    <2> DEFINE f == Flits(q)
               a == q.addr
    <2>1. a \in Nat /\ f \in Nat /\ a <= n /\ n + left + 1 = a + f
      BY <1>2, <1>3
    <2> HIDE DEF f, a
    <2>2. left < f /\ a + f - left = n + 1 /\ (n + 1) - 1 = n
      BY <2>1, <1>3
    <2>3. q.addr + Flits(q) - left = n + 1 /\ left < Flits(q)
      BY <2>2 DEF f, a
    <2>4. AtFlit(q, pos'[h])
      <3>1. pos'[h].flit < Flits(q)
        BY <2>3, <1>5
      <3>2. q.addr + Flits(q) - pos'[h].flit = n + 1
        BY <2>3, <1>5
      <3>3. pos'[h].slot = FirstSlot((n + 1) - 1)
        BY <2>2, <1>5
      <3>4. (BeatAddr(n + 1) - pos'[h].last * FlitsPerBeat - Begin(q)) % Page = 0
        BY <1>4, <1>5
      <3> QED
        BY <3>1, <3>2, <3>3, <3>4 DEF AtFlit
    <2> QED
      BY <2>3, <2>4
  <1>8. pos'[h].flit # 0 =>
           /\ beats'[h] # <<>> /\ pos'[h].flit < Job(h)'.flits
           /\ IF Job(h)'.denied THEN pos'[h].last # MaxBeats - 1 ELSE AtFlit(req[Job(h)'.id], pos'[h])
    <2> SUFFICES ASSUME left # 0
                 PROVE  /\ beats'[h] # <<>> /\ pos'[h].flit < Job(h)'.flits
                        /\ IF Job(h)'.denied THEN pos'[h].last # MaxBeats - 1
                           ELSE AtFlit(req[Job(h)'.id], pos'[h])
      BY <1>5
    <2>1. beats'[h] # <<>> /\ pos'[h].flit < Job(h)'.flits
      BY <1>2, <1>5, <1>6, <1>7
    <2>2. ~ Job(h)'.denied /\ AtFlit(req[Job(h)'.id], pos'[h])
      BY <1>6, <1>7 DEF j, q
    <2> QED
      BY <2>1, <2>2, Zenon
  <1>9. pos'[h].flit = 0 => pos'[h].last # MaxBeats - 1
    BY <1>4, <1>5
  <1> QED
    BY <1>1, <1>8, <1>9, Zenon DEF JobsOK

\* A handler takes a flit of its oldest request, and the span of the request
\* gets shorter when the beat is complete.
LEMMA StepSpans ==
  ASSUME Types, Types', NEW h \in WritePort, JobsOK(h), beats[h] # <<>>, ~ Job(h).denied, UNCHANGED req,
         pos'[h].flit = FlitLeft(h), NEW n, n = Location(h), NEW q, q = req[Job(h).id],
         beats'[h] = IF FlitLeft(h) = 0 THEN Tail(beats[h]) ELSE beats[h]
  PROVE  /\ Jobs(h) # <<>>
         /\ Head(Jobs(h)) = [on |-> TRUE, id |-> Job(h).id, lo |-> BeatAddr(n), hi |-> End(q)]
         /\ BeatDone(h) => Shrinks(Jobs(h), BeatAddr(n) + FlitsPerBeat, Jobs(h)')
         /\ ~ BeatDone(h) => Jobs(h)' = Jobs(h)
  <1> DEFINE j == Job(h)
             left == FlitLeft(h)
             k == pos[h].flit
             s == beats[h]
             t == beats'[h]
             T == JobType(Ids)
             Z == Jobs(h)
             Z2 == Jobs(h)'
             o == ~ j.denied
             F == FlitsPerBeat
  <1>1. j.flits = Flits(q) /\ Flits(q) \in Nat \ {0} /\ q.addr \in Nat /\ q \in Fitting /\ ~ Denied(q)
    BY OldestJob
  <1>2. /\ left \in Nat /\ n \in Nat /\ q.addr <= n /\ n + left + 1 = q.addr + Flits(q)
        /\ First(h) => n = q.addr
        /\ ~ First(h) => n = (q.addr + Flits(q)) - k /\ left + 1 = k
    BY JobPlace
  <1>3. /\ BeatAddr(n) \in Nat /\ Begin(q) <= BeatAddr(n) /\ BeatAddr(n) + F <= End(q)
        /\ left = 0 => BeatAddr(n) + F = End(q)
        /\ left # 0 => BeatAddr(n + 1) = (IF BeatDone(h) THEN BeatAddr(n) + F ELSE BeatAddr(n))
        /\ ~ BeatDone(h) => left # 0
    BY JobStep
  <1>4. /\ s \in Seq(T) /\ s # <<>> /\ k \in Nat /\ j = Head(s)
        /\ t = IF left = 0 THEN Tail(s) ELSE s
    <2>1. JobOK /\ h \in Handler
      BY DEF Types, WritePort, Handler
    <2>2. s \in Seq(T) /\ pos[h] \in PosType
      BY <2>1 DEF JobOK
    <2> QED
      BY <2>2 DEF PosType, Job
  <1>5. Z \in Seq(SpanType) /\ Z2 \in Seq(SpanType)
    BY KeepsSpans, NextSpans DEF SpansOK
  <1>6. Z = JobSpans(req, s, k) /\ Z2 = JobSpans(req, t, left)
    BY DEF Jobs
  <1>7. o = TRUE /\ o = ~ j.denied /\ q = req[j.id]
    OBVIOUS
  <1> HIDE DEF T, s, t, k, j, left, Z, Z2, o, F
  <1>8. Z # <<>> /\ Head(Z) = [on |-> o, id |-> j.id, lo |-> JobLo(q, j, k), hi |-> End(q)]
    <2>1. JobSpans(req, s, k) \in Seq(SpanType)
      BY <1>5, <1>6
    <2>2. /\ JobSpans(req, s, k) # <<>>
          /\ Head(JobSpans(req, s, k)) = [on |-> o, id |-> j.id, lo |-> JobLo(req[j.id], j, k), hi |-> End(req[j.id])]
      BY <2>1, <1>4, <1>7, JobHead
    <2> QED
      BY <2>2, <1>6, <1>7
  <1>9. JobLo(q, j, k) = BeatAddr(n)
    <2>1. CASE First(h)
      BY <2>1, <1>2 DEF JobLo, First, k, Begin
    <2>2. CASE ~ First(h)
      <3>1. k # 0
        BY <2>2 DEF First, k
      <3> DEFINE f == Flits(q)
                 a == q.addr
      <3>2. n = (a + f) - k /\ a \in Nat /\ f \in Nat /\ j.flits = f
        BY <1>1, <1>2, <2>2
      <3> HIDE DEF f
      <3>3. a + j.flits - k = n
        BY <3>2, <1>4
      <3> QED
        BY <3>1, <3>3 DEF JobLo
    <2> QED
      BY <2>1, <2>2
  <1>10. CASE left = 0
    <2>1. Z2 = Tail(Z)
      <3>1. t = Tail(s) /\ JobSpans(req, s, k) \in Seq(SpanType)
        BY <1>4, <1>5, <1>6, <1>10
      <3>2. JobSpans(req, t, 0) = Tail(JobSpans(req, s, k))
        BY <3>1, <1>4, JobLeaves
      <3> QED
        BY <3>2, <1>6, <1>10
    <2>2. Shrinks(Z, BeatAddr(n) + F, Z2)
      BY <2>1, <1>3, <1>8, <1>10 DEF Shrinks
    <2> QED
      BY <2>2, <1>3, <1>7, <1>8, <1>9, <1>10 DEF Z, Z2, j, F
  <1>11. CASE left # 0
    <2>1. t = s
      BY <1>4, <1>11
    <2>2. JobSpans(req, s, k) \in Seq(SpanType) /\ JobSpans(req, s, left) \in Seq(SpanType)
      BY <2>1, <1>5, <1>6
    <2>3. JobSpans(req, s, left) # <<>> /\ Tail(JobSpans(req, s, left)) = Tail(JobSpans(req, s, k))
      BY <2>2, <1>4, JobTail
    <2>4. /\ JobSpans(req, s, left) # <<>>
          /\ Head(JobSpans(req, s, left)) = [on |-> o, id |-> j.id, lo |-> JobLo(req[j.id], j, left), hi |-> End(req[j.id])]
      <3>1. JobSpans(req, s, left) \in Seq(SpanType)
        BY <2>2
      <3> QED
        BY <3>1, <1>4, <1>7, JobHead
    <2>5. JobLo(q, j, left) = BeatAddr(n + 1)
      <3> DEFINE f == Flits(q)
                 a == q.addr
                 g == j.flits
      <3>1. n + left + 1 = a + f /\ a \in Nat /\ f \in Nat /\ g = f /\ n \in Nat /\ left \in Nat
        BY <1>1, <1>2
      <3> HIDE DEF f, g, a
      <3>2. a + g - left = n + 1
        BY <3>1
      <3>3. q.addr + j.flits - left = n + 1
        BY <3>2 DEF a, g
      <3> QED
        BY <3>3, <1>11 DEF JobLo
    <2>6. /\ Z2 # <<>> /\ Tail(Z2) = Tail(Z)
          /\ Head(Z2) = [on |-> TRUE, id |-> j.id, lo |-> BeatAddr(n + 1), hi |-> End(q)]
      BY <2>1, <2>3, <2>4, <2>5, <1>6, <1>7
    <2>7. CASE BeatDone(h)
      <3>1. Shrinks(Z, BeatAddr(n) + F, Z2)
        <4>2. Head(Z) = [on |-> TRUE, id |-> j.id, lo |-> BeatAddr(n), hi |-> End(q)]
          BY <1>7, <1>8, <1>9
        <4>1. BeatAddr(n) <= BeatAddr(n) + F
          BY <1>3, Sizes DEF F
        <4> QED
          BY <2>6, <2>7, <4>1, <4>2, <1>3, <1>11 DEF Shrinks
      <3> QED
        BY <3>1, <2>7, <1>7, <1>8, <1>9 DEF Z, Z2, j, F
    <2>8. CASE ~ BeatDone(h)
      <3>1. Head(Z2) = Head(Z)
        BY <2>6, <2>8, <1>3, <1>7, <1>8, <1>9, <1>11
      <3>2. Z2 = Z
        BY <3>1, <2>6, <1>5, <1>8, SameSeq
      <3> QED
        BY <3>2, <2>8, <1>7, <1>8, <1>9 DEF Z, Z2, j
    <2> QED
      BY <2>7, <2>8
  <1> QED
    BY <1>10, <1>11

\* A denied request of a handler loses a flit, its span is not there.
LEMMA DropJobs ==
  ASSUME Types, NEW h \in WritePort, JobsOK(h), beats[h] # <<>>, Job(h).denied, UNCHANGED req,
         pos'[h].flit = FlitLeft(h), pos'[h].last = pos[h].last,
         beats'[h] = IF FlitLeft(h) = 0 THEN Tail(beats[h]) ELSE beats[h]
  PROVE  JobsOK(h)'
  <1> DEFINE j == Job(h)
             q == req[j.id]
             left == FlitLeft(h)
  <1>1. /\ \A x \in Els(beats'[h]) : JobIs(req, h, x)
        /\ \A i, k \in DOMAIN beats'[h] : i < k => beats'[h][i].id < beats'[h][k].id
    BY LeavingJobs
  <1>2. j.flits = Flits(q) /\ Flits(q) \in Nat \ {0} /\ q.addr \in Nat
    BY OldestJob
  <1>3. left \in Nat /\ Location(h) \in Nat /\ q.addr <= Location(h)
        /\ Location(h) + left + 1 = q.addr + Flits(q)
    BY JobPlace
  <1>4. pos[h].last # MaxBeats - 1
    BY Zenon DEF JobsOK
  <1>5. left < j.flits
    <2> DEFINE f == Flits(q)
               a == q.addr
               n == Location(h)
    <2>1. left \in Nat /\ n \in Nat /\ a <= n /\ n + left + 1 = a + f /\ f \in Nat /\ a \in Nat
      BY <1>2, <1>3
    <2> HIDE DEF f, a, n, left
    <2>2. left < f
      BY <2>1
    <2> QED
      BY <2>2, <1>2 DEF f
  <1>6. left # 0 => beats'[h] = beats[h] /\ Job(h)' = j
    BY DEF Job
  <1> HIDE DEF left, j
  <1>7. pos'[h].flit = left /\ pos'[h].last # MaxBeats - 1
    BY <1>4 DEF left
  <1>8. pos'[h].flit # 0 =>
           /\ beats'[h] # <<>> /\ pos'[h].flit < Job(h)'.flits
           /\ IF Job(h)'.denied THEN pos'[h].last # MaxBeats - 1 ELSE AtFlit(req[Job(h)'.id], pos'[h])
    <2> SUFFICES ASSUME left # 0
                 PROVE  /\ beats'[h] # <<>> /\ pos'[h].flit < Job(h)'.flits
                        /\ IF Job(h)'.denied THEN pos'[h].last # MaxBeats - 1
                           ELSE AtFlit(req[Job(h)'.id], pos'[h])
      BY <1>7
    <2>1. beats'[h] # <<>> /\ pos'[h].flit < Job(h)'.flits
      BY <1>5, <1>6, <1>7
    <2>2. Job(h)'.denied
      BY <1>6 DEF j
    <2> QED
      BY <2>1, <2>2, <1>7, Zenon
  <1> QED
    BY <1>1, <1>7, <1>8, Zenon DEF JobsOK

\* The spans of the handler.
LEMMA DropSpans ==
  ASSUME Types, Types', NEW h \in WritePort, JobsOK(h), beats[h] # <<>>, Job(h).denied, UNCHANGED req,
         pos'[h].flit = FlitLeft(h),
         beats'[h] = IF FlitLeft(h) = 0 THEN Tail(beats[h]) ELSE beats[h]
  PROVE  Jobs(h) # <<>> /\ ~ Head(Jobs(h)).on /\ Idles(Jobs(h), Jobs(h)')
  <1> DEFINE left == FlitLeft(h)
             k == pos[h].flit
             s == beats[h]
             t == beats'[h]
             T == JobType(Ids)
             Z == Jobs(h)
             Z2 == Jobs(h)'
  <1>4. /\ s \in Seq(T) /\ s # <<>> /\ Head(s).denied
        /\ t = IF left = 0 THEN Tail(s) ELSE s
    <2>1. JobOK /\ h \in Handler
      BY DEF Types, WritePort, Handler
    <2> QED
      BY <2>1 DEF JobOK, Job
  <1>5. Z \in Seq(SpanType) /\ Z2 \in Seq(SpanType)
    BY KeepsSpans, NextSpans DEF SpansOK
  <1>6. Z = JobSpans(req, s, k) /\ Z2 = JobSpans(req, t, left)
    BY DEF Jobs
  <1> HIDE DEF T, s, t, k, left, Z, Z2
  <1>8. Z # <<>> /\ ~ Head(Z).on
    <2>1. JobSpans(req, s, k) \in Seq(SpanType)
      BY <1>5, <1>6
    <2>2. JobSpans(req, s, k) # <<>> /\ ~ Head(JobSpans(req, s, k)).on
      BY <2>1, <1>4, JobHeadOff
    <2> QED
      BY <2>2, <1>6
  <1>10. CASE left = 0
    <2>1. Z2 = Tail(Z)
      <3>1. t = Tail(s) /\ JobSpans(req, s, k) \in Seq(SpanType)
        BY <1>4, <1>5, <1>6, <1>10
      <3>2. JobSpans(req, t, 0) = Tail(JobSpans(req, s, k))
        BY <3>1, <1>4, JobLeaves
      <3> QED
        BY <3>2, <1>6, <1>10
    <2> QED
      BY <2>1, <1>8 DEF Z, Z2, Idles
  <1>11. CASE left # 0
    <2>1. t = s
      BY <1>4, <1>11
    <2>2. JobSpans(req, s, k) \in Seq(SpanType) /\ JobSpans(req, s, left) \in Seq(SpanType)
      BY <2>1, <1>5, <1>6
    <2>3. JobSpans(req, s, left) # <<>> /\ Tail(JobSpans(req, s, left)) = Tail(JobSpans(req, s, k))
      BY <2>2, <1>4, JobTail
    <2>4. JobSpans(req, s, left) # <<>> /\ ~ Head(JobSpans(req, s, left)).on
      BY <2>2, <1>4, JobHeadOff
    <2>5. Z2 # <<>> /\ Tail(Z2) = Tail(Z) /\ ~ Head(Z2).on
      BY <2>1, <2>3, <2>4, <1>6
    <2> QED
      BY <2>5, <1>8 DEF Z, Z2, Idles
  <1> QED
    BY <1>10, <1>11

\* Steps that only change how the beats of a port proceed.
LEMMA InvBeats ==
  ASSUME Types, BurstsInv, NEW p \in WritePort, UNCHANGED <<req, prep, aw, write_order>>,
         \A r \in ReadPort : rd'[r].addr = rd[r].addr,
         \A g \in WritePort : wr'[g].addr = wr[g].addr,
         \A g \in WritePort : g # p => /\ beats'[g] = beats[g] /\ pos'[g] = pos[g]
                                       /\ wr'[g].data = wr[g].data /\ Back(g)' = Back(g),
         JobsOK(p)', MarksOK(p)', BeatsKept(p)
  PROVE  BurstsInv'
  <1>1. PagesOK'
    BY FramePages DEF BurstsInv
  <1>2. OrderOK'
    BY FrameOrder DEF BurstsInv
  <1>3. ASSUME NEW g \in WritePort
        PROVE  JobsOK(g)' /\ MarksOK(g)' /\ AsksOK(g)' /\ FlowOK(g)'
    <2>1. JobsOK(g) /\ MarksOK(g) /\ AsksOK(g) /\ FlowOK(g) /\ g \in Handler
      BY DEF BurstsInv, WritePort, Handler
    <2>2. Grows(req, req') /\ prep'[g] = prep[g] /\ wr'[g].addr = wr[g].addr
      BY SameGrows
    <2>3. AsksOK(g)' /\ BurstsKept(g)
      BY <2>1, <2>2, FrameAsks, FrameBursts
    <2>4. JobsOK(g)' /\ MarksOK(g)' /\ BeatsKept(g)
      <3>1. CASE g = p
        BY <3>1
      <3>2. CASE g # p
        <4>1. /\ beats'[g] = beats[g] /\ pos'[g] = pos[g] /\ wr'[g].data = wr[g].data
              /\ Back(g)' = Back(g)
          BY <3>2
        <4> QED
          BY <4>1, <2>1, <2>2, FrameJobs, FrameMarks, FrameBeats
      <3> QED
        BY <3>1, <3>2
    <2> QED
      BY <2>1, <2>3, <2>4, FlowKept
  <1> QED
    BY <1>1, <1>2, <1>3 DEF BurstsInv

\* A span passes from the third place to the second.
LEMMA PassSame ==
  ASSUME NEW X \in Seq(SpanType), NEW Y \in Seq(SpanType), NEW Z \in Seq(SpanType), Z # <<>>,
         NEW Z2 \in Seq(SpanType), NEW y \in SpanType, Stream(X, Y, Z),
         Head(Z).on, y.on, y.id = Head(Z).id, y.lo = Head(Z).lo, NEW cut, cut = y.hi, Shrinks(Z, cut, Z2),
         NEW Y2, Y2 = Append(Y, y)
  PROVE  Same(X, Y, Z, X, Y2, Z2)
  <1>1. /\ Stream(X, Append(Y, y), Z2)
        /\ \A id \in Nat, b \in Int : Pending(X, Append(Y, y), Z2, id, b) <=> Pending(X, Y, Z, id, b)
    BY StreamPass
  <1> QED
    BY <1>1, Zenon DEF Same

\* A span passes to the first place, with nothing in the second.
LEMMA DirectSame ==
  ASSUME NEW X \in Seq(SpanType), NEW Z \in Seq(SpanType), Z # <<>>,
         NEW Z2 \in Seq(SpanType), NEW y \in SpanType, Stream(X, <<>>, Z),
         Head(Z).on, y.on, y.id = Head(Z).id, y.lo = Head(Z).lo, NEW cut, cut = y.hi, Shrinks(Z, cut, Z2),
         NEW X2, X2 = Append(X, y)
  PROVE  Same(X, <<>>, Z, X2, <<>>, Z2)
  <1> DEFINE E == <<>>
             Y2 == Append(E, y)
  <1>1. E \in Seq(SpanType) /\ Y2 \in Seq(SpanType) /\ Y2 # <<>> /\ Head(Y2) = y /\ Tail(Y2) = <<>>
    OBVIOUS
  <1>2. Same(X, E, Z, X, Y2, Z2)
    <2>1. E \in Seq(SpanType) /\ Stream(X, E, Z) /\ Y2 = Append(E, y)
      OBVIOUS
    <2> HIDE DEF E, Y2
    <2> QED
      BY <2>1, PassSame
  <1> HIDE DEF Y2
  <1>3. Stream(X, Y2, Z2)
    BY <1>2 DEF Same
  <1>4. /\ Stream(Append(X, Head(Y2)), Tail(Y2), Z2)
        /\ \A id \in Nat, a \in Int : Pending(Append(X, Head(Y2)), Tail(Y2), Z2, id, a) <=> Pending(X, Y2, Z2, id, a)
    BY <1>1, <1>3, StreamMove
  <1>5. /\ Stream(X2, <<>>, Z2)
        /\ \A id \in Nat, a \in Int : Pending(X2, <<>>, Z2, id, a) <=> Pending(X, Y2, Z2, id, a)
    BY <1>1, <1>4
  <1>6. \A id \in Nat, a \in Int : Pending(X, Y2, Z2, id, a) <=> Pending(X, <<>>, Z, id, a)
    BY <1>2 DEF Same
  <1> QED
    BY <1>5, <1>6, Zenon DEF Same

\* A span that is not there leaves the second place.
LEMMA IdleSame ==
  ASSUME NEW X \in Seq(SpanType), NEW Y \in Seq(SpanType), NEW Z \in Seq(SpanType), Y # <<>>,
         Stream(X, Y, Z), ~ Head(Y).on, NEW Y2 \in Seq(SpanType), Y2 = Tail(Y)
  PROVE  Same(X, Y, Z, X, Y2, Z)
  <1>1. Sorted(Y) /\ Idles(Y, Y2)
    BY DEF Stream, Idles
  <1>2. /\ Sorted(Y2)
        /\ \A id, a : (\E x \in Els(Y2) : Covers(x, id, a)) <=> \E x \in Els(Y) : Covers(x, id, a)
        /\ \A A : AllBefore(A, Els(Y)) <=> AllBefore(A, Els(Y2))
        /\ \A A : AllBefore(Els(Y), A) <=> AllBefore(Els(Y2), A)
    BY <1>1, IdleFacts
  <1>3. Stream(X, Y2, Z)
    BY <1>2 DEF Stream
  <1>4. ASSUME NEW id \in Nat, NEW a \in Int
        PROVE  Pending(X, Y2, Z, id, a) <=> Pending(X, Y, Z, id, a)
    BY <1>2 DEF Pending
  <1> QED
    BY <1>3, <1>4 DEF Same

\* What was appended has the type of the elements.
LEMMA LastIn ==
  ASSUME NEW S, NEW s \in Seq(S), NEW x, NEW T, NEW t \in Seq(T), t = Append(s, x)
  PROVE  x \in T
  <1>1. Len(t) = Len(s) + 1 /\ Len(s) \in Nat /\ t[Len(s) + 1] = x
    OBVIOUS
  <1>2. Len(s) + 1 \in DOMAIN t
    BY <1>1
  <1>3. t[Len(s) + 1] \in T
    BY <1>2
  <1> QED
    BY <1>1, <1>3

\* The requests of a handler and its counters when a flit is taken.
LEMMA TakenFlit ==
  ASSUME Types, NEW h \in Handler, NEW x, pos' = [pos EXCEPT ![h] = x], Finish(h)
  PROVE  /\ pos'[h] = x /\ beats'[h] = IF FlitLeft(h) = 0 THEN Tail(beats[h]) ELSE beats[h]
         /\ \A g \in Handler : g # h => pos'[g] = pos[g] /\ beats'[g] = beats[g]
  <1>1. JobOK
    BY DEF Types
  <1>2. pos'[h] = x /\ \A g \in Handler : g # h => pos'[g] = pos[g]
    BY <1>1 DEF JobOK
  <1>3. /\ beats'[h] = IF FlitLeft(h) = 0 THEN Tail(beats[h]) ELSE beats[h]
        /\ \A g \in Handler : g # h => beats'[g] = beats[g]
    BY <1>1 DEF JobOK, Finish, Take
  <1> QED
    BY <1>2, <1>3

\* A beat of a handler is marked if its burst ends.
LEMMA StepMark ==
  ASSUME Types, NEW h \in WritePort, JobsOK(h), beats[h] # <<>>, ~ Job(h).denied, BeatDone(h), NEW d,
         d.id = Job(h).id, d.addr = BeatAddr(Location(h)), d.last = BurstDone(h)
  PROVE  DataIs(req, h, d)
  <1> DEFINE q == req[Job(h).id]
             n == Location(h)
  <1>1. Writer(req, h, Job(h).id)
    BY OldestJob
  <1>2. BeatAddr(n) \in Nat /\ (BurstDone(h) <=> EndsBurst(q, BeatAddr(n) + FlitsPerBeat))
    BY JobStep
  <1> QED
    BY <1>1, <1>2 DEF DataIs

\* prepare_beat: what it changes
LEMMA PrepareBeatFacts ==
  ASSUME Types, WritePrepareBeat
  PROVE  /\ UNCHANGED <<req, prep, aw, write_order, writeback, rd>>
         /\ beats["write"] # <<>> /\ ~ Job("write").denied
         /\ pos'["write"] = [flit |-> FlitLeft("write"), slot |-> NextSlot("write"), last |-> LastCntr("write")]
         /\ beats'["write"] = (IF FlitLeft("write") = 0 THEN Tail(beats["write"]) ELSE beats["write"])
         /\ pos'["rmw"] = pos["rmw"] /\ beats'["rmw"] = beats["rmw"]
         /\ wr'["rmw"] = wr["rmw"] /\ wr'["write"].addr = wr["write"].addr
         /\ ~ BeatDone("write") => wr'["write"] = wr["write"]
         /\ BeatDone("write") =>
               \E b, m : wr'["write"].data =
                  Append(wr["write"].data, [id |-> Job("write").id, addr |-> BeatAddr(Location("write")),
                                            data |-> b, strb |-> m, last |-> BurstDone("write")])
  <1> DEFINE h == "write"
             x == [flit |-> FlitLeft(h), slot |-> NextSlot(h), last |-> LastCntr(h)]
             k == IF First(h) THEN 0 ELSE (mask_in.cntr + 1) % MaskFlits
             beat == [buf[h] EXCEPT ![NextSlot(h)] = Head(data_in[h])]
             strb == [mask[h] EXCEPT ![NextSlot(h)] = Head(mask_in.fifo).bits[k]]
             d == [id |-> Job(h).id, addr |-> BeatAddr(Location(h)), data |-> beat, strb |-> strb,
                   last |-> BurstDone(h)]
  <1>1. /\ UNCHANGED <<req, prep, aw, write_order, writeback, rd>>
        /\ beats["write"] # <<>> /\ ~ Job("write").denied
        /\ pos' = [pos EXCEPT !["write"] = x] /\ Finish("write")
        /\ IF BeatDone("write") THEN wr' = [wr EXCEPT !["write"].data = Append(@, d)] ELSE UNCHANGED wr
    BY Zenon DEF WritePrepareBeat, SendBeat, hist
  <1>2. /\ pos'["write"] = x
        /\ beats'["write"] = (IF FlitLeft("write") = 0 THEN Tail(beats["write"]) ELSE beats["write"])
        /\ pos'["rmw"] = pos["rmw"] /\ beats'["rmw"] = beats["rmw"]
    <2>1. "write" \in Handler /\ "rmw" \in Handler /\ "rmw" # "write"
      BY DEF Handler
    <2> HIDE DEF x, h
    <2> QED
      BY <2>1, <1>1, TakenFlit
  <1> HIDE DEF d
  <1>3. /\ wr'["rmw"] = wr["rmw"] /\ wr'["write"].addr = wr["write"].addr
        /\ ~ BeatDone("write") => wr'["write"] = wr["write"]
        /\ BeatDone("write") => wr'["write"].data = Append(wr["write"].data, d)
    <2>1. WrOK /\ "write" \in WritePort /\ "rmw" \in WritePort
      BY DEF Types, WritePort
    <2>2. CASE BeatDone("write")
      BY <2>1, <2>2, <1>1 DEF WrOK
    <2>3. CASE ~ BeatDone("write")
      BY <2>3, <1>1
    <2> QED
      BY <2>2, <2>3
  <1>4. BeatDone("write") =>
           \E b, m : wr'["write"].data =
              Append(wr["write"].data, [id |-> Job("write").id, addr |-> BeatAddr(Location("write")),
                                        data |-> b, strb |-> m, last |-> BurstDone("write")])
    <2> HIDE DEF beat, strb
    <2> QED
      BY <1>3, Zenon DEF d
  <1> QED
    BY <1>1, <1>2, <1>3, <1>4

\* The beats of a port.
LEMMA DataSeqs == Types => \A p \in WritePort : wr[p].data \in Seq(DataType(Nat))
  BY NatSeqs

\* The beats of a port after a step.
LEMMA NextDataSeqs == Types' => \A p \in WritePort : wr'[p].data \in Seq(DataType(Nat))
  <1>1. (Types => \A p \in WritePort : wr[p].data \in Seq(DataType(Nat)))'
    BY DataSeqs, PTL
  <1> QED
    BY <1>1 DEF DataType, Beat, Strobe

\* The first span of a handler's requests, as a span of its own.
LEMMA StepSpan ==
  ASSUME NEW Z, NEW id, NEW lo, NEW hi, Head(Z) = [on |-> TRUE, id |-> id, lo |-> lo, hi |-> hi]
  PROVE  Head(Z).on /\ Head(Z).id = id /\ Head(Z).lo = lo
  OBVIOUS

\* prepare_beat
LEMMA InvWritePrepareBeat ==
  ASSUME Types, Types', BurstsInv, WritePrepareBeat
  PROVE  BurstsInv'
  <1> DEFINE p == "write"
             q == req[Job(p).id]
             n == Location(p)
             X == Data(p)
             Z == Jobs(p)
             Z2 == Jobs(p)'
             E == BeatAddr(n) + FlitsPerBeat
  <1>0. p \in WritePort /\ p \in Handler /\ WritePort = {"write", "rmw"}
    BY DEF WritePort, Handler
  <1>1. JobsOK(p) /\ MarksOK(p) /\ FlowOK(p)
    BY <1>0 DEF BurstsInv
  <1>2. /\ UNCHANGED <<req, prep, aw, write_order, writeback, rd>>
        /\ beats[p] # <<>> /\ ~ Job(p).denied
        /\ pos'[p] = [flit |-> FlitLeft(p), slot |-> NextSlot(p), last |-> LastCntr(p)]
        /\ beats'[p] = (IF FlitLeft(p) = 0 THEN Tail(beats[p]) ELSE beats[p])
        /\ pos'["rmw"] = pos["rmw"] /\ beats'["rmw"] = beats["rmw"]
        /\ wr'["rmw"] = wr["rmw"] /\ wr'[p].addr = wr[p].addr
        /\ ~ BeatDone(p) => wr'[p] = wr[p]
    BY PrepareBeatFacts
  <1>3. /\ \A g \in WritePort : wr'[g].addr = wr[g].addr
        /\ \A g \in WritePort : g # p => /\ beats'[g] = beats[g] /\ pos'[g] = pos[g]
                                         /\ wr'[g].data = wr[g].data /\ Back(g)' = Back(g)
    BY <1>0, <1>2 DEF Back
  <1>4. JobsOK(p)'
    BY <1>0, <1>1, <1>2, StepJobs
  <1>5. /\ Z # <<>> /\ Head(Z) = [on |-> TRUE, id |-> Job(p).id, lo |-> BeatAddr(n), hi |-> End(q)]
        /\ BeatDone(p) => Shrinks(Z, E, Z2)
        /\ ~ BeatDone(p) => Z2 = Z
    <2>1. pos'[p].flit = FlitLeft(p)
      BY <1>2
    <2> QED
      BY <2>1, <1>0, <1>1, <1>2, StepSpans
  <1>6. X \in Seq(SpanType) /\ Z \in Seq(SpanType) /\ Z2 \in Seq(SpanType)
    BY <1>0, KeepsSpans, NextSpans DEF SpansOK
  <1>7. /\ Backs(p) = <<>> /\ Backs(p)' = <<>> /\ Back(p) = <<>> /\ Back(p)' = <<>>
    BY DEF Backs, Back, Mapped
  <1>8. Stream(X, <<>>, Z)
    BY <1>1, <1>7 DEF FlowOK
  <1>9. CASE ~ BeatDone(p)
    <2>1. wr'[p].data = wr[p].data /\ Back(p)' = Back(p) /\ Grows(req, req')
      BY <1>2, <1>7, <1>9, SameGrows
    <2>2. MarksOK(p)'
      BY <2>1, <1>1, FrameMarks
    <2>3. Data(p)' = X
      BY <2>1 DEF Data, OfData
    <2>4. BeatsKept(p)
      <3>1. Same(X, <<>>, Z, X, <<>>, Z)
        BY <1>8, SameRefl
      <3> QED
        BY <3>1, <2>3, <1>5, <1>7, <1>9 DEF BeatsKept
    <2> HIDE DEF p
    <2> QED
      BY <2>2, <2>4, <1>0, <1>2, <1>3, <1>4, InvBeats
  <1>10. CASE BeatDone(p)
    <2>1. PICK b, m : wr'[p].data = Append(wr[p].data, [id |-> Job(p).id, addr |-> BeatAddr(n), data |-> b,
                                                        strb |-> m, last |-> BurstDone(p)])
      BY <1>10, PrepareBeatFacts
    <2> DEFINE d == [id |-> Job(p).id, addr |-> BeatAddr(n), data |-> b, strb |-> m, last |-> BurstDone(p)]
               s == wr[p].data
               t == wr'[p].data
               T == DataType(Nat)
               y == OfData[d]
    <2>2. d.id = Job(p).id /\ d.addr = BeatAddr(n) /\ d.last = BurstDone(p)
      OBVIOUS
    <2>3. s \in Seq(T) /\ t \in Seq(T) /\ t = Append(s, d)
      <3>1. wr[p].data \in Seq(DataType(Nat)) /\ wr'[p].data \in Seq(DataType(Nat))
        BY <1>0, DataSeqs, NextDataSeqs
      <3> QED
        BY <3>1, <2>1
    <2> HIDE DEF d, s, t, T
    <2>4. d \in T /\ Els(t) = Els(s) \cup {d}
      BY <2>3, LastIn, ElsMore
    <2>5. DataIs(req, p, d)
      BY <2>2, <1>0, <1>1, <1>2, <1>10, StepMark
    <2>6. MarksOK(p)'
      <3>1. \A x \in Els(t) : DataIs(req, p, x)
        BY <2>4, <2>5, <1>1 DEF MarksOK, s
      <3>2. Els(Back(p)') = {}
        BY <1>7 DEF Els
      <3> QED
        BY <3>1, <3>2, <1>2 DEF MarksOK, t
    <2>7. y = [on |-> TRUE, id |-> Job(p).id, lo |-> BeatAddr(n), hi |-> E] /\ y \in SpanType
      <3>1. y = [on |-> TRUE, id |-> d.id, lo |-> d.addr, hi |-> d.addr + FlitsPerBeat]
        BY <2>4 DEF OfData, T
      <3>2. y \in SpanType
        BY <2>4, SpanFuns DEF T
      <3> QED
        BY <3>1, <3>2, <2>2
    <2>8. Data(p)' = Append(X, y)
      <3> DEFINE f == OfData
      <3>1. f \in [T -> SpanType]
        BY SpanFuns DEF T
      <3> HIDE DEF f
      <3>2. Mapped(t, f) = Append(Mapped(s, f), f[d])
        <4>1. s \in Seq(T) /\ d \in T /\ f \in [T -> SpanType] /\ t = Append(s, d)
          BY <3>1, <2>3, <2>4
        <4> QED
          BY <4>1, MapAppend, Zenon
      <3>3. OfData' = OfData
        BY DEF OfData
      <3> QED
        BY <3>2, <3>3 DEF f, s, t, Data
    <2>9. BeatsKept(p)
      <3> HIDE DEF X, Z, Z2, E, y, n
      <3>1. Head(Z).on /\ y.on /\ y.id = Head(Z).id /\ y.lo = Head(Z).lo /\ E = y.hi /\ Shrinks(Z, E, Z2)
        BY <1>5, <1>10, <2>7
      <3>2. Same(X, <<>>, Z, Append(X, y), <<>>, Z2)
        BY <3>1, <2>7, <1>5, <1>6, <1>8, DirectSame
      <3> QED
        BY <3>2, <2>8, <1>7 DEF BeatsKept, X, Z, Z2
    <2> HIDE DEF p
    <2> QED
      BY <2>6, <2>9, <1>0, <1>2, <1>3, <1>4, InvBeats
  <1> QED
    BY <1>9, <1>10

\* drop_denied of the write handler
LEMMA InvWriteDropDenied ==
  ASSUME Types, Types', BurstsInv, WriteDropDenied
  PROVE  BurstsInv'
  <1> DEFINE p == "write"
             X == Data(p)
             Y == Backs(p)
             Z == Jobs(p)
             Z2 == Jobs(p)'
             x == [pos[p] EXCEPT !.flit = FlitLeft(p)]
  <1>0. p \in WritePort /\ p \in Handler /\ WritePort = {"write", "rmw"} /\ "rmw" \in Handler
    BY DEF WritePort, Handler
  <1>1. JobsOK(p) /\ MarksOK(p) /\ FlowOK(p)
    BY <1>0 DEF BurstsInv
  <1>2. /\ UNCHANGED <<req, prep, aw, write_order, writeback, rd, wr>>
        /\ beats[p] # <<>> /\ Job(p).denied
        /\ pos' = [pos EXCEPT !["write"].flit = FlitLeft(p)] /\ Finish(p)
    BY DEF WriteDropDenied, hist, axi
  <1>3. /\ pos'[p].flit = FlitLeft(p) /\ pos'[p].last = pos[p].last
        /\ beats'[p] = (IF FlitLeft(p) = 0 THEN Tail(beats[p]) ELSE beats[p])
        /\ pos'["rmw"] = pos["rmw"] /\ beats'["rmw"] = beats["rmw"]
    <2>1. pos \in [Handler -> PosType] /\ beats \in [Handler -> Seq(JobType(Ids))]
      BY DEF Types, JobOK
    <2>2. /\ pos'[p].flit = FlitLeft(p) /\ pos'[p].last = pos[p].last /\ pos'["rmw"] = pos["rmw"]
      <3>1. pos[p] \in PosType
        BY <2>1, <1>0
      <3> QED
        BY <3>1, <2>1, <1>0, <1>2 DEF PosType
    <2>3. /\ beats'[p] = (IF FlitLeft(p) = 0 THEN Tail(beats[p]) ELSE beats[p])
          /\ beats'["rmw"] = beats["rmw"]
      BY <2>1, <1>0, <1>2 DEF Finish, Take
    <2> QED
      BY <2>2, <2>3
  <1>4. JobsOK(p)'
    BY <1>0, <1>1, <1>2, <1>3, DropJobs
  <1>5. Z # <<>> /\ ~ Head(Z).on /\ Idles(Z, Z2)
    BY <1>0, <1>1, <1>2, <1>3, DropSpans
  <1>6. /\ X \in Seq(SpanType) /\ Y \in Seq(SpanType) /\ Z \in Seq(SpanType) /\ Z2 \in Seq(SpanType)
        /\ Stream(X, Y, Z)
    <2>1. Stream(X, Y, Z)
      BY <1>1 DEF FlowOK
    <2> QED
      BY <2>1, <1>0, KeepsSpans, NextSpans DEF SpansOK
  <1>7. /\ Data(p)' = X /\ Backs(p)' = Y /\ Back(p)' = Back(p) /\ Grows(req, req')
    BY <1>2, SameGrows DEF Data, Backs, Back, OfData, OfBack
  <1>8. MarksOK(p)'
    BY <1>1, <1>2, <1>7, FrameMarks
  <1>9. BeatsKept(p)
    <2> HIDE DEF X, Y, Z, Z2
    <2>1. Same(X, Y, Z, X, Y, Z2)
      BY <1>5, <1>6, StreamIdle, Zenon DEF Same
    <2> QED
      BY <2>1, <1>7 DEF BeatsKept, X, Y, Z, Z2
  <1>10. /\ \A g \in WritePort : g # p => /\ beats'[g] = beats[g] /\ pos'[g] = pos[g]
                                          /\ wr'[g].data = wr[g].data /\ Back(g)' = Back(g)
    BY <1>0, <1>2, <1>3 DEF Back
  <1> HIDE DEF p
  <1> QED
    BY <1>0, <1>2, <1>4, <1>8, <1>9, <1>10, InvBeats

\* The flits of the RMW handler that are not written back.
LEMMA BackSeqs == Types => writeback.fifo \in Seq(BackType(Nat))
  <1>1. "rmw" \in WritePort /\ Back("rmw") = writeback.fifo
    BY DEF WritePort, Back
  <1> QED
    BY <1>1, NatSeqs

\* They are flits after a step.
LEMMA NextBackSeqs == Types' => writeback'.fifo \in Seq(BackType(Nat))
  <1>1. (Types => writeback.fifo \in Seq(BackType(Nat)))'
    BY BackSeqs, PTL
  <1> QED
    BY <1>1 DEF BackType, Slot, Value

\* retrieve_beat of the RMW handler: what it changes
LEMMA RetrieveFacts ==
  ASSUME Types, RMWRetrieveBeat
  PROVE  /\ UNCHANGED <<req, prep, aw, write_order, wr>>
         /\ \A r \in ReadPort : rd'[r].addr = rd[r].addr
         /\ beats["rmw"] # <<>> /\ ~ Job("rmw").denied
         /\ pos'["rmw"] = [flit |-> FlitLeft("rmw"), slot |-> NextSlot("rmw"), last |-> LastCntr("rmw")]
         /\ beats'["rmw"] = (IF FlitLeft("rmw") = 0 THEN Tail(beats["rmw"]) ELSE beats["rmw"])
         /\ pos'["write"] = pos["write"] /\ beats'["write"] = beats["write"]
         /\ \E v, l : writeback'.fifo =
               Append(writeback.fifo, [slot |-> NextSlot("rmw"), old |-> v, id |-> Job("rmw").id,
                                       addr |-> Location("rmw"), beat |-> BeatDone("rmw"),
                                       burst |-> BurstDone("rmw"), last |-> l])
  <1> DEFINE slot == NextSlot("rmw")
             fetch == First("rmw") \/ slot = 0
             beat == IF fetch THEN Head(rd["rmw"].data).cells ELSE buf["rmw"]
             v == beat[slot].val
             l == FlitLeft("rmw") = 0
             x == [flit |-> FlitLeft("rmw"), slot |-> slot, last |-> LastCntr("rmw")]
             w == [slot |-> slot, old |-> v, id |-> Job("rmw").id, addr |-> Location("rmw"),
                   beat |-> BeatDone("rmw"), burst |-> BurstDone("rmw"), last |-> l]
  <1>1. /\ UNCHANGED <<req, prep, aw, write_order, wr>>
        /\ beats["rmw"] # <<>> /\ ~ Job("rmw").denied
        /\ pos' = [pos EXCEPT !["rmw"] = x] /\ Finish("rmw")
        /\ rd' = IF fetch THEN [rd EXCEPT !["rmw"].data = Tail(@)] ELSE rd
        /\ writeback' = [writeback EXCEPT !.fifo = Append(@, w)]
    BY Zenon DEF RMWRetrieveBeat, hist
  <1>2. /\ pos'["rmw"] = x
        /\ beats'["rmw"] = (IF FlitLeft("rmw") = 0 THEN Tail(beats["rmw"]) ELSE beats["rmw"])
        /\ pos'["write"] = pos["write"] /\ beats'["write"] = beats["write"]
    <2>1. "write" \in Handler /\ "rmw" \in Handler /\ "rmw" # "write"
      BY DEF Handler
    <2> HIDE DEF x
    <2> QED
      BY <2>1, <1>1, TakenFlit
  <1>3. \A r \in ReadPort : rd'[r].addr = rd[r].addr
    <2>1. RdOK
      BY DEF Types
    <2> HIDE DEF fetch
    <2> QED
      BY <2>1, <1>1 DEF RdOK
  <1>4. writeback'.fifo = Append(writeback.fifo, w)
    <2>1. BackOK
      BY DEF Types
    <2> HIDE DEF w
    <2> QED
      BY <2>1, <1>1 DEF BackOK
  <1> HIDE DEF v, l
  <1> QED
    BY <1>1, <1>2, <1>3, <1>4, Zenon

\* retrieve_beat of the RMW handler
LEMMA InvRMWRetrieveBeat ==
  ASSUME Types, Types', BurstsInv, RMWRetrieveBeat
  PROVE  BurstsInv'
  <1> DEFINE p == "rmw"
             q == req[Job(p).id]
             n == Location(p)
             X == Data(p)
             Y == Backs(p)
             Z == Jobs(p)
             Z2 == Jobs(p)'
             E == BeatAddr(n) + FlitsPerBeat
  <1>0. p \in WritePort /\ p \in Handler /\ WritePort = {"write", "rmw"}
    BY DEF WritePort, Handler
  <1>1. JobsOK(p) /\ MarksOK(p) /\ FlowOK(p)
    BY <1>0 DEF BurstsInv
  <1>2. /\ UNCHANGED <<req, prep, aw, write_order, wr>>
        /\ \A r \in ReadPort : rd'[r].addr = rd[r].addr
        /\ beats[p] # <<>> /\ ~ Job(p).denied
        /\ pos'[p] = [flit |-> FlitLeft(p), slot |-> NextSlot(p), last |-> LastCntr(p)]
        /\ beats'[p] = (IF FlitLeft(p) = 0 THEN Tail(beats[p]) ELSE beats[p])
        /\ pos'["write"] = pos["write"] /\ beats'["write"] = beats["write"]
    BY RetrieveFacts
  <1>3. PICK v, l : writeback'.fifo =
               Append(writeback.fifo, [slot |-> NextSlot(p), old |-> v, id |-> Job(p).id, addr |-> n,
                                       beat |-> BeatDone(p), burst |-> BurstDone(p), last |-> l])
    BY RetrieveFacts
  <1> DEFINE w == [slot |-> NextSlot(p), old |-> v, id |-> Job(p).id, addr |-> n,
                   beat |-> BeatDone(p), burst |-> BurstDone(p), last |-> l]
             s == writeback.fifo
             t == writeback'.fifo
             T == BackType(Nat)
             y == OfBack[w]
             o == BeatDone(p)
  <1>4. w.id = Job(p).id /\ w.addr = n /\ w.beat = o /\ w.burst = BurstDone(p)
    OBVIOUS
  <1>5. s \in Seq(T) /\ t \in Seq(T) /\ t = Append(s, w)
    <2>1. writeback.fifo \in Seq(BackType(Nat)) /\ writeback'.fifo \in Seq(BackType(Nat))
      BY BackSeqs, NextBackSeqs
    <2> QED
      BY <2>1, <1>3
  <1> HIDE DEF w, s, t, T
  <1>6. w \in T /\ Els(t) = Els(s) \cup {w}
    BY <1>5, LastIn, ElsMore
  <1>7. /\ \A g \in WritePort : wr'[g].addr = wr[g].addr
        /\ \A g \in WritePort : g # p => /\ beats'[g] = beats[g] /\ pos'[g] = pos[g]
                                         /\ wr'[g].data = wr[g].data /\ Back(g)' = Back(g)
    BY <1>0, <1>2 DEF Back
  <1>8. JobsOK(p)'
    BY <1>0, <1>1, <1>2, StepJobs
  <1>9. /\ Z # <<>> /\ Head(Z) = [on |-> TRUE, id |-> Job(p).id, lo |-> BeatAddr(n), hi |-> End(q)]
        /\ o => Shrinks(Z, E, Z2)
        /\ ~ o => Z2 = Z
    <2>1. pos'[p].flit = FlitLeft(p)
      BY <1>2
    <2> QED
      BY <2>1, <1>0, <1>1, <1>2, StepSpans
  <1>10. /\ X \in Seq(SpanType) /\ Y \in Seq(SpanType) /\ Z \in Seq(SpanType) /\ Z2 \in Seq(SpanType)
         /\ Stream(X, Y, Z)
    <2>1. Stream(X, Y, Z)
      BY <1>1 DEF FlowOK
    <2> QED
      BY <2>1, <1>0, KeepsSpans, NextSpans DEF SpansOK
  <1>11. Back(p) = s /\ Back(p)' = t
    BY DEF Back, s, t
  <1>12. MarksOK(p)'
    <2>1. Writer(req, p, Job(p).id)
      BY <1>0, <1>1, <1>2, OldestJob
    <2>2. n \in Nat
      BY <1>0, <1>1, <1>2, JobPlace
    <2>3. o => (BurstDone(p) <=> EndsBurst(q, E))
      BY <1>0, <1>1, <1>2, JobStep
    <2> HIDE DEF n, o
    <2>4. BackIs(req, p, w)
      <3>1. w.beat => (w.burst <=> EndsBurst(req[w.id], BeatAddr(w.addr) + FlitsPerBeat))
        BY <1>4, <2>3
      <3> QED
        BY <3>1, <2>1, <2>2, <1>4 DEF BackIs
    <2>5. \A x \in Els(t) : BackIs(req, p, x)
      BY <2>4, <1>1, <1>6, <1>11 DEF MarksOK
    <2> QED
      BY <2>5, <1>1, <1>2, <1>11 DEF MarksOK
  <1>13. y = [on |-> o, id |-> Job(p).id, lo |-> BeatAddr(n), hi |-> E] /\ y \in SpanType
    <2> HIDE DEF n, o
    <2>1. y = [on |-> w.beat, id |-> w.id, lo |-> BeatAddr(w.addr), hi |-> BeatAddr(w.addr) + FlitsPerBeat]
      BY <1>6 DEF OfBack, T
    <2>2. y \in SpanType
      BY <1>6, SpanFuns DEF T
    <2> QED
      BY <2>1, <2>2, <1>4
  <1>14. Backs(p)' = Append(Y, y)
    <2> DEFINE f == OfBack
    <2>1. f \in [T -> SpanType]
      BY SpanFuns DEF T
    <2> HIDE DEF f
    <2>2. Mapped(t, f) = Append(Mapped(s, f), f[w])
      <3>1. s \in Seq(T) /\ w \in T /\ f \in [T -> SpanType] /\ t = Append(s, w)
        BY <2>1, <1>5, <1>6
      <3> QED
        BY <3>1, MapAppend, Zenon
    <2>3. OfBack' = OfBack
      BY DEF OfBack
    <2> QED
      BY <2>2, <2>3, <1>11 DEF f, Backs
  <1>15. Data(p)' = X
    BY <1>2 DEF Data, OfData
  <1>16. BeatsKept(p)
    <2> HIDE DEF X, Y, Z, Z2, E, y, n, o
    <2>1. CASE o
      <3>1. y = [on |-> TRUE, id |-> Job(p).id, lo |-> BeatAddr(n), hi |-> E]
        <4>1. o = TRUE
          BY <2>1 DEF o, BeatDone
        <4> QED
          BY <4>1, <1>13
      <3>2. Head(Z).on /\ y.on /\ y.id = Head(Z).id /\ y.lo = Head(Z).lo /\ E = y.hi /\ Shrinks(Z, E, Z2)
        BY <1>9, <2>1, <3>1
      <3>3. Same(X, Y, Z, X, Append(Y, y), Z2)
        BY <3>2, <1>9, <1>10, <1>13, PassSame
      <3> QED
        BY <3>3, <1>14, <1>15 DEF BeatsKept, X, Y, Z, Z2
    <2>2. CASE ~ o
      <3>1. ~ y.on
        BY <2>2, <1>13
      <3>2. Same(X, Y, Z, X, Append(Y, y), Z)
        BY <3>1, <1>10, <1>13, StreamOff DEF Same
      <3>3. Z2 = Z
        BY <2>2, <1>9
      <3> QED
        BY <3>2, <3>3, <1>14, <1>15 DEF BeatsKept, X, Y, Z, Z2
    <2> QED
      BY <2>1, <2>2
  <1> HIDE DEF p
  <1> QED
    BY <1>0, <1>2, <1>7, <1>8, <1>12, <1>16, InvBeats

\* writeback_data: what it changes
LEMMA WritebackFacts ==
  ASSUME Types, RMWWritebackData
  PROVE  LET w == Head(writeback.fifo) IN
         /\ UNCHANGED <<req, prep, aw, write_order, beats, pos, rd>>
         /\ writeback.fifo # <<>> /\ writeback'.fifo = Tail(writeback.fifo)
         /\ wr'["write"] = wr["write"] /\ wr'["rmw"].addr = wr["rmw"].addr
         /\ ~ w.beat => wr'["rmw"] = wr["rmw"]
         /\ w.beat =>
               \E b, m : wr'["rmw"].data =
                  Append(wr["rmw"].data, [id |-> w.id, addr |-> BeatAddr(w.addr), data |-> b,
                                          strb |-> m, last |-> w.burst])
  <1> DEFINE v == Head(writeback.fifo)
             new == Head(data_in["rmw"])
             held == writeback.buffer[v.slot].val
             cell == [by |-> v.id, pos |-> new.pos, val |-> Written(req[v.id].calc, held, v.old, new.val)]
             beat == [writeback.buffer EXCEPT ![v.slot] = cell]
             strb == [mask["rmw"] EXCEPT ![v.slot] = TRUE]
             d == [id |-> v.id, addr |-> BeatAddr(v.addr), data |-> beat, strb |-> strb, last |-> v.burst]
  <1>1. /\ UNCHANGED <<req, prep, aw, write_order, beats, pos, rd>>
        /\ writeback.fifo # <<>> /\ writeback' = [fifo |-> Tail(writeback.fifo), buffer |-> beat]
        /\ IF v.beat THEN wr' = [wr EXCEPT !["rmw"].data = Append(@, d)] ELSE UNCHANGED wr
    BY Zenon DEF RMWWritebackData, WritebackReady, SendBeat, hist
  <1>2. writeback'.fifo = Tail(writeback.fifo)
    <2> HIDE DEF beat
    <2> QED
      BY <1>1
  <1> HIDE DEF d, v
  <1>3. /\ wr'["write"] = wr["write"] /\ wr'["rmw"].addr = wr["rmw"].addr
        /\ ~ v.beat => wr'["rmw"] = wr["rmw"]
        /\ v.beat => wr'["rmw"].data = Append(wr["rmw"].data, d)
    <2>1. WrOK /\ "write" \in WritePort /\ "rmw" \in WritePort
      BY DEF Types, WritePort
    <2>2. CASE v.beat
      BY <2>1, <2>2, <1>1 DEF WrOK
    <2>3. CASE ~ v.beat
      BY <2>3, <1>1
    <2> QED
      BY <2>2, <2>3
  <1>4. v.beat => \E b, m : wr'["rmw"].data =
           Append(wr["rmw"].data, [id |-> v.id, addr |-> BeatAddr(v.addr), data |-> b, strb |-> m,
                                   last |-> v.burst])
    <2> HIDE DEF beat, strb
    <2> QED
      BY <1>3, Zenon DEF d
  <1> QED
    BY <1>1, <1>2, <1>3, <1>4, Zenon DEF v

\* writeback_data
LEMMA InvRMWWritebackData ==
  ASSUME Types, Types', BurstsInv, RMWWritebackData
  PROVE  BurstsInv'
  <1> DEFINE p == "rmw"
             w == Head(writeback.fifo)
             X == Data(p)
             Y == Backs(p)
             Z == Jobs(p)
             r == writeback.fifo
             r2 == writeback'.fifo
             B == BackType(Nat)
             s == wr[p].data
             t == wr'[p].data
             T == DataType(Nat)
             y == OfBack[w]
  <1>0. p \in WritePort /\ p \in Handler /\ WritePort = {"write", "rmw"}
    BY DEF WritePort, Handler
  <1>1. JobsOK(p) /\ MarksOK(p) /\ FlowOK(p)
    BY <1>0 DEF BurstsInv
  <1>2. /\ UNCHANGED <<req, prep, aw, write_order, beats, pos, rd>>
        /\ r # <<>> /\ r2 = Tail(r)
        /\ wr'["write"] = wr["write"] /\ wr'[p].addr = wr[p].addr
        /\ ~ w.beat => t = s
    BY WritebackFacts
  <1>3. r \in Seq(B) /\ r2 \in Seq(B) /\ s \in Seq(T) /\ t \in Seq(T)
    BY <1>0, BackSeqs, NextBackSeqs, DataSeqs, NextDataSeqs
  <1>4. Back(p) = r /\ Back(p)' = r2
    BY DEF Back
  <1>5. w.beat => \E b, m : t = Append(s, [id |-> w.id, addr |-> BeatAddr(w.addr), data |-> b,
                                           strb |-> m, last |-> w.burst])
    BY WritebackFacts
  <1>6. /\ \A g \in WritePort : wr'[g].addr = wr[g].addr
        /\ \A g \in WritePort : g # p => /\ beats'[g] = beats[g] /\ pos'[g] = pos[g]
                                         /\ wr'[g].data = wr[g].data /\ Back(g)' = Back(g)
        /\ \A g \in ReadPort : rd'[g].addr = rd[g].addr
    BY <1>0, <1>2 DEF Back
  <1>7. JobsOK(p)' /\ Jobs(p)' = Z
    <2>1. beats'[p] = beats[p] /\ pos'[p] = pos[p] /\ Grows(req, req')
      BY <1>2, SameGrows
    <2>2. JobsOK(p)'
      BY <2>1, <1>0, <1>1, FrameJobs
    <2>3. Jobs(p)' = Z
      BY <1>2 DEF Jobs, JobSpans, Begin, End, Beats, BeatAddr
    <2> QED
      BY <2>2, <2>3
  <1>8. /\ X \in Seq(SpanType) /\ Y \in Seq(SpanType) /\ Z \in Seq(SpanType) /\ Stream(X, Y, Z)
        /\ Backs(p)' \in Seq(SpanType)
    <2>1. Stream(X, Y, Z)
      BY <1>1 DEF FlowOK
    <2> QED
      BY <2>1, <1>0, KeepsSpans, NextSpans DEF SpansOK
  <1> HIDE DEF r, r2, B, s, t, T
  <1>9. w \in B /\ Els(r) = {w} \cup Els(r2)
    <2>1. w = Head(r)
      BY DEF r
    <2> QED
      BY <2>1, <1>2, <1>3, ElsTail
  <1>10. BackIs(req, p, w) /\ \A x \in Els(r2) : BackIs(req, p, x)
    BY <1>1, <1>4, <1>9 DEF MarksOK
  <1>11. Y # <<>> /\ Head(Y) = y /\ Backs(p)' = Tail(Y)
    <2> DEFINE f == OfBack
    <2>1. f \in [B -> SpanType]
      BY SpanFuns DEF B
    <2>2. f' = f
      BY DEF OfBack
    <2>3. w = Head(r)
      BY DEF r
    <2> HIDE DEF f
    <2>4. Mapped(r, f) # <<>> /\ Head(Mapped(r, f)) = f[Head(r)]
      BY <2>1, <1>2, <1>3, MapHead
    <2>5. Mapped(Tail(r), f) = Tail(Mapped(r, f))
      BY <2>1, <1>2, <1>3, MapRest
    <2>6. Y = Mapped(r, f)
      BY <1>4 DEF Backs, f
    <2>7. Backs(p)' = Mapped(r2, f)
      BY <1>4, <2>2 DEF Backs, f
    <2> QED
      BY <2>3, <2>4, <2>5, <2>6, <2>7, <1>2 DEF f
  <1>12. y = [on |-> w.beat, id |-> w.id, lo |-> BeatAddr(w.addr), hi |-> BeatAddr(w.addr) + FlitsPerBeat]
    BY <1>9 DEF OfBack, B
  <1> HIDE DEF w
  <1>13. CASE ~ w.beat
    <2>1. t = s
      BY <1>2, <1>13
    <2>2. MarksOK(p)'
      BY <2>1, <1>1, <1>2, <1>4, <1>10 DEF MarksOK, s, t
    <2>3. Data(p)' = X
      BY <2>1 DEF Data, OfData, s, t
    <2>4. BeatsKept(p)
      <3>1. ~ Head(Y).on
        BY <1>11, <1>12, <1>13
      <3> DEFINE Y2 == Backs(p)'
      <3> HIDE DEF X, Y, Z, y, Y2
      <3>2. Y2 \in Seq(SpanType) /\ Y2 = Tail(Y)
        BY <1>8, <1>11 DEF Y2
      <3>3. Same(X, Y, Z, X, Y2, Z)
        BY <3>1, <3>2, <1>8, <1>11, IdleSame
      <3> QED
        BY <3>3, <2>3, <1>7 DEF BeatsKept, X, Y, Z, Y2
    <2> HIDE DEF p
    <2> QED
      BY <2>2, <2>4, <1>0, <1>2, <1>6, <1>7, InvBeats
  <1>14. CASE w.beat
    <2>1. PICK b, m : t = Append(s, [id |-> w.id, addr |-> BeatAddr(w.addr), data |-> b, strb |-> m,
                                     last |-> w.burst])
      BY <1>5, <1>14
    <2> DEFINE d == [id |-> w.id, addr |-> BeatAddr(w.addr), data |-> b, strb |-> m, last |-> w.burst]
    <2>2. d.id = w.id /\ d.addr = BeatAddr(w.addr) /\ d.last = w.burst /\ t = Append(s, d)
      BY <2>1
    <2> HIDE DEF d
    <2>3. d \in T /\ Els(t) = Els(s) \cup {d}
      BY <2>2, <1>3, LastIn, ElsMore
    <2>4. DataIs(req, p, d)
      <3>1. w.addr \in Nat /\ Writer(req, p, w.id)
        BY <1>10 DEF BackIs
      <3>2. BeatAddr(w.addr) \in Nat
        BY <3>1, BeatDiv
      <3>3. w.burst <=> EndsBurst(req[w.id], BeatAddr(w.addr) + FlitsPerBeat)
        BY <1>10, <1>14 DEF BackIs
      <3> QED
        BY <3>1, <3>2, <3>3, <2>2, Zenon DEF DataIs
    <2>5. MarksOK(p)'
      <3>1. \A x \in Els(t) : DataIs(req, p, x)
        BY <2>3, <2>4, <1>1 DEF MarksOK, s
      <3> QED
        BY <3>1, <1>2, <1>4, <1>10 DEF MarksOK, t
    <2>6. y = OfData[d]
      <3>1. w.beat = TRUE
        BY <1>9, <1>14 DEF B, BackType
      <3>2. OfData[d] = [on |-> TRUE, id |-> d.id, lo |-> d.addr, hi |-> d.addr + FlitsPerBeat]
        BY <2>3 DEF OfData, T
      <3> HIDE DEF y
      <3> QED
        BY <3>1, <3>2, <2>2, <1>12
    <2>7. Data(p)' = Append(X, y)
      <3> DEFINE f == OfData
      <3>1. f \in [T -> SpanType]
        BY SpanFuns DEF T
      <3>2. OfData' = OfData
        BY DEF OfData
      <3>3. f[d] = y
        BY <2>6
      <3> HIDE DEF f
      <3>4. Mapped(t, f) = Append(Mapped(s, f), f[d])
        <4>1. s \in Seq(T) /\ d \in T /\ f \in [T -> SpanType] /\ t = Append(s, d)
          BY <3>1, <2>2, <2>3, <1>3
        <4> QED
          BY <4>1, MapAppend, Zenon
      <3>5. X = Mapped(s, f) /\ Data(p)' = Mapped(t, f)
        BY <3>2 DEF f, s, t, Data
      <3> QED
        BY <3>3, <3>4, <3>5
    <2>8. BeatsKept(p)
      <3> HIDE DEF X, Y, Z, y
      <3>1. /\ Stream(Append(X, Head(Y)), Tail(Y), Z)
            /\ \A id \in Nat, a \in Int :
                  Pending(Append(X, Head(Y)), Tail(Y), Z, id, a) <=> Pending(X, Y, Z, id, a)
        BY <1>8, <1>11, StreamMove
      <3>2. Same(X, Y, Z, Append(X, y), Tail(Y), Z)
        BY <3>1, <1>11 DEF Same
      <3> QED
        BY <3>2, <2>7, <1>7, <1>11 DEF BeatsKept, X, Y, Z
    <2> HIDE DEF p
    <2> QED
      BY <2>5, <2>8, <1>0, <1>2, <1>6, <1>7, InvBeats
  <1> QED
    BY <1>13, <1>14

-----------------------------------------------------------------------------
(* Bursts: the theorem *)

\* No accepted request is forgotten.
LEMMA RequestsStay ==
  ASSUME Types, [Next]_vars
  PROVE  Grows(req, req')
  <1>1. CASE StartRead \/ StartWrite \/ StartRMW \/ StartHint \/ ForwardToTLC
    <2>1. /\ req \in Seq(Fitting) /\ Head(todo) \in Fitting /\ req' = Append(req, Head(todo))
      <3>1. todo # <<>> /\ req' = Append(req, Head(todo))
        BY <1>1, Zenon DEF StartRead, StartWrite, StartRMW, StartHint, ForwardToTLC, Accept
      <3> QED
        BY <3>1 DEF Types, HistOK
    <2> QED
      BY <2>1, AppendGrows
  <1>2. CASE ForwardData \/ \E h \in Handler : PrepareRequest(h)
    BY <1>2, SameGrows, Zenon DEF ForwardData, PrepareRequest, hist
  <1>3. CASE ReadRetrieveBeat \/ ReadDropDenied
    BY <1>3, SameGrows, Zenon DEF ReadRetrieveBeat, ReadDropDenied, hist
  <1>4. CASE WritePrepareBeat \/ WriteDropDenied \/ WriteSetDone \/ WriteSetDoneDropped
    BY <1>4, SameGrows, Zenon DEF WritePrepareBeat, WriteDropDenied, WriteSetDone, WriteSetDoneDropped, hist
  <1>5. CASE RMWRetrieveBeat \/ RMWWritebackData \/ RMWDropDenied \/ RMWDropResponse
    BY <1>5, SameGrows, Zenon DEF RMWRetrieveBeat, RMWWritebackData, RMWDropDenied, RMWDropResponse, hist
  <1>6. CASE \E p \in WritePort : FullfillWrite(p) \/ MemWrite(p)
    BY <1>6, SameGrows, Zenon DEF FullfillWrite, MemWrite, hist
  <1>7. CASE ForwardWriteData \/ \E p \in ReadPort : MemRead(p)
    BY <1>7, SameGrows, Zenon DEF ForwardWriteData, MemRead, hist
  <1>8. CASE EnqueueResponseRd \/ EnqueueResponseWr \/ EnqueueResponseHint \/ TLCRespond
    <2>1. UNCHANGED req
      BY <1>8, Zenon DEF EnqueueResponseRd, EnqueueResponseWr, EnqueueResponseHint, TLCRespond, hist
    <2> QED
      BY <2>1, SameGrows
  <1>9. CASE \E k \in {"READ", "WRITE", "TLC"} : Forward(k)
    <2>1. UNCHANGED req
      BY <1>9, Zenon DEF Forward, hist
    <2> QED
      BY <2>1, SameGrows
  <1>10. CASE UNCHANGED vars
    BY <1>10, SameGrows DEF vars, hist
  <1> QED
    BY <1>1, <1>2, <1>3, <1>4, <1>5, <1>6, <1>7, <1>8, <1>9, <1>10, Zenon DEF Next

\* Atomics that are aligned after a step were aligned before.
LEMMA AlignedBefore ==
  ASSUME Types, [Next]_vars, AtomicsAligned'
  PROVE  AtomicsAligned
  <1>1. Grows(req, req')
    BY RequestsStay
  <1>2. \A id \in DOMAIN req' : req'[id].op \in RMWOp => ~ Denied(req'[id])
    BY DEF AtomicsAligned
  <1> QED
    BY <1>1, <1>2, Zenon DEF AtomicsAligned, Grows

\* drop_denied of the RMW handler has nothing to drop.
LEMMA NothingToDrop ==
  ASSUME Types, BurstsInv, AtomicsAligned
  PROVE  ~ RMWDropDenied
  <1> SUFFICES ASSUME RMWDropDenied PROVE FALSE
    OBVIOUS
  <1> DEFINE j == Job("rmw")
             q == req[j.id]
  <1>1. beats["rmw"] # <<>> /\ j.denied
    BY DEF RMWDropDenied
  <1>2. "rmw" \in WritePort /\ JobsOK("rmw")
    BY DEF BurstsInv, WritePort
  <1>3. JobIs(req, "rmw", j)
    BY <1>1, <1>2, OldestJob
  <1>4. j.id \in DOMAIN req /\ q.op \in RMWOp /\ Denied(q)
    <2>1. Role("rmw") = RMWOp
      BY DEF Role
    <2> QED
      BY <2>1, <1>1, <1>3, Zenon DEF JobIs
  <1> QED
    BY <1>4 DEF AtomicsAligned

\* Every step keeps the order of beats and bursts.
LEMMA BurstsNext ==
  ASSUME Types, Types', AlignedBursts, [Next]_vars
  PROVE  AlignedBursts'
  <1> SUFFICES ASSUME AtomicsAligned' PROVE BurstsInv'
    BY DEF AlignedBursts
  <1>0. AtomicsAligned /\ BurstsInv
    BY AlignedBefore DEF AlignedBursts
  <1>1. CASE StartRead \/ StartWrite \/ StartRMW
    BY <1>0, <1>1, InvStarts
  <1>2. CASE StartHint
    BY <1>0, <1>2, InvStartHint
  <1>3. CASE ForwardToTLC
    BY <1>0, <1>3, InvForwardToTLC
  <1>4. CASE \/ ForwardData \/ WriteSetDoneDropped \/ EnqueueResponseRd \/ EnqueueResponseWr
             \/ EnqueueResponseHint \/ TLCRespond \/ (\E k \in {"READ", "WRITE", "TLC"} : Forward(k))
             \/ UNCHANGED vars
    BY <1>0, <1>4, InvQuiet
  <1>5. CASE \E h \in Handler : PrepareRequest(h)
    BY <1>0, <1>5, InvPrepareRequest
  <1>6. CASE ReadRetrieveBeat \/ ReadDropDenied
    BY <1>0, <1>6, InvRead
  <1>7. CASE WritePrepareBeat
    BY <1>0, <1>7, InvWritePrepareBeat
  <1>8. CASE WriteDropDenied
    BY <1>0, <1>8, InvWriteDropDenied
  <1>9. CASE WriteSetDone \/ RMWDropResponse \/ (\E p \in WritePort : MemWrite(p))
    BY <1>0, <1>9, InvResponses
  <1>10. CASE RMWRetrieveBeat
    BY <1>0, <1>10, InvRMWRetrieveBeat
  <1>11. CASE RMWWritebackData
    BY <1>0, <1>11, InvRMWWritebackData
  <1>12. CASE RMWDropDenied
    BY <1>0, <1>12, NothingToDrop
  <1>13. CASE \E p \in WritePort : FullfillWrite(p)
    BY <1>0, <1>13, InvFullfillWrite
  <1>14. CASE ForwardWriteData
    BY <1>0, <1>14, InvForwardWriteData
  <1>15. CASE \E p \in ReadPort : MemRead(p)
    BY <1>0, <1>15, InvMemRead
  <1> QED
    BY <1>1, <1>2, <1>3, <1>4, <1>5, <1>6, <1>7, <1>8, <1>9, <1>10, <1>11, <1>12, <1>13, <1>14, <1>15,
       Zenon DEF Next

\* At reset nothing is on its way.
LEMMA BurstsInit ==
  ASSUME Init
  PROVE  AlignedBursts
  <1> DEFINE E == <<>>
  <1>0. /\ \A p \in WritePort : p \in Handler /\ p # "read"
        /\ Els(E) = {} /\ DOMAIN E = {} /\ \A f : Mapped(E, f) = E
    BY DEF WritePort, Handler, Els, Mapped
  <1>1. /\ aw = E /\ write_order = E /\ writeback.fifo = E
        /\ \A h \in Handler : /\ prep[h] = [requests |-> E, left |-> 0, addr |-> 0] /\ beats[h] = E
                              /\ pos[h] = [flit |-> 0, slot |-> 0, last |-> 0]
        /\ \A p \in ReadPort : rd[p].addr = E
        /\ \A p \in WritePort : wr[p].addr = E /\ wr[p].data = E
    BY DEF Init
  <1>2. Stream(E, E, E) /\ \A id, a : ~ Pending(E, E, E, id, a)
    BY <1>0 DEF Stream, Sorted, AllBefore, Pending
  <1>3. PagesOK
    BY <1>0, <1>1 DEF PagesOK
  <1>4. OrderOK
    BY <1>0, <1>1 DEF OrderOK
  <1>5. ASSUME NEW p \in WritePort
        PROVE  JobsOK(p) /\ MarksOK(p) /\ AsksOK(p) /\ FlowOK(p)
    <2>1. /\ p \in Handler /\ beats[p] = E /\ pos[p].flit = 0 /\ pos[p].last = 0
          /\ prep[p].requests = E /\ prep[p].left = 0
          /\ wr[p].addr = E /\ wr[p].data = E /\ Back(p) = E
      BY <1>0, <1>1 DEF Back
    <2>2. JobsOK(p)
      <3>1. MaxBeats - 1 # 0
        BY Sizes
      <3> QED
        BY <3>1, <2>1, <1>0 DEF JobsOK
    <2>3. MarksOK(p)
      BY <2>1, <1>0 DEF MarksOK
    <2>4. AsksOK(p)
      BY <2>1, <1>0, <1>1 DEF AsksOK
    <2>5. Data(p) = E /\ Backs(p) = E /\ Issued(p) = E /\ Asked(p) = E
      BY <2>1, <1>0, <1>1 DEF Data, Backs, Issued, Asked
    <2>6. Jobs(p) = E
      BY <2>1 DEF Jobs, JobSpans
    <2>7. Asks(p) = E
      BY <2>1 DEF Asks, AskSpans
    <2>8. FlowOK(p)
      <3> HIDE DEF E
      <3> QED
        BY <2>5, <2>6, <2>7, <1>2 DEF FlowOK
    <2> QED
      BY <2>2, <2>3, <2>4, <2>8
  <1> QED
    BY <1>3, <1>4, <1>5 DEF AlignedBursts, BurstsInv

\* The order of beats and bursts is an invariant.
LEMMA AlwaysBursts == Spec => []AlignedBursts
  <1>1. Init => AlignedBursts
    BY BurstsInit
  <1>2. Types /\ Types' /\ AlignedBursts /\ [Next]_vars => AlignedBursts'
    BY BurstsNext
  <1> QED
    BY <1>1, <1>2, AlwaysTypes, PTL DEF Spec

\* Bursts are well formed when beats and bursts are in order.
LEMMA WellFormed ==
  ASSUME Types, BurstsInv
  PROVE  BurstsWellFormed
  <1>1. PagesOK
    BY DEF BurstsInv
  <1>2. \A p \in ReadPort : \A i \in DOMAIN rd[p].addr : SamePage(rd[p].addr[i])
    BY <1>1, Zenon DEF PagesOK, Els
  <1>3. \A i \in DOMAIN aw : SamePage(aw[i])
    BY <1>1, Zenon DEF PagesOK, Els
  <1>4. ASSUME write_order # <<>>, aw # <<>>, wr[Head(write_order)].data # <<>>
        PROVE  /\ Head(aw).port = Head(write_order)
               /\ Head(wr[Head(write_order)].data).last <=> Head(aw).beats = 1
    BY <1>4, HeadBeat
  <1> QED
    BY <1>2, <1>3, <1>4 DEF BurstsWellFormed

\* While no misaligned atomic was accepted, no burst of a handler or of the
\* merger crosses a page, and the merger's last beat of a burst is the last one
\* the memory waits for: the beats of prepare_beat and writeback_data meet the
\* bursts of prepare_request in the same order and with the same ends.
THEOREM BurstsMeetBeats == Spec => [](AtomicsAligned => BurstsWellFormed)
  <1>1. Types /\ AlignedBursts => (AtomicsAligned => BurstsWellFormed)
    BY WellFormed DEF AlignedBursts
  <1> QED
    BY <1>1, AlwaysTypes, AlwaysBursts, PTL

=============================================================================
