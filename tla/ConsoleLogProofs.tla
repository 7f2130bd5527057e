--------------------------- MODULE ConsoleLogProofs ---------------------------
(***************************************************************************)
(* Proofs about ConsoleLog: the ring holds the latest bytes, a dump that   *)
(* empties it has sent them all, and the host sees no gap.                 *)
(***************************************************************************)
EXTENDS ConsoleLog, TLAPS, FiniteSetTheorems, SequenceTheorems,
        WellFoundedInduction

-----------------------------------------------------------------------------
(***************************************************************************)
(* Remainders: numbers with the same remainder are a divisor apart.        *)
(***************************************************************************)

LEMMA Product ==
  ASSUME NEW b \in Nat \ {0}, NEW q \in Int, NEW p \in Int, q < p
  PROVE  b * q + b <= b * p
<1>1. PICK d \in Nat : p = q + 1 + d
  <2>1. p - q - 1 \in Nat /\ p = q + 1 + (p - q - 1)
    OBVIOUS
  <2> QED BY <2>1
<1>2. b * d >= 0 /\ b * d \in Int /\ b * q \in Int
  BY SMT
<1>3. b * (q + 1 + d) = b * q + b + b * d
  BY SMT
<1> QED BY <1>1, <1>2, <1>3

LEMMA Division ==
  ASSUME NEW b \in Nat \ {0}, NEW a \in Nat
  PROVE  /\ a \div b \in Int /\ a % b \in 0..(b - 1)
         /\ b * (a \div b) \in Int /\ a = b * (a \div b) + (a % b)
  BY SMT

LEMMA SameQuotient ==
  ASSUME NEW b \in Nat \ {0}, NEW q \in Int, NEW p \in Int,
         NEW r \in 0..(b - 1), NEW t \in 0..(b - 1), b * q + r = b * p + t
  PROVE  r = t
<1>1. b * q \in Int /\ b * p \in Int
  BY SMT
<1>2. CASE q < p
  <2>1. b * q + b <= b * p
    BY <1>2, Product
  <2> QED BY <1>1, <2>1
<1>3. CASE p < q
  <2>1. b * p + b <= b * q
    BY <1>3, Product
  <2> QED BY <1>1, <2>1
<1>4. CASE p = q
  BY <1>1, <1>4
<1> QED BY <1>2, <1>3, <1>4

LEMMA SmallRemainder ==
  ASSUME NEW b \in Nat \ {0}, NEW a \in 0..(b - 1)
  PROVE  a % b = a
<1>1. a = b * 0 + a
  OBVIOUS
<1>2. a = b * (a \div b) + (a % b) /\ a \div b \in Int /\ a % b \in 0..(b - 1)
  BY Division
<1> QED BY <1>1, <1>2, SameQuotient

LEMMA RemainderOfSum ==
  ASSUME NEW b \in Nat \ {0}, NEW a \in Nat, NEW k \in Nat
  PROVE  ((a % b) + k) % b = (a + k) % b
<1> DEFINE q == a \div b
           c == (a % b) + k
           p == c \div b
           u == (a + k) \div b
<1>1. a = b * q + (a % b) /\ q \in Int /\ b * q \in Int /\ a % b \in 0..(b - 1)
  BY Division
<1>2. c \in Nat
  BY <1>1
<1>3. c = b * p + (c % b) /\ p \in Int /\ b * p \in Int /\ c % b \in 0..(b - 1)
  BY <1>2, Division
<1>4. /\ a + k = b * u + ((a + k) % b) /\ u \in Int /\ b * u \in Int
      /\ (a + k) % b \in 0..(b - 1)
  BY Division
<1>5. a + k = b * q + c
  BY <1>1
<1> HIDE DEF q, c, p, u
<1>6. b * (q + p) = b * q + b * p
  BY <1>1, <1>3, SMT
<1>7. b * (q + p) + (c % b) = b * u + ((a + k) % b)
  BY <1>1, <1>3, <1>4, <1>5, <1>6
<1>8. q + p \in Int
  BY <1>1, <1>3
<1>9. c % b = (a + k) % b
  BY <1>3, <1>4, <1>7, <1>8, SameQuotient
<1> QED BY <1>9 DEF c

LEMMA SameRemainder ==
  ASSUME NEW b \in Nat \ {0}, NEW a \in Nat, NEW c \in Nat,
         a % b = c % b, a < c
  PROVE  c >= a + b
<1> DEFINE q == a \div b
           p == c \div b
<1>1. /\ a = b * q + (a % b) /\ q \in Int /\ b * q \in Int /\ a % b \in 0..(b - 1)
      /\ c = b * p + (c % b) /\ p \in Int /\ b * p \in Int /\ c % b \in 0..(b - 1)
  BY Division
<1> HIDE DEF q, p
<1>2. CASE p < q
  <2>1. b * p + b <= b * q
    BY <1>1, <1>2, Product
  <2> QED BY <1>1, <2>1
<1>3. CASE q < p
  <2>1. b * q + b <= b * p
    BY <1>1, <1>3, Product
  <2> QED BY <1>1, <2>1
<1>4. CASE p = q
  BY <1>1, <1>4
<1> QED BY <1>1, <1>2, <1>3, <1>4

LEMMA RemainderOfNext ==
  ASSUME NEW b \in Nat \ {0}, NEW a \in Nat
  PROVE  (a + b) % b = a % b
<1>1. a \div b \in Int /\ (a + b) \div b \in Int
  BY Division
<1>2. a = b * (a \div b) + (a % b) /\ a % b \in 0..(b - 1)
  BY Division
<1>3. a + b \in Nat /\ b * (a \div b) \in Int
  BY <1>1, SMT
<1>4. /\ a + b = b * ((a + b) \div b) + ((a + b) % b)
      /\ (a + b) % b \in 0..(b - 1)
  BY <1>3, Division
<1>5. b * (a \div b + 1) = b * (a \div b) + b
  BY <1>1, SMT
<1>6. b * (a \div b + 1) + (a % b) = b * ((a + b) \div b) + ((a + b) % b)
  BY <1>1, <1>2, <1>3, <1>4, <1>5
<1>7. a \div b + 1 \in Int
  BY <1>1
<1> QED BY <1>1, <1>2, <1>4, <1>6, <1>7, SameQuotient

(* Min finds the least element of a non-empty set of naturals. *)
LEMMA LeastNat ==
  ASSUME NEW S \in SUBSET Nat, S # {}
  PROVE  Min(S) \in S /\ \A y \in S : Min(S) <= y
<1> DEFINE Below == OpToRel(<, Nat)
<1>1. \A x, y \in Nat : <<x, y>> \in Below <=> x < y
  BY DEF OpToRel
<1> HIDE DEF Below
<1>2. PICK x \in S : \A y \in S : <<y, x>> \notin Below
  BY NatLessThanWellFounded, WFMin DEF Below
<1>3. ASSUME NEW y \in S PROVE x <= y
  <2>1. x \in Nat /\ y \in Nat
    OBVIOUS
  <2>2. ~(y < x)
    BY <1>1, <1>2, <2>1
  <2> QED BY <2>1, <2>2
<1> QED BY <1>3 DEF Min

LEMMA MaxIsElement ==
  ASSUME NEW n \in Nat, NEW s \in SUBSET (1..n), s # {}
  PROVE  Max(s) \in s
<1> DEFINE mirror == {n - x : x \in s}
<1>1. mirror \in SUBSET Nat /\ mirror # {}
  <2>1. \A x \in s : n - x \in Nat
    OBVIOUS
  <2>2. PICK x \in s : TRUE
    OBVIOUS
  <2>3. n - x \in mirror
    OBVIOUS
  <2> QED BY <2>1, <2>3
<1>2. PICK x \in s : n - x = Min(mirror)
  <2> HIDE DEF mirror
  <2>1. Min(mirror) \in mirror
    BY <1>1, LeastNat
  <2> QED BY <2>1 DEF mirror
<1>3. \A y \in mirror : n - x <= y
  <2> HIDE DEF mirror
  <2> QED BY <1>1, <1>2, LeastNat
<1>4. ASSUME NEW y \in s PROVE x >= y
  <2>1. n - x <= n - y
    BY <1>3
  <2> QED BY <2>1
<1> QED BY <1>4 DEF Max

LEMMA MaxIs ==
  ASSUME NEW s \in SUBSET Nat, NEW m \in s, \A y \in s : m >= y
  PROVE  Max(s) = m
<1>1. \A x \in s : (\A y \in s : x >= y) => x = m
  OBVIOUS
<1> QED BY <1>1 DEF Max

-----------------------------------------------------------------------------
(***************************************************************************)
(* The inductive invariant.                                                *)
(***************************************************************************)

RingType ==
  /\ consoleLogBuffer \in [Slots -> Nat] /\ consoleLogWrite \in Slots
  /\ consoleLogFull \in BOOLEAN /\ logged \in Nat

RingFilled ==
  /\ consoleLogWrite = logged % BufferSize
  /\ consoleLogFull <=> logged >= BufferSize
  /\ \A b \in 1..logged :
       b > logged - BufferSize => consoleLogBuffer[(b - 1) % BufferSize] = b

RingOK == RingType /\ (RingFilled \/ (RingEmpty /\ pc # "boot"))

Writes ==
  [strings: Seq(Seq(Int)), i: Nat, pending: Nat, attempt: Nat, retry: Nat]

OutType == out \in Writes

OutOK ==
  /\ OutType /\ pc \in {"boot", "dump", "alive", "sleep"}
  /\ pc \in {"boot", "sleep"} => out = Idle
  /\ pc = "dump" =>
       /\ ~RingEmpty
       /\ out.strings \in {LogStrings, <<Part(0, consoleLogWrite)>>}
  /\ pc = "alive" => out.strings = <<Alive>>
  /\ out.strings # <<>> => out.i <= Len(Head(out.strings))

EndpointOK ==
  /\ fifo \in Seq(Int) /\ flushed \in BOOLEAN /\ received \in Seq(Nat)
  /\ (\A k \in DOMAIN fifo : fifo[k] > 0) \/ (\A k \in DOMAIN fifo : fifo[k] < 0)
  /\ flushed => out.pending = 0
  /\ ~flushed => /\ Len(fifo) = out.pending
                 /\ pc = "dump" => \A k \in DOMAIN fifo : fifo[k] > 0
                 /\ pc = "alive" => \A k \in DOMAIN fifo : fifo[k] < 0

Kept == IF logged < BufferSize THEN logged ELSE BufferSize

(* How much of the log this dump has handed to the endpoint. *)
Sent == IF Len(out.strings) = 1 THEN Kept - consoleLogWrite + out.i ELSE out.i

(* The last j bytes of s are m + 1, m + 2, ... *)
Ends(s, j, m) ==
  j <= Len(s) /\ \A k \in 1..j : s[Len(s) - j + k] = m + k

InOrder(s, m) == \A k \in 1..(Len(s) - 1) : s[k + 1] \in {s[k] + 1, m + 1}

StreamOK ==
  /\ pc = "boot" \/ logged = 0 => Stream = <<>>
  /\ pc = "dump" => Ends(Stream, Sent, logged - Kept)
  /\ pc \in {"alive", "sleep"} /\ RingEmpty /\ logged > 0
       => Ends(Stream, Kept, logged - Kept)
  /\ InOrder(Stream, logged - Kept)

LogInv == RingOK /\ OutOK /\ EndpointOK /\ StreamOK

-----------------------------------------------------------------------------
(***************************************************************************)
(* The ring.                                                               *)
(***************************************************************************)

(* A line goes on where the log ends, also when it wraps. *)
LEMMA RingFills ==
  ASSUME RingType, RingFilled, NEW n \in Nat \ {0}, consoleLogln(n)
  PROVE  RingType' /\ RingFilled'
<1> USE ConsoleLogAssumption
<1> DEFINE B == BufferSize
           W == consoleLogWrite
<1>1. /\ W = logged % B /\ W \in 0..(B - 1) /\ logged \in Nat /\ B \in Nat \ {0}
      /\ consoleLogFull \in BOOLEAN /\ consoleLogBuffer \in [Slots -> Nat]
      /\ (consoleLogFull <=> logged >= B)
  BY DEF RingType, RingFilled, Slots
<1>2. /\ consoleLogBuffer' =
           [x \in Slots |-> IF LandingIn(x, n) = {} THEN consoleLogBuffer[x]
                            ELSE logged + Max(LandingIn(x, n))]
      /\ consoleLogWrite' = (W + n) % B /\ logged' = logged + n
      /\ consoleLogFull' = (consoleLogFull \/ W + n >= B)
  BY DEF consoleLogln
<1> HIDE DEF B, W
<1>3. \A k \in Nat : (W + k) % B = (logged + k) % B
  BY <1>1, RemainderOfSum
<1>4. \A x, k : k \in LandingIn(x, n)
                  <=> k \in 1..n /\ (logged + (k - 1)) % B = x
  <2>1. \A k \in 1..n : k - 1 \in Nat /\ W + k - 1 = W + (k - 1)
    BY <1>1
  <2> QED BY <1>3, <2>1 DEF LandingIn, B, W
<1>5. ASSUME NEW b \in 1..logged', b > logged' - B
      PROVE  /\ (b - 1) % B \in Slots
             /\ consoleLogBuffer'[(b - 1) % B] = b
  <2> DEFINE x == (b - 1) % B
             S == LandingIn(x, n)
  <2>1. b - 1 \in Nat /\ b \in Nat /\ b > logged + n - B
    BY <1>1, <1>2, <1>5
  <2>2. x \in Slots
    BY <1>1, <2>1, Division DEF Slots, B
  <2>3. consoleLogBuffer'[x] = IF S = {} THEN consoleLogBuffer[x]
                               ELSE logged + Max(S)
    BY <1>2, <2>2
  <2>4. ASSUME NEW k \in S PROVE k \in 1..n /\ logged + k <= b
    <3>1. k \in 1..n /\ (logged + (k - 1)) % B = (b - 1) % B
      BY <1>4
    <3>2. logged + (k - 1) \in Nat
      BY <1>1, <3>1
    <3>3. CASE b - 1 < logged + (k - 1)
      <4>1. logged + (k - 1) >= b - 1 + B
        BY <1>1, <2>1, <3>1, <3>2, <3>3, SameRemainder
      <4> QED BY <1>1, <2>1, <3>1, <4>1
    <3> QED BY <1>1, <2>1, <3>1, <3>3
  <2>5. CASE b > logged
    <3>1. b - logged \in 1..n /\ logged + (b - logged - 1) = b - 1
      BY <1>1, <1>2, <2>1, <2>5
    <3>2. b - logged \in S
      BY <1>4, <3>1
    <3> HIDE DEF S
    <3>3. S \in SUBSET Nat
      BY <2>4
    <3>4. \A k \in S : b - logged >= k
      BY <1>1, <2>1, <2>4
    <3>5. Max(S) = b - logged
      BY <3>2, <3>3, <3>4, MaxIs
    <3> QED BY <1>1, <2>1, <2>2, <2>3, <3>2, <3>5
  <2>6. CASE b <= logged
    <3>1. S = {}
      <4>1. ASSUME NEW k \in S PROVE FALSE
        <5>1. k \in 1..n /\ (logged + (k - 1)) % B = (b - 1) % B
          BY <1>4
        <5>2. logged + (k - 1) \in Nat /\ b - 1 < logged + (k - 1)
          BY <1>1, <2>1, <2>6, <5>1
        <5>3. logged + (k - 1) >= b - 1 + B
          BY <1>1, <2>1, <5>1, <5>2, SameRemainder
        <5> QED BY <1>1, <2>1, <5>1, <5>3
      <4> QED BY <4>1
    <3>2. b \in 1..logged /\ b > logged - B
      BY <1>1, <2>1, <2>6, <1>5
    <3>3. consoleLogBuffer[x] = b
      BY <3>2 DEF RingFilled, B
    <3> QED BY <2>2, <2>3, <3>1, <3>3
  <2> QED BY <1>1, <2>1, <2>5, <2>6
<1>6. \A x \in Slots : LandingIn(x, n) # {} => Max(LandingIn(x, n)) \in Nat
  <2> SUFFICES ASSUME NEW x \in Slots, LandingIn(x, n) # {}
               PROVE  Max(LandingIn(x, n)) \in Nat
    OBVIOUS
  <2>1. LandingIn(x, n) \in SUBSET (1..n)
    BY <1>4
  <2>2. Max(LandingIn(x, n)) \in LandingIn(x, n)
    BY <2>1, MaxIsElement
  <2> QED BY <2>1, <2>2
<1>7. W + n \in Nat /\ logged + n \in Nat
  BY <1>1
<1>8. consoleLogWrite' \in 0..(B - 1) /\ consoleLogWrite' = logged' % B
  BY <1>1, <1>2, <1>3, <1>7, Division
<1>9. consoleLogBuffer' \in [Slots -> Nat]
  BY <1>1, <1>2, <1>6
<1>10. consoleLogFull' <=> logged' >= B
  <2>1. CASE logged >= B
    BY <1>1, <1>2, <2>1
  <2>2. CASE logged < B
    <3>1. W = logged
      BY <1>1, <2>2, SmallRemainder
    <3>2. ~consoleLogFull
      BY <1>1, <2>2
    <3>3. consoleLogFull' <=> W + n >= B
      BY <1>2, <3>2
    <3>4. W + n = logged'
      BY <1>2, <3>1
    <3> QED BY <3>3, <3>4
  <2> QED BY <1>1, <2>1, <2>2
<1>11. consoleLogFull' \in BOOLEAN
  BY <1>2
<1>12. RingType'
  BY <1>2, <1>7, <1>8, <1>9, <1>11 DEF RingType, Slots, B
<1>13. RingFilled'
  BY <1>5, <1>8, <1>10 DEF RingFilled, B
<1> QED BY <1>12, <1>13

(* What the ring holds, from its write position and up to it. *)
LEMMA RingParts ==
  ASSUME RingType, RingFilled
  PROVE  /\ consoleLogWrite \in 0..BufferSize /\ BufferSize \in Nat \ {0}
         /\ Part(consoleLogWrite, BufferSize) \in Seq(Int)
         /\ Len(Part(consoleLogWrite, BufferSize)) = BufferSize - consoleLogWrite
         /\ Part(0, consoleLogWrite) \in Seq(Int)
         /\ Len(Part(0, consoleLogWrite)) = consoleLogWrite
         /\ Kept \in Nat /\ Kept <= logged
         /\ Kept = IF consoleLogFull THEN BufferSize ELSE consoleLogWrite
         /\ consoleLogFull =>
              \A k \in 1..(BufferSize - consoleLogWrite) :
                Part(consoleLogWrite, BufferSize)[k] = logged - BufferSize + k
         /\ \A k \in 1..consoleLogWrite :
              Part(0, consoleLogWrite)[k] = logged - consoleLogWrite + k
         /\ logged = 0 => RingEmpty
<1> USE ConsoleLogAssumption
<1> DEFINE B == BufferSize
           W == consoleLogWrite
<1>1. /\ W = logged % B /\ W \in 0..(B - 1) /\ logged \in Nat /\ B \in Nat \ {0}
      /\ consoleLogFull \in BOOLEAN /\ consoleLogBuffer \in [0..(B - 1) -> Nat]
      /\ (consoleLogFull <=> logged >= B)
  BY DEF RingType, RingFilled, Slots
<1>2. \A b \in 1..logged : b > logged - B => consoleLogBuffer[(b - 1) % B] = b
  BY DEF RingFilled
<1>3. /\ Part(W, B) = [k \in 1..(B - W) |-> consoleLogBuffer[W + k - 1]]
      /\ Part(0, W) = [k \in 1..(W - 0) |-> consoleLogBuffer[0 + k - 1]]
      /\ Kept = IF logged < B THEN logged ELSE B
  BY DEF Part, Kept
<1> HIDE DEF B, W
<1>4. ASSUME ~consoleLogFull PROVE W = logged
  <2>1. logged \in 0..(B - 1)
    BY <1>1, <1>4
  <2> QED BY <1>1, <2>1, SmallRemainder
<1>5. /\ Part(W, B) \in Seq(Int) /\ Len(Part(W, B)) = B - W
      /\ Part(0, W) \in Seq(Int) /\ Len(Part(0, W)) = W
  <2>1. \A k \in 1..(B - W) : consoleLogBuffer[W + k - 1] \in Int
    <3>1. \A k \in 1..(B - W) : W + k - 1 \in 0..(B - 1)
      BY <1>1
    <3> QED BY <1>1, <3>1
  <2>2. \A k \in 1..(W - 0) : consoleLogBuffer[0 + k - 1] \in Int
    <3>1. \A k \in 1..(W - 0) : 0 + k - 1 \in 0..(B - 1)
      BY <1>1
    <3> QED BY <1>1, <3>1
  <2>3. B - W \in Nat /\ W - 0 \in Nat /\ W - 0 = W
    BY <1>1
  <2>4. Part(W, B) \in [1..(B - W) -> Int] /\ Part(0, W) \in [1..(W - 0) -> Int]
    BY <1>3, <2>1, <2>2
  <2> QED BY <2>3, <2>4
<1>6. /\ Kept \in Nat /\ Kept <= logged
      /\ Kept = IF consoleLogFull THEN B ELSE W
  BY <1>1, <1>3, <1>4
<1>7. ASSUME consoleLogFull, NEW k \in 1..(B - W)
      PROVE  Part(W, B)[k] = logged - B + k
  <2>1. /\ logged - B + k \in 1..logged /\ logged - B + k > logged - B
        /\ W + k - 1 \in 0..(B - 1) /\ (logged - B + k) - 1 \in Nat
        /\ ((logged - B + k) - 1) + B = logged + (k - 1) /\ k - 1 \in Nat
        /\ W + (k - 1) = W + k - 1
    BY <1>1, <1>7
  <2>2. (logged + (k - 1)) % B = (W + (k - 1)) % B
    BY <1>1, <2>1, RemainderOfSum
  <2>3. (((logged - B + k) - 1) + B) % B = ((logged - B + k) - 1) % B
    BY <1>1, <2>1, RemainderOfNext
  <2>4. (W + k - 1) % B = W + k - 1
    BY <1>1, <2>1, SmallRemainder
  <2>5. ((logged - B + k) - 1) % B = W + k - 1
    BY <2>1, <2>2, <2>3, <2>4
  <2>6. Part(W, B)[k] = consoleLogBuffer[W + k - 1]
    BY <1>3
  <2>7. consoleLogBuffer[((logged - B + k) - 1) % B] = logged - B + k
    <3> DEFINE b == logged - B + k
    <3>1. b \in 1..logged /\ b > logged - B
      BY <2>1
    <3> HIDE DEF b
    <3>2. consoleLogBuffer[(b - 1) % B] = b
      BY <1>2, <3>1, Zenon
    <3> QED BY <3>2 DEF b
  <2> QED BY <2>5, <2>6, <2>7
<1>8. ASSUME NEW k \in 1..W
      PROVE  Part(0, W)[k] = logged - W + k
  <2>1. /\ 0 + k - 1 = k - 1 /\ k - 1 \in 0..(B - 1) /\ k \in 1..(W - 0)
    BY <1>1
  <2>2. logged - W \in Nat /\ logged - W + (k - 1) \in Nat
    <3>1. W <= logged
      BY <1>1, <1>4
    <3> QED BY <1>1, <2>1, <3>1
  <2>3. (logged - W + (k - 1)) % B = k - 1
    <3>1. logged \div B \in Int /\ B * (logged \div B) \in Int
          /\ logged = B * (logged \div B) + W
      BY <1>1, Division
    <3>2. logged - W + (k - 1) = B * (logged \div B) + (k - 1)
      <4> DEFINE m == B * (logged \div B)
      <4>1. m \in Int /\ logged = m + W /\ W \in Int /\ k \in Int
        BY <1>1, <3>1
      <4> HIDE DEF m
      <4>2. logged - W + (k - 1) = m + (k - 1)
        BY <4>1
      <4> QED BY <4>2 DEF m
    <3>3. /\ (logged - W + (k - 1)) \div B \in Int
          /\ (logged - W + (k - 1)) % B \in 0..(B - 1)
          /\ logged - W + (k - 1) = B * ((logged - W + (k - 1)) \div B)
                                    + ((logged - W + (k - 1)) % B)
      BY <1>1, <2>2, Division
    <3> DEFINE a == logged - W + (k - 1)
    <3>4. B * (a \div B) + (a % B) = B * (logged \div B) + (k - 1)
      BY <3>2, <3>3
    <3>5. a \div B \in Int /\ a % B \in 0..(B - 1)
      BY <3>3
    <3> HIDE DEF a
    <3>6. a % B = k - 1
      BY <1>1, <2>1, <3>1, <3>4, <3>5, SameQuotient
    <3> QED BY <3>6 DEF a
  <2>4. /\ logged - W + k \in 1..logged /\ logged - W + k > logged - B
        /\ (logged - W + k) - 1 = logged - W + (k - 1)
    BY <1>1, <2>2
  <2>5. Part(0, W)[k] = consoleLogBuffer[k - 1]
    BY <1>3, <2>1
  <2>6. consoleLogBuffer[((logged - W + k) - 1) % B] = logged - W + k
    <3> DEFINE b == logged - W + k
    <3>1. b \in 1..logged /\ b > logged - B
      BY <2>4
    <3> HIDE DEF b
    <3>2. consoleLogBuffer[(b - 1) % B] = b
      BY <1>2, <3>1, Zenon
    <3> QED BY <3>2 DEF b
  <2>7. ((logged - W + k) - 1) % B = k - 1
    BY <2>3, <2>4
  <2> QED BY <2>5, <2>6, <2>7
<1>9. logged = 0 => RingEmpty
  BY <1>1, <1>4 DEF RingEmpty, W
<1>10. W \in 0..B
  BY <1>1
<1> QED BY <1>1, <1>5, <1>6, <1>7, <1>8, <1>9, <1>10 DEF B, W

(* The running concatenation FlattenSeq takes the last of. *)
Joined(q, g) ==
  g = [i \in 1..Len(q) |-> IF i = 1 THEN q[i] ELSE g[i - 1] \o q[i]]

LEMMA FlattenBy ==
  ASSUME NEW q, Len(q) # 0, NEW f, Joined(q, f)
  PROVE  \E g : Joined(q, g) /\ FlattenSeq(q) = g[Len(q)]
<1> DEFINE g == CHOOSE g : g = [i \in 1..Len(q) |->
                                 IF i = 1 THEN q[i] ELSE g[i - 1] \o q[i]]
<1>1. FlattenSeq(q) = g[Len(q)]
  BY DEF FlattenSeq
<1>2. Joined(q, g)
  BY DEF Joined
<1> QED BY <1>1, <1>2

LEMMA FlattenOne ==
  ASSUME NEW s
  PROVE  FlattenSeq(<<s>>) = s
<1> DEFINE q == <<s>>
           f == [i \in 1..1 |-> s]
<1>1. Len(q) = 1 /\ q[1] = s
  OBVIOUS
<1>2. Joined(q, f)
  <2> SUFFICES f = [i \in 1..1 |-> IF i = 1 THEN q[i] ELSE f[i - 1] \o q[i]]
    BY <1>1 DEF Joined
  <2> QED BY <1>1
<1> HIDE DEF f, q
<1>3. PICK g : Joined(q, g) /\ FlattenSeq(q) = g[1]
  <2>1. Len(q) # 0
    BY <1>1
  <2>2. \E g : Joined(q, g) /\ FlattenSeq(q) = g[Len(q)]
    BY <1>2, <2>1, FlattenBy, Zenon
  <2> QED BY <1>1, <2>2
<1>4. g[1] = s
  BY <1>1, <1>3 DEF Joined
<1> QED BY <1>3, <1>4 DEF q

LEMMA FlattenTwo ==
  ASSUME NEW s, NEW t
  PROVE  FlattenSeq(<<s, t>>) = s \o t
<1> DEFINE q == <<s, t>>
           f == [i \in 1..2 |-> IF i = 1 THEN s ELSE s \o t]
<1>1. Len(q) = 2 /\ q[1] = s /\ q[2] = t
  OBVIOUS
<1>2. Joined(q, f)
  <2>1. f[1] = s /\ f[2] = s \o t
    OBVIOUS
  <2>2. ASSUME NEW i \in 1..2
        PROVE  f[i] = IF i = 1 THEN q[i] ELSE f[i - 1] \o q[i]
    <3> HIDE DEF f, q
    <3>1. CASE i = 1
      BY <1>1, <2>1, <3>1
    <3>2. CASE i # 1
      <4>1. i = 2 /\ i - 1 = 1
        BY <3>2
      <4> QED BY <1>1, <2>1, <4>1
    <3> QED BY <3>1, <3>2
  <2>3. f = [i \in 1..2 |-> f[i]]
    OBVIOUS
  <2> HIDE DEF f, q
  <2>4. f = [i \in 1..2 |-> IF i = 1 THEN q[i] ELSE f[i - 1] \o q[i]]
    BY <2>2, <2>3, Zenon
  <2> QED BY <1>1, <2>4 DEF Joined
<1> HIDE DEF f, q
<1>3. PICK g : Joined(q, g) /\ FlattenSeq(q) = g[2]
  <2>1. Len(q) # 0
    BY <1>1
  <2>2. \E g : Joined(q, g) /\ FlattenSeq(q) = g[Len(q)]
    BY <1>2, <2>1, FlattenBy, Zenon
  <2> QED BY <1>1, <2>2
<1>4. g[1] = s
  BY <1>1, <1>3 DEF Joined
<1>5. g[2] = g[1] \o t
  <2>1. 2 \in 1..2 /\ 2 # 1 /\ 2 - 1 = 1
    OBVIOUS
  <2> QED BY <1>1, <1>3, <2>1 DEF Joined
<1> QED BY <1>3, <1>4, <1>5 DEF q

LEMMA LatestIs ==
  ASSUME logged \in Nat
  PROVE  /\ Latest \in Seq(Int) /\ Len(Latest) = Kept /\ Kept \in 0..logged
         /\ \A k \in 1..Kept : Latest[k] = logged - Kept + k
<1> USE ConsoleLogAssumption
<1>1. Latest = [k \in 1..Kept |-> logged - Kept + k]
  BY DEF Latest, Kept
<1>2. Kept \in 0..logged
  BY DEF Kept
<1> HIDE DEF Kept
<1>3. Latest \in [1..Kept -> Int]
  BY <1>1, <1>2
<1> QED BY <1>1, <1>2, <1>3

LEMMA RingIsLatest ==
  ASSUME RingType, RingFilled
  PROVE  FlattenSeq(LogStrings) = Latest
<1> USE ConsoleLogAssumption
<1> DEFINE W == consoleLogWrite
           P == Part(W, BufferSize)
           Q == Part(0, W)
<1>1. /\ W \in 0..BufferSize /\ BufferSize \in Nat \ {0}
      /\ P \in Seq(Int) /\ Len(P) = BufferSize - W
      /\ Q \in Seq(Int) /\ Len(Q) = W
      /\ Kept = IF consoleLogFull THEN BufferSize ELSE W
      /\ consoleLogFull =>
           \A k \in 1..(BufferSize - W) : P[k] = logged - BufferSize + k
      /\ \A k \in 1..W : Q[k] = logged - W + k
  BY RingParts
<1>2. logged \in Nat
  BY DEF RingType
<1>3. /\ Latest \in Seq(Int) /\ Len(Latest) = Kept /\ Kept \in 0..logged
      /\ \A k \in 1..Kept : Latest[k] = logged - Kept + k
  BY <1>2, LatestIs
<1>4. LogStrings = IF consoleLogFull THEN <<P, Q>> ELSE <<Q>>
  BY DEF LogStrings
<1> HIDE DEF P, Q, W
<1>5. CASE ~consoleLogFull
  <2>1. FlattenSeq(LogStrings) = Q
    BY <1>4, <1>5, FlattenOne
  <2>2. Q = Latest
    <3>1. Len(Q) = Len(Latest)
      BY <1>1, <1>3, <1>5
    <3>2. \A k \in 1..Len(Q) : Q[k] = Latest[k]
      BY <1>1, <1>3, <1>5
    <3> QED BY <1>1, <1>3, <3>1, <3>2, SeqEqual
  <2> QED BY <2>1, <2>2
<1>6. CASE consoleLogFull
  <2>1. FlattenSeq(LogStrings) = P \o Q
    BY <1>4, <1>6, FlattenTwo
  <2>2. /\ P \o Q \in Seq(Int) /\ Len(P \o Q) = BufferSize
        /\ \A k \in 1..BufferSize :
             (P \o Q)[k] = IF k <= BufferSize - W THEN P[k]
                           ELSE Q[k - (BufferSize - W)]
    <3>1. /\ P \in Seq(Int) /\ Len(P) = BufferSize - W
          /\ Q \in Seq(Int) /\ Len(Q) = W
      BY <1>1
    <3>2. BufferSize \in Nat /\ W \in 0..BufferSize
      BY <1>1
    <3>3. P \o Q \in Seq(Int) /\ Len(P \o Q) = BufferSize
      BY <3>1, <3>2
    <3>4. \A k \in 1..BufferSize :
            (P \o Q)[k] = IF k <= BufferSize - W THEN P[k]
                          ELSE Q[k - (BufferSize - W)]
      BY <3>1, <3>2
    <3> QED BY <3>3, <3>4
  <2>3. \A k \in 1..BufferSize : (P \o Q)[k] = logged - BufferSize + k
    <3> SUFFICES ASSUME NEW k \in 1..BufferSize
                 PROVE  (P \o Q)[k] = logged - BufferSize + k
      OBVIOUS
    <3>1. CASE k <= BufferSize - W
      <4>1. k \in 1..(BufferSize - W)
        BY <1>1, <3>1
      <4> QED BY <1>1, <1>6, <2>2, <3>1, <4>1
    <3>2. CASE ~(k <= BufferSize - W)
      <4>1. k - (BufferSize - W) \in 1..W
        BY <1>1, <3>2
      <4>2. (P \o Q)[k] = logged - W + (k - (BufferSize - W))
        BY <1>1, <2>2, <3>2, <4>1
      <4> QED BY <1>1, <1>2, <4>2
    <3> QED BY <3>1, <3>2
  <2>4. P \o Q = Latest
    <3>1. Len(P \o Q) = Len(Latest)
      BY <1>1, <1>3, <1>6, <2>2
    <3>2. \A k \in 1..Len(P \o Q) : (P \o Q)[k] = Latest[k]
      BY <1>1, <1>3, <1>6, <2>2, <2>3
    <3> QED BY <1>3, <2>2, <3>1, <3>2, SeqEqual
  <2> QED BY <2>1, <2>4
<1> QED BY <1>5, <1>6

-----------------------------------------------------------------------------
(***************************************************************************)
(* Strings and the bytes among them.                                       *)
(***************************************************************************)

LEMMA OneString ==
  ASSUME NEW s \in Seq(Int)
  PROVE  /\ <<s>> \in Seq(Seq(Int)) /\ Len(<<s>>) = 1 /\ Head(<<s>>) = s
         /\ <<s>> # <<>>
  OBVIOUS

LEMMA TwoStrings ==
  ASSUME NEW s \in Seq(Int), NEW t \in Seq(Int)
  PROVE  /\ <<s, t>> \in Seq(Seq(Int)) /\ Len(<<s, t>>) = 2 /\ Head(<<s, t>>) = s
         /\ Tail(<<s, t>>) = <<t>> /\ <<s, t>> # <<>>
<1>1. /\ <<s, t>> \in Seq(Seq(Int)) /\ Len(<<s, t>>) = 2 /\ Head(<<s, t>>) = s
      /\ <<s, t>>[1] = s /\ <<s, t>>[2] = t
  OBVIOUS
<1>2. <<s, t>> # <<>>
  <2>1. Len(<<>>) = 0
    OBVIOUS
  <2> DEFINE q == <<s, t>>
  <2>2. Len(q) = 2
    BY <1>1
  <2> HIDE DEF q
  <2>3. ASSUME q = <<>> PROVE FALSE
    <3>1. Len(q) = 0
      BY <2>1, <2>3, Zenon
    <3> QED BY <2>2, <3>1
  <2> QED BY <2>3 DEF q
<1>3. Tail(<<s, t>>) = <<t>>
  OBVIOUS
<1> QED BY <1>1, <1>2, <1>3

LEMMA AliveType == Alive \in Seq(Int) /\ Len(Alive) = AliveLength
                   /\ \A k \in 1..AliveLength : Alive[k] < 0
<1>1. Alive \in [1..AliveLength -> Int] /\ AliveLength \in Nat
  BY ConsoleLogAssumption DEF Alive
<1>2. \A k \in 1..AliveLength : Alive[k] < 0
  BY ConsoleLogAssumption DEF Alive
<1> QED BY <1>1, <1>2

LEMMA WritingType ==
  ASSUME NEW q \in Seq(Seq(Int))
  PROVE  /\ Writing(q) \in Writes
         /\ Writing(q).strings = q /\ Writing(q).i = 0 /\ Writing(q).pending = 0
  BY DEF Writing, Writes

(* The numbers up to k among those up to n. *)
LEMMA UpTo ==
  ASSUME NEW n \in Nat, NEW k \in 1..n
  PROVE  Cardinality((1..n) \cap (1..k)) = k
<1>1. (1..n) \cap (1..k) = 1..k
  OBVIOUS
<1>2. Cardinality(1..k) = k
  <2>1. 1 \in Int /\ k \in Int /\ ~(1 > k) /\ k - 1 + 1 = k
    OBVIOUS
  <2> QED BY <2>1, FS_Interval
<1> QED BY <1>1, <1>2

LEMMA LogBytesAll ==
  ASSUME NEW s \in Seq(Int), \A k \in DOMAIN s : s[k] > 0
  PROVE  LogBytes(s) = s
<1> DEFINE places == {k \in DOMAIN s : s[k] > 0}
           Place(j) == CHOOSE k \in places : Cardinality(places \cap (1..k)) = j
<1>1. /\ places = 1..Len(s) /\ Len(s) \in Nat /\ DOMAIN s = 1..Len(s)
      /\ s = [j \in 1..Len(s) |-> s[j]]
  OBVIOUS
<1>2. Cardinality(places) = Len(s)
  <2>1. Cardinality(1..Len(s)) = Len(s)
    <3>1. /\ 1 \in Int /\ Len(s) \in Int
          /\ IF 1 > Len(s) THEN Len(s) = 0 ELSE Len(s) - 1 + 1 = Len(s)
      BY <1>1
    <3>2. Cardinality(1..Len(s)) = IF 1 > Len(s) THEN 0 ELSE Len(s) - 1 + 1
      BY <3>1, FS_Interval
    <3> QED BY <3>1, <3>2
  <2> QED BY <1>1, <2>1
<1>3. LogBytes(s) = [j \in 1..Cardinality(places) |-> s[Place(j)]]
  BY DEF LogBytes
<1> HIDE DEF places
<1>4. ASSUME NEW j \in 1..Len(s) PROVE Place(j) = j
  <2>1. \A k \in places : Cardinality(places \cap (1..k)) = k
    BY <1>1, UpTo
  <2>2. j \in places
    BY <1>1
  <2> QED BY <2>1, <2>2
<1> HIDE DEF Place
<1>5. [j \in 1..Len(s) |-> s[Place(j)]] = [j \in 1..Len(s) |-> s[j]]
  BY <1>4
<1> QED BY <1>1, <1>2, <1>3, <1>5

LEMMA LogBytesNone ==
  ASSUME NEW s \in Seq(Int), \A k \in DOMAIN s : s[k] < 0
  PROVE  LogBytes(s) = <<>>
<1> DEFINE places == {k \in DOMAIN s : s[k] > 0}
           Place(j) == CHOOSE k \in places : Cardinality(places \cap (1..k)) = j
<1>1. places = {}
  <2>1. \A k \in DOMAIN s : s[k] \in Int
    OBVIOUS
  <2>2. \A k \in DOMAIN s : ~(s[k] > 0)
    BY <2>1
  <2> QED BY <2>2
<1>2. Cardinality(places) = 0
  BY <1>1, FS_EmptySet
<1>3. LogBytes(s) = [j \in 1..Cardinality(places) |-> s[Place(j)]]
  BY DEF LogBytes
<1> HIDE DEF places, Place
<1>4. 1..0 = {}
  OBVIOUS
<1>5. LogBytes(s) = [j \in {} |-> s[Place(j)]]
  BY <1>2, <1>3, <1>4
<1> QED BY <1>5

LEMMA LogBytesEmpty == LogBytes(<<>>) = <<>>
<1>1. <<>> \in Seq(Int) /\ \A k \in DOMAIN <<>> : <<>>[k] < 0
  OBVIOUS
<1> QED BY <1>1, LogBytesNone

-----------------------------------------------------------------------------
(***************************************************************************)
(* What is being written, step by step.                                    *)
(***************************************************************************)

(* Where a dump is, and the byte it writes next. *)
LEMMA Dumping ==
  ASSUME RingOK, OutOK, pc = "dump"
  PROVE  /\ RingFilled /\ logged \in Nat \ {0} /\ Kept \in 1..logged
         /\ out.strings # <<>> /\ Head(out.strings) \in Seq(Int)
         /\ Sent \in 0..Kept
         /\ HasByte => /\ Sent + 1 <= Kept
                       /\ Head(out.strings)[out.i + 1] = logged - Kept + Sent + 1
         /\ \/ Len(out.strings) = 1 /\ (AtEnd => Sent = Kept)
            \/ /\ Len(out.strings) = 2 /\ consoleLogFull
               /\ Tail(out.strings) = <<Part(0, consoleLogWrite)>>
               /\ AtEnd => Sent = Kept - consoleLogWrite
<1> USE ConsoleLogAssumption
<1> DEFINE W == consoleLogWrite
           P == Part(W, BufferSize)
           Q == Part(0, W)
<1>1. RingType /\ RingFilled /\ ~RingEmpty
  BY DEF RingOK, OutOK
<1>2. /\ W \in 0..BufferSize /\ BufferSize \in Nat \ {0} /\ logged \in Nat
      /\ P \in Seq(Int) /\ Len(P) = BufferSize - W
      /\ Q \in Seq(Int) /\ Len(Q) = W
      /\ Kept = (IF consoleLogFull THEN BufferSize ELSE W)
      /\ Kept \in Nat /\ Kept <= logged
      /\ consoleLogFull =>
           \A k \in 1..(BufferSize - W) : P[k] = logged - BufferSize + k
      /\ \A k \in 1..W : Q[k] = logged - W + k
      /\ logged = 0 => RingEmpty
  BY <1>1, RingParts DEF RingType
<1>3. /\ out.strings \in {LogStrings, <<Q>>} /\ out.i \in Nat
      /\ out.strings # <<>> => out.i <= Len(Head(out.strings))
  BY DEF OutOK, OutType, Writes
<1>4. LogStrings = IF consoleLogFull THEN <<P, Q>> ELSE <<Q>>
  BY DEF LogStrings
<1>5. ~consoleLogFull => W # 0
  BY <1>1 DEF RingEmpty
<1> HIDE DEF P, Q
<1>6. Kept \in 1..logged /\ logged \in Nat \ {0}
  BY <1>1, <1>2, <1>5
<1>7. CASE out.strings = <<Q>>
  <2>1. /\ Len(out.strings) = 1 /\ Head(out.strings) = Q /\ out.strings # <<>>
    BY <1>2, <1>7, OneString
  <2>2. Sent = Kept - W + out.i /\ out.i <= W
    BY <1>2, <1>3, <2>1 DEF Sent
  <2>3. Sent \in 0..Kept /\ W \in Nat
    BY <1>2, <1>3, <2>2
  <2>4. ASSUME HasByte
        PROVE  Sent + 1 <= Kept /\ Q[out.i + 1] = logged - Kept + Sent + 1
    <3>1. out.i < W
      BY <1>2, <2>1, <2>4 DEF HasByte
    <3>2. out.i + 1 \in 1..W
      <4>1. out.i \in Nat
        BY <1>3
      <4>2. W \in Nat
        BY <1>2
      <4> HIDE DEF W
      <4> QED BY <3>1, <4>1, <4>2
    <3>3. Q[out.i + 1] = logged - W + (out.i + 1)
      BY <1>2, <3>2
    <3>4. logged - W + (out.i + 1) = logged - Kept + Sent + 1
      BY <1>2, <1>3, <2>2
    <3> QED BY <1>2, <1>3, <2>2, <3>1, <3>3, <3>4
  <2>5. ASSUME AtEnd PROVE Sent = Kept
    <3>1. out.i = W
      BY <1>2, <2>1, <2>5 DEF AtEnd
    <3>2. W \in Int /\ Kept \in Int
      BY <1>2
    <3> QED BY <2>2, <3>1, <3>2
  <2> QED BY <1>1, <1>2, <1>6, <2>1, <2>3, <2>4, <2>5
<1>8. CASE consoleLogFull /\ out.strings = <<P, Q>>
  <2>1. /\ Len(out.strings) = 2 /\ Head(out.strings) = P /\ out.strings # <<>>
        /\ Tail(out.strings) = <<Q>>
    BY <1>2, <1>8, TwoStrings
  <2>2. Sent = out.i /\ out.i <= BufferSize - W /\ Kept = BufferSize
    BY <1>2, <1>3, <1>8, <2>1 DEF Sent
  <2>3. Sent \in 0..Kept
    BY <1>2, <1>3, <2>2
  <2>4. ASSUME HasByte
        PROVE  Sent + 1 <= Kept /\ P[out.i + 1] = logged - Kept + Sent + 1
    <3>1. out.i < BufferSize - W
      BY <1>2, <2>1, <2>4 DEF HasByte
    <3>2. out.i + 1 \in 1..(BufferSize - W)
      <4>1. W \in Int /\ BufferSize \in Int /\ out.i \in Nat
        BY <1>2, <1>3
      <4> HIDE DEF W
      <4> QED BY <3>1, <4>1
    <3>3. P[out.i + 1] = logged - BufferSize + (out.i + 1)
      BY <1>2, <1>8, <3>2
    <3>4. logged - BufferSize + (out.i + 1) = logged - Kept + Sent + 1
      <4>1. logged \in Int /\ BufferSize \in Int /\ out.i \in Int
        BY <1>2, <1>3
      <4> QED BY <2>2, <4>1
    <3> QED BY <1>2, <1>3, <2>2, <3>1, <3>3, <3>4
  <2>5. AtEnd => Sent = Kept - W
    BY <1>2, <1>3, <2>1, <2>2 DEF AtEnd
  <2> QED BY <1>1, <1>2, <1>6, <1>8, <2>1, <2>3, <2>4, <2>5 DEF Q
<1> QED BY <1>3, <1>4, <1>7, <1>8

(* The ring and what dumpConsoleLog writes depend on the ring alone. *)
LEMMA SameRing ==
  ASSUME UNCHANGED ring
  PROVE  /\ RingType' <=> RingType
         /\ RingFilled' <=> RingFilled
         /\ RingEmpty' <=> RingEmpty
         /\ LogStrings' = LogStrings
         /\ Part(0, consoleLogWrite)' = Part(0, consoleLogWrite)
         /\ Kept' = Kept /\ logged' = logged
         /\ consoleLogWrite' = consoleLogWrite
<1>1. /\ consoleLogBuffer' = consoleLogBuffer /\ logged' = logged
      /\ consoleLogWrite' = consoleLogWrite /\ consoleLogFull' = consoleLogFull
  BY DEF ring
<1>2. RingType' <=> RingType
  BY <1>1 DEF RingType
<1>3. RingFilled' <=> RingFilled
  BY <1>1 DEF RingFilled
<1>4. RingEmpty' <=> RingEmpty
  BY <1>1 DEF RingEmpty
<1>5. LogStrings' = LogStrings
  BY <1>1 DEF LogStrings, Part
<1>6. Part(0, consoleLogWrite)' = Part(0, consoleLogWrite)
  BY <1>1 DEF Part
<1>7. Kept' = Kept
  BY <1>1 DEF Kept
<1> QED BY <1>1, <1>2, <1>3, <1>4, <1>5, <1>6, <1>7

LEMMA WritesType ==
  ASSUME RingType, RingFilled
  PROVE  /\ LogStrings \in Seq(Seq(Int))
         /\ <<Part(0, consoleLogWrite)>> \in Seq(Seq(Int))
<1>1. /\ Part(consoleLogWrite, BufferSize) \in Seq(Int)
      /\ Part(0, consoleLogWrite) \in Seq(Int)
  BY RingParts
<1> QED BY <1>1, OneString, TwoStrings DEF LogStrings

LEMMA WritesAlive ==
  /\ <<Alive>> \in Seq(Seq(Int)) /\ Len(<<Alive>>) = 1
  /\ Head(<<Alive>>) = Alive /\ <<Alive>> # <<>>
  BY AliveType, OneString

LEMMA ToAlive ==
  ASSUME pc' = "alive", out' \in Writes, out'.strings = <<Alive>>, out'.i = 0
  PROVE  OutOK'
<1>1. /\ out'.strings # <<>> /\ Head(out'.strings) = Alive
      /\ out'.i <= Len(Head(out'.strings))
  BY WritesAlive, AliveType, ConsoleLogAssumption
<1> QED BY <1>1 DEF OutOK, OutType

LEMMA AliveAnew == Writing(<<Alive>>) \in Writes
                   /\ Writing(<<Alive>>).strings = <<Alive>>
                   /\ Writing(<<Alive>>).i = 0 /\ Writing(<<Alive>>).pending = 0
  BY WritesAlive, WritingType

LEMMA ToSleep ==
  ASSUME pc' = "sleep", out' = Idle
  PROVE  OutOK' /\ out'.pending = 0
<1>1. Idle \in Writes /\ Idle.strings = <<>> /\ Idle.pending = 0
  <2>1. <<>> \in Seq(Seq(Int))
    OBVIOUS
  <2> QED BY <2>1, WritingType DEF Idle
<1> HIDE DEF Idle
<1>2. Idle' = Idle
  BY DEF Idle, Writing
<1> QED BY <1>1, <1>2 DEF OutOK, OutType

LEMMA ToDump ==
  ASSUME pc' = "dump", UNCHANGED ring, RingType, RingFilled, ~RingEmpty,
         NEW q \in {LogStrings, <<Part(0, consoleLogWrite)>>}, out' = Writing(q)
  PROVE  /\ OutOK' /\ out'.pending = 0 /\ out'.i = 0 /\ out'.strings = q
<1>1. /\ LogStrings' = LogStrings
      /\ Part(0, consoleLogWrite)' = Part(0, consoleLogWrite)
      /\ RingEmpty' <=> RingEmpty
  BY SameRing
<1>2. q \in Seq(Seq(Int))
  BY WritesType
<1>3. /\ out' \in Writes /\ out'.strings = q /\ out'.i = 0 /\ out'.pending = 0
  BY <1>2, WritingType
<1>4. q # <<>> => Head(q) \in Seq(Int)
  BY <1>2
<1>5. out'.strings # <<>> => out'.i <= Len(Head(out'.strings))
  BY <1>3, <1>4
<1>6. out'.strings \in {LogStrings', <<Part(0, consoleLogWrite)'>>}
  BY <1>1, <1>3
<1> HIDE DEF LogStrings, RingEmpty
<1> QED BY <1>1, <1>3, <1>5, <1>6 DEF OutOK, OutType

(* A string begins: what is left in the endpoint is on its way out. *)
LEMMA EndpointTurns ==
  ASSUME EndpointOK, OutType, flushed' \in BOOLEAN,
         flushed' <=> flushed \/ out.pending > 0,
         fifo' = fifo, received' = received, out'.pending = 0
  PROVE  EndpointOK' /\ Stream' = Stream
<1>1. Stream' = Stream
  BY DEF Stream, LogBytes
<1>2. /\ fifo \in Seq(Int) /\ received \in Seq(Nat)
      /\ ~flushed => Len(fifo) = out.pending
      /\ (\A k \in DOMAIN fifo : fifo[k] > 0) \/ (\A k \in DOMAIN fifo : fifo[k] < 0)
      /\ out.pending \in Nat
  BY DEF EndpointOK, OutType, Writes
<1>3. CASE flushed'
  BY <1>1, <1>2, <1>3 DEF EndpointOK
<1>4. CASE ~flushed'
  <2>1. Len(fifo) = 0 /\ Len(fifo') = out'.pending
    BY <1>2, <1>4
  <2>2. \A k \in DOMAIN fifo : FALSE
    BY <1>2, <2>1
  <2> QED BY <1>1, <1>2, <1>4, <2>1, <2>2 DEF EndpointOK
<1> QED BY <1>3, <1>4

LEMMA LineKeeps ==
  ASSUME LogInv, NEW n \in LineLengths, consoleLogln(n)
  PROVE  LogInv'
<1>1. RingOK /\ OutOK /\ EndpointOK /\ StreamOK /\ n \in Nat \ {0}
  BY ConsoleLogAssumption DEF LogInv
<1>2. pc = "boot" /\ UNCHANGED <<pc, out, usb, host>>
  BY DEF consoleLogln
<1>3. pc' = pc /\ out' = out /\ fifo' = fifo /\ flushed' = flushed
      /\ received' = received
  BY <1>2 DEF usb, host
<1>4. RingType /\ RingFilled
  BY <1>1, <1>2 DEF RingOK
<1>5. RingType' /\ RingFilled'
  BY <1>1, <1>4, RingFills
<1>6. OutOK'
  <2>1. Idle' = Idle
    BY DEF Idle, Writing
  <2> QED BY <1>1, <1>2, <1>3, <2>1 DEF OutOK, OutType
<1>7. EndpointOK'
  BY <1>1, <1>3 DEF EndpointOK
<1>8. Stream = <<>> /\ Stream' = Stream
  BY <1>1, <1>2, <1>3 DEF StreamOK, Stream, LogBytes
<1>9. StreamOK'
  <2>1. Stream' = <<>> /\ pc' = "boot"
    BY <1>2, <1>3, <1>8
  <2>2. InOrder(Stream', logged' - Kept')
    <3> HIDE DEF Kept
    <3>1. Len(<<>>) = 0
      OBVIOUS
    <3>2. Len(Stream') = 0
      BY <2>1, <3>1, Zenon
    <3>3. 1..(Len(Stream') - 1) = {}
      BY <3>2
    <3> QED BY <3>3 DEF InOrder
  <2>3. InOrder(Stream, logged - Kept)' <=> InOrder(Stream', logged' - Kept')
    BY DEF InOrder
  <2> QED BY <2>1, <2>2, <2>3 DEF StreamOK
<1> QED BY <1>5, <1>6, <1>7, <1>9 DEF LogInv, RingOK

(* A step that sends nothing and leaves the ring. *)
LEMMA SameStream ==
  ASSUME UNCHANGED ring, Stream' = Stream
  PROVE  /\ \A j : Ends(Stream, j, logged - Kept)
                     <=> Ends(Stream', j, logged' - Kept')
         /\ InOrder(Stream', logged' - Kept') <=> InOrder(Stream, logged - Kept)
         /\ logged' = logged /\ Kept' = Kept
         /\ RingOK /\ (pc = "boot" \/ pc' # "boot") => RingOK'
<1>1. /\ logged' = logged /\ Kept' = Kept
      /\ RingType' <=> RingType
      /\ RingFilled' <=> RingFilled
      /\ RingEmpty' <=> RingEmpty
  BY SameRing
<1> QED BY <1>1 DEF RingOK

LEMMA StreamType ==
  ASSUME EndpointOK
  PROVE  LogBytes(fifo) \in Seq(Nat) /\ Stream \in Seq(Int)
<1>1. fifo \in Seq(Int) /\ received \in Seq(Nat)
  BY DEF EndpointOK
<1>2. LogBytes(fifo) \in Seq(Nat)
  <2>1. CASE \A k \in DOMAIN fifo : fifo[k] > 0
    <3>1. \A k \in 1..Len(fifo) : fifo[k] \in Nat
      BY <1>1, <2>1
    <3>2. fifo \in Seq(Nat)
      BY <1>1, <3>1
    <3> QED BY <1>1, <2>1, <3>2, LogBytesAll
  <2>2. CASE \A k \in DOMAIN fifo : fifo[k] < 0
    <3>1. LogBytes(fifo) = <<>>
      BY <1>1, <2>2, LogBytesNone
    <3> QED BY <3>1
  <2> QED BY <2>1, <2>2 DEF EndpointOK
<1>3. received \o LogBytes(fifo) \in Seq(Nat)
  BY <1>1, <1>2
<1> QED BY <1>2, <1>3 DEF Stream

LEMMA StreamPrimed ==
  ASSUME pc' = "boot" \/ logged' = 0 => Stream' = <<>>,
         pc' = "dump" => Ends(Stream', Sent', logged' - Kept'),
         pc' \in {"alive", "sleep"} /\ RingEmpty' /\ logged' > 0
           => Ends(Stream', Kept', logged' - Kept'),
         InOrder(Stream', logged' - Kept')
  PROVE  StreamOK'
<1>1. /\ Ends(Stream, Sent, logged - Kept)'
         <=> Ends(Stream', Sent', logged' - Kept')
      /\ Ends(Stream, Kept, logged - Kept)'
         <=> Ends(Stream', Kept', logged' - Kept')
      /\ InOrder(Stream, logged - Kept)' <=> InOrder(Stream', logged' - Kept')
  BY DEF Ends, InOrder
<1> QED BY <1>1 DEF StreamOK

LEMMA NextRoundKeeps ==
  ASSUME LogInv, NextRound
  PROVE  LogInv'
<1>1. RingOK /\ OutOK /\ EndpointOK /\ StreamOK
  BY DEF LogInv
<1>2. /\ pc \in {"boot", "sleep"}
      /\ pc' = (IF RingEmpty THEN "alive" ELSE "dump")
      /\ out' = Writing(IF RingEmpty THEN <<Alive>> ELSE LogStrings)
      /\ UNCHANGED ring /\ fifo' = fifo /\ flushed' = flushed
      /\ received' = received
  BY DEF NextRound, usb, host
<1>3. RingType /\ (RingFilled \/ (RingEmpty /\ pc # "boot"))
  BY <1>1 DEF RingOK
<1>4. out.pending = 0 /\ OutType
  <2>1. out = Idle
    BY <1>1, <1>2 DEF OutOK
  <2> QED BY <1>1, <2>1 DEF OutOK, Idle, Writing
<1>5. OutOK' /\ out'.pending = 0 /\ (pc' = "dump" => Sent' = 0)
  <2>1. CASE RingEmpty
    BY <1>2, <2>1, ToAlive, AliveAnew
  <2>2. CASE ~RingEmpty
    <3>1. RingFilled /\ pc' = "dump"
      BY <1>2, <1>3, <2>2
    <3>2. /\ OutOK' /\ out'.pending = 0 /\ out'.i = 0 /\ out'.strings = LogStrings
      BY <1>2, <1>3, <2>2, <3>1, ToDump
    <3>3. Sent' = 0
      <4>1. Kept' = Kept /\ consoleLogWrite' = consoleLogWrite
        BY <1>2, SameRing
      <4>2. CASE consoleLogFull
        <5>1. Len(out'.strings) = 2
          BY <1>3, <3>1, <3>2, <4>2, RingParts, TwoStrings DEF LogStrings
        <5> QED BY <3>2, <5>1 DEF Sent
      <4>3. CASE ~consoleLogFull
        <5>1. Kept = consoleLogWrite /\ Kept \in Nat
          BY <1>3, <3>1, <4>3, RingParts
        <5> HIDE DEF Kept
        <5>2. Kept' - consoleLogWrite' + out'.i = 0
          BY <3>2, <4>1, <5>1
        <5> QED BY <3>2, <5>2 DEF Sent
      <4> QED BY <4>2, <4>3
    <3> QED BY <3>2, <3>3
  <2> QED BY <2>1, <2>2
<1>6. EndpointOK' /\ Stream' = Stream
  <2>1. flushed' \in BOOLEAN
    BY <1>1, <1>2 DEF EndpointOK
  <2>2. flushed' <=> flushed \/ out.pending > 0
    BY <1>2, <1>4
  <2> QED BY <1>1, <1>2, <1>4, <1>5, <2>1, <2>2, EndpointTurns
<1>7. /\ \A j : Ends(Stream, j, logged - Kept)
                  <=> Ends(Stream', j, logged' - Kept')
      /\ InOrder(Stream', logged' - Kept') <=> InOrder(Stream, logged - Kept)
      /\ logged' = logged /\ Kept' = Kept
      /\ RingOK'
  BY <1>1, <1>2, <1>6, SameStream
<1>8. /\ pc = "boot" \/ logged = 0 => Stream = <<>>
      /\ pc \in {"alive", "sleep"} /\ RingEmpty /\ logged > 0
           => Ends(Stream, Kept, logged - Kept)
      /\ InOrder(Stream, logged - Kept)
  BY <1>1 DEF StreamOK
<1>9. pc' = "dump" => Ends(Stream', Sent', logged' - Kept')
  <2>1. Stream \in Seq(Int)
    BY <1>1, StreamType
  <2>2. Ends(Stream, 0, logged - Kept)
    <3>1. 0 <= Len(Stream) /\ 1..0 = {}
      BY <2>1
    <3> QED BY <3>1 DEF Ends
  <2> QED BY <1>5, <1>7, <2>2
<1>10. ASSUME pc' \in {"alive", "sleep"}, RingEmpty', logged' > 0
       PROVE  Ends(Stream', Kept', logged' - Kept')
  <2>1. RingEmpty
    BY <1>2, <1>10, SameRing
  <2>2. CASE pc = "boot"
    <3>1. RingFilled /\ logged > 0
      BY <1>3, <1>7, <1>10, <2>2
    <3>2. logged \in Nat /\ consoleLogWrite = 0 /\ ~consoleLogFull
      BY <1>3, <2>1 DEF RingType, RingEmpty
    <3>3. logged < BufferSize /\ logged = 0
      <4>1. logged < BufferSize /\ logged \in 0..(BufferSize - 1)
        BY <3>1, <3>2, ConsoleLogAssumption DEF RingFilled
      <4>2. logged % BufferSize = logged
        BY <4>1, ConsoleLogAssumption, SmallRemainder
      <4> QED BY <3>1, <3>2, <4>1, <4>2 DEF RingFilled
    <3> QED BY <3>1, <3>3
  <2>3. CASE pc = "sleep"
    BY <1>7, <1>8, <1>10, <2>1, <2>3
  <2> QED BY <1>2, <2>2, <2>3
<1>11. pc' = "boot" \/ logged' = 0 => Stream' = <<>>
  BY <1>2, <1>6, <1>7, <1>8
<1>12. StreamOK'
  BY <1>7, <1>8, <1>9, <1>10, <1>11, StreamPrimed
<1> QED BY <1>5, <1>6, <1>7, <1>12 DEF LogInv

(* A string ends or a byte is given up, and the ring stays as it is. *)
LEMMA TurnKeeps ==
  ASSUME LogInv, UNCHANGED ring, fifo' = fifo, received' = received,
         flushed' = (flushed \/ out.pending > 0), OutOK', out'.pending = 0,
         \/ pc' \in {"alive", "sleep"} /\ pc \in {"dump", "alive"}
         \/ pc' = "dump" /\ pc = "dump" /\ Sent' = Sent
  PROVE  LogInv'
<1>1. RingOK /\ OutOK /\ EndpointOK /\ StreamOK
  BY DEF LogInv
<1>2. EndpointOK' /\ Stream' = Stream
  <2>1. flushed' \in BOOLEAN /\ (flushed' <=> flushed \/ out.pending > 0)
    BY <1>1 DEF EndpointOK
  <2> QED BY <1>1, <2>1, EndpointTurns DEF OutOK
<1>3. /\ \A j : Ends(Stream, j, logged - Kept)
                  <=> Ends(Stream', j, logged' - Kept')
      /\ InOrder(Stream', logged' - Kept') <=> InOrder(Stream, logged - Kept)
      /\ logged' = logged /\ Kept' = Kept
      /\ RingOK'
  BY <1>1, <1>2, SameStream
<1>4. RingEmpty' => RingEmpty
  BY SameRing
<1>5. pc = "dump" => ~RingEmpty
  BY <1>1 DEF OutOK
<1>6. StreamOK'
  <2>1. /\ logged = 0 => Stream = <<>>
        /\ pc = "dump" => Ends(Stream, Sent, logged - Kept)
        /\ pc \in {"alive", "sleep"} /\ RingEmpty /\ logged > 0
             => Ends(Stream, Kept, logged - Kept)
        /\ InOrder(Stream, logged - Kept)
    BY <1>1 DEF StreamOK
  <2>2. pc' = "boot" \/ logged' = 0 => Stream' = <<>>
    BY <1>2, <1>3, <2>1
  <2>3. pc' = "dump" => Ends(Stream', Sent', logged' - Kept')
    BY <1>3, <2>1
  <2>4. pc' \in {"alive", "sleep"} /\ RingEmpty' /\ logged' > 0
          => Ends(Stream', Kept', logged' - Kept')
    BY <1>3, <1>4, <1>5, <2>1
  <2> QED BY <1>3, <2>1, <2>2, <2>3, <2>4, StreamPrimed
<1> QED BY <1>2, <1>3, <1>6 DEF LogInv

LEMMA FailsKeeps ==
  ASSUME LogInv, Fails, fifo' = fifo, received' = received,
         flushed' = (flushed \/ out.pending > 0)
  PROVE  LogInv'
<1>1. CASE pc = "dump" /\ pc' = "alive" /\ out' = Writing(<<Alive>>)
           /\ UNCHANGED ring
  <2>1. OutOK' /\ out'.pending = 0
    BY <1>1, ToAlive, AliveAnew
  <2> QED BY <1>1, <2>1, TurnKeeps
<1>2. CASE /\ pc = "alive"
           /\ out' = [Writing(<<Alive>>) EXCEPT !.retry = out.retry + 1]
           /\ UNCHANGED <<pc, ring>>
  <2>1. out.retry + 1 \in Nat
    BY DEF LogInv, OutOK, OutType, Writes
  <2> DEFINE w == Writing(<<Alive>>)
  <2>2. w \in Writes /\ w.strings = <<Alive>> /\ w.i = 0 /\ w.pending = 0
    BY AliveAnew
  <2> HIDE DEF w
  <2>3. out' = [w EXCEPT !.retry = out.retry + 1]
    BY <1>2 DEF w
  <2>4. /\ out' \in Writes /\ out'.strings = <<Alive>> /\ out'.i = 0
        /\ out'.pending = 0
    BY <2>1, <2>2, <2>3 DEF Writes
  <2>5. OutOK'
    BY <1>2, <2>4, ToAlive
  <2> QED BY <1>2, <2>4, <2>5, TurnKeeps
<1>3. CASE pc = "alive" /\ pc' = "sleep" /\ out' = Idle /\ UNCHANGED ring
  <2>1. OutOK' /\ out'.pending = 0
    BY <1>3, ToSleep
  <2> QED BY <1>3, <2>1, TurnKeeps
<1> QED BY <1>1, <1>2, <1>3 DEF Fails

LEMMA ByteTimeoutKeeps ==
  ASSUME LogInv, ByteTimeout
  PROVE  LogInv'
<1>1. CASE /\ out' = [out EXCEPT !.attempt = @ + 1]
           /\ UNCHANGED <<pc, ring, flushed>>
  <2>1. UNCHANGED <<fifo, host>> /\ received' = received
    BY DEF ByteTimeout, host
  <2>2. RingOK /\ OutOK /\ EndpointOK /\ StreamOK /\ out \in Writes
    BY DEF LogInv, OutOK, OutType
  <2>3. /\ out' \in Writes /\ out'.strings = out.strings /\ out'.i = out.i
        /\ out'.pending = out.pending
    <3>1. out' = [out EXCEPT !.attempt = out.attempt + 1]
      BY <1>1
    <3>2. out.attempt + 1 \in Nat /\ out \in Writes
      BY <2>2 DEF Writes
    <3> QED BY <3>1, <3>2 DEF Writes
  <2>4. /\ LogStrings' = LogStrings
        /\ Part(0, consoleLogWrite)' = Part(0, consoleLogWrite)
        /\ RingEmpty' <=> RingEmpty
        /\ Kept' = Kept /\ consoleLogWrite' = consoleLogWrite
    BY <1>1, SameRing
  <2>5. Stream' = Stream
    BY <2>1 DEF Stream, LogBytes
  <2>6. /\ \A j : Ends(Stream, j, logged - Kept)
                    <=> Ends(Stream', j, logged' - Kept')
        /\ InOrder(Stream', logged' - Kept') <=> InOrder(Stream, logged - Kept)
        /\ logged' = logged
        /\ RingOK'
    BY <1>1, <2>2, <2>5, SameStream
  <2>7. pc \notin {"boot", "sleep"}
    BY <2>2 DEF ByteTimeout, HasByte, OutOK, Idle, Writing
  <2>8. OutOK'
    <3>1. /\ pc = "dump" => ~RingEmpty /\ out.strings \in
                              {LogStrings, <<Part(0, consoleLogWrite)>>}
          /\ pc = "alive" => out.strings = <<Alive>>
          /\ out.strings # <<>> => out.i <= Len(Head(out.strings))
          /\ pc \in {"boot", "dump", "alive", "sleep"}
      BY <2>2 DEF OutOK
    <3>2. pc' = pc
      BY <1>1
    <3> HIDE DEF LogStrings, RingEmpty, Part
    <3> QED BY <2>3, <2>4, <2>7, <3>1, <3>2 DEF OutOK, OutType
  <2>9. EndpointOK'
    BY <1>1, <2>1, <2>2, <2>3 DEF EndpointOK
  <2>10. Sent' = Sent
    BY <2>3, <2>4 DEF Sent
  <2>11. StreamOK'
    <3>1. /\ pc = "boot" \/ logged = 0 => Stream = <<>>
          /\ pc = "dump" => Ends(Stream, Sent, logged - Kept)
          /\ pc \in {"alive", "sleep"} /\ RingEmpty /\ logged > 0
               => Ends(Stream, Kept, logged - Kept)
          /\ InOrder(Stream, logged - Kept)
      BY <2>2 DEF StreamOK
    <3> HIDE DEF RingEmpty, Kept, Sent
    <3> QED BY <1>1, <2>4, <2>5, <2>6, <2>10, <3>1, StreamPrimed
  <2> QED BY <2>6, <2>8, <2>9, <2>11 DEF LogInv
<1>2. CASE Fails /\ flushed' = (flushed \/ out.pending > 0)
  BY <1>2, FailsKeeps DEF ByteTimeout, host
<1> QED BY <1>1, <1>2 DEF ByteTimeout

LEMMA EndStringKeeps ==
  ASSUME LogInv, EndString
  PROVE  LogInv'
<1>1. RingOK /\ OutOK /\ EndpointOK /\ StreamOK
  BY DEF LogInv
<1>2. /\ AtEnd /\ flushed' = (flushed \/ out.pending > 0) /\ fifo' = fifo
      /\ received' = received
      /\ IF Len(out.strings) > 1
         THEN out' = Writing(Tail(out.strings)) /\ UNCHANGED <<pc, ring>>
         ELSE Succeeds
  BY DEF EndString, host
<1>3. pc \in {"dump", "alive"}
  BY <1>1, <1>2 DEF AtEnd, OutOK, Idle, Writing
<1>4. ASSUME pc = "dump"
      PROVE  /\ RingFilled /\ logged \in Nat \ {0} /\ Kept \in 1..logged
             /\ \/ Len(out.strings) = 1 /\ Sent = Kept
                \/ /\ Len(out.strings) = 2 /\ consoleLogFull
                   /\ Tail(out.strings) = <<Part(0, consoleLogWrite)>>
                   /\ Sent = Kept - consoleLogWrite
  BY <1>1, <1>2, <1>4, Dumping
<1>5. pc = "alive" => Len(out.strings) = 1
  BY <1>1, WritesAlive DEF OutOK
<1>6. CASE Len(out.strings) > 1
  <2>1. /\ pc = "dump" /\ Len(out.strings) = 2
        /\ Tail(out.strings) = <<Part(0, consoleLogWrite)>>
        /\ Sent = Kept - consoleLogWrite /\ RingFilled
    <3>1. Len(out.strings) # 1
      <4>1. Len(out.strings) \in Nat
        BY <1>1 DEF OutOK, OutType, Writes
      <4>2. \A x \in Nat : x > 1 => x # 1
        OBVIOUS
      <4> QED BY <1>6, <4>1, <4>2, Zenon
    <3>2. pc = "dump"
      BY <1>3, <1>5, <3>1, Zenon
    <3> QED BY <1>4, <3>1, <3>2, Zenon
  <2>2. RingType /\ ~RingEmpty
    BY <1>1, <2>1 DEF RingOK, OutOK
  <2> DEFINE q == <<Part(0, consoleLogWrite)>>
  <2>3. q \in {LogStrings, <<Part(0, consoleLogWrite)>>} /\ Len(q) = 1
    OBVIOUS
  <2>4. out' = Writing(q) /\ UNCHANGED ring /\ pc' = "dump"
    BY <1>2, <1>6, <2>1
  <2> HIDE DEF q
  <2>5. /\ OutOK' /\ out'.pending = 0 /\ out'.i = 0 /\ out'.strings = q
    BY <2>1, <2>2, <2>3, <2>4, ToDump
  <2>6. Sent' = Sent
    <3>1. Kept' = Kept /\ consoleLogWrite' = consoleLogWrite
      BY <2>4, SameRing
    <3>2. Kept - consoleLogWrite \in Int
      BY <1>4, <2>1, <2>2 DEF RingType, Slots
    <3> HIDE DEF Kept
    <3>3. Sent' = Kept' - consoleLogWrite' + out'.i
      BY <2>3, <2>5 DEF Sent
    <3> QED BY <2>1, <2>5, <3>1, <3>2, <3>3
  <2> QED BY <1>2, <2>1, <2>4, <2>5, <2>6, TurnKeeps
<1>7. CASE pc = "alive" /\ pc' = "sleep" /\ out' = Idle /\ UNCHANGED ring
  <2>1. OutOK' /\ out'.pending = 0
    BY <1>7, ToSleep
  <2> QED BY <1>2, <1>7, <2>1, TurnKeeps
<1>8. CASE /\ pc = "dump" /\ ~(Len(out.strings) > 1)
           /\ consoleLogWrite' = 0 /\ consoleLogFull' = FALSE
           /\ pc' = "alive" /\ out' = Writing(<<Alive>>)
           /\ UNCHANGED <<consoleLogBuffer, logged>>
  <2>1. Sent = Kept /\ logged \in Nat \ {0} /\ RingType
    <3>1. Len(out.strings) # 2
      BY <1>8
    <3>2. Sent = Kept /\ logged \in Nat \ {0}
      BY <1>4, <1>8, <3>1, Zenon
    <3> QED BY <1>1, <3>2 DEF RingOK
  <2>2. OutOK' /\ out'.pending = 0
    BY <1>8, ToAlive, AliveAnew
  <2>3. EndpointOK' /\ Stream' = Stream
    <3>1. flushed' \in BOOLEAN /\ (flushed' <=> flushed \/ out.pending > 0)
      BY <1>1, <1>2 DEF EndpointOK
    <3> QED BY <1>1, <1>2, <2>2, <3>1, EndpointTurns DEF OutOK
  <2>4. RingOK'
    <3>1. 0 \in Slots
      BY ConsoleLogAssumption DEF Slots
    <3>2. RingType'
      BY <1>8, <2>1, <3>1 DEF RingType
    <3>3. RingEmpty'
      BY <1>8 DEF RingEmpty
    <3> QED BY <1>8, <3>2, <3>3 DEF RingOK
  <2>5. Kept' = Kept /\ logged' = logged
    BY <1>8 DEF Kept
  <2>6. /\ Ends(Stream, Kept, logged - Kept) /\ InOrder(Stream, logged - Kept)
    BY <1>1, <1>8, <2>1 DEF StreamOK
  <2>7. StreamOK'
    <3> HIDE DEF Kept
    <3>1. Ends(Stream', Kept', logged' - Kept') /\ InOrder(Stream', logged' - Kept')
      BY <2>3, <2>5, <2>6
    <3>2. pc' = "alive" /\ logged' # 0
      BY <1>8, <2>1, <2>5
    <3> QED BY <3>1, <3>2, StreamPrimed
  <2> QED BY <2>2, <2>3, <2>4, <2>7 DEF LogInv
<1> QED BY <1>2, <1>3, <1>6, <1>7, <1>8 DEF Succeeds

LEMMA AppendFacts ==
  ASSUME NEW s \in Seq(Int), NEW e \in Int
  PROVE  /\ Append(s, e) \in Seq(Int) /\ Len(Append(s, e)) = Len(s) + 1
         /\ Len(s) \in Nat
         /\ \A k \in 1..Len(s) : Append(s, e)[k] = s[k]
         /\ Append(s, e)[Len(s) + 1] = e
  OBVIOUS

(* The next byte of the log, or the first one of a dump started over. *)
LEMMA StreamGrows ==
  ASSUME NEW s \in Seq(Int), NEW m \in Int, NEW j \in Nat,
         Ends(s, j, m), InOrder(s, m)
  PROVE  /\ Ends(Append(s, m + j + 1), j + 1, m)
         /\ InOrder(Append(s, m + j + 1), m)
<1> DEFINE e == m + j + 1
           t == Append(s, e)
<1>1. e \in Int
  OBVIOUS
<1>2. /\ Len(t) = Len(s) + 1 /\ Len(s) \in Nat
      /\ \A k \in 1..Len(s) : t[k] = s[k]
      /\ t[Len(s) + 1] = e
  BY <1>1, AppendFacts
<1>3. /\ j <= Len(s) /\ \A k \in 1..j : s[Len(s) - j + k] = m + k
      /\ \A k \in 1..(Len(s) - 1) : s[k + 1] \in {s[k] + 1, m + 1}
  BY DEF Ends, InOrder
<1> HIDE DEF t
<1>4. ASSUME NEW k \in 1..(j + 1) PROVE t[Len(t) - (j + 1) + k] = m + k
  <2>1. Len(t) - (j + 1) + k = Len(s) - j + k
    BY <1>2
  <2>2. CASE k = j + 1
    <3>1. Len(s) - j + k = Len(s) + 1 /\ e = m + k
      BY <1>2, <2>2
    <3> QED BY <1>2, <2>1, <3>1
  <2>3. CASE k # j + 1
    <3>1. k \in 1..j /\ Len(s) - j + k \in 1..Len(s)
      BY <1>2, <1>3, <2>3
    <3> QED BY <1>2, <1>3, <2>1, <3>1
  <2> QED BY <2>2, <2>3
<1>5. ASSUME NEW k \in 1..(Len(t) - 1) PROVE t[k + 1] \in {t[k] + 1, m + 1}
  <2>1. k \in 1..Len(s) /\ t[k] = s[k]
    BY <1>2
  <2>2. CASE k = Len(s)
    <3>1. t[k + 1] = e
      BY <1>2, <2>2
    <3>2. CASE j = 0
      BY <3>1, <3>2
    <3>3. CASE j # 0
      <4>1. j \in 1..j /\ Len(s) - j + j = Len(s)
        BY <1>2, <3>3
      <4>2. s[Len(s)] = m + j
        BY <1>3, <4>1
      <4> QED BY <2>1, <2>2, <3>1, <4>2
    <3> QED BY <3>2, <3>3
  <2>3. CASE k # Len(s)
    <3>1. k \in 1..(Len(s) - 1) /\ k + 1 \in 1..Len(s)
      BY <1>2, <2>1, <2>3
    <3> QED BY <1>2, <1>3, <2>1, <3>1
  <2> QED BY <2>2, <2>3
<1>6. j + 1 <= Len(t)
  BY <1>2, <1>3
<1> QED BY <1>4, <1>5, <1>6 DEF Ends, InOrder, t

LEMMA WriteByteKeeps ==
  ASSUME LogInv, WriteByte
  PROVE  LogInv'
<1>1. RingOK /\ OutOK /\ EndpointOK /\ StreamOK /\ out \in Writes
  BY DEF LogInv, OutOK, OutType
<1> DEFINE e == Head(out.strings)[out.i + 1]
<1>2. /\ HasByte /\ ~flushed /\ fifo' = Append(fifo, e)
      /\ flushed' = (out.pending + 1 >= FlushChunkBytes)
      /\ pc' = pc /\ UNCHANGED ring /\ received' = received
  BY DEF WriteByte, host
<1>3. /\ out' \in Writes /\ out'.strings = out.strings /\ out'.i = out.i + 1
      /\ out'.pending = (IF flushed' THEN 0 ELSE out.pending + 1)
  <2> DEFINE p == IF flushed' THEN 0 ELSE out.pending + 1
  <2>1. out' = [out EXCEPT !.i = out.i + 1, !.attempt = 0, !.pending = p]
    BY DEF WriteByte
  <2>2. out.i + 1 \in Nat /\ out.pending + 1 \in Nat /\ p \in Nat
    BY <1>1 DEF Writes
  <2> HIDE DEF p
  <2>3. /\ out' \in Writes /\ out'.strings = out.strings /\ out'.i = out.i + 1
        /\ out'.pending = p
    BY <1>1, <2>1, <2>2 DEF Writes
  <2> QED BY <2>3 DEF p
<1>4. pc \in {"dump", "alive"}
  BY <1>1, <1>2 DEF HasByte, OutOK, Idle, Writing
<1>5. pc = "dump" =>
        /\ RingFilled /\ logged \in Nat \ {0} /\ Kept \in 1..logged
        /\ Head(out.strings) \in Seq(Int)
        /\ Sent \in 0..Kept /\ Sent + 1 <= Kept /\ e = logged - Kept + Sent + 1
  BY <1>1, <1>2, Dumping
<1>6. pc = "alive" => e \in Int /\ e < 0 /\ Head(out.strings) = Alive
  <2>1. ASSUME pc = "alive" PROVE e \in Int /\ e < 0 /\ Head(out.strings) = Alive
    <3>1. Head(out.strings) = Alive
      BY <1>1, <2>1, WritesAlive DEF OutOK
    <3>2. out.i < AliveLength /\ out.i \in Nat
      BY <1>1, <1>2, <3>1, AliveType DEF HasByte, Writes
    <3>3. out.i + 1 \in 1..AliveLength
      BY <3>2, ConsoleLogAssumption
    <3>4. Alive[out.i + 1] < 0 /\ Alive[out.i + 1] \in Int
      BY <3>3, AliveType
    <3> QED BY <3>1, <3>4
  <2> QED BY <2>1
<1>7. e \in Int /\ (pc = "dump" => e > 0)
  <2>1. CASE pc = "dump"
    <3> HIDE DEF e
    <3> QED BY <1>5, <2>1
  <2>2. CASE pc = "alive"
    BY <1>6, <2>2
  <2> QED BY <1>4, <2>1, <2>2
<1>8. /\ RingOK' /\ Kept' = Kept /\ logged' = logged
      /\ LogStrings' = LogStrings
      /\ Part(0, consoleLogWrite)' = Part(0, consoleLogWrite)
      /\ consoleLogWrite' = consoleLogWrite
      /\ RingEmpty' <=> RingEmpty
  <2>1. /\ RingType' <=> RingType
        /\ RingFilled' <=> RingFilled
        /\ RingEmpty' <=> RingEmpty
    BY <1>2, SameRing
  <2>2. RingOK'
    BY <1>1, <1>2, <2>1 DEF RingOK
  <2> QED BY <1>2, <2>2, SameRing
<1>9. OutOK'
  <2>1. /\ pc = "dump" => ~RingEmpty /\ out.strings \in
                            {LogStrings, <<Part(0, consoleLogWrite)>>}
        /\ pc = "alive" => out.strings = <<Alive>>
    BY <1>1 DEF OutOK
  <2>2. out.i + 1 <= Len(Head(out.strings))
    <3>1. Len(Head(out.strings)) \in Nat /\ out.i \in Nat
      BY <1>1, <1>4, <1>5, <1>6, AliveType DEF Writes
    <3> QED BY <1>2, <3>1 DEF HasByte
  <2> HIDE DEF LogStrings, RingEmpty, Part
  <2> QED BY <1>2, <1>3, <1>4, <1>8, <2>1, <2>2 DEF OutOK, OutType
<1> HIDE DEF e
<1>10. /\ fifo \in Seq(Int) /\ received \in Seq(Nat) /\ Len(fifo) = out.pending
       /\ pc = "dump" => \A k \in DOMAIN fifo : fifo[k] > 0
       /\ pc = "alive" => \A k \in DOMAIN fifo : fifo[k] < 0
  BY <1>1, <1>2 DEF EndpointOK
<1>11. /\ fifo' \in Seq(Int) /\ Len(fifo') = Len(fifo) + 1
       /\ DOMAIN fifo' = 1..(Len(fifo) + 1) /\ DOMAIN fifo = 1..Len(fifo)
       /\ \A k \in 1..Len(fifo) : fifo'[k] = fifo[k]
       /\ fifo'[Len(fifo) + 1] = e /\ Len(fifo) \in Nat
  BY <1>2, <1>7, <1>10, AppendFacts
<1>12. ASSUME pc = "dump" PROVE \A k \in DOMAIN fifo' : fifo'[k] > 0
  <2>1. \A k \in 1..(Len(fifo) + 1) : k \in 1..Len(fifo) \/ k = Len(fifo) + 1
    BY <1>11
  <2> QED BY <1>7, <1>10, <1>11, <1>12, <2>1
<1>13. ASSUME pc = "alive" PROVE \A k \in DOMAIN fifo' : fifo'[k] < 0
  <2>1. \A k \in 1..(Len(fifo) + 1) : k \in 1..Len(fifo) \/ k = Len(fifo) + 1
    BY <1>11
  <2> QED BY <1>6, <1>10, <1>11, <1>13, <2>1
<1>14. EndpointOK'
  <2>1. flushed' \in BOOLEAN
    BY <1>2
  <2>2. flushed' => out'.pending = 0
    BY <1>3
  <2>3. ~flushed' => Len(fifo') = out'.pending
    BY <1>3, <1>10, <1>11
  <2> QED BY <1>2, <1>4, <1>10, <1>11, <1>12, <1>13, <2>1, <2>2, <2>3 DEF EndpointOK
<1>15. CASE pc = "dump"
  <2>1. LogBytes(fifo') = fifo' /\ LogBytes(fifo) = fifo
    BY <1>10, <1>11, <1>12, <1>15, LogBytesAll
  <2>2. Stream = received \o fifo /\ Stream' = received \o Append(fifo, e)
    BY <1>2, <2>1 DEF Stream
  <2>3. Stream' = Append(Stream, e) /\ Stream \in Seq(Int)
    <3>1. received \in Seq(Int)
      BY <1>10
    <3> QED BY <1>7, <1>10, <2>2, <3>1
  <2>4. Ends(Stream, Sent, logged - Kept) /\ InOrder(Stream, logged - Kept)
    BY <1>1, <1>15 DEF StreamOK
  <2>5. /\ logged - Kept \in Int /\ Sent \in Nat
        /\ e = (logged - Kept) + Sent + 1
    BY <1>5, <1>15
  <2>6. /\ Ends(Stream', Sent + 1, logged - Kept)
        /\ InOrder(Stream', logged - Kept)
    BY <2>3, <2>4, <2>5, StreamGrows
  <2>7. Sent' = Sent + 1
    <3>1. Kept \in Int /\ consoleLogWrite \in Int /\ out.i \in Nat
      BY <1>1, <1>5, <1>15 DEF RingOK, RingType, Slots, Writes
    <3> HIDE DEF Kept
    <3> QED BY <1>3, <1>8, <3>1 DEF Sent
  <2>8. ~RingEmpty' /\ logged' # 0
    BY <1>1, <1>5, <1>8, <1>15 DEF OutOK
  <2>9. StreamOK'
    <3> HIDE DEF RingEmpty, Kept, Sent
    <3> QED BY <1>2, <1>8, <1>15, <2>6, <2>7, <2>8, StreamPrimed
  <2> QED BY <1>8, <1>9, <1>14, <2>9 DEF LogInv
<1>16. CASE pc = "alive"
  <2>1. LogBytes(fifo') = <<>> /\ LogBytes(fifo) = <<>>
    BY <1>10, <1>11, <1>13, <1>16, LogBytesNone
  <2>2. Stream' = Stream
    BY <1>2, <2>1 DEF Stream, LogBytes
  <2>3. /\ \A j : Ends(Stream, j, logged - Kept)
                    <=> Ends(Stream', j, logged' - Kept')
        /\ InOrder(Stream', logged' - Kept') <=> InOrder(Stream, logged - Kept)
    BY <1>2, <2>2, SameStream
  <2>4. /\ logged = 0 => Stream = <<>>
        /\ RingEmpty /\ logged > 0 => Ends(Stream, Kept, logged - Kept)
        /\ InOrder(Stream, logged - Kept)
    BY <1>1, <1>16 DEF StreamOK
  <2>5. StreamOK'
    <3> HIDE DEF RingEmpty, Kept, Sent
    <3> QED BY <1>2, <1>8, <1>16, <2>2, <2>3, <2>4, StreamPrimed
  <2> QED BY <1>8, <1>9, <1>14, <2>5 DEF LogInv
<1> QED BY <1>4, <1>15, <1>16

(* A step that leaves the ring, the strings and the bytes on their way.    *)
LEMMA PartsKept ==
  ASSUME RingOK, OutOK, StreamOK, UNCHANGED ring, pc' = pc, out' = out,
         Stream' = Stream
  PROVE  RingOK' /\ OutOK' /\ StreamOK'
<1>1. /\ LogStrings' = LogStrings
      /\ Part(0, consoleLogWrite)' = Part(0, consoleLogWrite)
      /\ RingEmpty' <=> RingEmpty
      /\ Kept' = Kept /\ consoleLogWrite' = consoleLogWrite
  BY SameRing
<1>2. /\ \A j : Ends(Stream, j, logged - Kept)
                  <=> Ends(Stream', j, logged' - Kept')
      /\ InOrder(Stream', logged' - Kept') <=> InOrder(Stream, logged - Kept)
      /\ logged' = logged
      /\ RingOK'
  BY SameStream
<1>3. Idle' = Idle
  BY DEF Idle, Writing
<1>4. OutOK'
  <2>1. /\ OutType /\ pc \in {"boot", "dump", "alive", "sleep"}
        /\ pc \in {"boot", "sleep"} => out = Idle
        /\ pc = "dump" => ~RingEmpty /\ out.strings \in
                            {LogStrings, <<Part(0, consoleLogWrite)>>}
        /\ pc = "alive" => out.strings = <<Alive>>
        /\ out.strings # <<>> => out.i <= Len(Head(out.strings))
    BY DEF OutOK
  <2> HIDE DEF LogStrings, RingEmpty, Part, Idle
  <2> QED BY <1>1, <1>3, <2>1 DEF OutOK, OutType
<1>5. Sent' = Sent
  BY <1>1 DEF Sent
<1>6. /\ pc = "boot" \/ logged = 0 => Stream = <<>>
      /\ pc = "dump" => Ends(Stream, Sent, logged - Kept)
      /\ pc \in {"alive", "sleep"} /\ RingEmpty /\ logged > 0
           => Ends(Stream, Kept, logged - Kept)
      /\ InOrder(Stream, logged - Kept)
  BY DEF StreamOK
<1>7. StreamOK'
  <2> HIDE DEF RingEmpty, Kept, Sent
  <2> QED BY <1>1, <1>2, <1>5, <1>6, StreamPrimed
<1> QED BY <1>2, <1>4, <1>7

LEMMA SuffixBy ==
  ASSUME NEW s \in Seq(Int), NEW t \in Seq(Int), Len(s) <= Len(t),
         \A k \in 1..Len(s) : t[Len(t) - Len(s) + k] = s[k]
  PROVE  IsSuffix(s, t)
<1> DEFINE r == Reverse(s)
           u == Reverse(t)
<1>1. /\ Len(s) \in Nat /\ Len(t) \in Nat
      /\ \A k \in 1..Len(s) : s[k] \in Int
      /\ \A k \in 1..Len(t) : t[k] \in Int
  OBVIOUS
<1>2. /\ r \in Seq(Int) /\ Len(r) = Len(s)
      /\ \A k \in 1..Len(s) : r[k] = s[Len(s) - k + 1]
  <2>1. r = [k \in 1..Len(s) |-> s[Len(s) - k + 1]]
    BY DEF Reverse
  <2>2. \A k \in 1..Len(s) : Len(s) - k + 1 \in 1..Len(s)
    BY <1>1
  <2> HIDE DEF r
  <2>3. r \in [1..Len(s) -> Int]
    BY <1>1, <2>1, <2>2
  <2> QED BY <1>1, <2>1, <2>3
<1>3. /\ u \in Seq(Int) /\ Len(u) = Len(t)
      /\ \A k \in 1..Len(t) : u[k] = t[Len(t) - k + 1]
  <2>1. u = [k \in 1..Len(t) |-> t[Len(t) - k + 1]]
    BY DEF Reverse
  <2>2. \A k \in 1..Len(t) : Len(t) - k + 1 \in 1..Len(t)
    BY <1>1
  <2> HIDE DEF u
  <2>3. u \in [1..Len(t) -> Int]
    BY <1>1, <2>1, <2>2
  <2> QED BY <1>1, <2>1, <2>3
<1> HIDE DEF r, u
<1>4. ASSUME NEW k \in 1..Len(s) PROVE r[k] = u[k]
  <2>1. /\ Len(s) - k + 1 \in 1..Len(s) /\ k \in 1..Len(t)
        /\ Len(t) - Len(s) + (Len(s) - k + 1) = Len(t) - k + 1
    BY <1>1
  <2>2. t[Len(t) - Len(s) + (Len(s) - k + 1)] = s[Len(s) - k + 1]
    BY <2>1
  <2> QED BY <1>2, <1>3, <2>1, <2>2
<1>5. SubSeq(r, 1, Len(r)) = SubSeq(u, 1, Len(r))
  <2> DEFINE a == SubSeq(r, 1, Len(r))
             b == SubSeq(u, 1, Len(r))
  <2>1. \A k \in 1..Len(r) : r[k] \in Int /\ u[k] \in Int
    BY <1>1, <1>2, <1>3, ElementOfSeq
  <2>2. /\ a \in Seq(Int) /\ Len(a) = (IF 1 <= Len(r) THEN Len(r) - 1 + 1 ELSE 0)
        /\ \A k \in 1..(Len(r) - 1 + 1) : a[k] = r[1 + k - 1]
    BY <1>1, <1>2, <2>1, SubSeqProperties
  <2>3. /\ b \in Seq(Int) /\ Len(b) = (IF 1 <= Len(r) THEN Len(r) - 1 + 1 ELSE 0)
        /\ \A k \in 1..(Len(r) - 1 + 1) : b[k] = u[1 + k - 1]
    BY <1>1, <1>2, <2>1, SubSeqProperties
  <2> HIDE DEF a, b
  <2>4. Len(a) = Len(s) /\ Len(b) = Len(s) /\ Len(r) - 1 + 1 = Len(s)
    BY <1>1, <1>2, <2>2, <2>3
  <2>5. \A k \in 1..Len(a) : a[k] = b[k]
    <3>1. \A k \in 1..Len(s) : 1 + k - 1 = k
      OBVIOUS
    <3> QED BY <1>4, <2>2, <2>3, <2>4, <3>1
  <2>6. a = b
    BY <2>2, <2>3, <2>4, <2>5, SeqEqual
  <2> QED BY <2>6 DEF a, b
<1>6. Len(r) <= Len(u)
  BY <1>2, <1>3
<1> QED BY <1>5, <1>6 DEF IsSuffix, IsPrefix, r, u

(* Reading hands the bytes of the endpoint to the host, and no others. *)
LEMMA HostReadsKeeps ==
  ASSUME LogInv, HostReads
  PROVE  LogInv'
<1>1. RingOK /\ OutOK /\ EndpointOK /\ StreamOK
  BY DEF LogInv
<1>2. /\ flushed /\ received' = received \o LogBytes(fifo)
      /\ fifo' = <<>> /\ flushed' = FALSE
      /\ UNCHANGED ring /\ pc' = pc /\ out' = out
  BY DEF HostReads
<1>3. /\ received \in Seq(Nat) /\ LogBytes(fifo) \in Seq(Nat)
      /\ out.pending = 0
  BY <1>1, <1>2, StreamType DEF EndpointOK
<1>4. Stream' = Stream
  <2>1. /\ Stream = received \o LogBytes(fifo)
        /\ Stream' = received' \o LogBytes(fifo')
    BY DEF Stream
  <2>2. LogBytes(fifo') = <<>>
    BY <1>2, LogBytesEmpty
  <2>3. received' \in Seq(Nat)
    BY <1>2, <1>3
  <2>4. received' \o <<>> = received'
    BY <2>3
  <2> QED BY <1>2, <2>1, <2>2, <2>4
<1>5. EndpointOK'
  <2>1. /\ fifo' \in Seq(Int) /\ Len(fifo') = 0 /\ \A k \in DOMAIN fifo' : FALSE
    BY <1>2
  <2>2. received' \in Seq(Nat)
    BY <1>2, <1>3
  <2> QED BY <1>2, <1>3, <2>1, <2>2 DEF EndpointOK
<1> QED BY <1>1, <1>2, <1>4, <1>5, PartsKept DEF LogInv

LEMMA HostStepsKeep ==
  ASSUME LogInv, HostConnects \/ HostLeaves \/ UNCHANGED vars
  PROVE  LogInv'
<1>1. RingOK /\ OutOK /\ EndpointOK /\ StreamOK
  BY DEF LogInv
<1>2. /\ UNCHANGED ring /\ pc' = pc /\ out' = out /\ fifo' = fifo
      /\ flushed' = flushed /\ received' = received
  BY DEF HostConnects, HostLeaves, vars, usb, host
<1>3. Stream' = Stream
  BY <1>2 DEF Stream, LogBytes
<1>4. EndpointOK'
  BY <1>1, <1>2 DEF EndpointOK
<1> QED BY <1>1, <1>2, <1>3, <1>4, PartsKept DEF LogInv

LEMMA InitHolds == Init => LogInv
<1> SUFFICES ASSUME Init PROVE LogInv
  OBVIOUS
<1> USE ConsoleLogAssumption
<1>1. /\ consoleLogBuffer = [x \in Slots |-> 0] /\ consoleLogWrite = 0
      /\ consoleLogFull = FALSE /\ logged = 0 /\ pc = "boot" /\ out = Idle
      /\ fifo = <<>> /\ flushed = FALSE /\ received = <<>>
  BY DEF Init
<1>2. RingOK
  <2>1. 0 \in Slots /\ 0 \in 0..(BufferSize - 1)
    BY DEF Slots
  <2>2. RingType
    BY <1>1, <2>1 DEF RingType
  <2>3. 0 % BufferSize = 0
    BY <2>1, SmallRemainder
  <2>4. RingFilled
    <3>1. ~(0 >= BufferSize) /\ 1..0 = {}
      OBVIOUS
    <3> QED BY <1>1, <2>3, <3>1 DEF RingFilled
  <2> QED BY <2>2, <2>4 DEF RingOK
<1>3. /\ Idle \in Writes /\ Idle.strings = <<>> /\ Idle.pending = 0
  <2>1. <<>> \in Seq(Seq(Int))
    OBVIOUS
  <2> QED BY <2>1, WritingType DEF Idle
<1>4. OutOK
  <2> HIDE DEF Idle
  <2> QED BY <1>1, <1>3 DEF OutOK, OutType
<1>5. EndpointOK
  <2>1. /\ fifo \in Seq(Int) /\ Len(fifo) = 0 /\ \A k \in DOMAIN fifo : FALSE
        /\ received \in Seq(Nat)
    BY <1>1
  <2>2. out.pending = 0
    BY <1>1, <1>3
  <2> QED BY <1>1, <2>1, <2>2 DEF EndpointOK
<1>6. Stream = <<>>
  <2>1. <<>> \o <<>> = <<>>
    OBVIOUS
  <2> QED BY <1>1, <2>1, LogBytesEmpty DEF Stream
<1>7. InOrder(Stream, logged - Kept)
  <2>1. Len(<<>>) = 0 /\ 1..(0 - 1) = {}
    OBVIOUS
  <2>2. 1..(Len(Stream) - 1) = {}
    BY <1>6, <2>1
  <2> QED BY <2>2 DEF InOrder
<1>8. StreamOK
  BY <1>1, <1>6, <1>7 DEF StreamOK
<1> QED BY <1>2, <1>4, <1>5, <1>8 DEF LogInv

(* The log in the ring and the bytes in the endpoint and at the host fit   *)
(* together in every state.                                                *)
THEOREM LogInvariant == Spec => []LogInv
<1>1. ASSUME LogInv, [Next]_vars PROVE LogInv'
  <2>1. CASE \E n \in LineLengths : consoleLogln(n)
    BY <1>1, <2>1, LineKeeps
  <2>2. CASE NextRound
    BY <1>1, <2>2, NextRoundKeeps
  <2>3. CASE WriteByte
    BY <1>1, <2>3, WriteByteKeeps
  <2>4. CASE ByteTimeout
    BY <1>1, <2>4, ByteTimeoutKeeps
  <2>5. CASE EndString
    BY <1>1, <2>5, EndStringKeeps
  <2>6. CASE HostReads
    BY <1>1, <2>6, HostReadsKeeps
  <2>7. CASE HostConnects \/ HostLeaves \/ UNCHANGED vars
    BY <1>1, <2>7, HostStepsKeep
  <2> QED BY <1>1, <2>1, <2>2, <2>3, <2>4, <2>5, <2>6, <2>7 DEF Next, Main
<1> QED BY <1>1, InitHolds, PTL DEF Spec

(* Until it is dumped the ring holds the latest bytes logged, oldest first *)
(* from its write position on, for every size of the ring and every length *)
(* of line, however often consoleLogln has wrapped.                        *)
THEOREM RingKeepsLatest == Spec => []RingHoldsLatest
<1>1. LogInv => RingHoldsLatest
  BY RingIsLatest DEF LogInv, RingOK, RingHoldsLatest
<1> QED BY <1>1, LogInvariant, PTL

(* When dumpConsoleLog empties the ring, all it held has gone out, in one  *)
(* piece, whatever the limits on retries and however the host comes and    *)
(* goes.                                                                   *)
THEOREM EmptiedRingWasSent == Spec => []DumpComplete
<1>1. ASSUME LogInv, logged > 0, RingEmpty PROVE IsSuffix(Latest, Stream)
  <2>1. RingOK /\ OutOK /\ EndpointOK /\ StreamOK /\ logged \in Nat
    BY <1>1 DEF LogInv, RingOK, RingType
  <2>2. pc \in {"alive", "sleep"}
    <3>1. pc \in {"boot", "dump", "alive", "sleep"} /\ pc # "dump"
      BY <1>1, <2>1 DEF OutOK
    <3>2. ASSUME pc = "boot" PROVE FALSE
      <4>1. RingType /\ RingFilled
        BY <2>1, <3>2 DEF RingOK
      <4>2. logged < BufferSize /\ logged % BufferSize = 0
        BY <1>1, <2>1, <4>1, ConsoleLogAssumption DEF RingFilled, RingEmpty
      <4>3. logged \in 0..(BufferSize - 1)
        BY <2>1, <4>2, ConsoleLogAssumption
      <4>4. logged % BufferSize = logged
        BY <4>3, ConsoleLogAssumption, SmallRemainder
      <4> QED BY <1>1, <4>2, <4>4
    <3> QED BY <3>1, <3>2
  <2>3. Ends(Stream, Kept, logged - Kept) /\ Stream \in Seq(Int)
    BY <1>1, <2>1, <2>2, StreamType DEF StreamOK
  <2>4. /\ Latest \in Seq(Int) /\ Len(Latest) = Kept /\ Kept \in 0..logged
        /\ \A k \in 1..Kept : Latest[k] = logged - Kept + k
    BY <2>1, LatestIs
  <2> HIDE DEF Kept
  <2>5. Kept <= Len(Stream)
        /\ \A k \in 1..Kept : Stream[Len(Stream) - Kept + k] = Latest[k]
    BY <2>3, <2>4 DEF Ends
  <2> QED BY <2>3, <2>4, <2>5, SuffixBy
<1> QED BY <1>1, LogInvariant, PTL DEF DumpComplete

(* The host sees no gap in the log: after a byte comes the next one or,    *)
(* when usbWriteBytes gave up and a dump is started over, the first one    *)
(* the ring holds.                                                         *)
THEOREM HostSeesNoGap == Spec => []StreamInOrder
<1>1. ASSUME LogInv PROVE StreamInOrder
  <2>1. /\ logged = 0 => Stream = <<>>
        /\ InOrder(Stream, logged - Kept) /\ logged \in Nat
    BY <1>1 DEF LogInv, StreamOK, RingOK, RingType
  <2>2. CASE logged = 0
    <3>1. Len(<<>>) = 0 /\ 1..(0 - 1) = {}
      OBVIOUS
    <3>2. 1..(Len(Stream) - 1) = {}
      BY <2>1, <2>2, <3>1
    <3> QED BY <3>2 DEF StreamInOrder
  <2>3. CASE logged # 0
    <3>1. /\ Latest \in Seq(Int) /\ Len(Latest) = Kept /\ Kept \in 0..logged
          /\ \A k \in 1..Kept : Latest[k] = logged - Kept + k
      BY <2>1, LatestIs
    <3>2. Kept # 0
      BY <2>1, <2>3, ConsoleLogAssumption DEF Kept
    <3> HIDE DEF Kept
    <3>3. Head(Latest) = logged - Kept + 1
      BY <3>1, <3>2
    <3> QED BY <2>1, <3>3 DEF StreamInOrder, InOrder
  <2> QED BY <2>2, <2>3
<1> QED BY <1>1, LogInvariant, PTL

=============================================================================
