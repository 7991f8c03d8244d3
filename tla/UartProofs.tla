----------------------------- MODULE UartProofs -----------------------------
(***************************************************************************)
(* FramesExact of UartLink.tla for all rates that fit (RatesFit), all bytes *)
(* and queues of any length, whatever the FIFO's empty flag hides.          *)
(*                                                                          *)
(* Both ends count down: RxLeft and TxLeft are the clocks left to the next  *)
(* sample and of the bit being sent.  RxPhase and TxPhase add the bits that *)
(* are behind, so that one falls and the other rises by one in each clock;  *)
(* their sum, or for the SoC the sum of RxPhase and the clocks of its frame,*)
(* never changes within a frame, and it is what the start bit left it.  A   *)
(* sample is taken when RxLeft is 0, so the sum tells in which bit.         *)
(***************************************************************************)
EXTENDS UartLink, ProofLemmas

\* The provers know powers of two by value only: theirs is this name.
Pow(k) == 2 ^ k

\* In clocks: a tick of the oversampling clock, what the receiver waits behind
\* the falling edge before it is in the middle of the start bit, and a bit.
T == ClksPerTick
Half == HalfBit * T
Bit == Oversample * T

(***************************************************************************)
(* The rates that fit: the tick counts of uart_rx.v fit their four bits and *)
(* those of uart_baud_clk.v their sixteen; between two boards parity is     *)
(* none or odd, as uart_tx.v sends no even parity (TxParity); and of a      *)
(* frame of the SoC, the receiver is in IDLE again before the next one can  *)
(* begin, and not before the SoC's stop bit.                                *)
(***************************************************************************)
RatesFit ==
    /\ Oversample \in 4 .. 16 /\ ClksPerTick \in 1 .. 2 ^ 16
    /\ Modes \subseteq {0, 1}
    /\ \A b \in BitClks :
          /\ Half + T + (DataBits + 1) * Bit + 2 <= (DataBits + 2) * b
          /\ (DataBits + 1) * b <= Half + (DataBits + 1) * Bit + 2

\* The bit of a frame that a sender sends or a receiver waits for, and what it is.
States == {"IDLE", "START", "DATA", "PARITY", "STOP"}
StopAt(m) == IF m = 0 THEN DataBits + 1 ELSE DataBits + 2
At(m, u) ==
    CASE u.state = "START"  -> 0
      [] u.state = "DATA"   -> u.idx + 1
      [] u.state = "PARITY" -> DataBits + 1
      [] u.state = "STOP"   -> StopAt(m)
      [] OTHER -> 0
BitOf(m, b, k) ==
    IF k = 0 THEN 0
    ELSE IF k <= DataBits THEN (b \div Pow(k - 1)) % 2
    ELSE IF k = StopAt(m) THEN 1 ELSE 1 - XorReduce(b)

\* The clocks that are left of n + 1 ticks of which cnt are over: none in the
\* clock whose edge ends the last one.
Left(n, cnt, baud) == (n - cnt) * T + T - 1 - baud
RxLast(r) == IF r.state = "START" THEN HalfBit ELSE Oversample - 1
RxLeft(r, baud) == Left(RxLast(r), r.cnt, baud)
TxLeft(t, baud) == Left(Oversample - 1, t.cnt, baud)

\* The hardware's rates fit: 96 clocks a bit, and 92 to 100 of the SoC.
LEMMA RatesOfTheBoard ==
    ASSUME SysClkFreq = 100000000, BaudRate = 1000000, Oversample = 16, DataBits = 8,
           Modes = {0, 1}, BitClks = 92 .. 100
    PROVE  RatesFit
<1>1. ClksPerTick = 6
  <2>1. 100000000 \div 1000000 = 100 /\ 100 \div 16 = 6
    BY SMT
  <2> QED
    BY SMT, <2>1 DEF ClksPerTick
<1>2. HalfBit = 7 /\ T = 6 /\ Half = 42 /\ Bit = 96
  BY SMT, <1>1 DEF HalfBit, T, Half, Bit
<1>3. 6 \in 1 .. 2 ^ 16
  BY SMT
<1> QED
  BY SMT, <1>1, <1>2, <1>3 DEF RatesFit

-----------------------------------------------------------------------------
\* A count of clocks below T does not wrap in its 16 bits.
LEMMA ClksFit ==
    ASSUME RatesFit
    PROVE  /\ Oversample \in 4 .. 16 /\ T \in Nat /\ T >= 1
           /\ \A baud \in 0 .. T - 1 : baud # T - 1 => (baud + 1) % 2 ^ 16 = baud + 1
<1>1. 2 ^ 16 = 65536
  BY SMT
<1>2. Oversample \in 4 .. 16 /\ ClksPerTick \in 1 .. 2 ^ 16
  BY Zenon DEF RatesFit
<1> QED
  BY SMT, <1>1, <1>2 DEF T

\* What RatesFit says of clocks: half a bit and two ticks more are in a bit.
LEMMA RateFacts ==
    ASSUME RatesFit
    PROVE  /\ Oversample \in 4 .. 16 /\ T \in Nat /\ T >= 1
           /\ HalfBit \in 1 .. Oversample - 3
           /\ Bit \in Nat /\ Half \in Nat
           /\ T <= Half /\ Half + 2 * T <= Bit /\ 4 * T <= Bit
           /\ DataBits \in 1 .. 8
<1>1. Oversample \in 4 .. 16 /\ T \in Nat /\ T >= 1 /\ DataBits \in 1 .. 8
  BY ClksFit, UartAssumption DEF UartAssumption
<1>2. HalfBit \in 1 .. Oversample - 3
  BY <1>1 DEF HalfBit
<1> DEFINE h == HalfBit
           o == Oversample
           t == T
<1>3. h \in Nat /\ o \in Nat /\ t \in Nat /\ 1 <= h /\ h + 2 <= o /\ 4 <= o /\ T = t
  BY <1>1, <1>2
<1>4. Half = t * h /\ Bit = t * o
  BY <1>3 DEF Half, Bit
<1> HIDE DEF h, o, t
<1>5. t * 1 <= t * h /\ t * (h + 2) <= t * o /\ t * 4 <= t * o
  BY <1>3, MulMonoWeak
<1>6. t * h \in Nat /\ t * o \in Nat /\ t * (h + 2) = t * h + 2 * t
  BY <1>3
<1> DEFINE half == t * h
           whole == t * o
<1>7. /\ half \in Nat /\ whole \in Nat /\ Half = half /\ Bit = whole
      /\ t <= half /\ half + 2 * t <= whole /\ 4 * t <= whole
  <2>1. t * 1 = t /\ t * 4 = 4 * t
    BY <1>3
  <2> QED
    BY <1>4, <1>5, <1>6, <2>1
<1> HIDE DEF half, whole
<1>8. Bit \in Nat /\ Half \in Nat /\ T <= Half /\ Half + 2 * T <= Bit /\ 4 * T <= Bit
  BY <1>3, <1>7
<1> QED
  BY <1>1, <1>2, <1>8

\* The oversampling clock counts from 0 to T - 1; it ticks at the end.
LEMMA BaudStep ==
    ASSUME RatesFit, NEW baud \in 0 .. T - 1
    PROVE  /\ BaudClk(baud) = IF baud = T - 1 THEN 0 ELSE baud + 1
           /\ BaudClk(baud) \in 0 .. T - 1
           /\ BaudTick(baud) <=> baud = T - 1
<1>1. BaudTick(baud) <=> baud = T - 1
  BY DEF BaudTick, T
<1>2. BaudClk(baud) = IF baud = T - 1 THEN 0 ELSE baud + 1
  BY <1>1, ClksFit DEF BaudClk
<1>3. T \in Nat /\ T >= 1
  BY ClksFit
<1> QED
  BY <1>1, <1>2, <1>3

\* A tick counter that is not at its last value does not wrap.
LEMMA TickStep ==
    ASSUME NEW cnt \in 0 .. 15, NEW tick \in BOOLEAN
    PROVE  /\ CountTick(cnt, tick) \in 0 .. 15
           /\ cnt < 15 => CountTick(cnt, tick) = (IF tick THEN cnt + 1 ELSE cnt)
BY DEF CountTick

\* No clocks are left exactly when the last tick is there.
LEMMA LeftFacts ==
    ASSUME RatesFit, NEW n \in 0 .. 15, NEW cnt \in 0 .. n, NEW baud \in 0 .. T - 1
    PROVE  /\ Left(n, cnt, baud) \in Nat
           /\ Left(n, cnt, baud) = 0 <=> cnt = n /\ BaudTick(baud)
           /\ Left(n, 0, baud) = n * T + T - 1 - baud
<1>1. T \in Nat /\ T >= 1
  BY RateFacts
<1>2. BaudTick(baud) <=> baud = T - 1
  BY BaudStep
<1> DEFINE m == n - cnt
<1>3. m \in Nat
  OBVIOUS
<1> HIDE DEF m
<1>4. m * T \in Nat /\ (m # 0 => m * T >= T)
  <2>1. m * T \in Nat /\ m * T = T * m
    BY <1>1, <1>3
  <2>2. m # 0 => T * 1 <= T * m
    BY <1>1, <1>3, MulMonoWeak
  <2> QED
    BY <2>1, <2>2, <1>1
<1>5. Left(n, cnt, baud) = m * T + T - 1 - baud
  BY DEF Left, m
<1>6. Left(n, cnt, baud) \in Nat
  BY <1>1, <1>4, <1>5
<1>7. Left(n, cnt, baud) = 0 <=> m = 0 /\ baud = T - 1
  <2>1. CASE m = 0
    BY <2>1, <1>1, <1>5
  <2>2. CASE m # 0
    BY <2>2, <1>1, <1>4, <1>5
  <2> QED
    BY <2>1, <2>2
<1>8. Left(n, 0, baud) = n * T + T - 1 - baud
  BY DEF Left
<1> QED
  BY <1>2, <1>6, <1>7, <1>8 DEF m

\* Until then there is one less in every clock.
LEMMA LeftStep ==
    ASSUME RatesFit, NEW n \in 0 .. 15, NEW cnt \in 0 .. n, NEW baud \in 0 .. T - 1,
           ~ (Left(n, cnt, baud) = 0)
    PROVE  /\ CountTick(cnt, BaudTick(baud)) \in 0 .. n
           /\ Left(n, CountTick(cnt, BaudTick(baud)), BaudClk(baud)) = Left(n, cnt, baud) - 1
<1>1. T \in Nat /\ T >= 1
  BY RateFacts
<1>2. BaudTick(baud) <=> baud = T - 1
  BY BaudStep
<1>3. BaudClk(baud) = IF baud = T - 1 THEN 0 ELSE baud + 1
  BY BaudStep
<1>4. CASE baud = T - 1
  <2>1. cnt < n
    <3>1. Left(n, cnt, baud) = 0 <=> cnt = n /\ BaudTick(baud)
      BY LeftFacts
    <3> QED
      BY <3>1, <1>2, <1>4
  <2>2. CountTick(cnt, BaudTick(baud)) = cnt + 1
    BY <1>2, <1>4, <2>1 DEF CountTick
  <2> DEFINE m == n - (cnt + 1)
  <2>3. m \in Nat /\ n - cnt = m + 1
    BY <2>1
  <2> HIDE DEF m
  <2>4. (m + 1) * T = m * T + T /\ m * T \in Nat
    BY <2>3, <1>1
  <2>5. Left(n, cnt + 1, 0) = m * T + T - 1 - 0
    BY DEF Left, m
  <2>6. Left(n, cnt, baud) = (m + 1) * T + T - 1 - baud
    BY <2>3 DEF Left
  <2> QED
    BY <1>1, <1>3, <1>4, <2>1, <2>2, <2>4, <2>5, <2>6
<1>5. CASE baud # T - 1
  <2>1. CountTick(cnt, BaudTick(baud)) = cnt
    BY <1>2, <1>5 DEF CountTick
  <2> DEFINE x == (n - cnt) * T
  <2>2. x \in Int
    BY <1>1
  <2>3. Left(n, cnt, baud + 1) = x + T - 1 - (baud + 1) /\ Left(n, cnt, baud) = x + T - 1 - baud
    BY DEF Left
  <2> HIDE DEF x
  <2> QED
    BY <1>1, <1>3, <1>5, <2>1, <2>2, <2>3
<1> QED
  BY <1>4, <1>5

-----------------------------------------------------------------------------
\* Powers of two up to 2^8.
LEMMA Powers ==
    /\ Pow(0) = 1 /\ Pow(1) = 2 /\ Pow(2) = 4 /\ Pow(3) = 8 /\ Pow(4) = 16
    /\ Pow(5) = 32 /\ Pow(6) = 64 /\ Pow(7) = 128 /\ Pow(8) = 256
BY DEF Pow

\* Each power is twice the one before.
LEMMA PowerStep ==
    ASSUME NEW k \in 0 .. 7
    PROVE  Pow(k) \in Nat \ {0} /\ Pow(k + 1) \in Nat \ {0} /\ Pow(k + 1) = 2 * Pow(k)
<1>1. k = 0 \/ k = 1 \/ k = 2 \/ k = 3 \/ k = 4 \/ k = 5 \/ k = 6 \/ k = 7
  OBVIOUS
<1>a. CASE k = 0
  BY <1>a, Powers
<1>b. CASE k = 1
  BY <1>b, Powers
<1>c. CASE k = 2
  BY <1>c, Powers
<1>d. CASE k = 3
  BY <1>d, Powers
<1>e. CASE k = 4
  BY <1>e, Powers
<1>f. CASE k = 5
  BY <1>f, Powers
<1>g. CASE k = 6
  BY <1>g, Powers
<1>h. CASE k = 7
  BY <1>h, Powers
<1> QED
  BY <1>1, <1>a, <1>b, <1>c, <1>d, <1>e, <1>f, <1>g, <1>h

\* 2^(j+k) for the widths of a byte.
PowersMul(j) == \A k \in 0 .. 8 : j + k <= 8 => Pow(j + k) = Pow(j) * Pow(k)

\* The product of two powers, by the cases of one of them.
LEMMA PowersAdd ==
    ASSUME NEW j \in 0 .. 8, NEW k \in 0 .. 8, j + k <= 8
    PROVE  Pow(j + k) = Pow(j) * Pow(k)
<1>1. PowersMul(0)
  <2>1. \A k_1 \in 0 .. 8 : Pow(k_1) \in Nat
    <3> SUFFICES ASSUME NEW k_1 \in 0 .. 8 PROVE Pow(k_1) \in Nat
      OBVIOUS
    <3>1. CASE k_1 = 8
      BY <3>1, Powers
    <3>2. CASE k_1 # 8
      <4>1. k_1 \in 0 .. 7
        BY <3>2
      <4> QED
        BY <4>1, PowerStep
    <3> QED
      BY <3>1, <3>2
  <2> QED
    BY <2>1, Powers DEF PowersMul
<1>2. ASSUME NEW i \in 0 .. 7, PowersMul(i)
      PROVE  PowersMul(i + 1)
  <2> SUFFICES ASSUME NEW n \in 0 .. 8, i + 1 + n <= 8
               PROVE  Pow(i + 1 + n) = Pow(i + 1) * Pow(n)
    BY DEF PowersMul
  <2>1. Pow(i + n) = Pow(i) * Pow(n)
    BY <1>2 DEF PowersMul
  <2>2. i + n \in 0 .. 7 /\ n \in 0 .. 7 /\ i + 1 + n = (i + n) + 1
    OBVIOUS
  <2>3. Pow((i + n) + 1) = 2 * Pow(i + n)
    BY <2>2, PowerStep
  <2>4. Pow(i + 1) = 2 * Pow(i) /\ Pow(i) \in Nat /\ Pow(n) \in Nat
    BY <2>2, PowerStep
  <2>5. Pow(i + 1 + n) = 2 * (Pow(i) * Pow(n))
    BY <2>1, <2>2, <2>3
  <2>6. ASSUME NEW a \in Nat, NEW b \in Nat
        PROVE  2 * (a * b) = (2 * a) * b
    OBVIOUS
  <2> QED
    BY <2>4, <2>5, <2>6
<1>3. PowersMul(1) /\ PowersMul(2) /\ PowersMul(3) /\ PowersMul(4)
  <2>1. PowersMul(0 + 1)
    BY <1>1, <1>2
  <2>2. PowersMul(1 + 1)
    BY <2>1, <1>2
  <2>3. PowersMul(2 + 1)
    BY <2>2, <1>2
  <2>4. PowersMul(3 + 1)
    BY <2>3, <1>2
  <2> QED
    BY <2>1, <2>2, <2>3, <2>4
<1>4. PowersMul(5) /\ PowersMul(6) /\ PowersMul(7) /\ PowersMul(8)
  <2>1. PowersMul(4 + 1)
    BY <1>3, <1>2
  <2>2. PowersMul(5 + 1)
    BY <2>1, <1>2
  <2>3. PowersMul(6 + 1)
    BY <2>2, <1>2
  <2>4. PowersMul(7 + 1)
    BY <2>3, <1>2
  <2> QED
    BY <2>1, <2>2, <2>3, <2>4
<1>5. PowersMul(j)
  BY <1>1, <1>3, <1>4
<1> QED
  BY <1>5 DEF PowersMul

\* Two divisions by two powers are one.
LEMMA DivTwice ==
    ASSUME NEW b \in Nat, NEW p \in Nat \ {0}
    PROVE  /\ (b \div p) \div 2 = b \div (2 * p)
           /\ b % (2 * p) = ((b \div p) % 2) * p + (b % p)
           /\ (b \div p) % 2 \in {0, 1}
<1>1. PICK d \in Nat, y \in 0 .. p - 1 : d = b \div p /\ y = b % p /\ b = p * d + y
  BY DivMod
<1>2. PICK u \in Nat, c \in 0 .. 1 : u = d \div 2 /\ c = d % 2 /\ d = 2 * u + c
  BY DivMod
<1> DEFINE n == 2 * p
           r == p * c + y
<1>3. n \in Nat \ {0}
  OBVIOUS
<1>4. r \in 0 .. n - 1
  <2>1. CASE c = 0
    BY <2>1, <1>1
  <2>2. CASE c = 1
    BY <2>2, <1>1
  <2> QED
    BY <2>1, <2>2, <1>2
<1>5. b = n * u + r
  <2>1. p * d = p * (2 * u + c)
    BY <1>2
  <2>2. p * (2 * u + c) = (2 * p) * u + p * c
    BY <1>2
  <2>3. p * d \in Nat /\ p * c \in Nat /\ (2 * p) * u \in Nat
    BY SMTT(30), <1>1, <1>2
  <2> QED
    BY <1>1, <2>1, <2>2, <2>3
<1> HIDE DEF n, r
<1>6. b \div n = u /\ b % n = r
  BY <1>2, <1>3, <1>4, <1>5, DivModUnique
<1>7. b % n = c * p + y
  BY <1>1, <1>2, <1>6 DEF r
<1>8. c \in {0, 1}
  BY <1>2
<1>9. d = b \div p /\ y = b % p /\ u = d \div 2 /\ c = d % 2
  BY <1>1, <1>2
<1> QED
  BY <1>6, <1>7, <1>8, <1>9, Zenon DEF n

\* A bit shifted in from the top.
LEMMA ShiftIn ==
    ASSUME NEW x \in Nat, NEW b \in Nat, NEW p \in Nat \ {0}, NEW r \in Nat \ {0},
           x \div (2 * r) = b % p
    PROVE  (((b \div p) % 2) * (p * r) + (x \div 2)) \div r = b % (2 * p)
<1>1. PICK c \in 0 .. 1, y \in Nat : /\ c = (b \div p) % 2 /\ y = b % p
                                   /\ b % (2 * p) = c * p + y
  <2> DEFINE c0 == (b \div p) % 2
             y0 == b % p
  <2>1. b % (2 * p) = c0 * p + y0 /\ c0 \in {0, 1}
    BY DivTwice
  <2>2. y0 \in Nat
    BY DivMod
  <2> HIDE DEF c0, y0
  <2>3. c0 \in 0 .. 1
    BY <2>1
  <2> QED
    BY <2>1, <2>2, <2>3 DEF c0, y0
<1>2. c \in 0 .. 1 /\ y \in Nat
  OBVIOUS
<1> DEFINE n == 2 * r
           z == x % n
<1>3. n \in Nat \ {0}
  OBVIOUS
<1>4. z \in 0 .. n - 1 /\ x = n * y + z
  <2>1. x \div n = y
    BY <1>1
  <2> HIDE DEF n
  <2>2. x = n * (x \div n) + (x % n) /\ x % n \in 0 .. n - 1
    BY <1>3, DivMod
  <2> QED
    BY <2>1, <2>2
<1> HIDE DEF z
<1>5. z \div 2 \in 0 .. r - 1 /\ x \div 2 = r * y + z \div 2
  <2> DEFINE w == z \div 2
             e == z % 2
  <2>0. z \in Nat
    BY <1>3, <1>4
  <2>1. w \in Nat /\ e \in 0 .. 1 /\ z = 2 * w + e
    BY <2>0, DivMod
  <2> HIDE DEF w, e
  <2>2. w \in 0 .. r - 1
    BY <2>1, <1>4
  <2> DEFINE q == r * y + w
  <2>3. r * y \in Nat /\ n * y = 2 * (r * y)
    BY <1>2
  <2>4. q \in Nat /\ x = 2 * q + e
    BY <2>1, <2>3, <1>4
  <2> HIDE DEF q
  <2>5. x \div 2 = q
    BY <2>1, <2>4, DivModUnique
  <2> QED
    BY <2>2, <2>5 DEF w, q
<1> HIDE DEF n
<1> DEFINE w == z \div 2
           q == c * p + y
<1>6. q \in Nat
  BY <1>1, <1>2
<1>7. c * (p * r) + (r * y + w) = r * q + w
  <2>1. r * q = r * (c * p) + r * y
    BY <1>1, <1>2
  <2>2. r * (c * p) = c * (p * r)
    BY <1>1
  <2>3. c * (p * r) \in Nat /\ r * y \in Nat /\ w \in Nat
    BY <1>1, <1>2, <1>5
  <2> HIDE DEF w, q
  <2> QED
    BY <2>1, <2>2, <2>3
<1> HIDE DEF w, q
<1>8. w \in 0 .. r - 1
  BY <1>5 DEF w
<1>9. (r * q + w) \div r = q
  BY <1>6, <1>8, DivModUnique
<1>10. c * (p * r) + x \div 2 = r * q + w
  BY <1>5, <1>7 DEF w
<1>11. c = (b \div p) % 2 /\ b % (2 * p) = c * p + y
  BY <1>1
<1> QED
  BY <1>9, <1>10, <1>11, Zenon DEF q

-----------------------------------------------------------------------------
\* The receiver's registers and its oversampling clock.
RxIs(m, r, baud) ==
    /\ r \in [state : States, cnt : 0 .. 15, data : Word, idx : 0 .. DataBits - 1,
              done : BOOLEAN, err : BOOLEAN, in : {r.in}]
    /\ baud \in 0 .. T - 1
    /\ r.state # "IDLE" => r.cnt <= RxLast(r) /\ ~ r.done
    /\ r.state = "PARITY" => m # 0

\* Idle, the receiver waits for the line to fall.
LEMMA RxIdle ==
    ASSUME RatesFit, NEW m, NEW r, NEW baud, NEW line, RxIs(m, r, baud), r.state = "IDLE",
           NEW q, q = RxClock(m, r, BaudTick(baud), line)
    PROVE  /\ RxIs(m, q, BaudClk(baud)) /\ q.in = line /\ ~ q.done /\ ~ q.err
           /\ q.state = IF r.in = 0 THEN "START" ELSE "IDLE"
           /\ r.in = 0 => RxLeft(q, BaudClk(baud)) \in Half .. Half + T - 1
<1>1. /\ CountTick(r.cnt, BaudTick(baud)) \in 0 .. 15
      /\ BaudClk(baud) \in 0 .. T - 1
  <2>1. r.cnt \in 0 .. 15 /\ baud \in 0 .. T - 1
    BY DEF RxIs
  <2>2. BaudTick(baud) \in BOOLEAN
    BY DEF BaudTick
  <2> QED
    BY <2>1, <2>2, BaudStep, TickStep
<1>2. CASE r.in = 0
  <2>1. q = [r EXCEPT !.in = line, !.cnt = 0, !.done = FALSE, !.err = FALSE, !.state = "START"]
    BY <1>2 DEF RxClock, RxIs
  <2>a. r \in [state : States, cnt : 0 .. 15, data : Word, idx : 0 .. DataBits - 1,
                done : BOOLEAN, err : BOOLEAN, in : {r.in}]
    BY DEF RxIs
  <2>b. q.state = "START" /\ q.in = line /\ q.done = FALSE /\ q.err = FALSE /\ q.cnt = 0
        /\ q.data = r.data /\ q.idx = r.idx
    BY <2>1, <2>a
  <2>2. q.state = "START" /\ q.in = line /\ q.done = FALSE /\ q.err = FALSE /\ q.cnt = 0
        /\ q \in [state : States, cnt : 0 .. 15, data : Word, idx : 0 .. DataBits - 1,
                  done : BOOLEAN, err : BOOLEAN, in : {q.in}]
    <3>1. 0 \in 0 .. 15
      OBVIOUS
    <3> QED
      BY <2>1, <2>a, <2>b, <3>1 DEF States
  <2>3. HalfBit \in 1 .. 15 /\ T \in Nat /\ T >= 1 /\ Half = HalfBit * T /\ Half \in Nat
    BY SMTT(30), RateFacts DEF Half
  <2>4. RxLast(q) = HalfBit
    BY <2>2 DEF RxLast
  <2>5. RxLeft(q, BaudClk(baud)) = Half + T - 1 - BaudClk(baud)
    BY <1>1, <2>2, <2>3, <2>4, LeftFacts DEF RxLeft
  <2> QED
    BY <1>1, <1>2, <2>2, <2>3, <2>4, <2>5 DEF RxIs
<1>3. CASE r.in # 0
  <2>1. q = [r EXCEPT !.in = line, !.cnt = CountTick(r.cnt, BaudTick(baud)),
                      !.done = FALSE, !.err = FALSE]
    BY <1>3 DEF RxClock, RxIs
  <2>2. q.state = "IDLE" /\ q.in = line /\ q.done = FALSE /\ q.err = FALSE
        /\ q \in [state : States, cnt : 0 .. 15, data : Word, idx : 0 .. DataBits - 1,
                  done : BOOLEAN, err : BOOLEAN, in : {q.in}]
    BY <1>1, <2>1 DEF RxIs, States
  <2> QED
    BY <1>1, <1>3, <2>2 DEF RxIs
<1> QED
  BY <1>2, <1>3

\* Between two samples nothing changes but the clocks.
LEMMA RxRuns ==
    ASSUME RatesFit, NEW m, NEW r, NEW baud, NEW line, RxIs(m, r, baud), r.state # "IDLE",
           RxLeft(r, baud) # 0,
           NEW q, q = RxClock(m, r, BaudTick(baud), line)
    PROVE  /\ RxIs(m, q, BaudClk(baud)) /\ q.in = line /\ ~ q.done /\ ~ q.err
           /\ q.state = r.state /\ q.idx = r.idx /\ q.data = r.data
           /\ RxLeft(q, BaudClk(baud)) = RxLeft(r, baud) - 1
<1> DEFINE c == CountTick(r.cnt, BaudTick(baud))
           n == RxLast(r)
<1>1. n \in 0 .. 15 /\ r.cnt \in 0 .. n /\ baud \in 0 .. T - 1
  <2>1. HalfBit \in 1 .. 15 /\ Oversample \in 4 .. 16
    BY SMTT(30), RateFacts
  <2> QED
    BY <2>1 DEF RxIs, RxLast
<1>2. ~ (Left(n, r.cnt, baud) = 0)
  BY DEF RxLeft
<1>3. c \in 0 .. n /\ Left(n, c, BaudClk(baud)) = Left(n, r.cnt, baud) - 1
  BY <1>1, <1>2, LeftStep
<1>4. BaudClk(baud) \in 0 .. T - 1
  BY <1>1, BaudStep
<1>5. ~ (r.cnt = n /\ BaudTick(baud))
  <2>1. Left(n, r.cnt, baud) = 0 <=> r.cnt = n /\ BaudTick(baud)
    BY <1>1, LeftFacts
  <2> QED
    BY <1>2, <2>1
<1>6. q = [r EXCEPT !.in = line, !.cnt = c, !.done = FALSE, !.err = FALSE]
  <2>1. r.state = "START" => n = HalfBit
    BY DEF RxLast
  <2>2. r.state # "START" => n = Oversample - 1
    BY DEF RxLast
  <2> HIDE DEF n
  <2> QED
    BY <1>5, <2>1, <2>2 DEF RxClock, BitOver
<1>7. q.state = r.state /\ q.idx = r.idx /\ q.data = r.data /\ q.in = line
      /\ q.done = FALSE /\ q.err = FALSE /\ q.cnt = c
      /\ r \in [state : States, cnt : 0 .. 15, data : Word, idx : 0 .. DataBits - 1,
                done : BOOLEAN, err : BOOLEAN, in : {r.in}]
  BY <1>6 DEF RxIs
<1>8. q \in [state : States, cnt : 0 .. 15, data : Word, idx : 0 .. DataBits - 1,
             done : BOOLEAN, err : BOOLEAN, in : {q.in}]
  <2>1. c \in 0 .. 15
    BY <1>1, <1>3
  <2> HIDE DEF c, n
  <2> QED
    BY <1>6, <1>7, <2>1
<1>9. RxLast(q) = n
  BY <1>7 DEF RxLast
<1>10. RxLeft(q, BaudClk(baud)) = RxLeft(r, baud) - 1
  BY <1>3, <1>7, <1>9 DEF RxLeft
<1>11. RxIs(m, q, BaudClk(baud))
  <2>1. r.state = "PARITY" => m # 0
    BY DEF RxIs
  <2> HIDE DEF n, c
  <2>2. q.cnt <= RxLast(q)
    BY <1>3, <1>7, <1>9, <1>1
  <2> QED
    BY <2>1, <2>2, <1>4, <1>7, <1>8 DEF RxIs
<1> QED
  BY <1>7, <1>10, <1>11

\* What a sample does to the receiver's state.
RxNext(m, r) ==
    CASE r.state = "START" -> "DATA"
      [] r.state = "DATA" -> IF r.idx = DataBits - 1 THEN AfterData(m) ELSE "DATA"
      [] r.state = "PARITY" -> "STOP"
      [] r.state = "STOP" -> "IDLE"

\* At the end of a wait the receiver samples, and begins to wait for a bit.
LEMMA RxSamples ==
    ASSUME RatesFit, NEW m, NEW r, NEW baud, NEW line, RxIs(m, r, baud), r.state # "IDLE",
           RxLeft(r, baud) = 0, r.state = "DATA" => r.in \in {0, 1},
           NEW q, q = RxClock(m, r, BaudTick(baud), line)
    PROVE  /\ RxIs(m, q, BaudClk(baud)) /\ q.in = line
           /\ q.state = RxNext(m, r)
           /\ q.done <=> r.state = "STOP"
           /\ q.err <=> r.state = "PARITY" /\ RxParityBad(m, r)
           /\ q.data = IF r.state = "DATA" THEN r.in * 2 ^ (DataBits - 1) + r.data \div 2
                                           ELSE r.data
           /\ r.state = "START" => q.idx = 0
           /\ r.state = "DATA" /\ r.idx < DataBits - 1 => q.idx = r.idx + 1
           /\ q.state # "IDLE" => RxLeft(q, BaudClk(baud)) = Bit - 1
<1> DEFINE c == CountTick(r.cnt, BaudTick(baud))
           n == RxLast(r)
           Regs(x) == [state : States, cnt : 0 .. 15, data : Word, idx : 0 .. DataBits - 1,
                       done : BOOLEAN, err : BOOLEAN, in : {x}]
<1>1. n \in 0 .. 15 /\ r.cnt \in 0 .. n /\ baud \in 0 .. T - 1 /\ DataBits \in 1 .. 8
      /\ Oversample \in 4 .. 16 /\ T \in Nat /\ T >= 1
  <2>1. HalfBit \in 1 .. 15 /\ Oversample \in 4 .. 16 /\ DataBits \in 1 .. 8 /\ T \in Nat /\ T >= 1
    BY SMTT(30), RateFacts
  <2> QED
    BY <2>1 DEF RxIs, RxLast
<1>2. r.cnt = n /\ BaudTick(baud)
  <2>1. Left(n, r.cnt, baud) = 0 <=> r.cnt = n /\ BaudTick(baud)
    BY <1>1, LeftFacts
  <2> QED
    BY <2>1 DEF RxLeft
<1>3. BaudClk(baud) = 0
  BY <1>1, <1>2, BaudStep
<1>4. c \in 0 .. 15
  <2>1. BaudTick(baud) \in BOOLEAN /\ r.cnt \in 0 .. 15
    BY <1>1 DEF BaudTick
  <2> QED
    BY <2>1, TickStep
<1>5. r \in Regs(r.in) /\ (r.state = "PARITY" => m # 0)
  BY DEF RxIs
<1>6. Left(Oversample - 1, 0, 0) = Bit - 1
  <2>1. Oversample - 1 \in 0 .. 15 /\ 0 \in 0 .. Oversample - 1 /\ 0 \in 0 .. T - 1
    BY <1>1
  <2>2. Left(Oversample - 1, 0, 0) = (Oversample - 1) * T + T - 1 - 0
    BY <2>1, LeftFacts
  <2>3. (Oversample - 1) * T + T = Oversample * T
    BY <1>1
  <2>4. (Oversample - 1) * T \in Int /\ Oversample * T \in Int
    BY <1>1
  <2> QED
    BY <2>2, <2>3, <2>4, <1>1 DEF Bit
<1> HIDE DEF c
<1>7. CASE r.state = "START"
  <2>1. n = HalfBit
    BY <1>7 DEF RxLast
  <2>2. q = [r EXCEPT !.in = line, !.cnt = 0, !.done = FALSE, !.err = FALSE,
                      !.state = "DATA", !.idx = 0]
    BY <1>2, <1>7, <2>1, <1>5 DEF RxClock
  <2>a. q.in = line /\ q.cnt = 0 /\ q.done = FALSE /\ q.err = FALSE
        /\ q.state = "DATA" /\ q.idx = 0 /\ q.data = r.data
    BY <1>5, <2>2
  <2>3. q \in Regs(q.in) /\ q.in = line /\ q.cnt = 0 /\ q.done = FALSE /\ q.err = FALSE
        /\ q.state = "DATA" /\ q.idx = 0 /\ q.data = r.data
    <3>1. 0 \in 0 .. DataBits - 1 /\ 0 \in 0 .. 15
      BY <1>1
    <3> QED
      BY ZenonT(60), <1>5, <2>2, <2>a, <3>1 DEF States
  <2> HIDE DEF n
  <2>4. RxLast(q) = Oversample - 1
    BY <2>3 DEF RxLast
  <2> QED
    BY <1>1, <1>3, <1>6, <1>7, <2>3, <2>4 DEF RxIs, RxNext, RxLeft
<1>8. CASE r.state = "DATA"
  <2>1. n = Oversample - 1
    BY <1>8 DEF RxLast
  <2> DEFINE d == r.in * 2 ^ (DataBits - 1) + r.data \div 2
  <2>2. d \in Word
    <3>1. DataBits - 1 \in 0 .. 7 /\ (DataBits - 1) + 1 = DataBits
      BY <1>1
    <3>2. Pow(DataBits) = 2 * Pow(DataBits - 1) /\ Pow(DataBits - 1) \in Nat \ {0}
      BY <3>1, PowerStep
    <3>3. r.data \in Nat /\ r.data < Pow(DataBits)
      <4>1. r.data \in Word
        BY <1>5
      <4>2. Word = 0 .. Pow(DataBits) - 1
        BY DEF Word, Pow
      <4>3. Pow(DataBits) \in Nat
        BY <3>1, <3>2
      <4> QED
        BY <4>1, <4>2, <4>3
    <3>4. PICK h \in Nat, e \in 0 .. 1 : r.data = 2 * h + e /\ h = r.data \div 2
      <4>1. 2 \in Nat \ {0} /\ r.data \in Nat /\ 0 .. 2 - 1 = 0 .. 1
        BY <3>3
      <4>2. /\ r.data \div 2 \in Nat /\ r.data % 2 \in 0 .. 1
            /\ r.data = 2 * (r.data \div 2) + (r.data % 2)
        BY <4>1, DivMod
      <4> QED
        BY <4>2
    <3>5. d = r.in * Pow(DataBits - 1) + h
      BY <3>4 DEF Pow
    <3> DEFINE P == Pow(DataBits - 1)
    <3> HIDE DEF d, P
    <3>6. d = r.in * P + h /\ P \in Nat /\ r.data < 2 * P
      BY <3>2, <3>3, <3>5 DEF P
    <3>7. h < P
      BY <3>4, <3>6
    <3>8. d \in 0 .. 2 * P - 1
      <4>1. r.in = 0 \/ r.in = 1
        BY <1>8
      <4> QED
        BY <4>1, <3>6, <3>7
    <3> QED
      BY <3>2, <3>8 DEF P, Word, Pow
  <2>3. q = [r EXCEPT !.in = line, !.cnt = 0, !.done = FALSE, !.err = FALSE, !.data = d,
                      !.state = RxNext(m, r),
                      !.idx = IF r.idx = DataBits - 1 THEN r.idx ELSE (r.idx + 1) % 8]
    <3> HIDE DEF n, d
    <3>1. BitOver(r, BaudTick(baud))
      BY <1>2, <2>1 DEF BitOver
    <3>2. CASE r.idx = DataBits - 1
      BY <1>5, <1>8, <3>1, <3>2 DEF RxClock, RxBitSampled, RxNext, d
    <3>3. CASE r.idx # DataBits - 1
      BY <1>5, <1>8, <3>1, <3>3 DEF RxClock, RxBitSampled, RxNext, d
    <3> QED
      BY <3>2, <3>3
  <2>4. RxNext(m, r) \in {"DATA", "STOP", "PARITY"} /\ (RxNext(m, r) = "PARITY" => m # 0)
    BY <1>8 DEF RxNext, AfterData
  <2>5. r.idx \in 0 .. DataBits - 1 /\ (r.idx < DataBits - 1 => (r.idx + 1) % 8 = r.idx + 1)
    <3>1. r.idx \in 0 .. DataBits - 1
      BY <1>5
    <3> QED
      BY <3>1, <1>1
  <2> HIDE DEF d, n
  <2>6. q.in = line /\ q.cnt = 0 /\ q.done = FALSE /\ q.err = FALSE
        /\ q.state = RxNext(m, r) /\ q.data = d
        /\ q.idx = IF r.idx = DataBits - 1 THEN r.idx ELSE (r.idx + 1) % 8
    BY <1>5, <2>3
  <2>7. q.idx \in 0 .. DataBits - 1 /\ (r.idx < DataBits - 1 => q.idx = r.idx + 1)
    BY <2>5, <2>6, <1>1
  <2>8. q \in Regs(q.in)
    <3>1. RxNext(m, r) \in States /\ 0 \in 0 .. 15
      BY <2>4 DEF States
    <3>2. (IF r.idx = DataBits - 1 THEN r.idx ELSE (r.idx + 1) % 8) \in 0 .. DataBits - 1
      BY <2>6, <2>7
    <3> QED
      BY <1>5, <2>2, <2>3, <2>6, <3>1, <3>2
  <2>9. RxLast(q) = Oversample - 1
    BY <2>4, <2>6 DEF RxLast
  <2>10. q.data = r.in * 2 ^ (DataBits - 1) + r.data \div 2
    BY <2>6 DEF d
  <2>11. RxIs(m, q, BaudClk(baud))
    BY <1>1, <1>3, <2>4, <2>6, <2>8, <2>9 DEF RxIs
  <2>12. RxLeft(q, BaudClk(baud)) = Bit - 1
    BY <1>3, <1>6, <2>6, <2>9 DEF RxLeft
  <2> QED
    BY <1>8, <2>6, <2>7, <2>10, <2>11, <2>12
<1>9. CASE r.state = "PARITY"
  <2>1. n = Oversample - 1
    BY <1>9 DEF RxLast
  <2>2. q = [r EXCEPT !.in = line, !.done = FALSE, !.err = RxParityBad(m, r),
                      !.state = "STOP", !.cnt = 0]
    BY <1>2, <1>9, <2>1, <1>5 DEF RxClock, BitOver
  <2>3. RxParityBad(m, r) \in BOOLEAN
    BY DEF RxParityBad
  <2>a. q.in = line /\ q.cnt = 0 /\ q.done = FALSE /\ q.idx = r.idx
        /\ q.state = "STOP" /\ q.data = r.data /\ q.err = RxParityBad(m, r)
    BY <1>5, <2>2
  <2>4. q \in Regs(q.in) /\ q.in = line /\ q.cnt = 0 /\ q.done = FALSE
        /\ q.state = "STOP" /\ q.data = r.data /\ q.err = RxParityBad(m, r)
    <3> HIDE DEF n
    <3>1. 0 \in 0 .. 15 /\ RxParityBad(m, r) \in BOOLEAN
      BY <2>3
    <3> QED
      BY <1>5, <2>2, <2>a, <3>1 DEF States
  <2> HIDE DEF n
  <2>5. RxLast(q) = Oversample - 1
    BY <2>4 DEF RxLast
  <2>6. RxIs(m, q, BaudClk(baud))
    BY <1>1, <1>3, <2>4, <2>5 DEF RxIs
  <2> QED
    BY <1>3, <1>6, <1>9, <2>3, <2>4, <2>5, <2>6 DEF RxNext, RxLeft
<1>10. CASE r.state = "STOP"
  <2>1. n = Oversample - 1
    BY <1>10 DEF RxLast
  <2>2. q = [r EXCEPT !.in = line, !.cnt = c, !.err = FALSE, !.state = "IDLE", !.done = TRUE]
    BY <1>2, <1>10, <2>1, <1>5 DEF RxClock, BitOver, c
  <2>a. q.in = line /\ q.done = TRUE /\ q.err = FALSE /\ q.cnt = c /\ q.idx = r.idx
        /\ q.state = "IDLE" /\ q.data = r.data
    BY <1>5, <2>2
  <2> HIDE DEF n
  <2>3. q \in Regs(q.in) /\ q.in = line /\ q.done = TRUE /\ q.err = FALSE
        /\ q.state = "IDLE" /\ q.data = r.data
    BY <1>4, <1>5, <2>2, <2>a DEF States
  <2>4. RxIs(m, q, BaudClk(baud))
    BY <1>1, <1>3, <2>3 DEF RxIs
  <2> QED
    BY <1>10, <2>3, <2>4 DEF RxNext
<1> QED
  <2>1. r.state \in States /\ r.state # "IDLE"
    BY <1>5
  <2> QED
    BY <2>1, <1>7, <1>8, <1>9, <1>10 DEF States

-----------------------------------------------------------------------------
\* What the receiver has of byte b when it waits for its next sample.
Got(r, b) ==
    /\ r.state = "DATA" => r.data \div Pow(DataBits - r.idx) = b % Pow(r.idx)
    /\ r.state \in {"PARITY", "STOP"} => r.data = b

\* The clock at which the receiver would have sampled the start bit, from now.
RxPhase(m, r, baud) == RxLeft(r, baud) - At(m, r) * Bit

\* The receiver's state is told by the bit that it waits for, and it waits a bit
\* at most.
LEMMA AtFacts ==
    ASSUME RatesFit, NEW m \in {0, 1}, NEW r, NEW baud, RxIs(m, r, baud), r.state # "IDLE"
    PROVE  /\ At(m, r) \in 0 .. StopAt(m) /\ StopAt(m) \in 2 .. 10
           /\ r.state = "STOP" <=> At(m, r) = StopAt(m)
           /\ r.state = "DATA" <=> At(m, r) \in 1 .. DataBits
           /\ r.state = "START" <=> At(m, r) = 0
           /\ RxLeft(r, baud) \in 0 .. Bit - 1
           /\ r.state = "START" => RxLeft(r, baud) < Half + T
<1>1. /\ r.state \in {"START", "DATA", "PARITY", "STOP"} /\ r.idx \in 0 .. DataBits - 1
      /\ r.state = "PARITY" => m = 1
      /\ r.cnt \in 0 .. RxLast(r) /\ baud \in 0 .. T - 1
  BY DEF RxIs, States
<1>2. DataBits \in 1 .. 8 /\ Oversample \in 4 .. 16 /\ HalfBit \in 1 .. Oversample - 3
      /\ T \in Nat /\ T >= 1 /\ Half \in Nat /\ Bit \in Nat /\ Half + 2 * T <= Bit
  BY RateFacts
<1>3. StopAt(m) \in 2 .. 10 /\ StopAt(m) > DataBits /\ (m = 1 => StopAt(m) = DataBits + 2)
  BY <1>2 DEF StopAt
<1>4. RxLast(r) \in 0 .. 15
  BY <1>2 DEF RxLast
<1>5. RxLeft(r, baud) \in Nat /\ RxLeft(r, baud) <= RxLast(r) * T + T - 1
  <2> DEFINE n == RxLast(r)
             c == r.cnt
  <2>1. n \in 0 .. 15 /\ c \in 0 .. n
    BY <1>1, <1>4
  <2> HIDE DEF n, c
  <2>2. Left(n, c, baud) \in Nat
    BY <2>1, <1>1, LeftFacts
  <2>3. (n - c) * T = n * T - c * T /\ c * T \in Nat /\ n * T \in Nat
    BY <2>1, <1>2
  <2>4. Left(n, c, baud) = (n - c) * T + T - 1 - baud
    BY DEF Left
  <2>5. Left(n, c, baud) <= n * T + T - 1
    BY <1>1, <1>2, <2>2, <2>3, <2>4
  <2> QED
    BY <2>2, <2>5 DEF n, c, RxLeft
<1>6. RxLast(r) * T + T <= Bit /\ (r.state = "START" => RxLast(r) * T = Half)
  <2>1. CASE r.state = "START"
    BY <1>2, <2>1 DEF RxLast, Half
  <2>2. CASE r.state # "START"
    <3>1. (Oversample - 1) * T + T = Oversample * T
      BY <1>2
    <3>2. RxLast(r) = Oversample - 1
      BY <2>2 DEF RxLast
    <3>3. (Oversample - 1) * T \in Int /\ Oversample * T \in Int
      BY <1>2
    <3> QED
      BY <2>2, <3>1, <3>2, <3>3, <1>2 DEF Bit
  <2> QED
    BY <2>1, <2>2
<1>7. RxLast(r) * T \in Nat
  BY <1>2, <1>4
<1>8. RxLeft(r, baud) \in 0 .. Bit - 1 /\ (r.state = "START" => RxLeft(r, baud) < Half + T)
  BY <1>2, <1>5, <1>6, <1>7
<1>9. /\ r.state = "START" => At(m, r) = 0
      /\ r.state = "DATA" => At(m, r) = r.idx + 1
      /\ r.state = "PARITY" => At(m, r) = DataBits + 1 /\ StopAt(m) = DataBits + 2
      /\ r.state = "STOP" => At(m, r) = StopAt(m)
  BY <1>1, <1>3 DEF At
<1>10. CASE r.state = "START"
  BY <1>10, <1>2, <1>3, <1>9, <1>8
<1>11. CASE r.state = "DATA"
  BY <1>11, <1>1, <1>2, <1>3, <1>9, <1>8
<1>12. CASE r.state = "PARITY"
  BY <1>12, <1>2, <1>3, <1>9, <1>8
<1>13. CASE r.state = "STOP"
  BY <1>13, <1>2, <1>3, <1>9, <1>8
<1> QED
  BY <1>1, <1>10, <1>11, <1>12, <1>13

\* A sample takes the receiver to the next bit.
LEMMA RxNextAt ==
    ASSUME RatesFit, NEW m \in {0, 1}, NEW r, NEW baud, RxIs(m, r, baud),
           r.state \in {"START", "DATA", "PARITY"},
           NEW q, q.state = RxNext(m, r), r.state = "START" => q.idx = 0,
           r.state = "DATA" /\ r.idx < DataBits - 1 => q.idx = r.idx + 1
    PROVE  q.state # "IDLE" /\ At(m, q) = At(m, r) + 1
<1>1. r.idx \in 0 .. DataBits - 1 /\ (r.state = "PARITY" => m = 1) /\ DataBits \in 1 .. 8
  BY RateFacts DEF RxIs
<1>2. CASE r.state = "START"
  BY <1>1, <1>2 DEF RxNext, At
<1>3. CASE r.state = "DATA" /\ r.idx = DataBits - 1
  BY <1>1, <1>3 DEF RxNext, At, AfterData, StopAt
<1>4. CASE r.state = "DATA" /\ r.idx # DataBits - 1
  BY <1>1, <1>4 DEF RxNext, At
<1>5. CASE r.state = "PARITY"
  BY <1>1, <1>5 DEF RxNext, At, StopAt
<1> QED
  BY <1>2, <1>3, <1>4, <1>5

\* The receiver keeps its phase from the start bit to the stop bit.
LEMMA RxMoves ==
    ASSUME RatesFit, NEW m \in {0, 1}, NEW r, NEW baud, NEW line, RxIs(m, r, baud),
           r.state # "IDLE", ~ (r.state = "STOP" /\ RxLeft(r, baud) = 0),
           r.state = "DATA" /\ RxLeft(r, baud) = 0 => r.in \in {0, 1},
           NEW q, q = RxClock(m, r, BaudTick(baud), line)
    PROVE  /\ RxIs(m, q, BaudClk(baud)) /\ q.in = line
           /\ q.state # "IDLE" /\ ~ q.done
           /\ RxPhase(m, q, BaudClk(baud)) = RxPhase(m, r, baud) - 1
<1>0. Bit \in Nat /\ At(m, r) \in Nat
  <2>1. At(m, r) \in 0 .. StopAt(m) /\ StopAt(m) \in 2 .. 10
    BY AtFacts
  <2>2. Bit \in Nat
    BY RateFacts
  <2> QED
    BY <2>1, <2>2
<1>1. CASE RxLeft(r, baud) # 0
  <2>1. /\ RxIs(m, q, BaudClk(baud)) /\ q.in = line /\ ~ q.done
        /\ q.state = r.state /\ q.idx = r.idx
        /\ RxLeft(q, BaudClk(baud)) = RxLeft(r, baud) - 1
    BY <1>1, RxRuns
  <2>2. At(m, q) = At(m, r)
    BY <2>1 DEF At
  <2>3. RxLeft(r, baud) \in Int /\ At(m, r) * Bit \in Int
    BY <1>0, AtFacts
  <2> QED
    BY <2>1, <2>2, <2>3 DEF RxPhase
<1>2. CASE RxLeft(r, baud) = 0
  <2>1. /\ RxIs(m, q, BaudClk(baud)) /\ q.in = line
        /\ q.state = RxNext(m, r)
        /\ q.done <=> r.state = "STOP"
        /\ r.state = "START" => q.idx = 0
        /\ r.state = "DATA" /\ r.idx < DataBits - 1 => q.idx = r.idx + 1
        /\ q.state # "IDLE" => RxLeft(q, BaudClk(baud)) = Bit - 1
    BY <1>2, RxSamples
  <2>2. r.state \in {"START", "DATA", "PARITY"}
    BY <1>2 DEF RxIs, States
  <2>3. q.state # "IDLE" /\ At(m, q) = At(m, r) + 1
    BY <2>1, <2>2, RxNextAt
  <2>4. (At(m, r) + 1) * Bit = At(m, r) * Bit + Bit /\ At(m, r) * Bit \in Int
    BY <1>0
  <2> QED
    BY <1>0, <1>2, <2>1, <2>2, <2>3, <2>4 DEF RxPhase
<1> QED
  BY <1>1, <1>2

\* Samples taken in the right bits are the byte.
LEMMA RxGets ==
    ASSUME RatesFit, NEW m \in {0, 1}, NEW r, NEW baud, NEW line, RxIs(m, r, baud),
           r.state # "IDLE", NEW b \in Word, Got(r, b),
           r.state \in {"DATA", "PARITY"} /\ RxLeft(r, baud) = 0 =>
               r.in = BitOf(m, b, At(m, r)),
           NEW q, q = RxClock(m, r, BaudTick(baud), line)
    PROVE  Got(q, b) /\ ~ q.err /\ (q.done => q.data = b)
<1>0. DataBits \in 1 .. 8 /\ Pow(DataBits) \in Nat \ {0} /\ b \in 0 .. Pow(DataBits) - 1
  <2>1. DataBits \in 1 .. 8 /\ DataBits - 1 \in 0 .. 7 /\ (DataBits - 1) + 1 = DataBits
    BY RateFacts
  <2>2. Pow((DataBits - 1) + 1) \in Nat \ {0}
    BY <2>1, PowerStep
  <2> QED
    BY <2>1, <2>2 DEF Word, Pow
<1>1. CASE RxLeft(r, baud) # 0
  <2>1. /\ ~ q.done /\ ~ q.err
        /\ q.state = r.state /\ q.idx = r.idx /\ q.data = r.data
    BY <1>1, RxRuns
  <2> QED
    BY <2>1 DEF Got
<1>2. CASE RxLeft(r, baud) = 0
  <2>0. r.state = "DATA" => /\ r.in \in {0, 1} /\ At(m, r) = r.idx + 1 /\ r.idx \in 0 .. DataBits - 1
                            /\ r.in = (b \div Pow(r.idx)) % 2
    <3> SUFFICES ASSUME r.state = "DATA"
                 PROVE  /\ r.in \in {0, 1} /\ At(m, r) = r.idx + 1 /\ r.idx \in 0 .. DataBits - 1
                        /\ r.in = (b \div Pow(r.idx)) % 2
      OBVIOUS
    <3>1. At(m, r) = r.idx + 1 /\ r.idx \in 0 .. DataBits - 1
      BY DEF At, RxIs
    <3>2. At(m, r) # 0 /\ At(m, r) <= DataBits /\ At(m, r) - 1 = r.idx
      BY <1>0, <3>1
    <3>3. BitOf(m, b, At(m, r)) = (b \div Pow(r.idx)) % 2
      BY <3>2 DEF BitOf
    <3>4. r.idx \in 0 .. 7 /\ b \in Nat
      BY <1>0, <3>1
    <3>5. (b \div Pow(r.idx)) % 2 \in {0, 1}
      <4>1. Pow(r.idx) \in Nat \ {0}
        BY <3>4, PowerStep
      <4> QED
        BY <3>4, <4>1, DivTwice
    <3> QED
      BY <1>2, <3>1, <3>3, <3>5
  <2>1. /\ q.state = RxNext(m, r)
        /\ q.done <=> r.state = "STOP"
        /\ q.err <=> r.state = "PARITY" /\ RxParityBad(m, r)
        /\ q.data = IF r.state = "DATA" THEN r.in * 2 ^ (DataBits - 1) + r.data \div 2
                                        ELSE r.data
        /\ r.state = "START" => q.idx = 0
        /\ r.state = "DATA" /\ r.idx < DataBits - 1 => q.idx = r.idx + 1
    BY <1>2, <2>0, RxSamples
  <2>2. CASE r.state = "START"
    <3>1. q.state = "DATA" /\ q.idx = 0 /\ q.data = r.data /\ ~ q.done /\ ~ q.err
      BY <2>1, <2>2 DEF RxNext
    <3>2. r.data \in 0 .. Pow(DataBits) - 1
      BY DEF RxIs, Word, Pow
    <3>3. r.data \div Pow(DataBits) = 0
      <4> DEFINE P == Pow(DataBits)
                 x == r.data
      <4>1. P \in Nat \ {0} /\ x \in 0 .. P - 1 /\ 0 \in Nat
        BY <1>0, <3>2
      <4> HIDE DEF P, x
      <4>2. (P * 0 + x) \div P = 0
        BY <4>1, DivModUnique
      <4>3. P * 0 + x = x
        BY <4>1
      <4> QED
        BY <4>2, <4>3 DEF P, x
    <3>4. b % Pow(0) = 0 /\ DataBits - 0 = DataBits
      <4>1. Pow(0) = 1
        BY Powers
      <4> QED
        BY <4>1, <1>0
    <3> QED
      BY <3>1, <3>3, <3>4 DEF Got
  <2>3. CASE r.state = "DATA"
    <3> DEFINE i == r.idx
               j == DataBits - 1 - i
    <3>1. i \in 0 .. 7 /\ j \in 0 .. 7 /\ i + j <= 8 /\ i + j = DataBits - 1
          /\ DataBits - i = j + 1 /\ DataBits - (i + 1) = j
      <4>1. r.idx \in 0 .. DataBits - 1 /\ DataBits \in 1 .. 8
        BY <1>0, <2>0, <2>3
      <4> QED
        BY <4>1
    <3>2. r.data \div Pow(DataBits - i) = b % Pow(i)
      BY <2>3 DEF Got
    <3>3. r.data \in Nat /\ b \in Nat
      BY <1>0 DEF RxIs, Word, Pow
    <3> HIDE DEF i, j
    <3>4. Pow(DataBits - i) = 2 * Pow(j) /\ Pow(i + 1) = 2 * Pow(i)
          /\ Pow(i) \in Nat \ {0} /\ Pow(j) \in Nat \ {0}
      BY <3>1, PowerStep
    <3>5. Pow(DataBits - 1) = Pow(i) * Pow(j)
      <4>1. i \in 0 .. 8 /\ j \in 0 .. 8
        BY <3>1
      <4> QED
        BY <3>1, <4>1, PowersAdd
    <3>6. (((b \div Pow(i)) % 2) * (Pow(i) * Pow(j)) + (r.data \div 2)) \div Pow(j) = b % (2 * Pow(i))
      <4>1. r.data \div (2 * Pow(j)) = b % Pow(i)
        BY <3>2, <3>4
      <4> QED
        BY ZenonT(60), <3>3, <3>4, <4>1, ShiftIn
    <3>7. q.data = ((b \div Pow(i)) % 2) * (Pow(i) * Pow(j)) + (r.data \div 2)
      BY <2>0, <2>1, <2>3, <3>5 DEF Pow, i
    <3>8. q.data \div Pow(j) = b % Pow(i + 1)
      BY <3>4, <3>6, <3>7
    <3>9. CASE i = DataBits - 1
      <4>1. j = 0 /\ i + 1 = DataBits /\ Pow(0) = 1
        BY <3>1, <3>9, Powers
      <4>2. q.data \div 1 = b % Pow(DataBits)
        BY <3>8, <4>1
      <4>3. b % Pow(DataBits) = b
        <5> DEFINE P == Pow(DataBits)
        <5>1. P \in Nat \ {0} /\ b \in 0 .. P - 1 /\ 0 \in Nat
          BY <1>0
        <5> HIDE DEF P
        <5>2. (P * 0 + b) % P = b
          BY <5>1, DivModUnique
        <5>3. P * 0 + b = b
          BY <5>1
        <5> QED
          BY <5>2, <5>3 DEF P
      <4>4. q.data \in Nat
        <5>1. q.data \in Word
          <6>1. RxIs(m, q, BaudClk(baud))
            BY <1>2, <2>0, RxSamples
          <6> QED
            BY <6>1 DEF RxIs
        <5> QED
          BY <1>0, <5>1 DEF Word, Pow
      <4>5. q.data = b
        BY <4>2, <4>3, <4>4
      <4>6. q.state \in {"STOP", "PARITY"}
        BY <2>1, <2>3, <3>9 DEF RxNext, AfterData, i
      <4> QED
        BY <2>1, <2>3, <4>5, <4>6 DEF Got
    <3>10. CASE i # DataBits - 1
      <4>1. q.idx = i + 1 /\ q.state = "DATA"
        <5>1. r.idx < DataBits - 1
          BY <3>1, <3>10, <1>0 DEF i
        <5> QED
          <6>1. RxNext(m, r) = "DATA"
          BY <2>3, <3>10 DEF RxNext, i
        <6> QED
          BY <2>1, <2>3, <5>1, <6>1 DEF i
      <4> QED
        BY <2>1, <2>3, <3>1, <3>8, <4>1 DEF Got
    <3> QED
      BY <3>9, <3>10
  <2>4. CASE r.state = "PARITY"
    <3>1. m = 1 /\ At(m, r) = DataBits + 1 /\ StopAt(m) = DataBits + 2
      BY <2>4 DEF RxIs, At, StopAt
    <3>2. r.in = BitOf(m, b, DataBits + 1)
      BY <1>2, <2>4, <3>1
    <3>3. BitOf(m, b, DataBits + 1) = 1 - XorReduce(b)
      BY <1>0, <3>1 DEF BitOf
    <3>4. r.data = b
      BY <2>4 DEF Got
    <3>5. ~ RxParityBad(m, r)
      BY <3>1, <3>2, <3>3, <3>4 DEF RxParityBad
    <3> QED
      BY <2>1, <2>4, <3>4, <3>5 DEF RxNext, Got
  <2>5. CASE r.state = "STOP"
    BY <2>1, <2>5 DEF RxNext, Got
  <2> QED
    BY <2>2, <2>3, <2>4, <2>5 DEF RxIs, States
<1> QED
  BY <1>1, <1>2

-----------------------------------------------------------------------------
\* The transmitter's registers and its oversampling clock.
TxIs(m, t, baud) ==
    /\ t \in [state : States, cnt : 0 .. 15, data : Word, idx : 0 .. 7,
              parity : {t.parity}, out : {t.out}, done : BOOLEAN]
    /\ baud \in 0 .. T - 1
    /\ t.state # "IDLE" => t.cnt <= Oversample - 1 /\ ~ t.done
    /\ t.state = "DATA" => t.idx <= DataBits - 1
    /\ t.state = "PARITY" => m # 0

\* What the transmitter has of byte b while it sends it.
TxHas(m, t, b) ==
    /\ t.state = "START" => t.data = b
    /\ t.state = "DATA" => t.data = b \div Pow(t.idx)
    /\ m = 1 /\ t.state \in {"START", "DATA", "PARITY"} => t.parity = 1 - XorReduce(b)

\* The clock from the first in which the line is low, one late for every clock
\* that the start bit is shorter than the others.
TxPhase(m, t, baud) == (At(m, t) + 1) * Bit - 2 - TxLeft(t, baud)

\* The same of the transmitter.
LEMMA TxAtFacts ==
    ASSUME RatesFit, NEW m \in {0, 1}, NEW t, NEW baud, TxIs(m, t, baud), t.state # "IDLE"
    PROVE  /\ At(m, t) \in 0 .. StopAt(m) /\ StopAt(m) \in 2 .. 10
           /\ t.state = "STOP" <=> At(m, t) = StopAt(m)
           /\ t.state = "START" <=> At(m, t) = 0
           /\ TxLeft(t, baud) \in 0 .. Bit - 1
           /\ TxLeft(t, baud) = 0 <=> BitOver(t, BaudTick(baud))
<1>1. /\ t.state \in {"START", "DATA", "PARITY", "STOP"} /\ t.idx \in 0 .. 7
      /\ t.state = "PARITY" => m = 1
      /\ t.state = "DATA" => t.idx <= DataBits - 1
      /\ t.cnt \in 0 .. Oversample - 1 /\ baud \in 0 .. T - 1
  BY DEF TxIs, States
<1>2. DataBits \in 1 .. 8 /\ Oversample \in 4 .. 16 /\ T \in Nat /\ T >= 1 /\ Bit \in Nat
  BY RateFacts
<1>3. StopAt(m) \in 2 .. 10 /\ StopAt(m) > DataBits /\ (m = 1 => StopAt(m) = DataBits + 2)
  BY <1>2 DEF StopAt
<1> DEFINE n == Oversample - 1
           c == t.cnt
<1>4. n \in 0 .. 15 /\ c \in 0 .. n
  BY <1>1, <1>2
<1>5. Left(n, c, baud) \in Nat /\ (Left(n, c, baud) = 0 <=> c = n /\ BaudTick(baud))
  <2> HIDE DEF n, c
  <2> QED
    BY <1>1, <1>4, LeftFacts
<1>6. Left(n, c, baud) <= Bit - 1
  <2>1. n * T + T = Oversample * T /\ Oversample * T \in Int
    BY <1>2
  <2> HIDE DEF n, c
  <2>2. (n - c) * T = n * T - c * T /\ c * T \in Nat /\ n * T \in Nat
    BY <1>4, <1>2
  <2>3. Left(n, c, baud) = (n - c) * T + T - 1 - baud
    BY DEF Left
  <2> QED
    BY <1>1, <1>2, <2>1, <2>2, <2>3 DEF Bit
<1>7. TxLeft(t, baud) \in 0 .. Bit - 1
  BY <1>2, <1>5, <1>6 DEF TxLeft
<1>8. TxLeft(t, baud) = 0 <=> BitOver(t, BaudTick(baud))
  BY <1>5 DEF TxLeft, BitOver
<1>9. /\ t.state = "START" => At(m, t) = 0
      /\ t.state = "DATA" => At(m, t) = t.idx + 1
      /\ t.state = "PARITY" => At(m, t) = DataBits + 1 /\ StopAt(m) = DataBits + 2
      /\ t.state = "STOP" => At(m, t) = StopAt(m)
  BY <1>1, <1>3 DEF At
<1> HIDE DEF n, c
<1>10. CASE t.state = "START"
  BY <1>10, <1>2, <1>3, <1>9, <1>7, <1>8
<1>11. CASE t.state = "DATA"
  BY <1>11, <1>1, <1>2, <1>3, <1>9, <1>7, <1>8
<1>12. CASE t.state = "PARITY"
  BY <1>12, <1>2, <1>3, <1>9, <1>7, <1>8
<1>13. CASE t.state = "STOP"
  BY <1>13, <1>2, <1>3, <1>9, <1>7, <1>8
<1> QED
  BY <1>1, <1>10, <1>11, <1>12, <1>13

\* The line shows the bit that is being sent.
LEMMA TxShows ==
    ASSUME RatesFit, NEW m \in {0, 1}, NEW t, NEW baud, TxIs(m, t, baud), t.state # "IDLE",
           NEW b, TxHas(m, t, b)
    PROVE  TxLine(t) = BitOf(m, b, At(m, t))
<1>1. DataBits \in 1 .. 8
  BY RateFacts
<1>2. CASE t.state = "START"
  BY <1>2 DEF TxLine, At, BitOf
<1>3. CASE t.state = "DATA"
  <2>1. t.idx \in 0 .. 7 /\ t.idx <= DataBits - 1
    BY <1>3 DEF TxIs
  <2>2. At(m, t) = t.idx + 1
    BY <1>3 DEF At
  <2>3. At(m, t) # 0 /\ At(m, t) <= DataBits /\ At(m, t) - 1 = t.idx
    BY <1>1, <2>1, <2>2
  <2> QED
    BY <1>3, <2>3 DEF TxLine, BitOf, TxHas
<1>4. CASE t.state = "PARITY"
  <2>1. m = 1 /\ At(m, t) = DataBits + 1 /\ StopAt(m) = DataBits + 2
    BY <1>4 DEF TxIs, At, StopAt
  <2> QED
    BY <1>1, <1>4, <2>1 DEF TxLine, BitOf, TxHas
<1>5. CASE t.state = "STOP"
  <2>1. At(m, t) = StopAt(m) /\ StopAt(m) > DataBits
    BY <1>1, <1>5 DEF At, StopAt
  <2> QED
    BY <1>1, <1>5, <2>1 DEF TxLine, BitOf, StopAt
<1> QED
  BY <1>2, <1>3, <1>4, <1>5 DEF TxIs, States

\* Idle, the transmitter waits for a byte.
LEMMA TxIdle ==
    ASSUME RatesFit, NEW m \in {0, 1}, NEW t, NEW baud, TxIs(m, t, baud), t.state = "IDLE",
           NEW start \in BOOLEAN, NEW b, start => b \in Word,
           NEW q, q = TxClock(m, t, BaudTick(baud), start, b)
    PROVE  /\ TxIs(m, q, BaudClk(baud)) /\ q.out = 1 /\ ~ q.done
           /\ ~ (start /\ ~ t.done) => q.state = "IDLE"
           /\ start /\ ~ t.done => /\ q.state = "START" /\ TxHas(m, q, b)
                                   /\ TxLeft(q, BaudClk(baud)) \in Bit - T .. Bit - 1
<1> DEFINE Regs(x, y) == [state : States, cnt : 0 .. 15, data : Word, idx : 0 .. 7,
                          parity : {x}, out : {y}, done : BOOLEAN]
<1>1. t \in Regs(t.parity, t.out) /\ baud \in 0 .. T - 1 /\ BaudClk(baud) \in 0 .. T - 1
      /\ t.cnt \in 0 .. 15
  <2>1. t \in Regs(t.parity, t.out) /\ baud \in 0 .. T - 1
    BY DEF TxIs
  <2> QED
    BY <2>1, BaudStep
<1>2. CountTick(t.cnt, BaudTick(baud)) \in 0 .. 15
  <2>1. BaudTick(baud) \in BOOLEAN
    BY DEF BaudTick
  <2> QED
    BY <1>1, <2>1, TickStep
<1>3. Oversample \in 4 .. 16 /\ T \in Nat /\ T >= 1 /\ Bit \in Nat
  BY RateFacts
<1>4. CASE ~ (start /\ ~ t.done)
  <2>1. q = [t EXCEPT !.out = 1, !.cnt = CountTick(t.cnt, BaudTick(baud)), !.done = FALSE]
    BY <1>4 DEF TxClock, TxAccepts, TxLine
  <2>2. q.out = 1 /\ q.done = FALSE /\ q.state = "IDLE" /\ q.data = t.data /\ q.idx = t.idx
        /\ q.cnt = CountTick(t.cnt, BaudTick(baud))
    BY <1>1, <2>1
  <2>3. q \in Regs(q.parity, q.out)
    BY <1>1, <1>2, <2>1, <2>2
  <2> QED
    BY <1>1, <1>4, <2>2, <2>3 DEF TxIs
<1>5. CASE start /\ ~ t.done
  <2>1. q = [t EXCEPT !.out = 1, !.cnt = 0, !.done = FALSE, !.state = "START", !.data = b,
                      !.parity = TxParity(m, t, b)]
    BY <1>5 DEF TxClock, TxAccepts, TxLine
  <2>2. q.out = 1 /\ q.done = FALSE /\ q.state = "START" /\ q.data = b /\ q.idx = t.idx
        /\ q.cnt = 0 /\ q.parity = TxParity(m, t, b)
    BY <1>1, <2>1
  <2>3. q \in Regs(q.parity, q.out)
    <3>1. 0 \in 0 .. 15 /\ b \in Word /\ "START" \in States
      BY <1>5 DEF States
    <3> QED
      BY <1>1, <2>1, <2>2, <3>1
  <2>4. TxHas(m, q, b)
    BY <2>2 DEF TxHas, TxParity
  <2>5. TxLeft(q, BaudClk(baud)) \in Bit - T .. Bit - 1
    <3> DEFINE n == Oversample - 1
    <3>1. n \in 0 .. 15 /\ 0 \in 0 .. n /\ n * T + T = Oversample * T /\ n * T \in Int
      BY <1>3
    <3> HIDE DEF n
    <3>2. Left(n, 0, BaudClk(baud)) = n * T + T - 1 - BaudClk(baud)
      BY <1>1, <3>1, LeftFacts
    <3>3. TxLeft(q, BaudClk(baud)) = Left(n, 0, BaudClk(baud))
      BY <2>2 DEF TxLeft, n
    <3> QED
      BY <1>1, <1>3, <3>1, <3>2, <3>3 DEF Bit
  <2>6. TxIs(m, q, BaudClk(baud))
    BY <1>1, <1>3, <2>2, <2>3 DEF TxIs
  <2> QED
    BY <1>5, <2>2, <2>4, <2>5, <2>6
<1> QED
  BY <1>4, <1>5

\* A frame is sent bit by bit.
LEMMA TxMoves ==
    ASSUME RatesFit, NEW m \in {0, 1}, NEW t, NEW baud, TxIs(m, t, baud), t.state # "IDLE",
           ~ (t.state = "STOP" /\ TxLeft(t, baud) = 0), NEW b \in Word, TxHas(m, t, b),
           NEW start \in BOOLEAN, NEW data, NEW q,
           q = TxClock(m, t, BaudTick(baud), start, data)
    PROVE  /\ TxIs(m, q, BaudClk(baud)) /\ q.out = TxLine(t) /\ ~ q.done
           /\ q.state # "IDLE" /\ TxHas(m, q, b)
           /\ TxLeft(t, baud) # 0 => /\ q.state = t.state /\ At(m, q) = At(m, t)
                                     /\ TxLeft(q, BaudClk(baud)) = TxLeft(t, baud) - 1
           /\ TxLeft(t, baud) = 0 => /\ At(m, q) = At(m, t) + 1
                                     /\ TxLeft(q, BaudClk(baud)) = Bit - 1
<1> DEFINE Regs(x, y) == [state : States, cnt : 0 .. 15, data : Word, idx : 0 .. 7,
                          parity : {x}, out : {y}, done : BOOLEAN]
           tick == BaudTick(baud)
<1>1. t \in Regs(t.parity, t.out) /\ baud \in 0 .. T - 1 /\ BaudClk(baud) \in 0 .. T - 1
      /\ t.cnt \in 0 .. Oversample - 1 /\ ~ TxAccepts(t, start)
  <2>1. t \in Regs(t.parity, t.out) /\ baud \in 0 .. T - 1 /\ t.cnt <= Oversample - 1
    BY DEF TxIs
  <2>2. BaudClk(baud) \in 0 .. T - 1
    BY <2>1, BaudStep
  <2>3. t.cnt \in 0 .. 15 /\ Oversample \in 4 .. 16
    BY <2>1, RateFacts
  <2> QED
    BY <2>1, <2>2, <2>3 DEF TxAccepts
<1>2. Oversample \in 4 .. 16 /\ T \in Nat /\ T >= 1 /\ Bit \in Nat /\ DataBits \in 1 .. 8
  BY RateFacts
<1>3. TxLeft(t, baud) = 0 <=> BitOver(t, tick)
  BY TxAtFacts
<1>4. CASE TxLeft(t, baud) # 0
  <2> DEFINE n == Oversample - 1
             c == CountTick(t.cnt, tick)
  <2>1. q = [t EXCEPT !.out = TxLine(t), !.cnt = c, !.done = FALSE]
    BY <1>1, <1>3, <1>4 DEF TxClock
  <2>2. q.out = TxLine(t) /\ q.done = FALSE /\ q.state = t.state /\ q.data = t.data
        /\ q.idx = t.idx /\ q.cnt = c /\ q.parity = t.parity
    BY <1>1, <2>1
  <2>3. n \in 0 .. 15 /\ t.cnt \in 0 .. n
    BY <1>1, <1>2
  <2>4. c \in 0 .. n /\ Left(n, c, BaudClk(baud)) = Left(n, t.cnt, baud) - 1
    <3>1. ~ (Left(n, t.cnt, baud) = 0)
      BY <1>4 DEF TxLeft
    <3> HIDE DEF n
    <3> QED
      BY <1>1, <2>3, <3>1, LeftStep
  <2>5. q \in Regs(q.parity, q.out)
    <3>1. c \in 0 .. 15
      BY <2>3, <2>4
    <3> HIDE DEF c, n
    <3> QED
      BY <1>1, <2>1, <2>2, <3>1
  <2>6. TxLeft(q, BaudClk(baud)) = TxLeft(t, baud) - 1
    BY <2>2, <2>4 DEF TxLeft
  <2>7. At(m, q) = At(m, t)
    BY <2>2 DEF At
  <2>8. TxHas(m, q, b)
    BY <2>2 DEF TxHas
  <2>9. TxIs(m, q, BaudClk(baud))
    <3>1. c <= Oversample - 1
      BY <2>3, <2>4
    <3> HIDE DEF c, n
    <3> QED
      BY <1>1, <2>2, <2>5, <3>1 DEF TxIs
  <2> QED
    BY <1>4, <2>2, <2>6, <2>7, <2>8, <2>9
<1>5. CASE TxLeft(t, baud) = 0
  <2>1. BitOver(t, tick) /\ t.state \in {"START", "DATA", "PARITY"}
    BY <1>1, <1>3, <1>5 DEF States
  <2>2. BaudClk(baud) = 0
    BY <1>1, <2>1, BaudStep DEF BitOver
  <2>3. Left(Oversample - 1, 0, 0) = Bit - 1
    <3>1. Oversample - 1 \in 0 .. 15 /\ 0 \in 0 .. Oversample - 1 /\ 0 \in 0 .. T - 1
      BY <1>2
    <3>2. Left(Oversample - 1, 0, 0) = (Oversample - 1) * T + T - 1 - 0
      BY <3>1, LeftFacts
    <3>3. (Oversample - 1) * T + T = Oversample * T
      BY <1>2
    <3>4. (Oversample - 1) * T \in Int /\ Oversample * T \in Int
      BY <1>2
    <3> QED
      BY <3>2, <3>3, <3>4, <1>2 DEF Bit
  <2>4. b \in Nat /\ b < Pow(DataBits)
    <3>1. (DataBits - 1) + 1 = DataBits /\ DataBits - 1 \in 0 .. 7
      BY <1>2
    <3>2. Pow((DataBits - 1) + 1) \in Nat
      BY <3>1, PowerStep
    <3> QED
      BY <3>1, <3>2 DEF Word, Pow
  <2>5. CASE t.state = "START"
    <3>1. q = [t EXCEPT !.out = TxLine(t), !.cnt = 0, !.done = FALSE, !.state = "DATA", !.idx = 0]
      BY <1>1, <2>1, <2>5 DEF TxClock
    <3>2. q.out = TxLine(t) /\ q.done = FALSE /\ q.state = "DATA" /\ q.data = t.data
          /\ q.idx = 0 /\ q.cnt = 0 /\ q.parity = t.parity
      BY <1>1, <3>1
    <3>3. q \in Regs(q.parity, q.out)
      <4>1. 0 \in 0 .. 15 /\ 0 \in 0 .. 7 /\ "DATA" \in States
        BY DEF States
      <4> QED
        BY <1>1, <3>1, <3>2, <4>1
    <3>4. TxHas(m, q, b)
      <4>1. b \div Pow(0) = b
        <5>1. Pow(0) = 1
          BY Powers
        <5> QED
          BY <2>4, <5>1
      <4> QED
        BY <2>5, <3>2, <4>1 DEF TxHas
    <3>5. At(m, q) = At(m, t) + 1
      BY <2>5, <3>2 DEF At
    <3>6. TxIs(m, q, BaudClk(baud))
      BY <1>1, <1>2, <3>2, <3>3 DEF TxIs
    <3> QED
      BY <1>5, <2>2, <2>3, <3>2, <3>4, <3>5, <3>6 DEF TxLeft
  <2>6. CASE t.state = "DATA"
    <3> DEFINE i == t.idx
               s == IF i = DataBits - 1 THEN AfterData(m) ELSE "DATA"
    <3>1. i \in 0 .. DataBits - 1 /\ i \in 0 .. 7 /\ t.data = b \div Pow(i)
      BY <1>1, <2>6 DEF TxIs, TxHas
    <3>2. q = [t EXCEPT !.out = TxLine(t), !.cnt = 0, !.done = FALSE, !.state = s,
                        !.data = t.data \div 2, !.idx = (i + 1) % 8]
      BY <1>1, <2>1, <2>6 DEF TxClock, TxBitSent
    <3> HIDE DEF i, s
    <3>3. q.out = TxLine(t) /\ q.done = FALSE /\ q.state = s /\ q.data = t.data \div 2
          /\ q.idx = (i + 1) % 8 /\ q.cnt = 0 /\ q.parity = t.parity
      BY <1>1, <3>2
    <3>4. s \in {"DATA", "STOP", "PARITY"} /\ (s = "PARITY" => m # 0)
          /\ (s = "DATA" <=> i # DataBits - 1)
      BY DEF s, AfterData
    <3>5. (i + 1) % 8 \in 0 .. 7 /\ (i # DataBits - 1 => (i + 1) % 8 = i + 1)
      BY <1>2, <3>1
    <3>6. q.data = b \div Pow(i + 1)
      <4>1. Pow(i) \in Nat \ {0} /\ Pow(i + 1) = 2 * Pow(i)
        BY <3>1, PowerStep
      <4>2. (b \div Pow(i)) \div 2 = b \div (2 * Pow(i))
        BY <2>4, <4>1, DivTwice
      <4> QED
        BY <3>1, <3>3, <4>1, <4>2
    <3>7. q.data \in Word
      <4>1. t.data \in Nat /\ t.data < Pow(DataBits) /\ Pow(DataBits) \in Nat
        <5>1. (DataBits - 1) + 1 = DataBits /\ DataBits - 1 \in 0 .. 7
          BY <1>2
        <5>2. Pow((DataBits - 1) + 1) \in Nat
          BY <5>1, PowerStep
        <5>3. t.data \in 0 .. Pow(DataBits) - 1
          BY <1>1 DEF Word, Pow
        <5> QED
          BY <5>1, <5>2, <5>3
      <4>2. t.data \div 2 \in Nat /\ t.data \div 2 <= t.data
        BY <4>1
      <4>3. q.data \in 0 .. Pow(DataBits) - 1
        BY <3>3, <4>1, <4>2
      <4> QED
        BY <4>3 DEF Word, Pow
    <3>8. q \in Regs(q.parity, q.out)
      <4>1. 0 \in 0 .. 15 /\ s \in States
        BY <3>4 DEF States
      <4>2. t.data \div 2 \in Word
        BY <3>3, <3>7
      <4> QED
        BY <1>1, <3>2, <3>3, <3>5, <4>1, <4>2
    <3>9. At(m, q) = At(m, t) + 1
      <4>1. At(m, t) = i + 1
        BY <2>6 DEF At, i
      <4>2. CASE i = DataBits - 1
        BY <1>2, <3>1, <3>3, <4>1, <4>2 DEF At, s, AfterData, StopAt
      <4>3. CASE i # DataBits - 1
        BY <1>2, <3>1, <3>3, <3>4, <3>5, <4>1, <4>3 DEF At
      <4> QED
        BY <4>2, <4>3
    <3>10. TxHas(m, q, b)
      <4>1. q.state = "DATA" => q.idx = i + 1
        BY <3>3, <3>4, <3>5
      <4> QED
        BY <2>6, <3>3, <3>4, <3>6, <4>1 DEF TxHas
    <3>11. TxIs(m, q, BaudClk(baud))
      <4>1. q.state = "DATA" => q.idx <= DataBits - 1
        BY <1>2, <3>1, <3>3, <3>4, <3>5
      <4>2. 0 <= Oversample - 1
        BY <1>2
      <4> QED
        BY <1>1, <3>3, <3>4, <3>8, <4>1, <4>2 DEF TxIs
    <3> QED
      BY <1>5, <2>2, <2>3, <3>3, <3>4, <3>9, <3>10, <3>11 DEF TxLeft
  <2>7. CASE t.state = "PARITY"
    <3>1. q = [t EXCEPT !.out = TxLine(t), !.cnt = 0, !.done = FALSE, !.state = "STOP"]
      BY <1>1, <2>1, <2>7 DEF TxClock
    <3>2. q.out = TxLine(t) /\ q.done = FALSE /\ q.state = "STOP" /\ q.data = t.data
          /\ q.idx = t.idx /\ q.cnt = 0 /\ q.parity = t.parity
      BY <1>1, <3>1
    <3>3. q \in Regs(q.parity, q.out)
      <4>1. 0 \in 0 .. 15 /\ "STOP" \in States
        BY DEF States
      <4> QED
        BY <1>1, <3>1, <3>2, <4>1
    <3>4. TxHas(m, q, b)
      BY <3>2 DEF TxHas
    <3>5. At(m, q) = At(m, t) + 1
      BY <1>2, <2>7, <3>2 DEF At, StopAt, TxIs
    <3>6. TxIs(m, q, BaudClk(baud))
      BY <1>1, <1>2, <3>2, <3>3 DEF TxIs
    <3> QED
      BY <1>5, <2>2, <2>3, <3>2, <3>4, <3>5, <3>6 DEF TxLeft
  <2> QED
    BY <2>1, <2>5, <2>6, <2>7
<1> QED
  BY <1>4, <1>5

\* The end of the stop bit is the done tick.
LEMMA TxEnds ==
    ASSUME RatesFit, NEW m \in {0, 1}, NEW t, NEW baud, TxIs(m, t, baud),
           t.state = "STOP", TxLeft(t, baud) = 0,
           NEW start \in BOOLEAN, NEW data, NEW q,
           q = TxClock(m, t, BaudTick(baud), start, data)
    PROVE  TxIs(m, q, BaudClk(baud)) /\ q.out = 1 /\ q.done /\ q.state = "IDLE"
<1> DEFINE Regs(x, y) == [state : States, cnt : 0 .. 15, data : Word, idx : 0 .. 7,
                          parity : {x}, out : {y}, done : BOOLEAN]
           c == CountTick(t.cnt, BaudTick(baud))
<1>1. t \in Regs(t.parity, t.out) /\ baud \in 0 .. T - 1 /\ ~ TxAccepts(t, start)
      /\ t.cnt \in 0 .. 15
  BY DEF TxIs, TxAccepts
<1>2. BaudClk(baud) \in 0 .. T - 1
  BY <1>1, BaudStep
<1>3. BitOver(t, BaudTick(baud))
  BY TxAtFacts
<1>4. c \in 0 .. 15
  <2>1. BaudTick(baud) \in BOOLEAN
    BY DEF BaudTick
  <2> QED
    BY <1>1, <2>1, TickStep
<1>5. q = [t EXCEPT !.out = 1, !.cnt = c, !.done = TRUE, !.state = "IDLE"]
  BY <1>1, <1>3 DEF TxClock, TxLine
<1> HIDE DEF c
<1>6. q.out = 1 /\ q.done = TRUE /\ q.state = "IDLE" /\ q.data = t.data
      /\ q.idx = t.idx /\ q.cnt = c /\ q.parity = t.parity
  BY <1>1, <1>5
<1>7. q \in Regs(q.parity, q.out)
  <2>1. "IDLE" \in States
    BY DEF States
  <2> QED
    BY <1>1, <1>4, <1>5, <1>6, <2>1
<1> QED
  BY <1>2, <1>6, <1>7 DEF TxIs

-----------------------------------------------------------------------------
\* The rest of a queue once what is reported or sent has been taken off.
After(done, s) == IF done THEN Tail(s) ELSE s

\* The receiver in any behaviour, and what it reports.
RxOk == RxIs(mode, rx, rx_baud) /\ ~ rx.err /\ ~ parity_err
RxReports == rx.done => pending # << >> /\ rx.data = Head(pending)

\* The bit on the SoC's line, and the clocks since the line fell.
SocAt == DataBits + 2 - Len(frame)
Elapsed == SocAt * bit + bit - 1 - clks

\* The line carries the rest of the frame of b, and the receiver has registered
\* what it showed a clock ago.
SocSends(b) ==
    /\ frame # << >> /\ Len(frame) <= DataBits + 2 /\ clks \in 0 .. bit - 1
    /\ frame \in Seq({BitOf(0, b, k) : k \in 0 .. DataBits + 1})
    /\ \A i \in 1 .. Len(frame) : frame[i] = BitOf(0, b, SocAt + i - 1)
SocSeen(b) ==
    rx.in = IF Elapsed = 0 THEN 1
            ELSE BitOf(0, b, IF clks < bit - 1 THEN SocAt ELSE SocAt - 1)

\* Before, in and behind the frame.
SocAhead(b) == rx.state = "IDLE" /\ ~ rx.done /\ Elapsed \in {0, 1} /\ pending = <<b>>
SocFollows(b) ==
    /\ rx.state # "IDLE" /\ pending = <<b>> /\ Got(rx, b) /\ Elapsed >= 2
    /\ RxPhase(0, rx, rx_baud) + Elapsed \in Half + 2 .. Half + T + 1
SocDone ==
    /\ rx.state = "IDLE" /\ rx.in = 1
    /\ pending = IF rx.done THEN <<rx.data>> ELSE << >>

SocFrame(b) ==
    /\ SocSends(b) /\ SocSeen(b)
    /\ \/ SocAhead(b) \/ SocFollows(b)
       \/ SocDone /\ SocAt = DataBits + 1 /\ clks < bit - 1

SocInv ==
    /\ mode = 0 /\ bit \in BitClks
    /\ \/ frame = << >> /\ SocDone
       \/ \E b \in Payload : SocFrame(b)

\* A bit that is as long as RatesFit allows is still there when it is sampled.
LEMMA SampleInBit ==
    ASSUME RatesFit, NEW b \in BitClks, NEW k \in 1 .. DataBits, NEW s \in Half + 1 .. Half + T
    PROVE  k * b <= s + k * Bit /\ s + k * Bit < (k + 1) * b
<1> DEFINE n == DataBits + 1
<1>1. /\ b \in Nat /\ Half \in Nat /\ T \in Nat /\ T >= 1 /\ Bit \in Nat /\ n \in 2 .. 9
      /\ Half + 2 * T <= Bit /\ k \in Nat /\ k + 1 <= n /\ k >= 1
  BY RateFacts, LinkAssumption DEF LinkAssumption
<1>2. Half + T + n * Bit + 2 <= (n + 1) * b /\ n * b <= Half + n * Bit + 2
  <2>1. DataBits + 2 = n + 1
    BY RateFacts
  <2> QED
    BY <2>1 DEF RatesFit
<1> HIDE DEF n
<1>3. /\ k * b \in Nat /\ k * Bit \in Nat /\ n * b \in Nat /\ n * Bit \in Nat
      /\ (k + 1) * b = k * b + b /\ (n + 1) * b = n * b + b
  BY <1>1
<1>4. CASE b >= Bit
  <2> DEFINE g == b - Bit
  <2>1. g \in Nat /\ b = Bit + g
    BY <1>1, <1>4
  <2> HIDE DEF g
  <2>2. k * b = k * Bit + k * g /\ n * b = n * Bit + n * g
    BY <1>1, <2>1
  <2>3. g * (k + 1) <= g * n
    BY <1>1, <2>1, MulMonoWeak
  <2>4. g * (k + 1) = k * g + g /\ g * n = n * g /\ k * g \in Nat /\ n * g \in Nat
    BY <1>1, <2>1
  <2>5. k * g <= s
    <3>1. k * g + g <= Half + 2
      <4>1. n * g <= Half + 2
        BY <1>1, <1>2, <1>3, <2>2, <2>4
      <4>2. k * g + g <= n * g
        BY <2>3, <2>4
      <4> QED
        BY <1>1, <2>1, <2>4, <4>1, <4>2
    <3>2. CASE g = 0
      BY <1>1, <3>2
    <3>3. CASE g # 0
      BY <1>1, <2>1, <2>4, <3>1, <3>3
    <3> QED
      BY <3>2, <3>3
  <2> QED
    BY <1>1, <1>3, <2>1, <2>2, <2>4, <2>5
<1>5. CASE b < Bit
  <2> DEFINE h == Bit - b
  <2>1. h \in Nat /\ Bit = b + h
    BY <1>1, <1>5
  <2> HIDE DEF h
  <2>2. k * Bit = k * b + k * h /\ n * Bit = n * b + n * h
    BY <1>1, <2>1
  <2>3. h * k <= h * n
    BY <1>1, <2>1, MulMonoWeak
  <2>4. h * k = k * h /\ h * n = n * h /\ k * h \in Nat /\ n * h \in Nat
    BY <1>1, <2>1
  <2> QED
    BY <1>1, <1>2, <1>3, <2>2, <2>3, <2>4
<1> QED
  BY <1>1, <1>4, <1>5

\* Two multiples that are less than one apart are the same.
LEMMA SameMultiple ==
    ASSUME NEW n \in Nat, NEW j \in Nat, NEW k \in Nat, NEW x \in Int,
           j * n <= x, x < (j + 1) * n, k * n <= x, x < (k + 1) * n
    PROVE  j = k
<1>1. n * j = j * n /\ n * k = k * n /\ (j + 1) * n = n * j + n /\ (k + 1) * n = n * k + n
      /\ n * j \in Int /\ n * k \in Int
  OBVIOUS
<1>2. CASE j < k
  <2>1. n * j + n <= n * k
    BY <1>2, MulMono
  <2> QED
    BY <1>1, <2>1
<1>3. CASE k < j
  <2>1. n * k + n <= n * j
    BY <1>3, MulMono
  <2> QED
    BY <1>1, <2>1
<1> QED
  BY <1>2, <1>3

\* The SoC's line from clock to clock.
LEMMA SocLine ==
    ASSUME NEW b, SocSends(b), bit \in Nat, peer = "soc", Send
    PROVE  /\ Line = BitOf(0, b, SocAt) /\ SocAt \in 0 .. DataBits + 1
           /\ \/ /\ SocSends(b)' /\ Elapsed' = Elapsed + 1
                 /\ SocAt = IF clks' < bit - 1 THEN SocAt' ELSE SocAt' - 1
                 /\ SocAt' = IF clks > 0 THEN SocAt ELSE SocAt + 1
                 /\ clks > 0 => clks' < bit - 1
              \/ frame' = << >> /\ SocAt = DataBits + 1 /\ Elapsed = (DataBits + 2) * bit - 1
<1> DEFINE S == {BitOf(0, b, k) : k \in 0 .. DataBits + 1}
           n == Len(frame)
<1>1. DataBits \in 1 .. 8
  BY UartAssumption DEF UartAssumption
<1>2. frame \in Seq(S) /\ frame # << >> /\ n \in 1 .. DataBits + 2 /\ clks \in 0 .. bit - 1
  <2>1. frame \in Seq(S) /\ frame # << >> /\ Len(frame) <= DataBits + 2 /\ clks \in 0 .. bit - 1
    BY DEF SocSends
  <2>2. Len(frame) \in Nat /\ Len(frame) # 0
    BY <2>1, EmptySeq
  <2> QED
    BY <1>1, <2>1, <2>2
<1>3. bit' = bit /\ frame # << >>
  BY <1>2 DEF Send, Receiver
<1>4. Line = BitOf(0, b, SocAt)
  <2>1. Line = frame[1]
    BY <1>2 DEF Line
  <2>2. 1 \in 1 .. Len(frame) /\ SocAt + 1 - 1 = SocAt
    BY <1>1, <1>2 DEF SocAt
  <2>3. frame[1] = BitOf(0, b, SocAt + 1 - 1)
    BY <2>2 DEF SocSends
  <2> QED
    BY <2>1, <2>2, <2>3
<1>5. SocAt \in 0 .. DataBits + 1
  BY <1>1, <1>2 DEF SocAt
<1>6. CASE clks > 0
  <2>1. frame' = frame /\ clks' = clks - 1
    BY <1>6 DEF Send
  <2>2. SocAt' = SocAt
    BY <2>1 DEF SocAt
  <2>3. clks' \in 0 .. bit - 1 /\ clks' < bit - 1
    BY <1>2, <1>6, <2>1
  <2>4. SocSends(b)'
    BY <1>2, <1>3, <2>1, <2>2, <2>3 DEF SocSends
  <2>5. Elapsed' = Elapsed + 1
    <3> DEFINE x == SocAt * bit
    <3>1. Elapsed = x + bit - 1 - clks /\ Elapsed' = x + bit - 1 - (clks - 1)
      BY <1>3, <2>1, <2>2 DEF Elapsed
    <3>2. bit \in Int /\ x \in Int
      BY <1>2, <1>5
    <3> HIDE DEF x
    <3> QED
      BY <1>2, <3>1, <3>2
  <2> QED
    BY <1>4, <1>5, <1>6, <2>2, <2>3, <2>4, <2>5
<1>7. CASE clks = 0 /\ n > 1
  <2>1. frame' = Tail(frame) /\ clks' = bit - 1
    BY <1>7 DEF Send
  <2>2. Tail(frame) \in Seq(S) /\ Len(Tail(frame)) = n - 1
        /\ \A i \in 1 .. n - 1 : Tail(frame)[i] = frame[i + 1]
    BY <1>2
  <2>3. SocAt' = SocAt + 1 /\ Len(frame') = n - 1
    BY <1>1, <1>2, <2>1, <2>2 DEF SocAt
  <2>4. clks' \in 0 .. bit - 1 /\ bit \in Int
    BY <1>2, <2>1
  <2>5. frame' # << >>
    <3>1. Len(frame') # 0
      BY <1>7, <2>3
    <3> QED
      BY <3>1
  <2>6. \A i \in 1 .. Len(frame') : frame'[i] = BitOf(0, b, SocAt' + i - 1)
    <3> SUFFICES ASSUME NEW i \in 1 .. Len(frame')
                 PROVE  frame'[i] = BitOf(0, b, SocAt' + i - 1)
      OBVIOUS
    <3>1. i \in 1 .. n - 1 /\ i + 1 \in 1 .. n
      BY <1>2, <2>3
    <3>2. frame[i + 1] = BitOf(0, b, SocAt + (i + 1) - 1)
      BY <3>1 DEF SocSends
    <3>3. SocAt' + i - 1 = SocAt + (i + 1) - 1
      BY <1>5, <2>3, <3>1
    <3> QED
      BY <2>1, <2>2, <3>1, <3>2, <3>3
  <2>7. SocSends(b)'
    <3>1. Len(frame') <= DataBits + 2
      BY <1>1, <1>2, <2>3
    <3>2. clks' \in 0 .. bit' - 1
      BY <1>3, <2>4
    <3> QED
      BY <2>1, <2>2, <2>5, <2>6, <3>1, <3>2 DEF SocSends
  <2>8. Elapsed' = Elapsed + 1
    <3> DEFINE x == SocAt * bit
    <3>1. Elapsed = x + bit - 1 - 0 /\ Elapsed' = (SocAt + 1) * bit + bit - 1 - (bit - 1)
      BY <1>3, <1>7, <2>1, <2>3 DEF Elapsed
    <3>2. bit \in Int /\ x \in Int /\ (SocAt + 1) * bit = x + bit
      BY <2>4, <1>5
    <3> HIDE DEF x
    <3> QED
      BY <3>1, <3>2
  <2> QED
    BY <1>4, <1>5, <1>7, <2>1, <2>3, <2>4, <2>7, <2>8
<1>8. CASE clks = 0 /\ n = 1
  <2>1. frame' = Tail(frame)
    BY <1>8 DEF Send
  <2>2. frame' = << >>
    BY <1>2, <1>8, <2>1
  <2>3. SocAt = DataBits + 1
    BY <1>1, <1>8 DEF SocAt
  <2>4. Elapsed = (DataBits + 2) * bit - 1
    <3>1. Elapsed = (DataBits + 1) * bit + bit - 1 - 0
      BY <1>8, <2>3 DEF Elapsed
    <3>2. (DataBits + 2) * bit = (DataBits + 1) * bit + bit /\ (DataBits + 1) * bit \in Int
          /\ bit \in Int
      BY <1>1, <1>2
    <3> QED
      BY <3>1, <3>2
  <2> QED
    BY <1>4, <1>5, <2>2, <2>3, <2>4
<1>9. clks > 0 \/ (clks = 0 /\ n > 1) \/ (clks = 0 /\ n = 1)
  <2>1. clks \in 0 .. bit - 1 /\ n \in 1 .. DataBits + 2
    BY <1>2
  <2> HIDE DEF n
  <2>2. clks \in Nat
    BY <2>1
  <2>3. n \in Nat /\ n >= 1
    BY <2>1, <1>1
  <2> QED
    BY <2>2, <2>3
<1> HIDE DEF n
<1> QED
  BY <1>6, <1>7, <1>8, <1>9

-----------------------------------------------------------------------------
\* What a clock does to the receiver of uart.v.
LEMMA ReceiverStep ==
    ASSUME NEW begun, Receiver(begun), RxOk, RxReports
    PROVE  /\ rx' = RxClock(mode, rx, BaudTick(rx_baud), Line)
           /\ rx_baud' = BaudClk(rx_baud) /\ ~ parity_err'
           /\ pending' = After(rx.done, pending) \o begun
           /\ peer' = peer /\ mode' = mode /\ bit' = bit
BY DEF Receiver, RxOk, RxReports, After

\* Waiting on a high line, the receiver goes on waiting.
LEMMA RxWaits ==
    ASSUME RatesFit, NEW begun, Receiver(begun), RxOk, rx.state = "IDLE", rx.in = 1, RxReports
    PROVE  RxOk' /\ rx'.state = "IDLE" /\ ~ rx'.done /\ rx'.in = Line
<1>1. rx' = RxClock(mode, rx, BaudTick(rx_baud), Line) /\ rx_baud' = BaudClk(rx_baud)
      /\ ~ parity_err' /\ mode' = mode
  BY ReceiverStep
<1>2. /\ RxIs(mode, rx', BaudClk(rx_baud)) /\ rx'.in = Line /\ ~ rx'.done /\ ~ rx'.err
      /\ rx'.state = "IDLE"
  BY <1>1, RxIdle DEF RxOk
<1> QED
  BY <1>1, <1>2 DEF RxOk

\* With the frame reported, nothing is pending.
LEMMA SocReports ==
    ASSUME SocDone
    PROVE  RxReports /\ After(rx.done, pending) = << >>
<1>1. CASE rx.done
  <2>1. <<rx.data>> # << >> /\ Head(<<rx.data>>) = rx.data /\ Tail(<<rx.data>>) = << >>
    OBVIOUS
  <2> QED
    BY <1>1, <2>1 DEF SocDone, RxReports, After
<1>2. CASE ~ rx.done
  BY <1>2 DEF SocDone, RxReports, After
<1> QED
  BY <1>1, <1>2

\* A receiver that follows the SoC's frame samples each data bit in it.
LEMMA SocSamples ==
    ASSUME RatesFit, RxOk, mode = 0, bit \in BitClks, NEW b, SocSends(b), SocSeen(b), SocFollows(b),
           rx.state \in {"DATA", "PARITY"}, RxLeft(rx, rx_baud) = 0
    PROVE  rx.in = BitOf(0, b, At(0, rx))
<1> DEFINE k == At(0, rx)
           s == Elapsed - 1 - k * Bit
           j == IF clks < bit - 1 THEN SocAt ELSE SocAt - 1
<1>1. /\ bit \in Nat /\ bit >= 1 /\ DataBits \in 1 .. 8 /\ Bit \in Nat /\ Half \in Nat /\ T \in Nat
  BY RateFacts, LinkAssumption DEF LinkAssumption
<1>2. clks \in 0 .. bit - 1 /\ SocAt \in 0 .. DataBits + 1
  <2>1. clks \in 0 .. bit - 1 /\ frame # << >> /\ Len(frame) <= DataBits + 2
        /\ frame \in Seq({BitOf(0, b, n) : n \in 0 .. DataBits + 1})
    BY DEF SocSends
  <2>2. Len(frame) \in Nat /\ Len(frame) # 0
    BY <2>1, EmptySeq
  <2> QED
    BY <1>1, <2>1, <2>2 DEF SocAt
<1>3. k \in 1 .. DataBits
  <2>1. rx.state = "DATA"
    BY DEF RxOk, RxIs
  <2> QED
    BY <2>1, AtFacts DEF RxOk
<1>4. Elapsed = SocAt * bit + bit - 1 - clks /\ SocAt * bit \in Int /\ k * Bit \in Int
  BY <1>1, <1>2, <1>3 DEF Elapsed
<1>5. s \in Half + 1 .. Half + T
  <2>1. 0 - k * Bit + Elapsed \in Half + 2 .. Half + T + 1
    BY DEF SocFollows, RxPhase
  <2> HIDE DEF k
  <2> QED
    BY <1>1, <1>2, <1>4, <2>1
<1>6. Elapsed >= 2
  BY DEF SocFollows
<1> HIDE DEF s, k
<1>7. k * bit <= s + k * Bit /\ s + k * Bit < (k + 1) * bit
  BY <1>3, <1>5, SampleInBit
<1>8. s + k * Bit = Elapsed - 1
  BY <1>1, <1>2, <1>4, <1>6 DEF s
<1>9. j \in Nat /\ j * bit <= Elapsed - 1 /\ Elapsed - 1 < (j + 1) * bit
  <2>1. CASE clks < bit - 1
    <3>1. (SocAt + 1) * bit = SocAt * bit + bit
      BY <1>1, <1>2
    <3> QED
      BY <1>1, <1>2, <1>4, <2>1, <3>1
  <2>2. CASE ~ (clks < bit - 1)
    <3>1. clks = bit - 1 /\ Elapsed = SocAt * bit
      BY <1>1, <1>2, <1>4, <2>2
    <3>2. SocAt # 0
      BY <1>1, <1>6, <3>1
    <3>3. SocAt - 1 \in Nat /\ SocAt * bit = (SocAt - 1) * bit + bit /\ (SocAt - 1) * bit \in Int
          /\ (SocAt - 1) + 1 = SocAt
      BY <1>1, <1>2, <3>2
    <3> QED
      BY <1>1, <2>2, <3>1, <3>3
  <2> QED
    BY <2>1, <2>2
<1> HIDE DEF j
<1>10. j = k
  <2>1. Elapsed - 1 \in Int /\ k \in Nat
    BY <1>1, <1>2, <1>3, <1>4
  <2>2. k * bit <= Elapsed - 1 /\ Elapsed - 1 < (k + 1) * bit
    BY <1>7, <1>8
  <2> QED
    BY <1>1, <1>9, <2>1, <2>2, SameMultiple
<1>11. rx.in = BitOf(0, b, j)
  <2>1. Elapsed # 0
    BY <1>4, <1>6
  <2> QED
    BY <2>1 DEF SocSeen, j
<1> QED
  BY <1>10, <1>11 DEF k

\* While the SoC sends, the receiver is ahead of the frame, follows it or has done.
LEMMA SocSendStep ==
    ASSUME RatesFit, RxOk, SocInv, peer = "soc", Send
    PROVE  RxOk' /\ SocInv'
<1>1. PICK b \in Payload : SocFrame(b)
  BY DEF SocInv, Send
<1>2. /\ mode = 0 /\ bit \in BitClks /\ bit \in Nat /\ bit >= 1 /\ DataBits \in 1 .. 8 /\ b \in Word
      /\ Half \in Nat /\ T \in Nat /\ T >= 1 /\ Bit \in Nat
  BY RateFacts, LinkAssumption DEF SocInv, LinkAssumption
<1>3. SocSends(b) /\ SocSeen(b) /\ Receiver(<< >>)
  BY <1>1 DEF SocFrame, Send
<1>4. RxReports
  BY <1>1, <1>2, SocReports DEF SocFrame, SocAhead, SocFollows, RxReports, RxOk, RxIs
<1>5. /\ rx' = RxClock(mode, rx, BaudTick(rx_baud), Line) /\ rx_baud' = BaudClk(rx_baud)
      /\ ~ parity_err' /\ pending' = After(rx.done, pending) \o << >>
      /\ mode' = mode /\ bit' = bit
  BY <1>3, <1>4, ReceiverStep
<1>6. /\ Line = BitOf(0, b, SocAt) /\ SocAt \in 0 .. DataBits + 1
      /\ \/ /\ SocSends(b)' /\ Elapsed' = Elapsed + 1
            /\ SocAt = IF clks' < bit - 1 THEN SocAt' ELSE SocAt' - 1
            /\ SocAt' = IF clks > 0 THEN SocAt ELSE SocAt + 1
            /\ clks > 0 => clks' < bit - 1
         \/ frame' = << >> /\ SocAt = DataBits + 1 /\ Elapsed = (DataBits + 2) * bit - 1
  BY <1>2, <1>3, SocLine
<1>7. clks \in 0 .. bit - 1 /\ Elapsed = SocAt * bit + bit - 1 - clks /\ SocAt * bit \in Nat
      /\ Elapsed \in Nat
  <2>1. clks \in 0 .. bit - 1 /\ Elapsed = SocAt * bit + bit - 1 - clks
    BY <1>3 DEF SocSends, Elapsed
  <2>2. SocAt * bit \in Nat
    BY <1>2, <1>6
  <2> QED
    BY <1>2, <2>1, <2>2
<1>8. /\ (DataBits + 1) * bit \in Nat /\ (DataBits + 2) * bit = (DataBits + 1) * bit + bit
      /\ (DataBits + 1) * bit >= 2 * bit
      /\ (DataBits + 1) * Bit \in Nat
      /\ Half + T + (DataBits + 1) * Bit + 2 <= (DataBits + 2) * bit
      /\ (DataBits + 1) * bit <= Half + (DataBits + 1) * Bit + 2
  <2>1. bit * 2 <= bit * (DataBits + 1)
    BY <1>2, MulMonoWeak
  <2>2. bit * (DataBits + 1) = (DataBits + 1) * bit /\ bit * 2 = 2 * bit
    BY <1>2
  <2>3. (DataBits + 1) * bit \in Nat /\ (DataBits + 2) * bit = (DataBits + 1) * bit + bit
        /\ (DataBits + 1) * Bit \in Nat
    BY <1>2
  <2>4. /\ Half + T + (DataBits + 1) * Bit + 2 <= (DataBits + 2) * bit
        /\ (DataBits + 1) * bit <= Half + (DataBits + 1) * Bit + 2
    BY <1>2 DEF RatesFit
  <2> QED
    BY <2>1, <2>2, <2>3, <2>4
\* The line goes on: the receiver will have seen what it shows now.
<1>9. ASSUME SocSends(b)', Elapsed' = Elapsed + 1, rx'.in = Line,
             SocAt = IF clks' < bit - 1 THEN SocAt' ELSE SocAt' - 1
      PROVE  SocSeen(b)'
  BY <1>5, <1>6, <1>7, <1>9 DEF SocSeen
<1>10. CASE SocAhead(b)
  <2>1. rx.state = "IDLE" /\ ~ rx.done /\ Elapsed \in {0, 1} /\ pending = <<b>>
    BY <1>10 DEF SocAhead
  <2>2. Elapsed # (DataBits + 2) * bit - 1
    BY <1>2, <1>8, <2>1
  <2>3. /\ SocSends(b)' /\ Elapsed' = Elapsed + 1
        /\ SocAt = IF clks' < bit - 1 THEN SocAt' ELSE SocAt' - 1
    BY <1>6, <2>2
  <2>4. pending' = <<b>>
    BY <1>5, <2>1 DEF After
  <2>5. /\ RxIs(mode, rx', BaudClk(rx_baud)) /\ rx'.in = Line /\ ~ rx'.done /\ ~ rx'.err
        /\ rx'.state = IF rx.in = 0 THEN "START" ELSE "IDLE"
        /\ rx.in = 0 => RxLeft(rx', BaudClk(rx_baud)) \in Half .. Half + T - 1
    BY <1>5, <2>1, RxIdle DEF RxOk
  <2>6. RxOk'
    BY <1>5, <2>5 DEF RxOk
  <2>7. CASE Elapsed = 0
    <3>1. rx.in = 1
      BY <1>3, <2>7 DEF SocSeen
    <3>2. SocAhead(b)'
      BY <2>3, <2>4, <2>5, <2>7, <3>1 DEF SocAhead
    <3> QED
      BY <1>2, <1>5, <1>9, <2>3, <2>5, <2>6, <3>2 DEF SocInv, SocFrame
  <2>8. CASE Elapsed = 1
    <3>1. (IF clks < bit - 1 THEN SocAt ELSE SocAt - 1) = 0
      <4>1. CASE SocAt = 0
        <5>1. SocAt * bit = 0
          BY <1>2, <4>1
        <5> QED
          BY <1>2, <1>7, <2>8, <4>1, <5>1
      <4>2. CASE SocAt >= 1
        <5>1. bit * 1 <= bit * SocAt /\ bit * SocAt = SocAt * bit
          BY <1>2, <1>6, <4>2, MulMonoWeak
        <5>2. bit = 1 /\ clks = 0 /\ SocAt * bit = 1
          BY <1>2, <1>7, <2>8, <5>1
        <5>3. SocAt = 1
          BY <1>6, <5>2
        <5> QED
          BY <5>2, <5>3
      <4> QED
        BY <1>6, <4>1, <4>2
    <3>2. rx.in = 0
      BY <1>3, <2>8, <3>1 DEF SocSeen, BitOf
    <3>3. Got(rx', b) /\ rx'.state = "START"
      BY <2>5, <3>2 DEF Got
    <3>4. RxPhase(0, rx', BaudClk(rx_baud)) + 2 \in Half + 2 .. Half + T + 1
      <4>1. At(0, rx') = 0
        BY <3>3 DEF At
      <4>2. 0 * Bit = 0
        BY <1>2
      <4>3. RxPhase(0, rx', BaudClk(rx_baud)) = RxLeft(rx', BaudClk(rx_baud)) - 0
        BY <4>1, <4>2 DEF RxPhase
      <4> QED
        BY <1>2, <2>5, <3>2, <4>3
    <3>5. SocFollows(b)'
      <4>1. Elapsed' = 2
        BY <2>3, <2>8
      <4>2. RxPhase(0, rx, rx_baud)' = RxPhase(0, rx', BaudClk(rx_baud))
        BY <1>5
      <4> QED
        BY <2>4, <3>3, <3>4, <4>1, <4>2 DEF SocFollows
    <3> QED
      BY <1>2, <1>5, <1>9, <2>3, <2>5, <2>6, <3>5 DEF SocInv, SocFrame
  <2> QED
    BY <2>1, <2>7, <2>8
<1>11. CASE SocFollows(b)
  <2>1. /\ rx.state # "IDLE" /\ pending = <<b>> /\ Got(rx, b) /\ Elapsed >= 2
        /\ RxPhase(0, rx, rx_baud) + Elapsed \in Half + 2 .. Half + T + 1
        /\ RxIs(0, rx, rx_baud)
    BY <1>2, <1>11 DEF SocFollows, RxOk
  <2>2. ~ rx.done /\ pending' = <<b>>
    BY <1>5, <2>1 DEF RxIs, After
  <2>3. rx.state \in {"DATA", "PARITY"} /\ RxLeft(rx, rx_baud) = 0 => rx.in = BitOf(0, b, At(0, rx))
    BY <1>2, <1>3, <1>11, SocSamples
  <2>4. Got(rx', b) /\ ~ rx'.err /\ (rx'.done => rx'.data = b)
    BY <1>2, <1>5, <2>1, <2>3, RxGets
  <2>5. rx.state = "DATA" /\ RxLeft(rx, rx_baud) = 0 => rx.in \in {0, 1}
    <3> SUFFICES ASSUME rx.state = "DATA", RxLeft(rx, rx_baud) = 0
                 PROVE  rx.in \in {0, 1}
      OBVIOUS
    <3>1. At(0, rx) \in 1 .. DataBits
      BY <2>1, AtFacts
    <3>2. At(0, rx) - 1 \in 0 .. 7 /\ b \in Nat /\ At(0, rx) # 0 /\ At(0, rx) <= DataBits
      BY <1>2, <3>1 DEF Word
    <3>3. BitOf(0, b, At(0, rx)) = (b \div Pow(At(0, rx) - 1)) % 2
      BY <3>2 DEF BitOf
    <3>4. Pow(At(0, rx) - 1) \in Nat \ {0}
      BY <3>2, PowerStep
    <3> QED
      BY <2>3, <3>2, <3>3, <3>4, DivTwice
  <2>6. /\ At(0, rx) \in 0 .. DataBits + 1 /\ RxLeft(rx, rx_baud) \in 0 .. Bit - 1
        /\ (rx.state = "STOP" <=> At(0, rx) = DataBits + 1)
    <3>1. StopAt(0) = DataBits + 1
      BY DEF StopAt
    <3> QED
      BY <2>1, <3>1, AtFacts
  <2>7. At(0, rx) * Bit \in Nat /\ At(0, rx) * Bit <= (DataBits + 1) * Bit
    <3>1. Bit * At(0, rx) <= Bit * (DataBits + 1)
      BY <1>2, <2>6, MulMonoWeak
    <3>2. Bit * At(0, rx) = At(0, rx) * Bit /\ Bit * (DataBits + 1) = (DataBits + 1) * Bit
          /\ At(0, rx) * Bit \in Nat
      BY <1>2, <2>6
    <3> QED
      BY <3>1, <3>2
  <2>8. RxPhase(0, rx, rx_baud) = RxLeft(rx, rx_baud) - At(0, rx) * Bit
    BY DEF RxPhase
  <2>9. CASE ~ (rx.state = "STOP" /\ RxLeft(rx, rx_baud) = 0)
    <3>1. /\ RxIs(0, rx', BaudClk(rx_baud)) /\ rx'.in = Line
          /\ rx'.state # "IDLE" /\ ~ rx'.done
          /\ RxPhase(0, rx', BaudClk(rx_baud)) = RxPhase(0, rx, rx_baud) - 1
      BY <1>2, <1>5, <2>1, <2>5, <2>9, RxMoves
    <3>2. Elapsed # (DataBits + 2) * bit - 1
      <4>1. CASE RxLeft(rx, rx_baud) = 0
        <5>1. At(0, rx) + 1 <= DataBits + 1
          BY <1>2, <2>6, <2>9, <4>1
        <5>2. Bit * (At(0, rx) + 1) <= Bit * (DataBits + 1)
          BY <1>2, <2>6, <5>1, MulMonoWeak
        <5>3. Bit * (At(0, rx) + 1) = At(0, rx) * Bit + Bit /\ Bit * (DataBits + 1) = (DataBits + 1) * Bit
          BY <1>2, <2>6
        <5>4. Bit >= 1
          BY RateFacts
        <5> QED
          BY <1>2, <1>7, <1>8, <2>1, <2>7, <2>8, <4>1, <5>2, <5>3, <5>4
      <4>2. CASE RxLeft(rx, rx_baud) >= 1
        BY <1>2, <1>7, <1>8, <2>1, <2>6, <2>7, <2>8, <4>2
      <4> QED
        BY <1>2, <2>6, <4>1, <4>2
    <3>3. /\ SocSends(b)' /\ Elapsed' = Elapsed + 1
          /\ SocAt = IF clks' < bit - 1 THEN SocAt' ELSE SocAt' - 1
      BY <1>6, <3>2
    <3>4. SocFollows(b)'
      <4>1. RxPhase(0, rx, rx_baud)' = RxPhase(0, rx', BaudClk(rx_baud))
        BY <1>5
      <4>2. RxPhase(0, rx', BaudClk(rx_baud)) + (Elapsed + 1) \in Half + 2 .. Half + T + 1
        <5>1. RxPhase(0, rx, rx_baud) \in Int
          BY <1>2, <2>6, <2>7, <2>8
        <5> QED
          BY <1>2, <1>7, <2>1, <3>1, <5>1
      <4>3. Elapsed + 1 >= 2
        BY <1>7, <2>1
      <4> QED
        BY <2>2, <2>4, <3>1, <3>3, <4>1, <4>2, <4>3 DEF SocFollows
    <3>5. RxOk'
      BY <1>2, <1>5, <2>4, <3>1 DEF RxOk
    <3> QED
      BY <1>2, <1>5, <1>9, <3>1, <3>3, <3>4, <3>5 DEF SocInv, SocFrame
  <2>10. CASE rx.state = "STOP" /\ RxLeft(rx, rx_baud) = 0
    <3>1. /\ RxIs(0, rx', BaudClk(rx_baud)) /\ rx'.in = Line
          /\ rx'.state = "IDLE" /\ rx'.done
      <4>1. RxNext(0, rx) = "IDLE"
        BY <2>10 DEF RxNext
      <4> QED
        BY <1>2, <1>5, <2>1, <2>10, <4>1, RxSamples
    <3>2. RxOk'
      BY <1>2, <1>5, <2>4, <3>1 DEF RxOk
    <3>3. At(0, rx) * Bit = (DataBits + 1) * Bit
      BY <2>6, <2>10
    <3>4. Elapsed >= (DataBits + 1) * bit /\ Elapsed + 1 <= (DataBits + 2) * bit
      BY <1>2, <1>7, <1>8, <2>1, <2>8, <2>10, <3>3
    <3>5. SocAt = DataBits + 1
      <4>1. SocAt * bit <= Elapsed /\ Elapsed < (SocAt + 1) * bit
        <5>1. (SocAt + 1) * bit = SocAt * bit + bit
          BY <1>2, <1>6
        <5> QED
          BY <1>2, <1>7, <5>1
      <4>2. Elapsed < (DataBits + 2) * bit /\ (DataBits + 1) + 1 = DataBits + 2
        BY <1>2, <1>7, <1>8, <3>4
      <4>3. SocAt \in Nat /\ DataBits + 1 \in Nat /\ Elapsed \in Int
        BY <1>2, <1>6, <1>7
      <4> QED
        BY <1>2, <3>4, <4>1, <4>2, <4>3, SameMultiple
    <3>6. Line = 1
      BY <1>2, <1>6, <3>5 DEF BitOf, StopAt
    <3>7. SocDone'
      <4>1. Tail(<<b>>) = << >> /\ Head(<<b>>) = b /\ <<b>> # << >>
        OBVIOUS
      <4> QED
        BY <2>2, <2>4, <3>1, <3>6, <4>1 DEF SocDone
    <3>8. CASE frame' = << >>
      BY <1>2, <1>5, <3>2, <3>7, <3>8 DEF SocInv
    <3>9. CASE frame' # << >>
      <4>1. /\ SocSends(b)' /\ Elapsed' = Elapsed + 1
            /\ SocAt = IF clks' < bit - 1 THEN SocAt' ELSE SocAt' - 1
            /\ SocAt' = IF clks > 0 THEN SocAt ELSE SocAt + 1
            /\ clks > 0 => clks' < bit - 1
        BY <1>6, <3>9
      <4>2. clks > 0
        <5>1. SUFFICES ASSUME clks = 0 PROVE FALSE
          BY <1>2, <1>7
        <5>2. SocAt' = DataBits + 2
          BY <1>2, <3>5, <4>1, <5>1
        <5>3. SocAt' = DataBits + 2 - Len(frame')
          BY DEF SocAt
        <5>4. frame' \in Seq({BitOf(0, b, n) : n \in 0 .. DataBits + 1})
          BY <4>1 DEF SocSends
        <5>5. Len(frame') \in Nat /\ Len(frame') # 0
          BY <3>9, <5>4, EmptySeq
        <5> QED
          BY <1>2, <5>2, <5>3, <5>5
      <4>3. SocAt' = DataBits + 1 /\ clks' < bit - 1
        BY <3>5, <4>1, <4>2
      <4>4. SocSeen(b)'
        BY <1>9, <3>1, <4>1
      <4> QED
        BY <1>2, <1>5, <3>2, <3>7, <4>1, <4>3, <4>4 DEF SocInv, SocFrame
    <3> QED
      BY <3>8, <3>9
  <2> QED
    BY <2>9, <2>10
<1>12. CASE SocDone /\ SocAt = DataBits + 1 /\ clks < bit - 1
  <2>1. RxOk' /\ rx'.state = "IDLE" /\ ~ rx'.done /\ rx'.in = Line
    BY <1>3, <1>12, RxWaits, SocReports DEF SocDone
  <2>2. Line = 1
    BY <1>2, <1>6, <1>12 DEF BitOf, StopAt
  <2>3. SocDone'
    <3>1. pending' = << >>
      BY <1>5, <1>12, SocReports
    <3> QED
      BY <2>1, <2>2, <3>1 DEF SocDone
  <2>4. CASE frame' = << >>
    BY <1>2, <1>5, <2>1, <2>3, <2>4 DEF SocInv
  <2>5. CASE frame' # << >>
    <3>1. /\ SocSends(b)' /\ Elapsed' = Elapsed + 1
          /\ SocAt = IF clks' < bit - 1 THEN SocAt' ELSE SocAt' - 1
          /\ SocAt' = IF clks > 0 THEN SocAt ELSE SocAt + 1
          /\ clks > 0 => clks' < bit - 1
      BY <1>6, <2>5
    <3>2. clks > 0
      <4>1. SUFFICES ASSUME clks = 0 PROVE FALSE
        BY <1>2, <1>7
      <4>2. SocAt' = DataBits + 2
        BY <1>2, <1>12, <3>1, <4>1
      <4>3. SocAt' = DataBits + 2 - Len(frame')
        BY DEF SocAt
      <4>4. frame' \in Seq({BitOf(0, b, n) : n \in 0 .. DataBits + 1})
        BY <3>1 DEF SocSends
      <4>5. Len(frame') \in Nat /\ Len(frame') # 0
        BY <2>5, <4>4, EmptySeq
      <4> QED
        BY <1>2, <4>2, <4>3, <4>5
    <3>3. SocAt' = DataBits + 1 /\ clks' < bit - 1
      BY <1>12, <3>1, <3>2
    <3>4. SocSeen(b)'
      BY <1>9, <2>1, <3>1
    <3> QED
      BY <1>2, <1>5, <2>1, <2>3, <3>1, <3>3, <3>4 DEF SocInv, SocFrame
  <2> QED
    BY <2>4, <2>5
<1> QED
  BY <1>1, <1>10, <1>11, <1>12 DEF SocFrame

\* Every step with the SoC at the other end.
LEMMA SocStep ==
    ASSUME RatesFit, RxOk, SocInv, peer = "soc", Next
    PROVE  RxOk' /\ SocInv'
<1>1. CASE Send
  BY <1>1, SocSendStep
<1>2. CASE Idle
  <2>1. frame = << >> /\ SocDone /\ Receiver(<< >>) /\ frame' = << >> /\ RxReports
    BY <1>2, SocReports DEF Idle, soc, SocInv, SocFrame, SocSends
  <2>2. RxOk' /\ rx'.state = "IDLE" /\ ~ rx'.done /\ rx'.in = 1
    BY <2>1, RxWaits DEF SocDone, Line
  <2>3. pending' = << >> /\ mode' = mode /\ bit' = bit
    BY <2>1, ReceiverStep, SocReports
  <2> QED
    BY <2>1, <2>2, <2>3 DEF SocInv, SocDone
<1>3. CASE Begin
  <2>1. PICK b \in Payload : frame' = Frame(b) /\ Receiver(<<b>>)
    BY <1>3 DEF Begin
  <2>2. frame = << >> /\ SocDone /\ RxReports /\ clks' = bit - 1
    BY <1>3, SocReports DEF Begin, SocInv, SocFrame, SocSends
  <2>3. RxOk' /\ rx'.state = "IDLE" /\ ~ rx'.done /\ rx'.in = 1
    BY <2>1, <2>2, RxWaits DEF SocDone, Line
  <2>4. pending' = <<b>> /\ mode' = mode /\ bit' = bit
    BY <2>1, <2>2, ReceiverStep, SocReports
  <2>5. mode = 0 /\ bit \in BitClks /\ bit \in Nat /\ bit >= 1 /\ DataBits \in 1 .. 8
    BY RateFacts, LinkAssumption DEF SocInv, LinkAssumption
  <2> DEFINE S == {BitOf(0, b, k) : k \in 0 .. DataBits + 1}
             n == DataBits + 2
  <2>6. n \in Nat /\ n # 0
    BY <2>5
  <2>7. \A i \in 1 .. n : Frame(b)[i] = BitOf(0, b, i - 1) /\ Frame(b)[i] \in S
    <3> SUFFICES ASSUME NEW i \in 1 .. n
                 PROVE  Frame(b)[i] = BitOf(0, b, i - 1) /\ Frame(b)[i] \in S
      OBVIOUS
    <3>0. Frame(b)[i] = IF i = 1 THEN 0 ELSE IF i = DataBits + 2 THEN 1
                        ELSE (b \div 2 ^ (i - 2)) % 2
      BY DEF Frame
    <3>1. Frame(b)[i] = BitOf(0, b, i - 1)
      <4>1. CASE i = 1
        BY <3>0, <4>1 DEF BitOf
      <4>2. CASE i = DataBits + 2
        <5>1. i - 1 = DataBits + 1 /\ i # 1 /\ i - 1 # 0 /\ ~ (i - 1 <= DataBits)
          BY <2>5, <4>2
        <5> QED
          BY <3>0, <4>2, <5>1 DEF BitOf, StopAt
      <4>3. CASE i # 1 /\ i # DataBits + 2
        <5>1. i - 1 # 0 /\ i - 1 <= DataBits /\ (i - 1) - 1 = i - 2
          BY <2>5, <4>3
        <5> QED
          BY <3>0, <4>3, <5>1 DEF BitOf, Pow
      <4> QED
        BY <4>1, <4>2, <4>3
    <3>2. i - 1 \in 0 .. DataBits + 1
      BY <2>5
    <3> QED
      BY <3>1, <3>2
  <2>8. Frame(b) \in [1 .. n -> S]
    BY <2>7 DEF Frame
  <2> HIDE DEF S, n
  <2>9. frame' \in Seq(S) /\ Len(frame') = n
    BY <2>1, <2>6, <2>8, FunctionIsSeq
  <2>10. SocAt' = 0
    BY <2>5, <2>9 DEF SocAt, n
  <2>11. SocSends(b)'
    <3>1. frame' # << >>
      BY <2>6, <2>9
    <3>2. \A i \in 1 .. Len(frame') : frame'[i] = BitOf(0, b, SocAt' + i - 1)
      <4> SUFFICES ASSUME NEW i \in 1 .. Len(frame')
                   PROVE  frame'[i] = BitOf(0, b, SocAt' + i - 1)
        OBVIOUS
      <4>1. i \in 1 .. n /\ SocAt' + i - 1 = i - 1
        BY <2>6, <2>9, <2>10
      <4> QED
        BY <2>1, <2>7, <4>1
    <3>3. clks' \in 0 .. bit' - 1
      BY <2>2, <2>4, <2>5
    <3>4. Len(frame') <= DataBits + 2
      BY <2>5, <2>9 DEF n
    <3> QED
      BY <2>9, <3>1, <3>2, <3>3, <3>4 DEF SocSends, S
  <2>12. Elapsed' = 0
    BY <2>2, <2>4, <2>5, <2>10 DEF Elapsed
  <2>13. SocSeen(b)' /\ SocAhead(b)'
    BY <2>3, <2>4, <2>12 DEF SocSeen, SocAhead
  <2> QED
    BY <2>3, <2>4, <2>5, <2>11, <2>13 DEF SocInv, SocFrame
<1> QED
  BY <1>1, <1>2, <1>3 DEF Next, Clock

-----------------------------------------------------------------------------
\* What is put behind a queue leaves its front alone.
LEMMA QueueGrows ==
    ASSUME NEW S, NEW s \in Seq(S), NEW a \in Seq(S)
    PROVE  /\ s \o a \in Seq(S)
           /\ s # << >> => /\ s \o a # << >> /\ Head(s) \in S /\ Tail(s) \in Seq(S)
                           /\ Head(s \o a) = Head(s) /\ Tail(s \o a) = Tail(s) \o a
<1>1. s \o a \in Seq(S)
  OBVIOUS
<1>2. SUFFICES ASSUME s # << >>
               PROVE  /\ s \o a # << >> /\ Head(s) \in S /\ Tail(s) \in Seq(S)
                      /\ Head(s \o a) = Head(s) /\ Tail(s \o a) = Tail(s) \o a
  BY <1>1
<1>3. /\ Len(s) \in Nat /\ Len(s) # 0 /\ Len(a) \in Nat
      /\ Len(s \o a) = Len(s) + Len(a)
      /\ \A i \in 1 .. Len(s) + Len(a) : (s \o a)[i] = IF i <= Len(s) THEN s[i] ELSE a[i - Len(s)]
  BY <1>2, EmptySeq, ConcatProperties, LenProperties
<1>4. s \o a # << >>
  <2>1. Len(s \o a) # 0
    BY <1>3
  <2> QED
    BY <1>1, <2>1, EmptySeq
<1>5. /\ Head(s) \in S /\ Tail(s) \in Seq(S) /\ Len(Tail(s)) = Len(s) - 1
      /\ \A i \in 1 .. Len(s) - 1 : Tail(s)[i] = s[i + 1]
  BY <1>2, HeadTailProperties
<1>6. Head(s \o a) = Head(s)
  <2>1. 1 \in 1 .. Len(s) + Len(a) /\ 1 <= Len(s)
    BY <1>3
  <2>2. (s \o a)[1] = s[1]
    BY <1>3, <2>1
  <2> QED
    BY <1>1, <1>2, <1>4, <2>2
<1>7. Tail(s \o a) = Tail(s) \o a
  <2> DEFINE x == Tail(s \o a)
             y == Tail(s) \o a
  <2>1. /\ x \in Seq(S) /\ Len(x) = Len(s \o a) - 1
        /\ \A i \in 1 .. Len(x) : x[i] = (s \o a)[i + 1]
    BY <1>1, <1>4, HeadTailProperties
  <2>2. /\ y \in Seq(S) /\ Len(y) = Len(s) - 1 + Len(a)
        /\ \A i \in 1 .. Len(s) - 1 + Len(a) :
              y[i] = IF i <= Len(s) - 1 THEN Tail(s)[i] ELSE a[i - (Len(s) - 1)]
    BY <1>5, ConcatProperties
  <2> HIDE DEF x, y
  <2>3. Len(x) = Len(y) /\ Len(x) = Len(s) - 1 + Len(a)
    BY <1>3, <2>1, <2>2
  <2>4. \A i \in 1 .. Len(x) : x[i] = y[i]
    <3> SUFFICES ASSUME NEW i \in 1 .. Len(x) PROVE x[i] = y[i]
      OBVIOUS
    <3>1. i \in 1 .. Len(s) - 1 + Len(a) /\ i + 1 \in 1 .. Len(s) + Len(a)
      BY <1>3, <2>3
    <3>2. x[i] = IF i + 1 <= Len(s) THEN s[i + 1] ELSE a[(i + 1) - Len(s)]
      BY <1>3, <2>1, <3>1
    <3>3. y[i] = IF i <= Len(s) - 1 THEN Tail(s)[i] ELSE a[i - (Len(s) - 1)]
      BY <2>2, <3>1
    <3>4. i - (Len(s) - 1) = (i + 1) - Len(s) /\ (i <= Len(s) - 1 <=> i + 1 <= Len(s))
      BY <1>3, <3>1
    <3>5. i <= Len(s) - 1 => Tail(s)[i] = s[i + 1]
      BY <1>3, <1>5, <3>1
    <3> QED
      BY <3>2, <3>3, <3>4, <3>5
  <2>5. x = y
    BY <2>1, <2>2, <2>3, <2>4, SeqEqual
  <2> QED
    BY <2>5 DEF x, y
<1> QED
  BY <1>4, <1>5, <1>6, <1>7

-----------------------------------------------------------------------------
\* The clocks that the transmitter has spent in its state, and the bit that
\* it was sending n clocks ago, for n = 1, 2; nobody looks that far back in
\* the start bit.
Past == Bit - 1 - TxLeft(tx, tx_baud)
Shown(n) == IF tx.state = "START" \/ Past >= n THEN At(mode, tx) ELSE At(mode, tx) - 1

\* Both ends are idle, or have just finished a frame.
Both ==
    /\ tx.state = "IDLE" /\ rx.state = "IDLE" /\ tx.out = 1 /\ rx.in = 1
    /\ tx.done => queue # << >>
    /\ RxReports /\ After(rx.done, pending) = After(tx.done, queue)

\* The transmitter has finished and the receiver is about to.
TxAhead ==
    /\ tx.state = "IDLE" /\ rx.state = "STOP" /\ tx.out = 1 /\ rx.in = 1
    /\ tx.done => queue # << >>
    /\ RxLeft(rx, rx_baud) <= IF tx.done THEN 1 ELSE 0
    /\ pending # << >> /\ rx.data = Head(pending)
    /\ After(tx.done, queue) = Tail(pending)

\* The transmitter began a frame n clocks ago, which the receiver does not see yet.
Starts(n) ==
    /\ tx.state = "START" /\ rx.state = "IDLE"
    /\ TxLeft(tx, tx_baud) + n \in Bit - T .. Bit - 1
    /\ tx.out = (IF n = 0 THEN 1 ELSE 0) /\ rx.in = (IF n < 2 THEN 1 ELSE 0)
    /\ n > 0 => ~ rx.done
    /\ RxReports /\ After(rx.done, pending) = queue

\* The receiver follows a frame of b, between half a bit and that and two ticks
\* behind the transmitter.
Follows(b) ==
    /\ rx.state # "IDLE" /\ pending = queue /\ Got(rx, b)
    /\ tx.out = BitOf(mode, b, Shown(1)) /\ rx.in = BitOf(mode, b, Shown(2))
    /\ RxPhase(mode, rx, rx_baud) + TxPhase(mode, tx, tx_baud) \in Half + 2 .. Half + 2 * T

\* The receiver has reported the byte whose stop bit is still being sent.
RxAhead ==
    /\ tx.state = "STOP" /\ rx.state = "IDLE" /\ tx.out = 1 /\ rx.in = 1
    /\ RxReports /\ After(rx.done, pending) = Tail(queue)

\* The empty flag may hide an entry, but not one that is being sent or popped.
FlagOk ==
    /\ q_empty \in BOOLEAN
    /\ ~ q_empty => queue # << >>
    /\ tx.state # "IDLE" \/ tx.done => ~ q_empty

Sends(b) == tx.state # "IDLE" /\ queue # << >> /\ b = Head(queue) /\ TxHas(mode, tx, b)

BoardOk ==
    /\ mode \in {0, 1} /\ queue \in Seq(Payload) /\ pending \in Seq(Payload)
    /\ TxIs(mode, tx, tx_baud)

BoardInv ==
    /\ BoardOk /\ FlagOk
    /\ \/ Both \/ TxAhead
       \/ \E b \in Payload :
             /\ Sends(b)
             /\ (\E n \in 0 .. 2 : Starts(n)) \/ Follows(b) \/ RxAhead

\* A clock of both boards, in which `a' is queued.
Ticks(a) ==
    /\ tx' = TxClock(mode, tx, BaudTick(tx_baud), ~ q_empty, TxData)
    /\ tx_baud' = BaudClk(tx_baud)
    /\ rx' = RxClock(mode, rx, BaudTick(rx_baud), tx.out)
    /\ rx_baud' = BaudClk(rx_baud)
    /\ queue' = After(tx.done, queue) \o a
    /\ pending' = After(rx.done, pending) \o a
    /\ ~ parity_err' /\ mode' = mode /\ peer' = peer

\* In the situations of BoardInv, a clock is Ticks.
LEMMA ClockTicks ==
    ASSUME RatesFit, RxOk, BoardInv, peer = "board", Clock
    PROVE  \E a \in Seq(Payload) : Ticks(a) /\ Receiver(a) /\ q_empty' = NextEmpty(a)
<1>1. PICK a \in Arrivals : queue' = Popped \o a /\ Receiver(a) /\ q_empty' = NextEmpty(a)
  BY DEF Clock
<1>2. a \in Seq(Payload)
  <2>1. a = << >> \/ \E c \in Payload : a = <<c>>
    BY DEF Arrivals
  <2>2. \A c \in Payload : <<c>> \in Seq(Payload)
    OBVIOUS
  <2>3. << >> \in Seq(Payload)
    OBVIOUS
  <2> QED
    BY <2>1, <2>2, <2>3, Zenon
<1>3. RxReports
  BY DEF BoardInv, Both, TxAhead, Starts, Follows, RxAhead, RxReports, RxOk, RxIs
<1>4. tx.done => ~ q_empty
  BY DEF BoardInv, FlagOk
<1>5. Popped = After(tx.done, queue)
  BY <1>4 DEF Popped, Read, After
<1>6. Line = tx.out
  BY DEF Line
<1>7. /\ tx' = TxClock(mode, tx, BaudTick(tx_baud), ~ q_empty, TxData)
      /\ tx_baud' = BaudClk(tx_baud)
  BY DEF Clock, TxStart
<1>8. Ticks(a)
  BY <1>1, <1>3, <1>5, <1>6, <1>7, ReceiverStep DEF Ticks
<1> QED
  BY <1>1, <1>2, <1>8

\* The bits that a transmitter in the middle of a frame has shown.
LEMMA LineFollows ==
    ASSUME RatesFit, BoardOk, NEW a, Ticks(a), NEW b \in Word, tx.state # "IDLE", TxHas(mode, tx, b),
           ~ (tx.state = "STOP" /\ TxLeft(tx, tx_baud) = 0)
    PROVE  /\ TxIs(mode', tx', tx_baud') /\ ~ tx'.done /\ tx'.state # "IDLE" /\ TxHas(mode', tx', b)
           /\ tx'.out = BitOf(mode, b, Shown(1)') /\ Shown(2)' = Shown(1)
           /\ TxPhase(mode, tx, tx_baud)' = TxPhase(mode, tx, tx_baud) + 1
           /\ TxPhase(mode, tx, tx_baud) \in Int
<1> DEFINE j == At(mode, tx)
           l == TxLeft(tx, tx_baud)
           q == tx'
           jq == At(mode, q)
           lq == TxLeft(q, BaudClk(tx_baud))
<1>1. /\ TxIs(mode, q, BaudClk(tx_baud)) /\ q.out = TxLine(tx) /\ ~ q.done
      /\ q.state # "IDLE" /\ TxHas(mode, q, b)
      /\ l # 0 => q.state = tx.state /\ jq = j /\ lq = l - 1
      /\ l = 0 => jq = j + 1 /\ lq = Bit - 1
  <2>1. mode \in {0, 1} /\ TxIs(mode, tx, tx_baud)
    BY DEF BoardOk
  <2>2. PICK start \in BOOLEAN : start = (~ q_empty)
    OBVIOUS
  <2>3. q = TxClock(mode, tx, BaudTick(tx_baud), start, TxData)
    BY <2>2 DEF Ticks
  <2> HIDE DEF q
  <2> QED
    BY <2>1, <2>3, TxMoves
<1>2. TxLine(tx) = BitOf(mode, b, j)
  BY TxShows DEF BoardOk
<1>3. j \in Nat /\ l \in 0 .. Bit - 1 /\ (tx.state = "START" <=> j = 0)
  <2>1. TxIs(mode, tx, tx_baud) /\ mode \in {0, 1}
    BY DEF BoardOk
  <2>2. /\ j \in 0 .. StopAt(mode) /\ StopAt(mode) \in 2 .. 10
        /\ l \in 0 .. Bit - 1 /\ (tx.state = "START" <=> j = 0)
    BY <2>1, TxAtFacts
  <2> QED
    BY <2>2
<1>4. jq \in Nat /\ (q.state = "START" <=> jq = 0)
  BY <1>1, TxAtFacts DEF BoardOk
<1>5. Bit \in Nat /\ Bit >= 4
  BY RateFacts
<1>6. mode' = mode /\ tx_baud' = BaudClk(tx_baud)
  BY DEF Ticks
<1>7. /\ Past = Bit - 1 - l /\ Past' = Bit - 1 - lq
      /\ Shown(1) = (IF tx.state = "START" \/ Past >= 1 THEN j ELSE j - 1)
      /\ Shown(1)' = (IF q.state = "START" \/ Past' >= 1 THEN jq ELSE jq - 1)
      /\ Shown(2)' = (IF q.state = "START" \/ Past' >= 2 THEN jq ELSE jq - 1)
  BY <1>6 DEF Past, Shown
<1>8. /\ TxPhase(mode, tx, tx_baud) = (j + 1) * Bit - 2 - l
      /\ TxPhase(mode, tx, tx_baud)' = (jq + 1) * Bit - 2 - lq
  BY <1>6 DEF TxPhase
<1> HIDE DEF j, l, jq, lq
<1>9. j * Bit \in Nat /\ (j + 1) * Bit = j * Bit + Bit
  BY <1>3, <1>5
<1>10. CASE l # 0
  <2>1. Past' = Past + 1 /\ Past \in Nat
    BY <1>1, <1>3, <1>5, <1>7, <1>10
  <2>2. Shown(1)' = j /\ Shown(2)' = Shown(1)
    BY <1>1, <1>3, <1>7, <1>10, <2>1
  <2>3. (j + 1) * Bit - 2 - lq = (j + 1) * Bit - 2 - l + 1 /\ (j + 1) * Bit - 2 - l \in Int
    BY <1>1, <1>3, <1>5, <1>9, <1>10
  <2> QED
    BY <1>1, <1>2, <1>6, <1>8, <1>10, <2>2, <2>3
<1>11. CASE l = 0
  <2>1. Past' = 0 /\ Past = Bit - 1 /\ jq = j + 1 /\ q.state # "START"
    BY <1>1, <1>3, <1>4, <1>5, <1>7, <1>11
  <2>2. Shown(1)' = j /\ Shown(2)' = j /\ Shown(1) = j
    BY <1>3, <1>5, <1>7, <2>1
  <2>3. (jq + 1) * Bit = j * Bit + Bit + Bit
    BY <1>3, <1>5, <1>9, <2>1
  <2>4. (jq + 1) * Bit - 2 - lq = (j + 1) * Bit - 2 - l + 1 /\ (j + 1) * Bit - 2 - l \in Int
    BY <1>1, <1>3, <1>5, <1>9, <1>11, <2>3
  <2> QED
    BY <1>1, <1>2, <1>6, <1>8, <2>2, <2>4
<1> QED
  BY <1>10, <1>11

\* Where transmitter and receiver are, told by the phases.
LEMMA PhasesTell ==
    ASSUME RatesFit, RxOk, BoardOk, NEW b, Follows(b), tx.state # "IDLE",
           NEW j, j = At(mode, tx), NEW k, k = At(mode, rx)
    PROVE  /\ j \in Nat /\ k \in Nat /\ Past \in 0 .. Bit - 1
           /\ j * Bit \in Nat /\ k * Bit \in Nat
           /\ RxLeft(rx, rx_baud) \in 0 .. Bit - 1
           /\ RxLeft(rx, rx_baud) + j * Bit + Past - 1 - k * Bit \in Half + 2 .. Half + 2 * T
<1>1. /\ j \in Nat /\ TxLeft(tx, tx_baud) \in 0 .. Bit - 1
  BY TxAtFacts DEF BoardOk
<1>2. k \in Nat /\ RxLeft(rx, rx_baud) \in 0 .. Bit - 1
  BY AtFacts DEF BoardOk, RxOk, Follows
<1>3. Bit \in Nat /\ Half \in Nat /\ T \in Nat
  BY RateFacts
<1>4. j * Bit \in Nat /\ k * Bit \in Nat /\ (j + 1) * Bit = j * Bit + Bit
  BY <1>1, <1>2, <1>3
<1>5. Past = Bit - 1 - TxLeft(tx, tx_baud) /\ Past \in 0 .. Bit - 1
  BY <1>1, <1>3 DEF Past
<1>6. /\ RxPhase(mode, rx, rx_baud) = RxLeft(rx, rx_baud) - k * Bit
      /\ TxPhase(mode, tx, tx_baud) = (j + 1) * Bit - 2 - TxLeft(tx, tx_baud)
  BY DEF RxPhase, TxPhase
<1>7. RxPhase(mode, rx, rx_baud) + TxPhase(mode, tx, tx_baud) \in Half + 2 .. Half + 2 * T
  BY DEF Follows
<1> QED
  BY <1>1, <1>2, <1>3, <1>4, <1>5, <1>6, <1>7

\* A receiver that follows a board's frame samples each bit in it.
LEMMA BoardSamples ==
    ASSUME RatesFit, RxOk, BoardOk, NEW b, Follows(b), tx.state # "IDLE",
           rx.state \in {"DATA", "PARITY"}, RxLeft(rx, rx_baud) = 0
    PROVE  rx.in = BitOf(mode, b, At(mode, rx))
<1>1. PICK j : j = At(mode, tx)
  OBVIOUS
<1>2. PICK k : k = At(mode, rx)
  OBVIOUS
<1>3. PICK x : x = k * Bit + (j * Bit + Past - 1 - k * Bit) - 1
  OBVIOUS
<1>4. /\ j \in Nat /\ k \in Nat /\ Past \in 0 .. Bit - 1 /\ j * Bit \in Nat /\ k * Bit \in Nat
      /\ 0 + j * Bit + Past - 1 - k * Bit \in Half + 2 .. Half + 2 * T
  BY <1>1, <1>2, PhasesTell
<1>5. k >= 1
  BY <1>2, AtFacts DEF BoardOk, RxOk
<1>6. Bit \in Nat /\ Bit >= 4 /\ Half \in Nat /\ T \in Nat /\ Half + 2 * T <= Bit
  BY RateFacts
<1>7. tx.state = "START" => j = 0
  BY <1>1, TxAtFacts DEF BoardOk
<1>8. x \in Int /\ x = j * Bit + Past - 2
  BY <1>3, <1>4, <1>6
<1>9. (k + 1) * Bit = k * Bit + Bit /\ k * Bit >= Bit
  <2>1. Bit * 1 <= Bit * k /\ Bit * k = k * Bit
    BY <1>4, <1>5, <1>6, MulMonoWeak
  <2> QED
    BY <1>4, <1>6, <2>1
<1>10. k * Bit <= x /\ x < (k + 1) * Bit
  BY <1>4, <1>6, <1>8, <1>9
<1>11. j # 0
  <2> SUFFICES ASSUME j = 0 PROVE FALSE
    OBVIOUS
  <2>1. j * Bit = 0
    BY <1>6
  <2> QED
    BY <1>4, <1>6, <1>8, <1>9, <1>10, <2>1
<1>12. PICK s : s = IF Past >= 2 THEN j ELSE j - 1
  OBVIOUS
<1>13. s \in Nat /\ s * Bit <= x /\ x < (s + 1) * Bit
  <2>1. CASE Past >= 2
    <3>1. s = j /\ (j + 1) * Bit = j * Bit + Bit
      BY <1>4, <1>6, <1>12, <2>1
    <3> QED
      BY <1>4, <1>6, <1>8, <2>1, <3>1
  <2>2. CASE ~ (Past >= 2)
    <3>1. s = j - 1 /\ j - 1 \in Nat
      BY <1>4, <1>11, <1>12, <2>2
    <3>2. j * Bit = (j - 1) * Bit + Bit /\ (j - 1) * Bit \in Int /\ (j - 1) + 1 = j
      BY <1>4, <1>6
    <3> QED
      BY <1>4, <1>6, <1>8, <2>2, <3>1, <3>2
  <2> QED
    BY <2>1, <2>2
<1>14. s = k
  BY <1>4, <1>6, <1>8, <1>10, <1>13, SameMultiple
<1>15. Shown(2) = s
  BY <1>1, <1>7, <1>11, <1>12 DEF Shown
<1> QED
  BY <1>2, <1>14, <1>15 DEF Follows

-----------------------------------------------------------------------------
\* One clock from each of the situations that BoardInv tells apart.

\* The queues stay queues, and keep their front.
LEMMA QueuesStep ==
    ASSUME BoardOk, NEW a \in Seq(Payload), Ticks(a),
           tx.done => queue # << >>, rx.done => pending # << >>
    PROVE  /\ mode' \in {0, 1} /\ queue' \in Seq(Payload) /\ pending' \in Seq(Payload)
           /\ ~ tx.done /\ queue # << >> =>
                 queue' # << >> /\ Head(queue') = Head(queue) /\ Tail(queue') = Tail(queue) \o a
           /\ ~ rx.done /\ pending # << >> =>
                 pending' # << >> /\ Head(pending') = Head(pending)
                 /\ Tail(pending') = Tail(pending) \o a
<1>1. /\ queue' = After(tx.done, queue) \o a /\ pending' = After(rx.done, pending) \o a
      /\ mode' = mode /\ mode \in {0, 1} /\ queue \in Seq(Payload) /\ pending \in Seq(Payload)
  BY DEF Ticks, BoardOk
<1>2. After(tx.done, queue) \in Seq(Payload)
  BY <1>1, QueueGrows DEF After
<1>3. After(rx.done, pending) \in Seq(Payload)
  BY <1>1, QueueGrows DEF After
<1>4. queue' \in Seq(Payload) /\ pending' \in Seq(Payload)
  BY <1>1, <1>2, <1>3
<1>5. ASSUME ~ tx.done, queue # << >>
      PROVE  queue' # << >> /\ Head(queue') = Head(queue) /\ Tail(queue') = Tail(queue) \o a
  BY SMTT(30), <1>1, <1>5, QueueGrows DEF After
<1>6. ASSUME ~ rx.done, pending # << >>
      PROVE  pending' # << >> /\ Head(pending') = Head(pending)
             /\ Tail(pending') = Tail(pending) \o a
  BY SMTT(30), <1>1, <1>6, QueueGrows DEF After
<1> QED
  BY <1>1, <1>4, <1>5, <1>6

\* An idle transmitter stays idle or begins the next frame.
LEMMA TxIdleStep ==
    ASSUME RatesFit, BoardOk, FlagOk, NEW a \in Seq(Payload), Ticks(a), tx.state = "IDLE",
           tx.done => queue # << >>, rx.done => pending # << >>
    PROVE  /\ BoardOk' /\ tx'.out = 1 /\ ~ tx'.done
           /\ \/ tx'.state = "IDLE"
              \/ /\ ~ tx.done /\ tx'.state = "START" /\ queue' = queue \o a
                 /\ TxLeft(tx, tx_baud)' \in Bit - T .. Bit - 1
                 /\ \E b \in Payload : Sends(b)'
           /\ tx.done => tx'.state = "IDLE"
<1>1. /\ mode \in {0, 1} /\ queue \in Seq(Payload) /\ TxIs(mode, tx, tx_baud)
  BY DEF BoardOk
<1>2. PICK start \in BOOLEAN : start = (~ q_empty)
  OBVIOUS
<1>3. start => TxData = Head(queue) /\ Head(queue) \in Payload
  <2>1. start => queue # << >>
    BY <1>2 DEF FlagOk
  <2>2. queue # << >> => TxData = Head(queue)
    BY DEF TxData
  <2>3. queue # << >> => Head(queue) \in Payload
    BY <1>1
  <2> QED
    BY <2>1, <2>2, <2>3
<1>4. Payload \subseteq Word
  BY LinkAssumption DEF LinkAssumption
<1>5. tx' = TxClock(mode, tx, BaudTick(tx_baud), start, TxData) /\ tx_baud' = BaudClk(tx_baud)
      /\ mode' = mode
  BY <1>2 DEF Ticks
<1>6. start => TxData \in Word
  BY <1>3, <1>4
<1>7. /\ TxIs(mode, tx', BaudClk(tx_baud)) /\ tx'.out = 1 /\ ~ tx'.done
      /\ ~ (start /\ ~ tx.done) => tx'.state = "IDLE"
      /\ start /\ ~ tx.done => /\ tx'.state = "START" /\ TxHas(mode, tx', TxData)
                               /\ TxLeft(tx', BaudClk(tx_baud)) \in Bit - T .. Bit - 1
  BY <1>1, <1>5, <1>6, TxIdle
<1>8. BoardOk'
  BY <1>5, <1>7, QueuesStep DEF BoardOk
<1>9. CASE start /\ ~ tx.done
  <2>1. queue' # << >> /\ Head(queue') = Head(queue)
    BY <1>2, <1>9, QueuesStep DEF FlagOk
  <2>2. queue' = queue \o a
    BY <1>9 DEF Ticks, After
  <2>0. PICK b \in Payload : b = Head(queue)
    BY <1>3, <1>9
  <2>3. Sends(b)'
    BY <1>3, <1>5, <1>7, <1>9, <2>0, <2>1 DEF Sends
  <2>4. TxLeft(tx, tx_baud)' \in Bit - T .. Bit - 1
    BY <1>5, <1>7, <1>9
  <2>5. \E c \in Payload : Sends(c)'
    BY <2>3
  <2> QED
    BY <1>7, <1>8, <1>9, <2>2, <2>4, <2>5
<1>10. CASE ~ (start /\ ~ tx.done)
  BY <1>7, <1>8, <1>10
<1> QED
  BY <1>9, <1>10

\* The flag does not hide what is being sent.
LEMMA FlagStep ==
    ASSUME RatesFit, BoardOk, FlagOk, NEW a \in Seq(Payload), Ticks(a), q_empty' = NextEmpty(a)
    PROVE  FlagOk'
<1>1. /\ queue \in Seq(Payload) /\ TxIs(mode, tx, tx_baud) /\ q_empty \in BOOLEAN
      /\ queue' = After(tx.done, queue) \o a
  BY DEF BoardOk, FlagOk, Ticks
<1>2. /\ q_empty' = ((q_empty /\ a = << >>) \/ (Len(queue) = 1 /\ tx.done /\ ~ q_empty))
  BY DEF NextEmpty, Read
<1>3. ASSUME ~ q_empty' PROVE queue' # << >>
  <2>1. CASE q_empty
    <3>1. a # << >>
      BY <1>2, <1>3, <2>1
    <3>2. After(tx.done, queue) \in Seq(Payload)
      BY <1>1, <2>1 DEF FlagOk, After
    <3> QED
      BY <1>1, <3>1, <3>2
  <2>2. CASE ~ q_empty
    <3>1. queue # << >> /\ (tx.done => Len(queue) # 1)
      BY <1>2, <1>3, <2>2 DEF FlagOk
    <3>2. After(tx.done, queue) \in Seq(Payload) /\ After(tx.done, queue) # << >>
      <4>1. /\ Len(queue) \in Nat /\ Tail(queue) \in Seq(Payload)
            /\ Len(Tail(queue)) = Len(queue) - 1
        BY <1>1, <3>1, LenProperties, HeadTailProperties
      <4>2. tx.done => Tail(queue) # << >>
        <5>1. tx.done => Len(Tail(queue)) # 0
          BY <3>1, <4>1
        <5> QED
          BY <5>1, Len(<< >>) = 0
      <4> QED
        BY <1>1, <3>1, <4>1, <4>2 DEF After
    <3> QED
      BY <1>1, <3>2, QueueGrows
  <2> QED
    BY <2>1, <2>2
<1>4. ASSUME tx'.state # "IDLE" \/ tx'.done PROVE ~ q_empty'
  <2>1. ~ q_empty /\ ~ tx.done
    <3>1. CASE tx.state = "IDLE"
      <4>1. TxAccepts(tx, ~ q_empty)
        BY <1>4, <3>1 DEF Ticks, TxClock, TxAccepts
      <4> QED
        BY <4>1 DEF TxAccepts
    <3>2. CASE tx.state # "IDLE"
      BY <1>1, <3>2 DEF FlagOk, TxIs
    <3> QED
      BY <3>1, <3>2
  <2> QED
    BY <1>2, <2>1
<1>5. q_empty' \in BOOLEAN
  BY <1>2
<1> QED
  BY <1>3, <1>4, <1>5 DEF FlagOk

\* What the start of a frame looks like.
LEMMA Began ==
    ASSUME RatesFit, tx'.state = "START", rx'.state = "IDLE", tx'.out = 1, rx'.in = 1,
           TxLeft(tx, tx_baud)' \in Bit - T .. Bit - 1,
           RxReports', After(rx'.done, pending') = queue'
    PROVE  \E n \in 0 .. 2 : Starts(n)'
<1>1. Bit \in Nat /\ T \in Nat
  BY RateFacts
<1>2. TxLeft(tx, tx_baud)' + 0 \in Bit - T .. Bit - 1
  BY <1>1
<1>3. Starts(0)'
  BY <1>2 DEF Starts
<1> QED
  BY <1>3

\* Both idle: the transmitter may begin a frame.
LEMMA BothStep ==
    ASSUME RatesFit, RxOk, BoardOk, FlagOk, FlagOk', NEW a \in Seq(Payload), Ticks(a),
           Receiver(a), Both, peer = "board"
    PROVE  RxOk' /\ BoardInv'
<1>1. /\ tx.state = "IDLE" /\ rx.state = "IDLE" /\ tx.out = 1 /\ rx.in = 1
      /\ tx.done => queue # << >>
      /\ RxReports /\ After(rx.done, pending) = After(tx.done, queue)
  BY DEF Both
<1>2. RxOk' /\ rx'.state = "IDLE" /\ ~ rx'.done /\ rx'.in = 1
  BY <1>1, RxWaits DEF Line
<1>3. /\ BoardOk' /\ tx'.out = 1 /\ ~ tx'.done
      /\ \/ tx'.state = "IDLE"
         \/ /\ ~ tx.done /\ tx'.state = "START" /\ queue' = queue \o a
            /\ TxLeft(tx, tx_baud)' \in Bit - T .. Bit - 1
            /\ \E b \in Payload : Sends(b)'
  BY <1>1, TxIdleStep DEF RxReports
<1>4. pending' = queue'
  BY <1>1 DEF Ticks
<1>5. RxReports' /\ After(rx'.done, pending') = queue' /\ After(tx'.done, queue') = queue'
  BY <1>2, <1>3, <1>4 DEF RxReports, After
<1>6. CASE tx'.state = "IDLE"
  <2>1. Both'
    BY <1>2, <1>3, <1>5, <1>6 DEF Both
  <2> QED
    BY <1>2, <1>3, <2>1 DEF BoardInv
<1>7. CASE tx'.state # "IDLE"
  <2>1. \E n \in 0 .. 2 : Starts(n)'
    BY <1>2, <1>3, <1>5, <1>7, Began
  <2> QED
    BY <1>2, <1>3, <1>7, <2>1 DEF BoardInv
<1> QED
  BY <1>6, <1>7

\* The transmitter idle, the receiver in its stop bit: it reports the byte in time,
\* before a frame that follows without a gap.
LEMMA TxAheadStep ==
    ASSUME RatesFit, RxOk, BoardOk, FlagOk, FlagOk', NEW a \in Seq(Payload), Ticks(a), TxAhead
    PROVE  RxOk' /\ BoardInv'
<1>1. /\ tx.state = "IDLE" /\ rx.state = "STOP" /\ tx.out = 1 /\ rx.in = 1
      /\ tx.done => queue # << >>
      /\ RxLeft(rx, rx_baud) <= IF tx.done THEN 1 ELSE 0
      /\ pending # << >> /\ rx.data = Head(pending)
      /\ After(tx.done, queue) = Tail(pending)
  BY DEF TxAhead
<1>2. RxIs(mode, rx, rx_baud) /\ ~ rx.done /\ mode \in {0, 1}
  BY <1>1 DEF RxOk, RxIs, BoardOk
<1>3. /\ BoardOk' /\ tx'.out = 1 /\ ~ tx'.done
      /\ \/ tx'.state = "IDLE"
         \/ /\ ~ tx.done /\ tx'.state = "START" /\ queue' = queue \o a
            /\ TxLeft(tx, tx_baud)' \in Bit - T .. Bit - 1
            /\ \E b \in Payload : Sends(b)'
      /\ tx.done => tx'.state = "IDLE"
  BY <1>1, <1>2, TxIdleStep
<1>4. /\ pending' # << >> /\ Head(pending') = Head(pending) /\ Tail(pending') = Tail(pending) \o a
  BY <1>1, <1>2, QueuesStep
<1>5. queue' = Tail(pending')
  BY <1>1, <1>4 DEF Ticks
<1>6. rx' = RxClock(mode, rx, BaudTick(rx_baud), 1) /\ rx_baud' = BaudClk(rx_baud)
      /\ ~ parity_err' /\ mode' = mode
  BY <1>1 DEF Ticks
<1>7. CASE RxLeft(rx, rx_baud) = 0
  <2>1. /\ RxIs(mode, rx', BaudClk(rx_baud)) /\ rx'.in = 1 /\ rx'.state = "IDLE"
        /\ rx'.done /\ ~ rx'.err /\ rx'.data = rx.data
    <3>1. RxNext(mode, rx) = "IDLE"
      BY <1>1 DEF RxNext
    <3> QED
      BY <1>1, <1>2, <1>6, <1>7, <3>1, RxSamples
  <2>2. RxOk'
    BY <1>6, <2>1 DEF RxOk
  <2>3. RxReports' /\ After(rx'.done, pending') = queue' /\ After(tx'.done, queue') = queue'
    BY <1>1, <1>3, <1>4, <1>5, <2>1 DEF RxReports, After
  <2>4. CASE tx'.state = "IDLE"
    <3>1. Both'
      BY <1>3, <2>1, <2>3, <2>4 DEF Both
    <3> QED
      BY <1>3, <2>2, <3>1 DEF BoardInv
  <2>5. CASE tx'.state # "IDLE"
    <3>1. \E n \in 0 .. 2 : Starts(n)'
      BY <1>3, <2>1, <2>3, <2>5, Began
    <3> QED
      BY <1>3, <2>2, <2>5, <3>1 DEF BoardInv
  <2> QED
    BY <2>4, <2>5
<1>8. CASE RxLeft(rx, rx_baud) # 0
  <2>1. RxLeft(rx, rx_baud) \in Nat
    <3>1. rx.state # "IDLE"
      BY <1>1
    <3>2. RxLeft(rx, rx_baud) \in 0 .. Bit - 1
      BY <1>2, <3>1, AtFacts
    <3> QED
      BY <3>2, RateFacts
  <2>2. tx.done /\ RxLeft(rx, rx_baud) = 1
    BY <1>1, <1>8, <2>1
  <2>3. /\ RxIs(mode, rx', BaudClk(rx_baud)) /\ rx'.in = 1 /\ ~ rx'.done /\ ~ rx'.err
        /\ rx'.state = "STOP" /\ rx'.data = rx.data
        /\ RxLeft(rx', BaudClk(rx_baud)) = RxLeft(rx, rx_baud) - 1
    BY <1>1, <1>2, <1>6, <1>8, RxRuns
  <2>4. RxLeft(rx, rx_baud)' = 0
    BY <1>6, <2>2, <2>3
  <2>5. RxOk'
    BY <1>6, <2>3 DEF RxOk
  <2>6. TxAhead'
    BY <1>1, <1>3, <1>4, <1>5, <2>2, <2>3, <2>4 DEF TxAhead, After
  <2> QED
    BY <1>3, <2>5, <2>6 DEF BoardInv
<1> QED
  BY <1>7, <1>8

\* The frame begins, and two clocks later the receiver has seen it.
LEMMA StartsStep ==
    ASSUME RatesFit, RxOk, BoardOk, FlagOk, FlagOk', NEW a \in Seq(Payload), Ticks(a),
           Receiver(a), peer = "board", NEW b \in Payload, Sends(b), NEW n \in 0 .. 2, Starts(n)
    PROVE  RxOk' /\ BoardInv'
<1>1. /\ tx.state = "START" /\ rx.state = "IDLE"
      /\ TxLeft(tx, tx_baud) + n \in Bit - T .. Bit - 1
      /\ tx.out = (IF n = 0 THEN 1 ELSE 0) /\ rx.in = (IF n < 2 THEN 1 ELSE 0)
      /\ n > 0 => ~ rx.done
      /\ RxReports /\ After(rx.done, pending) = queue
  BY DEF Starts
<1>2. /\ RxIs(mode, rx, rx_baud) /\ TxIs(mode, tx, tx_baud) /\ mode \in {0, 1} /\ ~ tx.done
      /\ queue # << >> /\ b = Head(queue) /\ TxHas(mode, tx, b) /\ b \in Word
  BY <1>1, LinkAssumption DEF RxOk, BoardOk, TxIs, Sends, LinkAssumption
<1>3. Bit \in Nat /\ T \in Nat /\ T >= 1 /\ Half \in Nat /\ 4 * T <= Bit
  BY RateFacts
<1>4. TxLeft(tx, tx_baud) \in Nat /\ TxLeft(tx, tx_baud) # 0
  <2>1. TxLeft(tx, tx_baud) \in 0 .. Bit - 1
    BY <1>1, <1>2, TxAtFacts
  <2> QED
    BY <1>1, <1>3, <2>1
<1>5. PICK start \in BOOLEAN : start = (~ q_empty)
  OBVIOUS
<1>6. /\ tx' = TxClock(mode, tx, BaudTick(tx_baud), start, TxData) /\ tx_baud' = BaudClk(tx_baud)
      /\ rx' = RxClock(mode, rx, BaudTick(rx_baud), tx.out) /\ rx_baud' = BaudClk(rx_baud)
      /\ ~ parity_err' /\ mode' = mode
  BY <1>5 DEF Ticks
<1>7. /\ TxIs(mode, tx', BaudClk(tx_baud)) /\ tx'.out = TxLine(tx) /\ ~ tx'.done
      /\ TxHas(mode, tx', b) /\ tx'.state = "START"
      /\ TxLeft(tx', BaudClk(tx_baud)) = TxLeft(tx, tx_baud) - 1
  BY <1>1, <1>2, <1>4, <1>6, TxMoves
<1>8. tx'.out = 0
  BY <1>1, <1>7 DEF TxLine
<1>9. /\ RxIs(mode, rx', BaudClk(rx_baud)) /\ rx'.in = tx.out /\ ~ rx'.done /\ ~ rx'.err
      /\ rx'.state = IF rx.in = 0 THEN "START" ELSE "IDLE"
      /\ rx.in = 0 => RxLeft(rx', BaudClk(rx_baud)) \in Half .. Half + T - 1
  BY <1>1, <1>2, <1>6, RxIdle
<1>10. RxOk'
  BY <1>6, <1>9 DEF RxOk
<1>11. /\ mode' \in {0, 1} /\ queue' \in Seq(Payload) /\ pending' \in Seq(Payload)
       /\ queue' # << >> /\ Head(queue') = Head(queue)
  BY <1>1, <1>2, QueuesStep DEF RxReports
<1>12. BoardOk'
  BY <1>6, <1>7, <1>11 DEF BoardOk
<1>13. Sends(b)'
  BY <1>2, <1>6, <1>7, <1>11 DEF Sends
<1>14. pending' = queue'
  BY <1>1, <1>2 DEF Ticks, After
<1>15. CASE n # 2
  <2>1. PICK k \in 0 .. 2 : k = n + 1
    BY <1>15
  <2>2. TxLeft(tx, tx_baud)' + k \in Bit - T .. Bit - 1
    BY <1>1, <1>3, <1>4, <1>6, <1>7, <2>1
  <2>3. rx'.state = "IDLE" /\ rx'.in = (IF k < 2 THEN 1 ELSE 0) /\ k # 0
    BY <1>1, <1>9, <1>15, <2>1
  <2>4. RxReports' /\ After(rx'.done, pending') = queue'
    BY <1>9, <1>14 DEF RxReports, After
  <2>5. Starts(k)'
    BY <1>7, <1>8, <1>9, <2>2, <2>3, <2>4 DEF Starts
  <2> QED
    BY <1>10, <1>12, <1>13, <2>5 DEF BoardInv
<1>16. CASE n = 2
  <2>1. rx'.state = "START" /\ rx'.in = 0
        /\ RxLeft(rx', BaudClk(rx_baud)) \in Half .. Half + T - 1
    BY <1>1, <1>9, <1>16
  <2>2. Got(rx', b)
    BY <2>1 DEF Got
  <2>3. At(mode, tx)' = 0 /\ At(mode, rx)' = 0
    BY <1>7, <2>1 DEF At
  <2>4. Shown(1)' = 0 /\ Shown(2)' = 0
    BY <1>7, <2>3 DEF Shown
  <2>5. tx'.out = BitOf(mode', b, Shown(1)') /\ rx'.in = BitOf(mode', b, Shown(2)')
    BY <1>8, <2>1, <2>4 DEF BitOf
  <2>6. RxPhase(mode, rx, rx_baud)' + TxPhase(mode, tx, tx_baud)' \in Half + 2 .. Half + 2 * T
    <3>1. 0 * Bit = 0 /\ (0 + 1) * Bit = Bit
      BY <1>3
    <3>2. RxPhase(mode, rx, rx_baud)' = RxLeft(rx', BaudClk(rx_baud)) - 0
      BY <1>6, <2>3, <3>1 DEF RxPhase
    <3>3. TxPhase(mode, tx, tx_baud)' = Bit - 2 - (TxLeft(tx, tx_baud) - 1)
      BY <1>6, <1>7, <2>3, <3>1 DEF TxPhase
    <3>4. TxLeft(tx, tx_baud) + 2 \in Bit - T .. Bit - 1
      BY <1>1, <1>16
    <3> QED
      BY SMTT(30), <1>3, <1>4, <2>1, <3>2, <3>3, <3>4
  <2>7. Follows(b)'
    BY <1>14, <2>1, <2>2, <2>5, <2>6 DEF Follows
  <2> QED
    BY <1>10, <1>12, <1>13, <2>7 DEF BoardInv
<1> QED
  BY <1>15, <1>16

\* The receiver idle, the transmitter in its stop bit: the line is high.
LEMMA RxAheadStep ==
    ASSUME RatesFit, RxOk, BoardOk, FlagOk, FlagOk', NEW a \in Seq(Payload), Ticks(a),
           Receiver(a), peer = "board", NEW b \in Payload, Sends(b), RxAhead
    PROVE  RxOk' /\ BoardInv'
<1>1. /\ tx.state = "STOP" /\ rx.state = "IDLE" /\ tx.out = 1 /\ rx.in = 1
      /\ RxReports /\ After(rx.done, pending) = Tail(queue)
  BY DEF RxAhead
<1>2. /\ TxIs(mode, tx, tx_baud) /\ mode \in {0, 1} /\ ~ tx.done
      /\ queue # << >> /\ b = Head(queue) /\ TxHas(mode, tx, b) /\ b \in Word
  BY <1>1, LinkAssumption DEF BoardOk, TxIs, Sends, LinkAssumption
<1>3. RxOk' /\ rx'.state = "IDLE" /\ ~ rx'.done /\ rx'.in = 1
  BY <1>1, RxWaits DEF Line
<1>4. /\ mode' \in {0, 1} /\ queue' \in Seq(Payload) /\ pending' \in Seq(Payload)
      /\ queue' # << >> /\ Head(queue') = Head(queue) /\ Tail(queue') = Tail(queue) \o a
  BY <1>1, <1>2, QueuesStep DEF RxReports
<1>5. pending' = Tail(queue')
  BY <1>1, <1>4 DEF Ticks
<1>6. PICK start \in BOOLEAN : start = (~ q_empty)
  OBVIOUS
<1>7. /\ tx' = TxClock(mode, tx, BaudTick(tx_baud), start, TxData)
      /\ tx_baud' = BaudClk(tx_baud) /\ mode' = mode
  BY <1>6 DEF Ticks
<1>8. CASE TxLeft(tx, tx_baud) # 0
  <2>1. /\ TxIs(mode, tx', BaudClk(tx_baud)) /\ tx'.out = TxLine(tx) /\ ~ tx'.done
        /\ TxHas(mode, tx', b) /\ tx'.state = "STOP"
    BY <1>1, <1>2, <1>7, <1>8, TxMoves
  <2>2. tx'.out = 1
    BY <1>1, <2>1 DEF TxLine
  <2>3. RxAhead'
    BY <1>3, <1>5, <2>1, <2>2 DEF RxAhead, RxReports, After
  <2>4. Sends(b)' /\ BoardOk'
    BY <1>2, <1>4, <1>7, <2>1 DEF Sends, BoardOk
  <2> QED
    BY <1>3, <2>3, <2>4 DEF BoardInv
<1>9. CASE TxLeft(tx, tx_baud) = 0
  <2>1. TxIs(mode, tx', BaudClk(tx_baud)) /\ tx'.out = 1 /\ tx'.done /\ tx'.state = "IDLE"
    BY <1>1, <1>2, <1>7, <1>9, TxEnds
  <2>2. Both'
    BY <1>3, <1>4, <1>5, <2>1 DEF Both, RxReports, After
  <2>3. BoardOk'
    BY <1>4, <1>7, <2>1 DEF BoardOk
  <2> QED
    BY <1>3, <2>2, <2>3 DEF BoardInv
<1> QED
  BY <1>8, <1>9

\* In the frame the receiver samples what was sent, and whoever ends first is in
\* the stop bit with the other.
LEMMA FollowsStep ==
    ASSUME RatesFit, RxOk, BoardOk, FlagOk, FlagOk', NEW a \in Seq(Payload), Ticks(a),
           NEW b \in Payload, Sends(b), Follows(b)
    PROVE  RxOk' /\ BoardInv'
<1>1. /\ rx.state # "IDLE" /\ pending = queue /\ Got(rx, b)
      /\ tx.out = BitOf(mode, b, Shown(1)) /\ rx.in = BitOf(mode, b, Shown(2))
      /\ RxPhase(mode, rx, rx_baud) + TxPhase(mode, tx, tx_baud) \in Half + 2 .. Half + 2 * T
  BY DEF Follows
<1>2. /\ tx.state # "IDLE" /\ queue # << >> /\ b = Head(queue) /\ TxHas(mode, tx, b) /\ b \in Word
      /\ RxIs(mode, rx, rx_baud) /\ TxIs(mode, tx, tx_baud) /\ mode \in {0, 1}
      /\ ~ tx.done /\ ~ rx.done
  BY <1>1, LinkAssumption DEF RxOk, RxIs, BoardOk, TxIs, Sends, LinkAssumption
<1>3. PICK start \in BOOLEAN : start = (~ q_empty)
  OBVIOUS
<1>4. /\ tx' = TxClock(mode, tx, BaudTick(tx_baud), start, TxData) /\ tx_baud' = BaudClk(tx_baud)
      /\ rx' = RxClock(mode, rx, BaudTick(rx_baud), tx.out) /\ rx_baud' = BaudClk(rx_baud)
      /\ ~ parity_err' /\ mode' = mode
  BY <1>3 DEF Ticks
<1>5. /\ mode' \in {0, 1} /\ queue' \in Seq(Payload) /\ pending' \in Seq(Payload)
      /\ queue' # << >> /\ Head(queue') = Head(queue)
  BY <1>1, <1>2, QueuesStep
<1>6. pending' = queue'
  BY <1>1, <1>2 DEF Ticks, After
\* The receiver samples what was sent.
<1>7. rx.state \in {"DATA", "PARITY"} /\ RxLeft(rx, rx_baud) = 0 => rx.in = BitOf(mode, b, At(mode, rx))
  BY <1>2, BoardSamples
<1>8. Got(rx', b) /\ ~ rx'.err /\ (rx'.done => rx'.data = b)
  BY <1>1, <1>2, <1>4, <1>7, RxGets
<1>9. rx.state = "DATA" /\ RxLeft(rx, rx_baud) = 0 => rx.in \in {0, 1}
  <2> SUFFICES ASSUME rx.state = "DATA", RxLeft(rx, rx_baud) = 0
               PROVE  rx.in \in {0, 1}
    OBVIOUS
  <2>1. At(mode, rx) \in 1 .. DataBits /\ DataBits \in 1 .. 8
    <3>1. At(mode, rx) \in 1 .. DataBits
      BY <1>2, AtFacts
    <3> QED
      BY <3>1, RateFacts
  <2>2. At(mode, rx) - 1 \in 0 .. 7 /\ b \in Nat /\ At(mode, rx) # 0 /\ At(mode, rx) <= DataBits
    BY SMTT(30), <1>2, <2>1 DEF Word
  <2>3. BitOf(mode, b, At(mode, rx)) = (b \div Pow(At(mode, rx) - 1)) % 2
    BY <2>2 DEF BitOf
  <2>4. Pow(At(mode, rx) - 1) \in Nat \ {0}
    BY <2>2, PowerStep
  <2> QED
    BY <1>7, <2>2, <2>3, <2>4, DivTwice
\* Where the two are.
<1>10. PICK j : j = At(mode, tx)
  OBVIOUS
<1>11. PICK k : k = At(mode, rx)
  OBVIOUS
<1>12. PICK l : l = RxLeft(rx, rx_baud)
  OBVIOUS
<1>13. PICK s : s = StopAt(mode)
  OBVIOUS
<1>14. /\ j \in Nat /\ k \in Nat /\ Past \in 0 .. Bit - 1 /\ j * Bit \in Nat /\ k * Bit \in Nat
       /\ l \in 0 .. Bit - 1 /\ l + j * Bit + Past - 1 - k * Bit \in Half + 2 .. Half + 2 * T
  BY <1>2, <1>10, <1>11, <1>12, PhasesTell
<1>15. /\ s \in Nat /\ j <= s /\ k <= s
       /\ (tx.state = "STOP" <=> j = s) /\ (rx.state = "STOP" <=> k = s)
  <2>1. j \in 0 .. s /\ s \in 2 .. 10 /\ (tx.state = "STOP" <=> j = s)
    BY <1>2, <1>10, <1>13, TxAtFacts
  <2>2. k \in 0 .. s /\ (rx.state = "STOP" <=> k = s)
    BY <1>1, <1>2, <1>11, <1>13, AtFacts
  <2> QED
    BY <2>1, <2>2
<1>16. Bit \in Nat /\ Half \in Nat /\ T \in Nat /\ T >= 1 /\ Half + 2 * T <= Bit /\ Bit >= 4
  BY RateFacts
<1>17. TxLeft(tx, tx_baud) \in 0 .. Bit - 1 /\ Past = Bit - 1 - TxLeft(tx, tx_baud)
  BY <1>2, TxAtFacts DEF Past
<1> DEFINE TxStops == tx.state = "STOP" /\ TxLeft(tx, tx_baud) = 0
           RxStops == rx.state = "STOP" /\ l = 0
\* In the stop bit the line is high.
<1>18. BitOf(mode, b, s) = 1
  <2>1. DataBits \in 1 .. 8
    BY RateFacts
  <2>2. StopAt(mode) # 0 /\ ~ (StopAt(mode) <= DataBits)
    BY <2>1 DEF StopAt
  <2> QED
    BY <1>13, <2>2 DEF BitOf
<1>19. tx.state = "STOP" /\ Past >= 1 => tx.out = 1
  BY <1>1, <1>10, <1>15, <1>18 DEF Shown
<1>20. ASSUME ~ TxStops
       PROVE  /\ BoardOk' /\ Sends(b)' /\ ~ tx'.done
              /\ tx'.out = BitOf(mode', b, Shown(1)') /\ Shown(2)' = Shown(1)
              /\ TxPhase(mode, tx, tx_baud)' = TxPhase(mode, tx, tx_baud) + 1
              /\ TxPhase(mode, tx, tx_baud) \in Int
  <2>1. /\ TxIs(mode', tx', tx_baud') /\ ~ tx'.done /\ tx'.state # "IDLE" /\ TxHas(mode', tx', b)
        /\ tx'.out = BitOf(mode, b, Shown(1)') /\ Shown(2)' = Shown(1)
        /\ TxPhase(mode, tx, tx_baud)' = TxPhase(mode, tx, tx_baud) + 1
        /\ TxPhase(mode, tx, tx_baud) \in Int
    BY <1>2, <1>20, LineFollows
  <2>2. BoardOk' /\ Sends(b)'
    BY <1>2, <1>5, <2>1 DEF BoardOk, Sends
  <2> QED
    BY <1>4, <2>1, <2>2
<1>21. ASSUME TxStops
       PROVE  /\ BoardOk' /\ tx'.out = 1 /\ tx'.done /\ tx'.state = "IDLE"
  <2>1. TxIs(mode, tx', BaudClk(tx_baud)) /\ tx'.out = 1 /\ tx'.done /\ tx'.state = "IDLE"
    BY <1>2, <1>4, <1>21, TxEnds
  <2> QED
    BY <1>4, <1>5, <2>1 DEF BoardOk
<1>22. ASSUME ~ RxStops
       PROVE  /\ RxOk' /\ rx'.in = tx.out /\ rx'.state # "IDLE" /\ ~ rx'.done
              /\ RxPhase(mode, rx, rx_baud)' = RxPhase(mode, rx, rx_baud) - 1
  <2>1. /\ RxIs(mode, rx', BaudClk(rx_baud)) /\ rx'.in = tx.out
        /\ rx'.state # "IDLE" /\ ~ rx'.done
        /\ RxPhase(mode, rx', BaudClk(rx_baud)) = RxPhase(mode, rx, rx_baud) - 1
    BY <1>1, <1>2, <1>4, <1>9, <1>12, <1>22, RxMoves
  <2> QED
    BY <1>4, <1>8, <2>1 DEF RxOk
<1>23. ASSUME RxStops
       PROVE  /\ RxOk' /\ rx'.in = tx.out /\ rx'.state = "IDLE" /\ rx'.done /\ rx'.data = b
  <2>1. rx.state = "STOP" /\ RxLeft(rx, rx_baud) = 0 /\ RxNext(mode, rx) = "IDLE"
    BY <1>12, <1>23 DEF RxNext
  <2>2. RxIs(mode, rx', BaudClk(rx_baud)) /\ rx'.in = tx.out /\ rx'.state = "IDLE" /\ rx'.done
    BY <1>2, <1>4, <2>1, RxSamples
  <2> QED
    BY <1>4, <1>8, <2>2 DEF RxOk
<1>24. CASE ~ TxStops /\ ~ RxStops
  <2>1. RxPhase(mode, rx, rx_baud) \in Int
    <3>1. RxPhase(mode, rx, rx_baud) = l - k * Bit
      BY <1>11, <1>12 DEF RxPhase
    <3> QED
      BY <1>14, <1>16, <3>1
  <2>2. RxPhase(mode, rx, rx_baud)' + TxPhase(mode, tx, tx_baud)' \in Half + 2 .. Half + 2 * T
    <3>1. /\ RxPhase(mode, rx, rx_baud)' = RxPhase(mode, rx, rx_baud) - 1
          /\ TxPhase(mode, tx, tx_baud)' = TxPhase(mode, tx, tx_baud) + 1
          /\ TxPhase(mode, tx, tx_baud) \in Int
      BY <1>20, <1>22, <1>24
    <3> QED
      BY <1>1, <1>16, <2>1, <3>1
  <2>3. /\ RxOk' /\ BoardOk' /\ Sends(b)' /\ rx'.state # "IDLE"
        /\ tx'.out = BitOf(mode', b, Shown(1)') /\ rx'.in = BitOf(mode', b, Shown(2)')
    BY <1>1, <1>4, <1>20, <1>22, <1>24
  <2>4. Follows(b)'
    BY <1>6, <1>8, <2>2, <2>3 DEF Follows
  <2> QED
    BY <2>3, <2>4 DEF BoardInv
\* The transmitter ends first: the receiver is a clock or two behind.
<1>25. CASE TxStops /\ ~ RxStops
  <2>1. j = s /\ Past = Bit - 1
    BY <1>15, <1>16, <1>17, <1>25
  <2>2. k = s
    <3> SUFFICES ASSUME k < s PROVE FALSE
      BY <1>15, <1>14
    <3>1. Bit * k + Bit <= Bit * j
      BY <1>14, <1>16, <2>1, MulMono
    <3>2. Bit * k = k * Bit /\ Bit * j = j * Bit
      BY <1>14, <1>16
    <3> QED
      BY <1>14, <1>16, <2>1, <3>1, <3>2
  <2>3. rx.state = "STOP" /\ l \in {1, 2}
    <3>1. k * Bit = j * Bit
      BY <2>1, <2>2
    <3>2. l <= 2
      BY <1>14, <1>16, <2>1, <3>1
    <3> QED
      BY <1>14, <1>15, <1>25, <2>2, <3>2
  <2>4. /\ rx'.state = "STOP" /\ rx'.data = rx.data /\ RxLeft(rx', BaudClk(rx_baud)) = l - 1
    BY <1>1, <1>2, <1>4, <1>12, <2>3, RxRuns
  <2>5. /\ RxOk' /\ BoardOk' /\ rx'.in = tx.out
        /\ tx'.out = 1 /\ tx'.done /\ tx'.state = "IDLE"
    BY <1>21, <1>22, <1>25
  <2>6. tx.out = 1
    BY <1>16, <1>19, <1>25, <2>1
  <2>7. RxLeft(rx, rx_baud)' <= 1
    BY <1>4, <2>3, <2>4
  <2>8. rx'.data = Head(pending')
    BY <1>1, <1>2, <1>5, <1>6, <2>3, <2>4 DEF Got
  <2>9. After(tx'.done, queue') = Tail(pending')
    BY <1>6, <2>5 DEF After
  <2>10. TxAhead'
    BY <1>5, <1>6, <2>4, <2>5, <2>6, <2>7, <2>8, <2>9 DEF TxAhead
  <2> QED
    BY <2>5, <2>10 DEF BoardInv
\* The receiver ends first or with it: the transmitter is in its stop bit.
<1>26. CASE RxStops
  <2>1. k = s /\ l = 0
    BY <1>15, <1>26
  <2>2. j = s
    <3> SUFFICES ASSUME j < s PROVE FALSE
      BY <1>15, <1>14
    <3>1. Bit * j + Bit <= Bit * k
      BY <1>14, <1>16, <2>1, MulMono
    <3>2. Bit * k = k * Bit /\ Bit * j = j * Bit
      BY <1>14, <1>16
    <3> QED
      BY <1>14, <1>16, <2>1, <3>1, <3>2
  <2>3. tx.state = "STOP" /\ Past >= 1
    <3>1. k * Bit = j * Bit
      BY <2>1, <2>2
    <3> QED
      BY <1>14, <1>15, <1>16, <2>1, <2>2, <3>1
  <2>4. RxOk' /\ rx'.in = 1 /\ rx'.state = "IDLE" /\ rx'.done /\ rx'.data = b
    BY <1>19, <1>23, <1>26, <2>3
  <2>5. RxReports' /\ After(rx'.done, pending') = Tail(queue')
    BY <1>2, <1>5, <1>6, <2>4 DEF RxReports, After
  <2>6. CASE TxStops
    <3>1. BoardOk' /\ tx'.out = 1 /\ tx'.done /\ tx'.state = "IDLE"
      BY <1>21, <2>6
    <3>2. Both'
      BY <1>5, <2>4, <2>5, <3>1 DEF Both, After
    <3> QED
      BY <2>4, <3>1, <3>2 DEF BoardInv
  <2>7. CASE ~ TxStops
    <3>1. BoardOk' /\ Sends(b)'
      BY <1>20, <2>7
    <3>2. TxLeft(tx, tx_baud) # 0
      BY <2>3, <2>7
    <3>3. tx'.state = "STOP" /\ tx'.out = TxLine(tx)
      BY <1>2, <1>4, <2>3, <3>2, TxMoves
    <3>4. tx'.out = 1
      BY <2>3, <3>3 DEF TxLine
    <3>5. RxAhead'
      BY <2>4, <2>5, <3>3, <3>4 DEF RxAhead
    <3> QED
      BY <2>4, <3>1, <3>5 DEF BoardInv
  <2> QED
    BY <2>6, <2>7
<1> QED
  BY <1>24, <1>25, <1>26

\* Every step with a board at the other end.
LEMMA BoardStep ==
    ASSUME RatesFit, RxOk, BoardInv, peer = "board", Clock
    PROVE  RxOk' /\ BoardInv'
<1>1. PICK a \in Seq(Payload) : Ticks(a) /\ Receiver(a) /\ q_empty' = NextEmpty(a)
  BY ClockTicks
<1>2. BoardOk /\ FlagOk /\ FlagOk'
  BY <1>1, FlagStep DEF BoardInv
<1>3. CASE Both
  BY <1>1, <1>2, <1>3, BothStep
<1>4. CASE TxAhead
  BY <1>1, <1>2, <1>4, TxAheadStep
<1>5. ASSUME NEW b \in Payload, Sends(b), (\E n \in 0 .. 2 : Starts(n)) \/ Follows(b) \/ RxAhead
      PROVE  RxOk' /\ BoardInv'
  <2>1. ASSUME NEW n \in 0 .. 2, Starts(n)
        PROVE  RxOk' /\ BoardInv'
    BY <1>1, <1>2, <1>5, <2>1, StartsStep
  <2>2. CASE Follows(b)
    BY <1>1, <1>2, <1>5, <2>2, FollowsStep
  <2>3. CASE RxAhead
    BY <1>1, <1>2, <1>5, <2>3, RxAheadStep
  <2> QED
    BY <1>5, <2>1, <2>2, <2>3
<1> QED
  BY <1>3, <1>4, <1>5 DEF BoardInv

-----------------------------------------------------------------------------
\* The inductive invariant.
LinkInv ==
    /\ RxOk
    /\ peer \in {"soc", "board"}
    /\ peer = "soc" => SocInv
    /\ peer = "board" => BoardInv

\* The inductive invariant holds after reset.
LEMMA LinkInit ==
    ASSUME RatesFit, Init
    PROVE  LinkInv
<1>1. T \in Nat /\ T >= 1 /\ DataBits \in 1 .. 8
  BY RateFacts
<1>2. 0 \in Word
  <2>1. DataBits - 1 \in 0 .. 7 /\ (DataBits - 1) + 1 = DataBits
    BY <1>1
  <2>2. Pow(DataBits) \in Nat \ {0}
    BY <2>1, PowerStep
  <2>3. 2 ^ DataBits \in Nat \ {0}
    BY <2>2 DEF Pow
  <2> QED
    BY <2>3 DEF Word
<1>3. RxOk
  <2>1. rx = RxReset /\ rx_baud \in 0 .. T - 1 /\ ~ parity_err
    BY DEF Init, T
  <2>2. 0 \in 0 .. 15 /\ 0 \in 0 .. DataBits - 1 /\ "IDLE" \in States
    BY <1>1 DEF States
  <2> QED
    BY <1>2, <2>1, <2>2 DEF RxOk, RxIs, RxReset
<1>4. rx.state = "IDLE" /\ rx.in = 1 /\ ~ rx.done /\ pending = << >>
  BY DEF Init, RxReset
<1>5. ASSUME peer = "soc" PROVE SocInv
  <2>1. mode = 0 /\ bit \in BitClks /\ frame = << >>
    BY <1>5 DEF Init
  <2> QED
    BY <1>4, <2>1 DEF SocInv, SocDone
<1>6. ASSUME peer = "board" PROVE BoardInv
  <2>1. mode \in {0, 1}
    BY <1>6 DEF Init, RatesFit
  <2>2. tx = TxReset /\ tx_baud = 0 /\ queue = << >> /\ pending = << >>
    BY DEF Init
  <2>3. TxIs(mode, tx, tx_baud)
    <3>1. 0 \in 0 .. 15 /\ 0 \in 0 .. 7 /\ "IDLE" \in States /\ 0 \in 0 .. T - 1
      BY <1>1 DEF States
    <3> QED
      BY <1>2, <2>2, <3>1 DEF TxIs, TxReset
  <2>4. BoardOk /\ FlagOk
    BY <2>1, <2>2, <2>3 DEF BoardOk, FlagOk, Init, TxReset
  <2>5. Both
    BY <1>4, <2>2 DEF Both, TxReset, After, RxReports
  <2> QED
    BY <2>4, <2>5 DEF BoardInv
<1> QED
  BY <1>3, <1>5, <1>6 DEF LinkInv, Init

\* Every step preserves it.
LEMMA LinkStep ==
    ASSUME RatesFit, LinkInv, [Next]_vars
    PROVE  LinkInv'
<1>1. CASE UNCHANGED vars
  <2>1. UNCHANGED <<peer, mode, tx, tx_baud, queue, q_empty, frame, clks, bit, rx, rx_baud, parity_err, pending>>
    BY <1>1 DEF vars, board, soc
  <2>2. RxOk' = RxOk /\ SocInv' = SocInv
    BY <2>1 DEF RxOk, SocInv, SocDone, SocFrame, SocSends, SocSeen, SocAhead, SocFollows,
                SocAt, Elapsed, RxReports
  <2>3. BoardOk' = BoardOk /\ Both' = Both /\ TxAhead' = TxAhead /\ RxAhead' = RxAhead
        /\ FlagOk' = FlagOk
    BY <2>1 DEF BoardOk, FlagOk, Both, TxAhead, RxAhead, RxReports
  <2>4. ASSUME NEW b
        PROVE  Sends(b)' = Sends(b) /\ Follows(b)' = Follows(b)
    BY <2>1 DEF Sends, Follows, Shown, Past
  <2>5. ASSUME NEW n
        PROVE  Starts(n)' = Starts(n)
    BY <2>1 DEF Starts, RxReports
  <2>6. BoardInv' = BoardInv
    BY <2>3, <2>4, <2>5 DEF BoardInv
  <2> QED
    BY <2>1, <2>2, <2>6 DEF LinkInv
<1>2. CASE Next
  <2>1. CASE peer = "soc"
    <3>1. RxOk' /\ SocInv'
      BY <1>2, <2>1, SocStep DEF LinkInv
    <3>2. peer' = peer
      BY <1>2 DEF Next, Clock, Idle, Begin, Send, Receiver
    <3> QED
      BY <2>1, <3>1, <3>2 DEF LinkInv
  <2>2. CASE peer = "board"
    <3>1. Clock
      BY <1>2, <2>2 DEF Next, Idle, Begin, Send
    <3>2. RxOk' /\ BoardInv'
      BY <2>2, <3>1, BoardStep DEF LinkInv
    <3>3. peer' = peer
      BY <3>1 DEF Clock, Receiver
    <3> QED
      BY <2>2, <3>2, <3>3 DEF LinkInv
  <2> QED
    BY <2>1, <2>2 DEF LinkInv
<1> QED
  BY <1>1, <1>2

\* It says what FramesExact asks.
LEMMA LinkExact ==
    ASSUME RatesFit, LinkInv
    PROVE  FramesExact
<1>1. ~ parity_err
  BY DEF LinkInv, RxOk
<1>2. CASE peer = "soc"
  <2>1. /\ SocDone \/ \E b \in Payload : pending = <<b>> /\ ~ rx.done
    BY <1>2 DEF LinkInv, SocInv, SocFrame, SocAhead, SocFollows, RxOk, RxIs
  <2>2. CASE SocDone
    BY <1>1, <2>2 DEF FramesExact, SocDone
  <2>3. CASE \E b \in Payload : pending = <<b>> /\ ~ rx.done
    BY <1>1, <2>3 DEF FramesExact
  <2> QED
    BY <2>1, <2>2, <2>3
<1>3. CASE peer = "board"
  <2>1. RxReports
    BY <1>3 DEF LinkInv, BoardInv, Both, TxAhead, Starts, Follows, RxAhead, RxReports, RxOk, RxIs
  <2> QED
    BY <1>1, <1>3, <2>1 DEF FramesExact, RxReports
<1> QED
  BY <1>2, <1>3 DEF LinkInv

\* The receiver of uart.v reports every byte that the transmitter of another board
\* or the SoC's UART sent, once, unchanged and in order, and without a parity
\* error, at all rates that fit.
THEOREM FramesExactCorrect ==
    ASSUME RatesFit
    PROVE  Spec => []FramesExact
<1>1. Init => LinkInv
  BY LinkInit
<1>2. LinkInv /\ [Next]_vars => LinkInv'
  BY LinkStep
<1>3. LinkInv => FramesExact
  BY LinkExact
<1> QED
  BY <1>1, <1>2, <1>3, PTL DEF Spec
=============================================================================
