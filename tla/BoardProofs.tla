---------------------------- MODULE BoardProofs ----------------------------
(***************************************************************************)
(* The three parts of Board.tla, for any number of buttons, rate of the poll*)
(* and snapshots, any page length, any clock phases and any instruction     *)
(* lengths (JoypadAssumption, BoardAssumption): the controllers' TornOnce   *)
(* and ReadsInOrder, the sprite DMA's CopiedBeforeNextCycle, the CPU's      *)
(* ExecutedOnce, NmiOnlyOnce and HltBreaksOnce, and the types of all three. *)
(***************************************************************************)
EXTENDS Board, ProofLemmas

(***************************************************************************)
(* The inductive invariant of the controllers.                              *)
(***************************************************************************)
\* Where the poll of jp.v is: at which button, and how many clocks in it; the
\* latch and the clock of the poll are high for half of a button's clocks.
Bit == q_cnt \div BitClks
Clk == q_cnt % BitClks
Half == 2 * (BitClks \div 4)

\* The latch and the clock of the poll, and top.v's registered clock, follow from
\* the counter; no latch has fallen yet only in the first bit of the first poll.
PollShape ==
    /\ q_jp_latch <=> Bit = 0 /\ Clk \in 1 .. Half
    /\ q_jp_clk <=> Bit # 0 /\ Clk \in 1 .. Half
    /\ last_nes_clock <=> Bit # 0 /\ Clk \in 2 .. Half + 1
    /\ latched = << >> => Bit = 0 /\ Clk <= Half

\* top.v's register holds the last latch, shifted once for every rise of the
\* clock since, and ones above it; while the latch is high it follows the SoC.
Last == latched[Len(latched)]
Shifted ==
    IF Bit = 0 THEN IF Clk < 2 THEN Buttons - 1 ELSE 0
    ELSE IF Clk < 2 THEN Bit - 1 ELSE Bit

RegisterHolds ==
    latched # << >> /\ ~ (Bit = 0 /\ Clk \in 2 .. Half) =>
        \A j \in 1 .. Buttons :
            joy1_data[j] = IF j + Shifted <= Buttons THEN Last[j + Shifted] ELSE 1

\* jp.v's register has the buttons sampled since the last latch from it, and
\* the others from the latch before.
Sampled ==
    IF Bit = 0
    THEN IF Clk = 0 THEN Buttons - 1 ELSE IF Clk <= Half THEN Buttons ELSE 0
    ELSE IF Clk = 0 THEN Bit - 1 ELSE Bit

StateHolds ==
    /\ latched # << >> =>
         \A j \in 1 .. Buttons : j <= Sampled => q_jp1_state[j] = 1 - Last[j]
    /\ Len(latched) = 2 =>
         \A j \in 1 .. Buttons : j > Sampled => q_jp1_state[j] = 1 - latched[1][j]

\* The register behind $4016 holds what the next reads return.
Returned(n) == IF n = 0 THEN 0 ELSE IF n <= Buttons THEN strobed[n] ELSE 1

ReadHolds ==
    /\ \A j \in 1 .. Buttons + 1 : q_read_state[j] = Returned(reads + j - 1)
    /\ bus = "read" /\ q_addr => reads >= 1
    /\ high = q_strobe_state

\* The inductive invariant.
JoyInv ==
    /\ Joy!TypeOK /\ latched \in Seq(Joy!Bits)
    /\ PollShape /\ RegisterHolds /\ StateHolds /\ ReadHolds

-----------------------------------------------------------------------------
\* One clock of a shift register of n bits.
LEMMA ShiftIn ==
    ASSUME NEW S, NEW n \in Nat \ {0}, NEW s \in Seq(S), Len(s) = n, NEW x \in S
    PROVE  /\ Append(Tail(s), x) \in [1 .. n -> S]
           /\ \A j \in 1 .. n : Append(Tail(s), x)[j] = IF j < n THEN s[j + 1] ELSE x
<1>1. s \in Seq(S) /\ Len(s) = n
  OBVIOUS
<1>2. s # << >>
  BY <1>1, EmptySeq
<1>3. /\ Tail(s) \in Seq(S) /\ Len(Tail(s)) = n - 1
      /\ \A j \in 1 .. n - 1 : Tail(s)[j] = s[j + 1]
  BY <1>1, <1>2, HeadTailProperties
<1>4. /\ Append(Tail(s), x) \in Seq(S) /\ Len(Append(Tail(s), x)) = n
      /\ \A j \in 1 .. n - 1 : Append(Tail(s), x)[j] = Tail(s)[j]
      /\ Append(Tail(s), x)[n] = x
  BY <1>3, AppendProperties
<1>5. \A j \in 1 .. n : Append(Tail(s), x)[j] = IF j < n THEN s[j + 1] ELSE x
  BY <1>3, <1>4
<1> QED
  BY <1>4, <1>5, SeqIsFunction

\* One bit put in front of n others.
LEMMA PutInFront ==
    ASSUME NEW S, NEW n \in Nat, NEW s \in Seq(S), Len(s) = n, NEW x \in S
    PROVE  /\ <<x>> \o s \in [1 .. n + 1 -> S]
           /\ \A j \in 1 .. n + 1 : (<<x>> \o s)[j] = IF j = 1 THEN x ELSE s[j - 1]
<1>1. s \in Seq(S) /\ Len(s) = n
  OBVIOUS
<1>2. <<x>> \in Seq(S) /\ Len(<<x>>) = 1 /\ <<x>>[1] = x
  OBVIOUS
<1>3. /\ <<x>> \o s \in Seq(S) /\ Len(<<x>> \o s) = n + 1
      /\ \A j \in 1 .. n + 1 : (<<x>> \o s)[j] = IF j <= 1 THEN <<x>>[j] ELSE s[j - 1]
  <2>1. <<x>> \in Seq(S) /\ s \in Seq(S)
    BY <1>1, <1>2
  <2> DEFINE one == <<x>>
  <2> HIDE DEF one
  <2>2. one \in Seq(S) /\ Len(one) = 1
    BY <1>2 DEF one
  <2>3. /\ one \o s \in Seq(S) /\ Len(one \o s) = Len(one) + Len(s)
        /\ \A j \in 1 .. Len(one) + Len(s) :
               (one \o s)[j] = IF j <= Len(one) THEN one[j] ELSE s[j - Len(one)]
    BY <2>2, ConcatProperties, Zenon
  <2>4. Len(one) + Len(s) = n + 1
    BY <2>2
  <2>5. /\ one \o s \in Seq(S) /\ Len(one \o s) = n + 1
        /\ \A j \in 1 .. n + 1 : (one \o s)[j] = IF j <= 1 THEN one[j] ELSE s[j - 1]
    BY <2>2, <2>3, <2>4
  <2> QED
    BY <2>5 DEF one
<1>4. \A j \in 1 .. n + 1 : (<<x>> \o s)[j] = IF j = 1 THEN x ELSE s[j - 1]
  BY <1>2, <1>3
<1> DEFINE both == <<x>> \o s
<1>5. both \in Seq(S) /\ Len(both) = n + 1
  BY <1>3
<1> HIDE DEF both
<1>6. both \in [1 .. n + 1 -> S]
  BY <1>5, SeqIsFunction
<1> QED
  BY <1>4, <1>6 DEF both

-----------------------------------------------------------------------------
\* What is assumed of the constants of the controllers.
LEMMA JoyConstants ==
    /\ Buttons \in Nat /\ Buttons >= 2
    /\ BitClks \in Nat /\ BitClks >= 8 /\ BitClks % 4 = 0
    /\ Snapshots \subseteq Joy!Bits
BY BoardAssumption DEF BoardAssumption, Joy!JoypadAssumption, Joy!Bits

\* The register of top.v: a clock fills it with a one from above.
LEMMA ShiftOnes ==
    ASSUME NEW s \in [1 .. Buttons -> 0 .. 1]
    PROVE  /\ Append(Tail(s), 1) \in [1 .. Buttons -> 0 .. 1]
           /\ \A j \in 1 .. Buttons :
                  Append(Tail(s), 1)[j] = IF j < Buttons THEN s[j + 1] ELSE 1
<1>1. Buttons \in Nat \ {0} /\ 0 \in 0 .. 1 /\ 1 \in 0 .. 1
  BY JoyConstants
<1>2. s \in Seq(0 .. 1) /\ Len(s) = Buttons
  BY <1>1, FunctionIsSeq, Zenon
<1> QED
  BY <1>1, <1>2, ShiftIn

\* The same for the register behind $4016, which has one bit more.
LEMMA ShiftRead ==
    ASSUME NEW s \in [1 .. Buttons + 1 -> 0 .. 1]
    PROVE  /\ Append(Tail(s), 1) \in [1 .. Buttons + 1 -> 0 .. 1]
           /\ \A j \in 1 .. Buttons + 1 :
                  Append(Tail(s), 1)[j] = IF j < Buttons + 1 THEN s[j + 1] ELSE 1
<1>1. Buttons + 1 \in Nat \ {0} /\ 0 \in 0 .. 1 /\ 1 \in 0 .. 1
  BY JoyConstants
<1>2. s \in Seq(0 .. 1) /\ Len(s) = Buttons + 1
  BY <1>1, FunctionIsSeq, Zenon
<1> QED
  BY <1>1, <1>2, ShiftIn

\* A strobe loads the polled buttons behind one bit.
LEMMA Strobe ==
    ASSUME NEW s \in [1 .. Buttons -> 0 .. 1]
    PROVE  /\ (<<0>> \o s) \in [1 .. Buttons + 1 -> 0 .. 1]
           /\ \A j \in 1 .. Buttons + 1 :
                  (<<0>> \o s)[j] = IF j = 1 THEN 0 ELSE s[j - 1]
<1>1. Buttons \in Nat /\ 0 \in 0 .. 1 /\ 1 \in 0 .. 1
  BY JoyConstants
<1>2. s \in Seq(0 .. 1) /\ Len(s) = Buttons
  BY <1>1, FunctionIsSeq, Zenon
<1> QED
  BY <1>1, <1>2, PutInFront

\* The last two of a series, when there were fewer than two.
LEMMA LastOfAppend ==
    ASSUME NEW S, NEW s \in Seq(S), Len(s) < 2, NEW x \in S
    PROVE  LET t == Append(s, x)
           IN  /\ t \in Seq(S) /\ Len(t) <= 2 /\ t # << >> /\ t[Len(t)] = x
               /\ Len(t) = 2 => s # << >> /\ t[1] = s[Len(s)]
<1> DEFINE t == Append(s, x)
<1>1. Len(s) \in Nat
  BY LenProperties
<1>2. /\ t \in Seq(S) /\ Len(t) = Len(s) + 1 /\ t[Len(s) + 1] = x
      /\ \A i \in 1 .. Len(s) : t[i] = s[i]
  BY AppendProperties
<1> HIDE DEF t
<1>3. t # << >>
  BY <1>1, <1>2, EmptySeq
<1>4. Len(s) = 1 => s # << >>
  BY SMTT(30), EmptySeq
<1>5. /\ t \in Seq(S) /\ Len(t) <= 2 /\ t # << >> /\ t[Len(t)] = x
      /\ Len(t) = 2 => s # << >> /\ t[1] = s[Len(s)]
  BY <1>1, <1>2, <1>3, <1>4
<1> QED
  BY <1>5 DEF t

\* The last two of a series when there were two.
LEMMA LastOfPair ==
    ASSUME NEW S, NEW y \in S, NEW x \in S
    PROVE  /\ <<y, x>> \in Seq(S) /\ Len(<<y, x>>) = 2 /\ <<y, x>> # << >>
           /\ <<y, x>>[1] = y /\ <<y, x>>[2] = x
OBVIOUS

\* A series of at most two has fewer than two or two.
LEMMA LenAtMostTwo ==
    ASSUME NEW S, NEW s \in Seq(S), Len(s) <= 2
    PROVE  Len(s) < 2 \/ Len(s) = 2
<1> DEFINE n == Len(s)
<1>1. n \in Nat /\ n <= 2
  BY LenProperties
<1> HIDE DEF n
<1>2. n < 2 \/ n = 2
  BY <1>1
<1> QED
  BY <1>2 DEF n

\* What a series of two holds.
LEMMA TwoOfSeq ==
    ASSUME NEW S, NEW s \in Seq(S), Len(s) = 2
    PROVE  s[2] \in S /\ s # << >> /\ s[2] = s[Len(s)]
<1>1. s # << >>
  BY EmptySeq
<1>2. 2 \in 1 .. Len(s)
  OBVIOUS
<1> QED
  BY <1>1, <1>2, ElementOfSeq

\* The counter of the poll is a button and a clock, and counts through them.
LEMMA PollCounts ==
    ASSUME NEW c \in 0 .. Buttons * BitClks - 1
    PROVE  LET next == (c + 1) % (Buttons * BitClks)
               k == c \div BitClks
               r == c % BitClks
           IN  /\ k \in 0 .. Buttons - 1 /\ r \in 0 .. BitClks - 1
               /\ c < 2 <=> k = 0 /\ r < 2
               /\ next \in 0 .. Buttons * BitClks - 1
               /\ \/ /\ r < BitClks - 1
                     /\ next \div BitClks = k /\ next % BitClks = r + 1
                  \/ /\ r = BitClks - 1 /\ k < Buttons - 1
                     /\ next \div BitClks = k + 1 /\ next % BitClks = 0
                  \/ /\ r = BitClks - 1 /\ k = Buttons - 1
                     /\ next \div BitClks = 0 /\ next % BitClks = 0
<1> DEFINE n == BitClks
           all == Buttons * BitClks
           k == c \div n
           r == c % n
           next == (c + 1) % all
<1>1. n \in Nat \ {0} /\ n >= 8 /\ Buttons \in Nat \ {0} /\ all \in Nat /\ all = n * Buttons
  BY JoyConstants
<1>2. c \in Nat /\ c < all
  BY <1>1
<1>3. k \in Nat /\ r \in 0 .. n - 1 /\ c = n * k + r
  BY <1>1, <1>2, DivMod
<1>4. n * k \in Nat
  BY <1>1, <1>3
<1> HIDE DEF k, r, n, all
<1>5. k < Buttons
  <2> SUFFICES ASSUME Buttons <= k PROVE FALSE
    BY <1>1, <1>3
  <2>1. n * Buttons <= n * k
    <3>1. CASE Buttons = k
      BY <3>1, <1>4
    <3>2. CASE Buttons < k
      <4>1. n * Buttons + n <= n * k
        BY <3>2, <1>1, <1>3, MulMono
      <4> QED
        BY <4>1, <1>1, <1>4
    <3> QED
      BY <3>1, <3>2, <1>1, <1>3
  <2> QED
    BY <2>1, <1>1, <1>2, <1>3, <1>4
<1>6. c < 2 <=> k = 0 /\ r < 2
  <2>1. k = 0 => c = r
    BY <1>1, <1>3
  <2>2. k # 0 => c >= n
    <3>1. k # 0 => n * 0 + n <= n * k
      BY <1>1, <1>3, MulMono
    <3>2. n * 0 = 0
      BY <1>1
    <3> QED
      BY <3>1, <3>2, <1>1, <1>3, <1>4
  <2> QED
    BY <2>1, <2>2, <1>1, <1>2, <1>3
<1>7. all >= n
  <2>1. n * 0 + n <= n * Buttons
    BY <1>1, MulMono
  <2> QED
    BY <2>1, <1>1
<1>8. c + 1 < all => next = c + 1
  BY <1>1, <1>2 DEF all
<1>9. c + 1 = all => next = 0
  BY <1>1, <1>2 DEF all
<1>10. next \in 0 .. all - 1
  BY <1>1, <1>2, <1>8, <1>9
<1>11. 0 \div n = 0 /\ 0 % n = 0
  BY <1>1
<1> HIDE DEF next
<1>12. CASE r < n - 1
  <2>1. k < Buttons /\ n * k + n <= n * Buttons
    BY <1>1, <1>3, <1>5, MulMono
  <2>2. next = n * k + (r + 1)
    BY <2>1, <1>12, <1>1, <1>3, <1>4, <1>8
  <2>3. r + 1 \in 0 .. n - 1
    BY <1>12, <1>1, <1>3
  <2>4. next \div n = k /\ next % n = r + 1
    BY <2>2, <2>3, <1>1, <1>3, DivModUnique
  <2> QED
    BY <2>4, <1>1, <1>3, <1>5, <1>6, <1>10, <1>12 DEF k, r, n, all, next
<1>13. CASE r = n - 1 /\ k < Buttons - 1
  <2>1. n * (k + 1) = n * k + n
    BY <1>1, <1>3
  <2>2. n * (k + 1) + n <= n * Buttons
    BY <1>13, <1>1, <1>3, MulMono
  <2>3. next = n * (k + 1) + 0
    BY <2>1, <2>2, <1>13, <1>1, <1>3, <1>4, <1>8
  <2>4. next \div n = k + 1 /\ next % n = 0
    <3>1. k + 1 \in Nat /\ 0 \in 0 .. n - 1
      BY <1>1, <1>3
    <3> QED
      BY <3>1, <2>3, <1>1, DivModUnique
  <2> QED
    BY <2>4, <1>1, <1>3, <1>5, <1>6, <1>10, <1>13 DEF k, r, n, all, next
<1>14. CASE r = n - 1 /\ k = Buttons - 1
  <2>1. n * k + n = n * Buttons
    <3>1. n * (k + 1) = n * k + n
      BY <1>1, <1>3
    <3> QED
      BY <3>1, <1>14, <1>1
  <2>2. c + 1 = all
    BY <2>1, <1>14, <1>1, <1>3, <1>4
  <2>3. next = 0
    BY <2>2, <1>9
  <2> QED
    BY <2>3, <1>1, <1>3, <1>5, <1>6, <1>10, <1>11, <1>14 DEF k, r, n, all, next
<1> QED
  BY <1>1, <1>3, <1>5, <1>12, <1>13, <1>14
-----------------------------------------------------------------------------
\* The controllers as reset leaves them.
LEMMA JoyInit == Joy!Init => JoyInv
<1> SUFFICES ASSUME Joy!Init PROVE JoyInv
  OBVIOUS
<1> USE JoyConstants
<1>1. /\ \A x \in {0, 1} : [k \in 1 .. Buttons |-> x] \in Joy!Bits
      /\ [k \in 1 .. Buttons + 1 |-> 0] \in [1 .. Buttons + 1 -> 0 .. 1]
  BY DEF Joy!Bits
<1>2. /\ gpio_out \in Joy!Bits /\ joy1_data \in Joy!Bits
      /\ q_jp1_state \in Joy!Bits /\ strobed \in Joy!Bits
      /\ q_read_state \in [1 .. Buttons + 1 -> 0 .. 1]
  BY <1>1 DEF Joy!Init, Joy!Released
<1>3. 0 \in 0 .. Buttons * BitClks - 1
  <2>1. BitClks * 0 + BitClks <= BitClks * Buttons
    BY MulMono
  <2> QED
    BY <2>1
<1>4. q_cnt \in 0 .. Buttons * BitClks - 1 /\ reads \in 0 .. Buttons + 1
  BY <1>3 DEF Joy!Init
<1>5. latched \in Seq(Joy!Bits) /\ Len(latched) = 0 /\ latched = << >>
  BY DEF Joy!Init
<1>6. /\ last_nes_clock = FALSE /\ q_jp_clk = FALSE /\ q_jp_latch = FALSE
      /\ q_addr = FALSE /\ q_strobe_state = FALSE /\ bus = "other"
      /\ high = FALSE
  BY DEF Joy!Init
<1>7. Len(latched) <= 2
  BY <1>5
<1>8. Joy!TypeOK
  BY <1>2, <1>4, <1>6, <1>7 DEF Joy!TypeOK
<1>9. Bit = 0 /\ Clk = 0 /\ Half \in Nat
  BY DEF Joy!Init, Bit, Clk, Half
<1>10. PollShape
  BY <1>5, <1>6, <1>9 DEF PollShape
<1>11. RegisterHolds /\ StateHolds
  BY <1>5 DEF RegisterHolds, StateHolds
<1>12. ReadHolds
  <2>1. high = q_strobe_state /\ (bus = "read" /\ q_addr => reads >= 1)
    BY <1>6
  <2>2. \A j \in 1 .. Buttons + 1 : q_read_state[j] = Returned(reads + j - 1)
    BY DEF Joy!Init, Returned
  <2> QED
    BY <2>1, <2>2 DEF ReadHolds
<1> QED
  BY <1>5, <1>8, <1>10, <1>11, <1>12 DEF JoyInv

\* What a clock of the poll does, said of the button and of the clock in it.
LEMMA PollStep ==
    ASSUME JoyInv, Joy!Clock
    PROVE  /\ Bit \in 0 .. Buttons - 1 /\ Clk \in 0 .. BitClks - 1
           /\ Half \in Nat /\ Half >= 4 /\ BitClks = 2 * Half
           /\ q_cnt' \in 0 .. Buttons * BitClks - 1
           /\ \/ Clk < BitClks - 1 /\ Bit' = Bit /\ Clk' = Clk + 1
              \/ Clk = BitClks - 1 /\ Bit < Buttons - 1 /\ Bit' = Bit + 1 /\ Clk' = 0
              \/ Clk = BitClks - 1 /\ Bit = Buttons - 1 /\ Bit' = 0 /\ Clk' = 0
           /\ q_jp_latch' <=> (Clk < 2 /\ Bit = 0)
                                \/ (q_jp_latch /\ Clk \notin {Half, Half + 1})
           /\ q_jp_clk' <=> (Clk < 2 /\ Bit # 0)
                              \/ (q_jp_clk /\ Clk \notin {Half, Half + 1})
           /\ q_jp1_state' =
                IF Clk < 2
                THEN [q_jp1_state EXCEPT ![IF Bit = 0 THEN Buttons ELSE Bit]
                        = 1 - joy1_data[1]]
                ELSE q_jp1_state
<1>1. q_cnt \in 0 .. Buttons * BitClks - 1
  BY DEF JoyInv, Joy!TypeOK
<1>2. /\ Bit \in 0 .. Buttons - 1 /\ Clk \in 0 .. BitClks - 1
      /\ q_cnt < 2 <=> Bit = 0 /\ Clk < 2
  BY <1>1, PollCounts DEF Bit, Clk
<1>3. Half \in Nat /\ Half >= 4 /\ BitClks = 2 * Half /\ Half = 2 * (BitClks \div 4)
  BY JoyConstants DEF Half
<1>4. q_cnt' = (q_cnt + 1) % (Buttons * BitClks)
  BY DEF Joy!Clock, Joy!Poll, Joy!NextCnt
<1>5. /\ q_cnt' \in 0 .. Buttons * BitClks - 1
      /\ \/ Clk < BitClks - 1 /\ Bit' = Bit /\ Clk' = Clk + 1
         \/ Clk = BitClks - 1 /\ Bit < Buttons - 1 /\ Bit' = Bit + 1 /\ Clk' = 0
         \/ Clk = BitClks - 1 /\ Bit = Buttons - 1 /\ Bit' = 0 /\ Clk' = 0
  BY <1>1, <1>4, PollCounts DEF Bit, Clk
<1>6. Joy!Falls <=> Clk \in {Half, Half + 1}
  <2> DEFINE h == BitClks \div 4
  <2>1. h \in Nat /\ Half = 2 * h
    BY JoyConstants DEF Half
  <2> HIDE DEF h
  <2>2. Clk \div 2 = h <=> Clk \in {2 * h, 2 * h + 1}
    BY <2>1, <1>2
  <2>3. Joy!Falls <=> Clk \div 2 = h
    BY DEF Joy!Falls, Clk, h
  <2> QED
    BY <2>1, <2>2, <2>3
<1>7. (Joy!Sampling <=> Clk < 2) /\ (Joy!AtLatch <=> Bit = 0 /\ Clk < 2)
  BY <1>2 DEF Joy!Sampling, Joy!AtLatch, Clk
<1>8. Joy!StateIdx = IF Bit = 0 THEN Buttons ELSE Bit
  BY DEF Joy!StateIdx, Bit
<1>9. /\ q_jp_latch' <=> (Joy!Sampling /\ Joy!AtLatch) \/ (q_jp_latch /\ ~ Joy!Falls)
      /\ q_jp_clk' <=> (Joy!Sampling /\ ~ Joy!AtLatch) \/ (q_jp_clk /\ ~ Joy!Falls)
      /\ q_jp1_state' = IF Joy!Sampling
                        THEN [q_jp1_state EXCEPT ![Joy!StateIdx] = 1 - joy1_data[1]]
                        ELSE q_jp1_state
  BY DEF Joy!Clock, Joy!Poll, Joy!LatchRises, Joy!ClockRises
<1>10. /\ q_jp_latch' <=> (Clk < 2 /\ Bit = 0)
                           \/ (q_jp_latch /\ Clk \notin {Half, Half + 1})
       /\ q_jp_clk' <=> (Clk < 2 /\ Bit # 0)
                         \/ (q_jp_clk /\ Clk \notin {Half, Half + 1})
  BY <1>6, <1>7, <1>9
<1>11. q_jp1_state' =
           IF Clk < 2
           THEN [q_jp1_state EXCEPT ![IF Bit = 0 THEN Buttons ELSE Bit] = 1 - joy1_data[1]]
           ELSE q_jp1_state
  BY <1>7, <1>8, <1>9
<1> QED
  BY <1>2, <1>3, <1>5, <1>10, <1>11

\* The snapshots that were latched: a new one is the SoC's, at the clock at which
\* the latch falls.
LEMMA LatchStep ==
    ASSUME JoyInv, Joy!Clock
    PROVE  /\ latched' \in Seq(Joy!Bits) /\ Len(latched') <= 2
           /\ ~ (Bit = 0 /\ Clk = Half) => latched' = latched
           /\ Bit = 0 /\ Clk = Half =>
                /\ latched' # << >> /\ Last' = gpio_out
                /\ Len(latched') = 2 => latched # << >> /\ latched'[1] = Last
<1>1. /\ latched \in Seq(Joy!Bits) /\ Len(latched) <= 2 /\ gpio_out \in Joy!Bits
      /\ PollShape
  BY DEF JoyInv, Joy!TypeOK
<1>2. Joy!LatchFalls <=> Bit = 0 /\ Clk = Half
  BY <1>1, PollStep DEF Joy!LatchFalls, PollShape
<1>3. latched' = IF ~ Joy!LatchFalls THEN latched
                 ELSE IF Len(latched) < 2 THEN Append(latched, gpio_out)
                 ELSE <<latched[2], gpio_out>>
  BY DEF Joy!Clock, Joy!Ghosts
<1>4. CASE ~ (Bit = 0 /\ Clk = Half)
  BY <1>1, <1>2, <1>3, <1>4
<1>5. CASE Bit = 0 /\ Clk = Half /\ Len(latched) < 2
  <2>1. latched' = Append(latched, gpio_out)
    BY <1>2, <1>3, <1>5
  <2>2. /\ latched' \in Seq(Joy!Bits) /\ Len(latched') <= 2 /\ latched' # << >>
        /\ latched'[Len(latched')] = gpio_out
        /\ Len(latched') = 2 => latched # << >> /\ latched'[1] = latched[Len(latched)]
    BY <2>1, <1>1, <1>5, LastOfAppend
  <2> QED
    BY <2>2, <1>5 DEF Last
<1>6. CASE Bit = 0 /\ Clk = Half /\ Len(latched) = 2
  <2>1. latched[2] \in Joy!Bits /\ latched # << >> /\ latched[2] = Last
    BY <1>1, <1>6, TwoOfSeq DEF Last
  <2>2. latched' = <<latched[2], gpio_out>>
    BY <1>2, <1>3, <1>6
  <2>3. /\ latched' \in Seq(Joy!Bits) /\ Len(latched') = 2 /\ latched' # << >>
        /\ latched'[1] = latched[2] /\ latched'[2] = gpio_out
    BY <2>1, <2>2, <1>1, LastOfPair
  <2>4. Last' = gpio_out
    BY <2>3 DEF Last
  <2> QED
    BY <2>1, <2>3, <2>4, <1>6
<1>7. Len(latched) < 2 \/ Len(latched) = 2
  BY <1>1, LenAtMostTwo
<1> QED
  BY <1>4, <1>5, <1>6, <1>7

\* A clock keeps the waveforms of the poll.
LEMMA PollShapeStep ==
    ASSUME JoyInv, Joy!Clock
    PROVE  PollShape'
<1>1. PollShape
  BY DEF JoyInv
<1>2. last_nes_clock' = q_jp_clk
  BY DEF Joy!Clock, Joy!ShiftRegister
<1>3. Half' = Half
  BY DEF Half
<1>4. /\ Bit \in Nat /\ Clk \in 0 .. BitClks - 1
      /\ Half \in Nat /\ Half >= 4 /\ BitClks = 2 * Half
      /\ \/ Clk < BitClks - 1 /\ Bit' = Bit /\ Clk' = Clk + 1
         \/ Clk = BitClks - 1 /\ Bit' \in Nat /\ Clk' = 0
  BY PollStep, JoyConstants
<1>5. q_jp_latch' <=> Bit' = 0 /\ Clk' \in 1 .. Half
  <2>1. q_jp_latch' <=> (Clk < 2 /\ Bit = 0)
                         \/ (q_jp_latch /\ Clk \notin {Half, Half + 1})
    BY PollStep
  <2>2. q_jp_latch <=> Bit = 0 /\ Clk \in 1 .. Half
    BY <1>1 DEF PollShape
  <2> QED
    BY <2>1, <2>2, <1>4
<1>6. q_jp_clk' <=> Bit' # 0 /\ Clk' \in 1 .. Half
  <2>1. q_jp_clk' <=> (Clk < 2 /\ Bit # 0)
                       \/ (q_jp_clk /\ Clk \notin {Half, Half + 1})
    BY PollStep
  <2>2. q_jp_clk <=> Bit # 0 /\ Clk \in 1 .. Half
    BY <1>1 DEF PollShape
  <2> QED
    BY <2>1, <2>2, <1>4
<1>7. last_nes_clock' <=> Bit' # 0 /\ Clk' \in 2 .. Half + 1
  <2>1. q_jp_clk <=> Bit # 0 /\ Clk \in 1 .. Half
    BY <1>1 DEF PollShape
  <2> QED
    BY <2>1, <1>2, <1>4
<1>8. latched' = << >> => Bit' = 0 /\ Clk' <= Half
  <2>1. latched = << >> => Bit = 0 /\ Clk <= Half
    BY <1>1 DEF PollShape
  <2>2. /\ ~ (Bit = 0 /\ Clk = Half) => latched' = latched
        /\ Bit = 0 /\ Clk = Half => latched' # << >>
    BY LatchStep
  <2> QED
    BY <2>1, <2>2, <1>4
<1> QED
  BY <1>3, <1>5, <1>6, <1>7, <1>8 DEF PollShape

\* A clock keeps what top.v's shift register holds: a rise of the poll's clock shifts
\* it once, the fall of the latch freezes the snapshot.
LEMMA RegisterStep ==
    ASSUME JoyInv, Joy!Clock
    PROVE  joy1_data' \in Joy!Bits /\ RegisterHolds'
<1>1. /\ joy1_data \in [1 .. Buttons -> 0 .. 1] /\ gpio_out \in [1 .. Buttons -> 0 .. 1]
      /\ PollShape /\ RegisterHolds
  BY DEF JoyInv, Joy!TypeOK, Joy!Bits
<1>2. /\ Buttons \in Nat \ {0} /\ Buttons >= 2
      /\ Bit \in 0 .. Buttons - 1 /\ Clk \in 0 .. BitClks - 1
      /\ Half \in Nat /\ Half >= 4 /\ BitClks = 2 * Half /\ Half' = Half
      /\ \/ Clk < BitClks - 1 /\ Bit' = Bit /\ Clk' = Clk + 1
         \/ Clk = BitClks - 1 /\ Bit < Buttons - 1 /\ Bit' = Bit + 1 /\ Clk' = 0
         \/ Clk = BitClks - 1 /\ Bit = Buttons - 1 /\ Bit' = 0 /\ Clk' = 0
  BY PollStep, JoyConstants DEF Half
<1>3. joy1_data' = IF q_jp_latch THEN gpio_out
                   ELSE IF q_jp_clk /\ ~ last_nes_clock
                        THEN Append(Tail(joy1_data), 1) ELSE joy1_data
  BY DEF Joy!Clock, Joy!ShiftRegister
<1>4. /\ Append(Tail(joy1_data), 1) \in [1 .. Buttons -> 0 .. 1]
      /\ \A j \in 1 .. Buttons :
             Append(Tail(joy1_data), 1)[j] = IF j < Buttons THEN joy1_data[j + 1] ELSE 1
  <2>1. joy1_data \in [1 .. Buttons -> 0 .. 1]
    BY <1>1
  <2> QED
    BY <2>1, ShiftOnes
<1>5. /\ q_jp_latch <=> Bit = 0 /\ Clk \in 1 .. Half
      /\ q_jp_clk /\ ~ last_nes_clock <=> Bit # 0 /\ Clk = 1
  BY <1>1, <1>2 DEF PollShape
<1>6. joy1_data' \in Joy!Bits
  BY <1>1, <1>3, <1>4 DEF Joy!Bits
<1>7. ASSUME latched' # << >>, ~ (Bit' = 0 /\ Clk' \in 2 .. Half), NEW j \in 1 .. Buttons
      PROVE  joy1_data'[j] = IF j + Shifted' <= Buttons THEN Last'[j + Shifted'] ELSE 1
  <2>1. CASE Bit = 0 /\ Clk = Half
    <3>1. joy1_data' = gpio_out /\ Last' = gpio_out
      BY <2>1, <1>2, <1>3, <1>5, LatchStep
    <3>2. Shifted' = 0
      BY <2>1, <1>2 DEF Shifted
    <3> QED
      BY <3>1, <3>2, <1>2
  <2>2. CASE ~ (Bit = 0 /\ Clk \in 1 .. Half)
    <3>1. latched' = latched /\ latched # << >> /\ Last' = Last
      BY <2>2, <1>2, <1>7, LatchStep DEF Last
    <3>2. \A i \in 1 .. Buttons :
             joy1_data[i] = IF i + Shifted <= Buttons THEN Last[i + Shifted] ELSE 1
      BY <2>2, <3>1, <1>1, <1>2 DEF RegisterHolds
    <3>3. CASE Bit # 0 /\ Clk = 1
      <4>1. Shifted' = Shifted + 1 /\ Shifted \in Nat
        BY <3>3, <1>2 DEF Shifted
      <4>2. joy1_data' = Append(Tail(joy1_data), 1)
        BY <3>3, <1>3, <1>5, <1>2
      <4>3. joy1_data'[j] = IF j < Buttons THEN joy1_data[j + 1] ELSE 1
        BY <4>2, <1>4, <1>7
      <4>4. CASE j < Buttons
        <5>1. j + 1 \in 1 .. Buttons
          BY <4>4, <1>7, <1>2
        <5>2. joy1_data[j + 1] =
                IF (j + 1) + Shifted <= Buttons THEN Last[(j + 1) + Shifted] ELSE 1
          BY <5>1, <3>2
        <5>3. (j + 1) + Shifted = j + Shifted'
          BY <4>1, <1>7
        <5> QED
          BY <5>2, <5>3, <4>3, <4>4, <3>1
      <4>5. CASE j = Buttons
        <5>1. ~ (j + Shifted' <= Buttons)
          BY <4>1, <4>5, <1>2
        <5> QED
          BY <5>1, <4>3, <4>5, <1>2
      <4> QED
        BY <4>4, <4>5, <1>2, <1>7
    <3>4. CASE ~ (Bit # 0 /\ Clk = 1)
      <4>1. Shifted' = Shifted
        BY <3>4, <2>2, <1>2, <1>7 DEF Shifted
      <4>2. joy1_data' = joy1_data
        BY <3>4, <2>2, <1>3, <1>5
      <4> QED
        BY <4>1, <4>2, <3>1, <3>2, <1>7
    <3> QED
      BY <3>3, <3>4
  <2>3. CASE Bit = 0 /\ Clk \in 1 .. Half - 1
    BY <2>3, <1>2, <1>7
  <2> QED
    BY <2>1, <2>2, <2>3, <1>2
<1> QED
  BY <1>2, <1>6, <1>7 DEF RegisterHolds

\* A clock keeps what jp.v has sampled: each button is sampled twice, both times
\* before the register is shifted on, and goes to its own place.
LEMMA StateStep ==
    ASSUME JoyInv, Joy!Clock
    PROVE  q_jp1_state' \in Joy!Bits /\ StateHolds'
<1>1. /\ q_jp1_state \in [1 .. Buttons -> 0 .. 1] /\ joy1_data \in [1 .. Buttons -> 0 .. 1]
      /\ PollShape /\ RegisterHolds /\ StateHolds
  BY DEF JoyInv, Joy!TypeOK, Joy!Bits
<1>2. /\ Buttons \in Nat \ {0} /\ Buttons >= 2
      /\ Bit \in 0 .. Buttons - 1 /\ Clk \in 0 .. BitClks - 1
      /\ Half \in Nat /\ Half >= 4 /\ BitClks = 2 * Half /\ Half' = Half
      /\ \/ Clk < BitClks - 1 /\ Bit' = Bit /\ Clk' = Clk + 1
         \/ Clk = BitClks - 1 /\ Bit < Buttons - 1 /\ Bit' = Bit + 1 /\ Clk' = 0
         \/ Clk = BitClks - 1 /\ Bit = Buttons - 1 /\ Bit' = 0 /\ Clk' = 0
  BY PollStep, JoyConstants DEF Half
<1> DEFINE idx == IF Bit = 0 THEN Buttons ELSE Bit
<1>3. q_jp1_state' = IF Clk < 2 THEN [q_jp1_state EXCEPT ![idx] = 1 - joy1_data[1]]
                     ELSE q_jp1_state
  BY PollStep
<1>4. joy1_data[1] \in 0 .. 1 /\ idx \in 1 .. Buttons
  BY <1>1, <1>2
<1>5. q_jp1_state' \in [1 .. Buttons -> 0 .. 1]
  BY <1>1, <1>3, <1>4
<1>6. \A j \in 1 .. Buttons :
         q_jp1_state'[j] = IF Clk < 2 /\ j = idx THEN 1 - joy1_data[1] ELSE q_jp1_state[j]
  BY <1>1, <1>3
\* What is sampled is the button's bit of the last latch.
<1>7. Clk < 2 /\ latched # << >> => joy1_data[1] = Last[idx]
  <2> SUFFICES ASSUME Clk < 2, latched # << >> PROVE joy1_data[1] = Last[idx]
    OBVIOUS
  <2>1. joy1_data[1] = IF 1 + Shifted <= Buttons THEN Last[1 + Shifted] ELSE 1
    BY <1>1, <1>2 DEF RegisterHolds
  <2>2. 1 + Shifted = idx
    BY <1>2 DEF Shifted
  <2> QED
    BY <2>1, <2>2, <1>4, <1>2
<1>8. Len(latched) = 2 => latched # << >>
  BY TwoOfSeq DEF JoyInv
<1> HIDE DEF idx
<1>9. CASE Bit = 0 /\ Clk = Half
  <2>1. /\ Sampled' = 0 /\ Sampled = Buttons
        /\ q_jp1_state' = q_jp1_state
        /\ Len(latched') = 2 => latched # << >> /\ latched'[1] = Last
    BY <1>9, <1>2, <1>3, LatchStep DEF Sampled
  <2>2. latched # << >> => \A j \in 1 .. Buttons : q_jp1_state[j] = 1 - Last[j]
    BY <2>1, <1>1, <1>2 DEF StateHolds
  <2>3. \A j \in 1 .. Buttons : ~ (j <= 0)
    BY <1>2
  <2> QED
    BY <2>1, <2>2, <2>3, <1>5 DEF StateHolds, Joy!Bits
<1>10. CASE ~ (Bit = 0 /\ Clk = Half)
  <2>1. latched' = latched /\ Last' = Last
    BY <1>10, LatchStep DEF Last
  <2>2. \A j \in 1 .. Buttons :
           j <= Sampled' <=> j <= Sampled \/ (Clk < 2 /\ j = idx)
    BY <1>10, <1>2 DEF Sampled, idx
  <2>3. latched # << >> =>
           \A j \in 1 .. Buttons : j <= Sampled' => q_jp1_state'[j] = 1 - Last[j]
    BY <2>2, <1>1, <1>6, <1>7 DEF StateHolds
  <2>4. Len(latched) = 2 =>
           \A j \in 1 .. Buttons : j > Sampled' => q_jp1_state'[j] = 1 - latched[1][j]
    <3> SUFFICES ASSUME Len(latched) = 2, NEW j \in 1 .. Buttons, j > Sampled'
                 PROVE  q_jp1_state'[j] = 1 - latched[1][j]
      OBVIOUS
    <3>1. Sampled \in Int /\ Sampled' \in Int
      BY <1>2 DEF Sampled
    <3>2. j > Sampled /\ ~ (Clk < 2 /\ j = idx)
      BY <3>1, <2>2
    <3> QED
      BY <3>2, <1>1, <1>6 DEF StateHolds
  <2> QED
    BY <2>1, <2>3, <2>4, <1>5 DEF StateHolds, Joy!Bits
<1> QED
  BY <1>9, <1>10

\* A clock keeps what the register behind $4016 will return.
LEMMA ReadStep ==
    ASSUME JoyInv, Joy!Clock
    PROVE  /\ q_read_state' \in [1 .. Buttons + 1 -> 0 .. 1]
           /\ reads' \in 0 .. Buttons + 1 /\ strobed' \in Joy!Bits
           /\ bus' \in {"other", "read", "write0", "write1"}
           /\ high' \in BOOLEAN /\ ReadHolds'
<1>1. /\ q_read_state \in [1 .. Buttons + 1 -> 0 .. 1]
      /\ strobed \in Joy!Bits /\ q_jp1_state \in [1 .. Buttons -> 0 .. 1]
      /\ reads \in 0 .. Buttons + 1 /\ Buttons \in Nat /\ Buttons >= 2
      /\ bus \in {"other", "read", "write0", "write1"}
      /\ ReadHolds
  BY JoyConstants DEF JoyInv, Joy!TypeOK, Joy!Bits
<1>2. /\ bus' \in {"other", "read", "write0", "write1"}
      /\ bus' = "read" => bus \in {"other", "read"}
  BY <1>1 DEF Joy!Clock, Joy!Cpu
<1>3. bus' \in {"other", "read", "write0", "write1"}
  BY <1>1, <1>2
<1>4. q_addr' <=> bus # "other"
  BY DEF Joy!Clock, Joy!Mmr, Joy!Addressed
<1>5. /\ reads' = IF Joy!GameStrobes THEN 0
                  ELSE IF Joy!GameReads /\ reads <= Buttons THEN reads + 1 ELSE reads
      /\ strobed' = IF Joy!GameStrobes THEN q_jp1_state ELSE strobed
  BY DEF Joy!Clock, Joy!Ghosts
<1>6. q_read_state' = IF Joy!GameStrobes THEN <<0>> \o q_jp1_state
                      ELSE IF Joy!GameReads THEN Append(Tail(q_read_state), 1)
                      ELSE q_read_state
  BY <1>1 DEF Joy!Clock, Joy!Mmr, Joy!Strobes, Joy!Reads, Joy!FirstClock, Joy!Addressed,
         Joy!GameStrobes, Joy!GameWrites, Joy!GameReads, ReadHolds
<1>10. high' = q_strobe_state' /\ high' \in BOOLEAN
  <2>1. high = q_strobe_state /\ q_strobe_state \in BOOLEAN
    BY <1>1 DEF ReadHolds, JoyInv, Joy!TypeOK
  <2> QED
    BY <2>1, <1>1 DEF Joy!Clock, Joy!Mmr, Joy!Ghosts, Joy!Strobes, Joy!FirstClock,
                      Joy!Addressed, Joy!GameWrites
<1>7. CASE Joy!GameStrobes
  <2>1. /\ reads' = 0 /\ strobed' = q_jp1_state
        /\ q_read_state' = <<0>> \o q_jp1_state
    BY <1>5, <1>6, <1>7
  <2>2. /\ q_read_state' \in [1 .. Buttons + 1 -> 0 .. 1]
        /\ \A j \in 1 .. Buttons + 1 :
               q_read_state'[j] = IF j = 1 THEN 0 ELSE q_jp1_state[j - 1]
    BY <2>1, <1>1, Strobe
  <2>3. ~ (bus' = "read" /\ q_addr')
    BY <1>2, <1>4, <1>7 DEF Joy!GameStrobes, Joy!GameWrites
  <2>4. ASSUME NEW j \in 1 .. Buttons + 1
        PROVE  q_read_state'[j] = IF reads' + j - 1 = 0 THEN 0
                                  ELSE IF reads' + j - 1 <= Buttons
                                       THEN strobed'[reads' + j - 1] ELSE 1
    <3>1. reads' + j - 1 = j - 1 /\ j - 1 <= Buttons
      BY <2>1, <1>1, <2>4
    <3> QED
      BY <3>1, <2>1, <2>2, <1>1, <2>4
  <2> QED
    BY <2>1, <2>2, <2>3, <2>4, <1>1, <1>3, <1>10 DEF ReadHolds, Returned, Joy!Bits
<1>8. CASE ~ Joy!GameStrobes /\ Joy!GameReads
  <2>1. /\ reads' = (IF reads <= Buttons THEN reads + 1 ELSE reads)
        /\ strobed' = strobed
        /\ q_read_state' = Append(Tail(q_read_state), 1)
    BY <1>5, <1>6, <1>8
  <2>2. /\ q_read_state' \in [1 .. Buttons + 1 -> 0 .. 1]
        /\ \A j \in 1 .. Buttons + 1 :
               q_read_state'[j] = IF j < Buttons + 1 THEN q_read_state[j + 1] ELSE 1
    BY <2>1, <1>1, ShiftRead
  <2>3. \A j \in 1 .. Buttons + 1 : q_read_state[j] = Returned(reads + j - 1)
    BY <1>1 DEF ReadHolds
  <2>4. ASSUME NEW j \in 1 .. Buttons + 1
        PROVE  q_read_state'[j] = IF reads' + j - 1 = 0 THEN 0
                                  ELSE IF reads' + j - 1 <= Buttons
                                       THEN strobed'[reads' + j - 1] ELSE 1
    <3>1. CASE j = Buttons + 1
      BY <3>1, <2>1, <2>2, <1>1
    <3>2. CASE j < Buttons + 1
      <4>1. j + 1 \in 1 .. Buttons + 1
        BY <3>2, <1>1, <2>4
      <4>2. q_read_state'[j] = Returned(reads + (j + 1) - 1)
        BY <3>2, <4>1, <2>2, <2>3
      <4>3. q_read_state'[j] = IF reads + j = 0 THEN 0
                                ELSE IF reads + j <= Buttons THEN strobed[reads + j] ELSE 1
        BY <4>2, <1>1, <2>4 DEF Returned
      <4> QED
        BY <4>3, <2>1, <1>1, <2>4
    <3> QED
      BY <3>1, <3>2, <1>1, <2>4
  <2>5. reads' >= 1 /\ reads' \in 0 .. Buttons + 1
    BY <2>1, <1>1
  <2> QED
    BY <2>1, <2>2, <2>4, <2>5, <1>1, <1>3, <1>10 DEF ReadHolds, Returned
<1>9. CASE ~ Joy!GameStrobes /\ ~ Joy!GameReads
  <2>1. reads' = reads /\ strobed' = strobed /\ q_read_state' = q_read_state
    BY <1>5, <1>6, <1>9
  <2>2. bus' = "read" /\ q_addr' => bus = "read" /\ q_addr
    BY <1>2, <1>4, <1>9 DEF Joy!GameReads
  <2> QED
    BY <2>1, <2>2, <1>1, <1>3, <1>10 DEF ReadHolds, Returned
<1> QED
  BY <1>7, <1>8, <1>9

\* Every clock, and every step that leaves the controllers alone, keeps JoyInv.
LEMMA JoyStep == JoyInv /\ [Joy!Next]_joyVars => JoyInv'
<1>1. ASSUME JoyInv, Joy!Clock PROVE JoyInv'
  <2>1. gpio_out' \in Joy!Bits
    BY <1>1, JoyConstants DEF JoyInv, Joy!TypeOK, Joy!Clock, Joy!Soc
  <2>2. last_nes_clock' \in BOOLEAN /\ q_jp_clk' \in BOOLEAN
    BY <1>1 DEF JoyInv, Joy!TypeOK, Joy!Clock, Joy!ShiftRegister, Joy!Poll
  <2>3. q_jp_latch' \in BOOLEAN /\ q_addr' \in BOOLEAN
    BY <1>1 DEF Joy!Clock, Joy!Poll, Joy!Mmr, Joy!Addressed
  <2>4. q_strobe_state' \in BOOLEAN
    BY <1>1 DEF JoyInv, Joy!TypeOK, Joy!Clock, Joy!Mmr
  <2>5. q_cnt' \in 0 .. Buttons * BitClks - 1
    BY <1>1, PollStep
  <2>6. latched' \in Seq(Joy!Bits) /\ Len(latched') <= 2
    BY <1>1, LatchStep
  <2>7. /\ q_read_state' \in [1 .. Buttons + 1 -> 0 .. 1]
        /\ reads' \in 0 .. Buttons + 1 /\ strobed' \in Joy!Bits
        /\ bus' \in {"other", "read", "write0", "write1"}
        /\ high' \in BOOLEAN /\ ReadHolds'
    BY <1>1, ReadStep
  <2>8. joy1_data' \in Joy!Bits /\ RegisterHolds'
    BY <1>1, RegisterStep
  <2>9. q_jp1_state' \in Joy!Bits /\ StateHolds'
    BY <1>1, StateStep
  <2>10. PollShape'
    BY <1>1, PollShapeStep
  <2>11. Joy!TypeOK'
    BY <2>1, <2>2, <2>3, <2>4, <2>5, <2>6, <2>7, <2>8, <2>9, Zenon DEF Joy!TypeOK
  <2> QED
    BY <2>6, <2>7, <2>8, <2>9, <2>10, <2>11 DEF JoyInv
<1>2. ASSUME JoyInv, UNCHANGED joyVars PROVE JoyInv'
  BY <1>2 DEF joyVars, JoyInv, Joy!TypeOK, PollShape, RegisterHolds, StateHolds, ReadHolds,
              Bit, Clk, Last, Shifted, Sampled, Returned
<1> QED
  BY <1>1, <1>2 DEF Joy!Next

\* JoyInv holds on the board.
LEMMA BoardJoy == BoardSpec => []JoyInv
<1>1. BoardInit => JoyInv
  BY JoyInit DEF BoardInit
<1>2. JoyInv /\ [BoardNext]_boardVars => JoyInv'
  <2>1. [BoardNext]_boardVars => [Joy!Next]_joyVars
    BY DEF BoardNext, boardVars
  <2> QED
    BY <2>1, JoyStep
<1> QED
  BY <1>1, <1>2, PTL DEF BoardSpec

-----------------------------------------------------------------------------
\* What jp.v has polled is the last latch up to some button and the latch before
\* from there on, whenever the SoC writes GPIO_OUTPUT.
THEOREM TornOnceCorrect == BoardSpec => []TornOnce
<1>1. JoyInv => TornOnce
  <2> SUFFICES ASSUME JoyInv, Len(latched) = 2
               PROVE  \E m \in 0 .. Buttons :
                         q_jp1_state = Joy!Flip([k \in 1 .. Buttons |->
                             IF k <= m THEN latched[2][k] ELSE latched[1][k]])
    BY DEF TornOnce, Joy!TornOnce
  <2>1. q_jp1_state \in [1 .. Buttons -> 0 .. 1] /\ latched # << >>
    BY TwoOfSeq DEF JoyInv, Joy!TypeOK, Joy!Bits
  <2>2. Sampled \in 0 .. Buttons
    <3>1. Bit \in 0 .. Buttons - 1
      BY PollCounts DEF JoyInv, Joy!TypeOK, Bit
    <3> QED
      BY <3>1, JoyConstants DEF Sampled
  <2>3. \A j \in 1 .. Buttons :
           /\ j <= Sampled => q_jp1_state[j] = 1 - latched[2][j]
           /\ j > Sampled => q_jp1_state[j] = 1 - latched[1][j]
    BY <2>1 DEF JoyInv, StateHolds, Last
  <2> DEFINE torn == [k \in 1 .. Buttons |->
                        IF k <= Sampled THEN latched[2][k] ELSE latched[1][k]]
  <2>4. q_jp1_state = Joy!Flip(torn)
    BY <2>1, <2>2, <2>3, JoyConstants DEF Joy!Flip
  <2> QED
    BY <2>2, <2>4
<1> QED
  BY <1>1, BoardJoy, PTL

\* jp.v:170: the n-th read of $4016 returns the n-th strobed button, and 1 after the
\* last, whatever the poll does between the reads.
THEOREM ReadsInOrderCorrect == BoardSpec => []ReadsInOrder
<1>1. JoyInv => ReadsInOrder
  <2> SUFFICES ASSUME JoyInv, bus = "read", q_addr
               PROVE  Joy!Dout = IF reads <= Buttons THEN strobed[reads] ELSE 1
    BY DEF ReadsInOrder, Joy!ReadsInOrder
  <2>1. reads \in 0 .. Buttons + 1 /\ reads >= 1 /\ 1 \in 1 .. Buttons + 1
    BY JoyConstants DEF JoyInv, Joy!TypeOK, ReadHolds
  <2>2. q_read_state[1] = Returned(reads + 1 - 1)
    BY <2>1 DEF JoyInv, ReadHolds
  <2> QED
    BY <2>1, <2>2, JoyConstants DEF Returned, Joy!Dout
<1> QED
  BY <1>1, BoardJoy, PTL

-----------------------------------------------------------------------------
(***************************************************************************)
(* The sprite DMA: its inductive invariant.                                 *)
(***************************************************************************)
\* The write of $4014 that begins a copy is on the bus.
Copying == op.to = "dma" /\ op.write

\* A copy runs while the write of $4014 that began it is on the bus and is over in
\* the clock after it; sprdma.v's address is in the page of that write.
CopyShape ==
    /\ q_state = "ACTIVE" =>
         /\ Copying /\ dma_addr = <<op.data[1], dma_addr[2]>>
         /\ dma_addr[2] \in Dma!Index
    /\ q_state = "READY" /\ Copying => dma_clk_phase = 1
    /\ q_state = "COOLDOWN" => Copying \/ (op = Dma!Other /\ dma_clk_phase = 1)
    /\ q_state # "ACTIVE" => dma_cnt = 0
    /\ q_state = "ACTIVE" /\ dma_cnt = 2 => q_ncs_in = TRUE

\* The byte on its way: in the block RAM's address register, then in q_data.
CopyStages ==
    q_state = "ACTIVE" /\ ~ broken =>
        /\ dma_cnt = 1 => q_ram_a = dma_addr
        /\ dma_cnt = 2 => q_data = dma_addr

\* The bytes copied so far lie behind the sprite pointer, the last one next to it.
Place(i, k) == (q_spr_ram_a + (PageLen - i) + k) % PageLen
Copied(i) == \A k \in 0 .. i - 1 : oam[Place(i, k)] = <<op.data[1], k>>

\* Without a break every byte before the current one has arrived.
CopyHolds ==
    Copying /\ ~ broken =>
        /\ q_state = "ACTIVE" => Copied(dma_addr[2])
        /\ q_state = "COOLDOWN" => Copied(PageLen)

\* In a stretch on one of its registers ppu_ri.v has not acted before the second
\* clock, and once from then on; behind another such stretch it does not act.
ActsOnce ==
    /\ dma_hci_active => accesses = 0 /\ behind = FALSE
    /\ op.to \in Dma!Registers /\ ~ dma_hci_active =>
         \/ behind = TRUE /\ accesses = 0 /\ q_ncs_in = FALSE
         \/ behind = FALSE /\ accesses = 0 /\ q_ncs_in = TRUE
         \/ behind = FALSE /\ accesses = 1 /\ q_ncs_in = FALSE

\* The inductive invariant.
DmaInv == Dma!TypeOK /\ CopyShape /\ CopyStages /\ CopyHolds /\ ActsOnce

-----------------------------------------------------------------------------
\* What is assumed of the constants of the DMA.
LEMMA DmaConstants ==
    PageLen \in Nat \ {0} /\ LastPhase \in Nat /\ LastPhase >= 2
BY BoardAssumption DEF BoardAssumption, Dma!DmaAssumption

\* The bus cycles of the CPU, told apart by their target.
LEMMA CpuCycles ==
    ASSUME NEW c \in Dma!CpuOps
    PROVE  /\ c.write \in BOOLEAN
           /\ c.to \in {"other", "dma"} \cup Dma!Registers
           /\ c.to = "other" <=> c = Dma!Other
           /\ c = Dma!Other => c.write = FALSE
           /\ c.write /\ c.to = "dma" => \E p \in Pages : c.data = <<p, 0>>
           /\ c.write /\ c.to = "oamaddr" => c.data[2] \in Dma!Index
           /\ c.write /\ c.to = "oamdata" => c.data \in Bytes
<1>1. Dma!Other.to = "other" /\ Dma!Other.write = FALSE
  BY DEF Dma!Other, Dma!Access
<1>2. CASE c = Dma!Other
  BY <1>1, <1>2
<1>3. ASSUME NEW p \in Pages, c = Dma!Access("dma", TRUE, <<p, 0>>)
      PROVE  c.to = "dma" /\ c.write = TRUE /\ c.data = <<p, 0>>
  BY <1>3 DEF Dma!Access
<1>4. ASSUME NEW a \in {0, PageLen - 1}, c = Dma!Access("oamaddr", TRUE, <<"index", a>>)
      PROVE  c.to = "oamaddr" /\ c.write = TRUE /\ c.data[2] \in Dma!Index
  BY <1>4, DmaConstants DEF Dma!Access, Dma!Index
<1>5. ASSUME NEW b \in Bytes, c = Dma!Access("oamdata", TRUE, b)
      PROVE  c.to = "oamdata" /\ c.write = TRUE /\ c.data \in Bytes
  BY <1>5 DEF Dma!Access
<1>6. ASSUME c = Dma!Access("ppu", TRUE, Dma!Nothing)
      PROVE  c.to = "ppu" /\ c.write = TRUE
  BY <1>6 DEF Dma!Access
<1>7. ASSUME NEW t \in Dma!Registers \cup {"dma"}, c = Dma!Read(t)
      PROVE  c.to \in {"dma", "oamaddr", "oamdata", "ppu"} /\ c.write = FALSE
  BY <1>7 DEF Dma!Read, Dma!Access, Dma!Registers
<1>8. \/ c = Dma!Other
      \/ \E t \in Dma!Registers \cup {"dma"} : c = Dma!Read(t)
      \/ \E p \in Pages : c = Dma!Access("dma", TRUE, <<p, 0>>)
      \/ \E a \in {0, PageLen - 1} : c = Dma!Access("oamaddr", TRUE, <<"index", a>>)
      \/ \E b \in Bytes : c = Dma!Access("oamdata", TRUE, b)
      \/ c = Dma!Access("ppu", TRUE, Dma!Nothing)
  BY DEF Dma!CpuOps
<1> QED
  BY <1>1, <1>2, <1>3, <1>4, <1>5, <1>6, <1>7, <1>8 DEF Dma!Registers

\* Behind a bus cycle of the CPU comes another, and behind a write none of these.
LEMMA CpuFollows ==
    ASSUME NEW c \in Dma!CpuOps, NEW n \in Dma!Following(c)
    PROVE  n \in Dma!CpuOps /\ (c.write => n = Dma!Other)
<1>1. CASE c = Dma!Other
  BY <1>1, CpuCycles DEF Dma!Following
<1>2. CASE c # Dma!Other /\ c.write
  BY <1>2 DEF Dma!Following, Dma!CpuOps
<1>3. CASE c # Dma!Other /\ ~ c.write
  <2>1. \/ n = Dma!Other \/ n \in Dma!CpuOps
        \/ \E t \in {c.to} \cap Dma!Registers : n = Dma!Read(Dma!NextRegister(t))
    BY <1>3 DEF Dma!Following
  <2>2. \A t \in Dma!Registers : Dma!NextRegister(t) \in Dma!Registers
    BY DEF Dma!Registers, Dma!NextRegister
  <2>3. \A t \in Dma!Registers : Dma!Read(t) \in Dma!CpuOps
    BY DEF Dma!CpuOps
  <2>4. Dma!Other \in Dma!CpuOps
    BY DEF Dma!CpuOps
  <2> QED
    BY <1>3, <2>1, <2>2, <2>3, <2>4
<1> QED
  BY <1>1, <1>2, <1>3

\* A write of $4014 names the first byte of a page.
LEMMA CopyCycle ==
    ASSUME NEW c \in Dma!CpuOps, c.to = "dma", c.write
    PROVE  /\ c # Dma!Other /\ c.data = <<c.data[1], 0>>
           /\ c.data[1] \in Pages /\ c.data \in Dma!Sources
<1>1. c # Dma!Other
  BY CpuCycles
<1>2. PICK p \in Pages : c.data = <<p, 0>>
  BY <1>1, CpuCycles
<1>3. c.data[1] = p
  BY <1>2
<1>4. <<p, 0>> \in Pages \X Dma!Index
  BY DmaConstants DEF Dma!Index
<1> QED
  BY <1>1, <1>2, <1>3, <1>4 DEF Dma!Sources

\* The DMA as reset leaves it.
LEMMA DmaInit == Dma!Init => DmaInv
<1> SUFFICES ASSUME Dma!Init PROVE DmaInv
  OBVIOUS
<1>1. op = Dma!Other /\ op \in Dma!CpuOps /\ op.to = "other"
  BY DEF Dma!Init, Dma!CpuOps, Dma!Other, Dma!Access
<1>2. Dma!TypeOK
  <2>1. /\ dma_clk_phase \in 0 .. LastPhase /\ dma_cnt \in 0 .. 2
        /\ q_spr_ram_a \in Dma!Index /\ accesses \in 0 .. 2
    BY DmaConstants DEF Dma!Init, Dma!Index
  <2>2. /\ dma_ready \in BOOLEAN /\ q_ncs_in \in BOOLEAN
        /\ dma_hci_active \in BOOLEAN /\ broken \in BOOLEAN
        /\ behind \in BOOLEAN
    BY DEF Dma!Init
  <2>3. /\ q_state \in {"READY", "ACTIVE", "COOLDOWN"}
        /\ dma_addr \in Dma!Sources /\ q_data \in Dma!Sources /\ q_ram_a \in Dma!Sources
        /\ oam \in [Dma!Index -> Dma!Sources]
    BY DEF Dma!Init, Dma!Sources
  <2> QED
    BY <1>1, <2>1, <2>2, <2>3 DEF Dma!TypeOK
<1>3. CopyShape /\ CopyStages /\ CopyHolds /\ ActsOnce
  BY <1>1 DEF Dma!Init, Dma!Registers, Copying, CopyShape, CopyStages, CopyHolds, ActsOnce
<1> QED
  BY <1>2, <1>3 DEF DmaInv

\* What a clock finds on the bus, and what it does with it.
LEMMA BusStep ==
    ASSUME DmaInv, Dma!Clock
    PROVE  /\ dma_hci_active => Dma!Bus = Dma!Other
           /\ ~ dma_hci_active /\ q_state # "ACTIVE" => Dma!Bus = op
           /\ ~ dma_hci_active /\ q_state = "ACTIVE" /\ dma_cnt # 2 =>
                Dma!Bus.to = "ram" /\ Dma!Bus.data = dma_addr
           /\ ~ dma_hci_active /\ q_state = "ACTIVE" /\ dma_cnt = 2 =>
                Dma!Bus.to = "oamdata" /\ Dma!Bus.write = TRUE /\ Dma!Bus.data = q_data
           /\ Dma!Other.to = "other"
           /\ Dma!Selected <=> Dma!Bus.to \in Dma!Registers
           /\ q_ncs_in' = ~ Dma!Selected
           /\ dma_cnt \in 0 .. 2 /\ op \in Dma!CpuOps
BY DEF DmaInv, Dma!TypeOK, Dma!Clock, Dma!Ppu, Dma!Bus, Dma!DmaAccess, Dma!Access,
       Dma!Read, Dma!Other, Dma!Selected

\* The CPU and its bus cycle: it goes on at phase 0 only, and never during a copy.
LEMMA CycleStep ==
    ASSUME DmaInv, Dma!Clock
    PROVE  /\ Dma!CycleEnds => /\ q_state # "ACTIVE" /\ dma_clk_phase = 0
                               /\ dma_clk_phase' = 1 /\ ~ dma_hci_active
                               /\ Copying => op' = Dma!Other
           /\ ~ Dma!CycleEnds => op' = op
           /\ op' \in Dma!CpuOps
           /\ dma_clk_phase' \in 0 .. LastPhase
           /\ broken' <=> ~ Dma!CycleEnds /\ (broken \/ dma_hci_active)
<1>1. /\ Dma!CycleEnds => /\ q_state # "ACTIVE" /\ dma_clk_phase = 0
                          /\ dma_clk_phase' = 1 /\ ~ dma_hci_active
                          /\ op' \in Dma!Following(op)
      /\ ~ Dma!CycleEnds => op' = op
      /\ dma_clk_phase' \in 0 .. LastPhase
      /\ broken' <=> ~ Dma!CycleEnds /\ (broken \/ dma_hci_active)
      /\ op \in Dma!CpuOps
  BY DmaConstants DEF DmaInv, Dma!TypeOK, Dma!Clock, Dma!Cpu, Dma!CycleEnds, Dma!Rdy,
         Dma!ReadyIn, Dma!Ghosts
<1>2. Dma!CycleEnds => op' \in Dma!CpuOps /\ (Copying => op' = Dma!Other)
  BY <1>1, CpuFollows DEF Copying
<1> QED
  BY <1>1, <1>2

\* What sprdma.v does in a clock, state by state.
LEMMA EngineStep ==
    ASSUME DmaInv, Dma!Clock
    PROVE  /\ q_state = "READY" =>
                /\ q_state' = IF Copying THEN "ACTIVE" ELSE "READY"
                /\ dma_addr' = IF Copying THEN op.data ELSE dma_addr
                /\ dma_cnt' = 0 /\ q_data' = q_data
           /\ q_state = "ACTIVE" =>
                /\ q_data' = IF dma_cnt = 1 THEN Dma!ReadData ELSE q_data
                /\ dma_cnt' = IF dma_cnt = 2 THEN 0 ELSE dma_cnt + 1
                /\ q_state' = IF dma_cnt = 2 /\ dma_addr[2] = PageLen - 1
                              THEN "COOLDOWN" ELSE "ACTIVE"
                /\ dma_addr' = IF dma_cnt = 2 /\ dma_addr[2] # PageLen - 1
                               THEN <<op.data[1], dma_addr[2] + 1>> ELSE dma_addr
           /\ q_state = "COOLDOWN" =>
                /\ q_state' = IF Copying THEN "COOLDOWN" ELSE "READY"
                /\ dma_cnt' = 0 /\ q_data' = q_data /\ dma_addr' = dma_addr
           /\ q_state \in {"READY", "ACTIVE", "COOLDOWN"}
<1>1. /\ q_state \in {"READY", "ACTIVE", "COOLDOWN"} /\ dma_cnt \in 0 .. 2
      /\ op \in Dma!CpuOps /\ CopyShape
  BY DEF DmaInv, Dma!TypeOK
<1>2. Dma!DmaReady \/ Dma!DmaActive \/ Dma!DmaCooldown
  BY DEF Dma!Clock, Dma!Dma
<1>3. CASE q_state = "READY"
  BY <1>1, <1>2, <1>3
     DEF Dma!DmaReady, Dma!DmaActive, Dma!DmaCooldown, CopyShape, Copying
<1>4. CASE q_state = "ACTIVE"
  <2>1. dma_addr[1] = op.data[1]
    BY <1>1, <1>4 DEF CopyShape
  <2>2. /\ q_data' = IF dma_cnt = 1 THEN Dma!ReadData ELSE q_data
        /\ dma_cnt' = (dma_cnt + 1) % 3
        /\ q_state' = IF dma_cnt = 2 /\ dma_addr[2] = PageLen - 1
                      THEN "COOLDOWN" ELSE "ACTIVE"
        /\ dma_addr' = IF dma_cnt = 2 /\ ~ (dma_addr[2] = PageLen - 1)
                       THEN <<dma_addr[1], dma_addr[2] + 1>> ELSE dma_addr
    BY <1>2, <1>4 DEF Dma!DmaReady, Dma!DmaActive, Dma!DmaCooldown, Dma!Latches,
                      Dma!LastByte, Dma!AfterLastByte
  <2>3. (dma_cnt + 1) % 3 = IF dma_cnt = 2 THEN 0 ELSE dma_cnt + 1
    BY <1>1
  <2> QED
    BY <2>1, <2>2, <2>3, <1>4
<1>5. CASE q_state = "COOLDOWN"
  <2>1. op.write = TRUE <=> Copying
    BY <1>1, <1>5, CpuCycles DEF CopyShape, Copying
  <2>2. op.write \in BOOLEAN
    BY <1>1, CpuCycles
  <2> QED
    BY <2>1, <2>2, <1>1, <1>2, <1>5
       DEF Dma!DmaReady, Dma!DmaActive, Dma!DmaCooldown, CopyShape
<1> QED
  BY <1>1, <1>3, <1>4, <1>5

\* Sprite RAM and its pointer change only when ppu_ri.v acts.
LEMMA SpriteRamStep ==
    ASSUME DmaInv, Dma!Clock
    PROVE  /\ q_spr_ram_a \in 0 .. PageLen - 1 /\ q_spr_ram_a' \in 0 .. PageLen - 1
           /\ oam' \in [0 .. PageLen - 1 -> Dma!Sources]
           /\ ~ Dma!Accessed => q_spr_ram_a' = q_spr_ram_a /\ oam' = oam
           /\ Dma!Accessed /\ Dma!Bus.write /\ Dma!Bus.to = "oamdata" =>
                /\ q_spr_ram_a' = (q_spr_ram_a + 1) % PageLen
                /\ oam' = [oam EXCEPT ![q_spr_ram_a] = Dma!Bus.data]
           /\ Dma!Accessed <=> q_ncs_in /\ Dma!Bus.to \in Dma!Registers
<1>1. /\ q_spr_ram_a \in 0 .. PageLen - 1 /\ oam \in [0 .. PageLen - 1 -> Dma!Sources]
      /\ q_data \in Dma!Sources /\ op \in Dma!CpuOps
  BY DEF DmaInv, Dma!TypeOK, Dma!Index
<1>2. /\ q_spr_ram_a' = IF ~ Dma!Accessed THEN q_spr_ram_a
                        ELSE IF Dma!Bus.write /\ Dma!Bus.to = "oamaddr"
                             THEN Dma!Bus.data[2]
                        ELSE IF Dma!Bus.write /\ Dma!Bus.to = "oamdata"
                             THEN (q_spr_ram_a + 1) % PageLen
                        ELSE q_spr_ram_a
      /\ oam' = IF Dma!Accessed /\ Dma!Bus.write /\ Dma!Bus.to = "oamdata"
                THEN [oam EXCEPT ![q_spr_ram_a] = Dma!Bus.data] ELSE oam
  BY DEF Dma!Clock, Dma!Ppu
<1>3. Dma!Accessed <=> q_ncs_in /\ Dma!Bus.to \in Dma!Registers
  BY DEF Dma!Accessed, Dma!Selected
<1>4. Dma!Bus.write /\ Dma!Bus.to = "oamdata" => Dma!Bus.data \in Dma!Sources
  <2>1. op.write /\ op.to = "oamdata" => op.data \in Dma!Sources
    BY <1>1, CpuCycles DEF Dma!Sources
  <2> QED
    BY <2>1, <1>1, BusStep
<1>5. Dma!Bus.write /\ Dma!Bus.to = "oamaddr" => Dma!Bus.data[2] \in 0 .. PageLen - 1
  <2>1. op.write /\ op.to = "oamaddr" => op.data[2] \in 0 .. PageLen - 1
    BY <1>1, CpuCycles DEF Dma!Index
  <2> QED
    BY <2>1, BusStep DEF Dma!Registers
<1>6. (q_spr_ram_a + 1) % PageLen \in 0 .. PageLen - 1
  BY <1>1, DmaConstants
<1>7. oam' \in [0 .. PageLen - 1 -> Dma!Sources]
  BY <1>1, <1>2, <1>4
<1>8. q_spr_ram_a' \in 0 .. PageLen - 1
  BY <1>1, <1>2, <1>5, <1>6
<1>9. ~ Dma!Accessed => q_spr_ram_a' = q_spr_ram_a /\ oam' = oam
  BY <1>2
<1>10. Dma!Accessed /\ Dma!Bus.write /\ Dma!Bus.to = "oamdata" =>
           /\ q_spr_ram_a' = (q_spr_ram_a + 1) % PageLen
           /\ oam' = [oam EXCEPT ![q_spr_ram_a] = Dma!Bus.data]
  BY <1>2
<1> QED
  BY <1>1, <1>3, <1>7, <1>8, <1>9, <1>10

\* A clock keeps the course of a copy.
LEMMA CopyShapeStep ==
    ASSUME DmaInv, Dma!Clock
    PROVE  CopyShape'
<1>1. /\ op \in Dma!CpuOps /\ dma_cnt \in 0 .. 2 /\ q_ncs_in \in BOOLEAN /\ CopyShape
      /\ PageLen \in Nat \ {0}
  BY DmaConstants DEF DmaInv, Dma!TypeOK
<1>2. /\ Dma!CycleEnds => /\ q_state # "ACTIVE" /\ dma_clk_phase = 0
                          /\ dma_clk_phase' = 1
      /\ ~ Dma!CycleEnds => op' = op
      /\ Dma!CycleEnds /\ Copying => op' = Dma!Other
  BY CycleStep
<1>3. Copying => op # Dma!Other /\ op.data = <<op.data[1], 0>>
  BY <1>1, CopyCycle DEF Copying
<1>4. Dma!Other.to = "other"
  BY BusStep
<1>5. q_state' = "ACTIVE" => /\ Copying' /\ dma_addr' = <<op'.data[1], dma_addr'[2]>>
                             /\ dma_addr'[2] \in Dma!Index'
  <2>1. CASE q_state = "ACTIVE"
    <3>1. op' = op /\ Copying /\ dma_addr = <<op.data[1], dma_addr[2]>>
          /\ dma_addr[2] \in 0 .. PageLen - 1
      BY <2>1, <1>1, <1>2 DEF CopyShape, Dma!Index
    <3>2. /\ dma_addr' = IF dma_cnt = 2 /\ dma_addr[2] # PageLen - 1
                         THEN <<op.data[1], dma_addr[2] + 1>> ELSE dma_addr
      BY <2>1, EngineStep
    <3>3. CASE dma_cnt = 2 /\ dma_addr[2] # PageLen - 1
      <4>1. dma_addr' = <<op.data[1], dma_addr[2] + 1>>
        BY <3>2, <3>3
      <4>2. dma_addr[2] + 1 \in 0 .. PageLen - 1
        BY <3>1, <3>3, <1>1
      <4> QED
        BY <4>1, <4>2, <3>1 DEF Dma!Index, Copying
    <3>4. CASE ~ (dma_cnt = 2 /\ dma_addr[2] # PageLen - 1)
      BY <3>1, <3>2, <3>4 DEF Dma!Index, Copying
    <3> QED
      BY <3>3, <3>4
  <2>2. CASE q_state = "READY"
    <3>1. q_state' = "ACTIVE" => Copying /\ dma_addr' = op.data
      BY <2>2, EngineStep
    <3>2. Copying => op' = op
      BY <2>2, <1>1, <1>2 DEF CopyShape
    <3>3. 0 \in 0 .. PageLen - 1
      BY <1>1
    <3> SUFFICES ASSUME q_state' = "ACTIVE"
                 PROVE  /\ Copying' /\ dma_addr' = <<op'.data[1], dma_addr'[2]>>
                        /\ dma_addr'[2] \in Dma!Index'
      OBVIOUS
    <3>4. dma_addr' = <<op.data[1], 0>> /\ op' = op /\ Copying
      BY <3>1, <3>2, <1>3
    <3>5. dma_addr'[2] = 0
      BY <3>4
    <3> QED
      BY <3>3, <3>4, <3>5 DEF Dma!Index, Copying
  <2>3. CASE q_state = "COOLDOWN"
    BY <2>3, EngineStep
  <2> QED
    BY <2>1, <2>2, <2>3, EngineStep
<1>6. q_state' = "READY" /\ Copying' => dma_clk_phase' = 1
  <2>1. CASE Dma!CycleEnds
    BY <2>1, <1>2
  <2>2. CASE ~ Dma!CycleEnds
    BY <2>2, <1>1, <1>2, <1>4, EngineStep DEF CopyShape, Copying
  <2> QED
    BY <2>1, <2>2
<1>7. q_state' = "COOLDOWN" => Copying' \/ (op' = Dma!Other' /\ dma_clk_phase' = 1)
  <2>1. q_state' = "COOLDOWN" => Copying
    BY <1>1, <1>4, EngineStep DEF CopyShape
  <2>2. Dma!Other' = Dma!Other
    BY DEF Dma!Other, Dma!Access, Dma!Nothing
  <2> QED
    BY <2>1, <2>2, <1>2, <1>3 DEF Copying
<1>8. q_state' # "ACTIVE" => dma_cnt' = 0
  BY <1>1, EngineStep
<1>9. q_state' = "ACTIVE" /\ dma_cnt' = 2 => q_ncs_in' = TRUE
  <2>1. q_state' = "ACTIVE" /\ dma_cnt' = 2 => q_state = "ACTIVE" /\ dma_cnt = 1
    BY <1>1, EngineStep
  <2>2. q_state = "ACTIVE" /\ dma_cnt = 1 => ~ Dma!Selected
    BY BusStep DEF Dma!Registers
  <2>3. q_ncs_in' = ~ Dma!Selected
    BY BusStep
  <2> QED
    BY <2>1, <2>2, <2>3
<1> QED
  BY <1>5, <1>6, <1>7, <1>8, <1>9 DEF CopyShape

\* A clock keeps the types.
LEMMA DmaTypeStep ==
    ASSUME DmaInv, Dma!Clock
    PROVE  Dma!TypeOK'
<1>1. /\ op \in Dma!CpuOps /\ dma_cnt \in 0 .. 2 /\ accesses \in 0 .. 2
      /\ dma_addr \in Dma!Sources /\ q_data \in Dma!Sources /\ q_ram_a \in Dma!Sources
      /\ CopyShape
  BY DEF DmaInv, Dma!TypeOK
<1>2. /\ op' \in Dma!CpuOps /\ dma_clk_phase' \in 0 .. LastPhase
      /\ accesses' \in 0 .. 2
  BY <1>1, CycleStep DEF Dma!Clock, Dma!Ghosts, Dma!Acted
<1>3. q_state' \in {"READY", "ACTIVE", "COOLDOWN"} /\ dma_cnt' \in 0 .. 2
  BY <1>1, EngineStep
<1>4. Copying => op.data \in Dma!Sources
  BY <1>1, CopyCycle DEF Copying
<1>5. Dma!Nothing \in Dma!Sources
  BY DEF Dma!Sources
<1>6. q_ram_a' \in Dma!Sources
  <2>1. q_ram_a' = IF Dma!Bus.to = "ram" THEN Dma!Bus.data ELSE Dma!Nothing
    BY DEF Dma!Clock, Dma!Ram
  <2>2. op.to # "ram"
    BY <1>1, CpuCycles DEF Dma!Registers
  <2> QED
    BY <2>1, <2>2, <1>1, <1>5, BusStep
<1>7. q_data' \in Dma!Sources
  BY <1>1, <1>5, EngineStep DEF Dma!ReadData
<1>8. dma_addr' \in Dma!Sources
  <2>1. CASE q_state = "ACTIVE" /\ dma_cnt = 2 /\ dma_addr[2] # PageLen - 1
    <3>1. /\ Copying /\ dma_addr[2] \in 0 .. PageLen - 1
          /\ dma_addr' = <<op.data[1], dma_addr[2] + 1>>
      BY <2>1, <1>1, EngineStep DEF CopyShape, Dma!Index
    <3>2. op.data[1] \in Pages
      BY <3>1, <1>1, CopyCycle DEF Copying
    <3>3. dma_addr[2] + 1 \in Dma!Index
      BY <3>1, <2>1, DmaConstants DEF Dma!Index
    <3> QED
      BY <3>1, <3>2, <3>3 DEF Dma!Sources
  <2>2. CASE ~ (q_state = "ACTIVE" /\ dma_cnt = 2 /\ dma_addr[2] # PageLen - 1)
    BY <2>2, <1>1, <1>4, EngineStep
  <2> QED
    BY <2>1, <2>2
<1>9. q_spr_ram_a' \in Dma!Index /\ oam' \in [Dma!Index -> Dma!Sources]
  BY SpriteRamStep DEF Dma!Index
<1>10. /\ dma_ready' \in BOOLEAN /\ q_ncs_in' \in BOOLEAN
       /\ dma_hci_active' \in BOOLEAN /\ broken' \in BOOLEAN
       /\ behind' \in BOOLEAN
  BY DEF Dma!Clock, Dma!Cpu, Dma!ReadyIn, Dma!Ppu, Dma!Hci, Dma!Ghosts,
         Dma!Selected, DmaInv, Dma!TypeOK
<1>11. Dma!Sources' = Dma!Sources /\ Dma!Index' = Dma!Index /\ Dma!CpuOps' = Dma!CpuOps
  OBVIOUS
<1> QED
  BY <1>2, <1>3, <1>6, <1>7, <1>8, <1>9, <1>10, <1>11 DEF Dma!TypeOK

\* A clock moves the byte one stage on.
LEMMA CopyStagesStep ==
    ASSUME DmaInv, Dma!Clock
    PROVE  CopyStages'
<1> SUFFICES ASSUME q_state' = "ACTIVE", ~ broken'
             PROVE  /\ dma_cnt' = 1 => q_ram_a' = dma_addr'
                    /\ dma_cnt' = 2 => q_data' = dma_addr'
  BY DEF CopyStages
<1>1. /\ dma_cnt \in 0 .. 2 /\ CopyStages /\ CopyShape
  BY DEF DmaInv, Dma!TypeOK
<1>2. q_ram_a' = IF Dma!Bus.to = "ram" THEN Dma!Bus.data ELSE Dma!Nothing
  BY DEF Dma!Clock, Dma!Ram
<1>3. CASE q_state = "ACTIVE"
  <2>1. ~ broken /\ ~ dma_hci_active
    BY <1>3, CycleStep
  <2>2. dma_cnt = 0 => q_ram_a' = dma_addr /\ dma_addr' = dma_addr
    BY <2>1, <1>2, <1>3, BusStep, EngineStep
  <2>3. dma_cnt = 1 => q_data' = q_ram_a /\ dma_addr' = dma_addr
    BY <2>1, <1>3, BusStep, EngineStep DEF Dma!ReadData
  <2> QED
    BY <2>1, <2>2, <2>3, <1>1, <1>3, EngineStep DEF CopyStages
<1>4. CASE q_state # "ACTIVE"
  BY <1>1, <1>4, EngineStep
<1> QED
  BY <1>3, <1>4

\* What the write of byte i does to the bytes before it.
LEMMA NextPlace ==
    ASSUME NEW s \in 0 .. PageLen - 1, NEW i \in 0 .. PageLen - 1,
           NEW k \in 0 .. i
    PROVE  LET t == (s + 1) % PageLen
           IN  /\ (t + (PageLen - (i + 1)) + k) % PageLen
                    = IF k = i THEN s ELSE (s + (PageLen - i) + k) % PageLen
               /\ k # i => (s + (PageLen - i) + k) % PageLen \in (0 .. PageLen - 1) \ {s}
<1> DEFINE n == PageLen
           t == (s + 1) % n
<1>1. n \in Nat \ {0} /\ i + 1 <= n /\ s \in 0 .. n - 1 /\ i \in 0 .. n - 1
  BY DmaConstants
<1> HIDE DEF n
<1>2. t = IF s + 1 < n THEN s + 1 ELSE 0
  <2> DEFINE z == s + 1
  <2>1. z \in 0 .. 2 * n - 1 /\ t = z % n
    BY <1>1
  <2> HIDE DEF t
  <2>2. z % n = IF z < n THEN z ELSE z - n
    <3> HIDE DEF z
    <3> QED
      BY <1>1, <2>1, WrapsOnce
  <2> QED
    BY <1>1, <2>1, <2>2
<1> HIDE DEF t
<1> DEFINE x == t + (n - (i + 1)) + k
           y == s + (n - i) + k
<1>3. x \in 0 .. 2 * n - 1 /\ (k # i => y \in 0 .. 2 * n - 1)
  BY <1>1, <1>2
<1>4. x % n = IF x < n THEN x ELSE x - n
  <2> HIDE DEF x
  <2> QED
    BY <1>1, <1>3, WrapsOnce
<1>5. k # i => y % n = IF y < n THEN y ELSE y - n
  <2> HIDE DEF y
  <2> QED
    BY <1>1, <1>3, WrapsOnce
<1>6. /\ (t + (n - (i + 1)) + k) % n = IF k = i THEN s ELSE (s + (n - i) + k) % n
      /\ k # i => (s + (n - i) + k) % n \in (0 .. n - 1) \ {s}
  BY <1>1, <1>2, <1>4, <1>5
<1> QED
  BY <1>6 DEF n, t

\* A clock keeps the bytes that were copied: only the third stage writes, next to
\* them.
LEMMA CopyHoldsStep ==
    ASSUME DmaInv, Dma!Clock
    PROVE  CopyHolds'
<1> SUFFICES ASSUME Copying', ~ broken'
             PROVE  /\ q_state' = "ACTIVE" => Copied(dma_addr[2])'
                    /\ q_state' = "COOLDOWN" => Copied(PageLen)'
  BY DEF CopyHolds
<1>1. /\ dma_cnt \in 0 .. 2 /\ CopyStages /\ CopyShape /\ CopyHolds
      /\ op \in Dma!CpuOps /\ oam \in [0 .. PageLen - 1 -> Dma!Sources]
      /\ q_ncs_in \in BOOLEAN
  BY DEF DmaInv, Dma!TypeOK, Dma!Index
<1>2. CASE Dma!CycleEnds
  <2>1. q_state # "ACTIVE" /\ dma_clk_phase = 0
    BY <1>2, CycleStep
  <2>2. q_state = "COOLDOWN" => Copying
    BY <2>1, <1>1 DEF CopyShape
  <2>3. Copying => op' = Dma!Other
    BY <1>2, CycleStep
  <2>4. Dma!Other.to = "other"
    BY BusStep
  <2> QED
    BY <2>1, <2>2, <2>3, <2>4, <1>1, EngineStep DEF CopyShape, Copying
<1>3. CASE ~ Dma!CycleEnds /\ q_state = "ACTIVE" /\ dma_cnt = 2
  <2> DEFINE i == dma_addr[2]
             s == q_spr_ram_a
  <2>1. /\ op' = op /\ Copying /\ ~ broken /\ ~ dma_hci_active
        /\ dma_addr = <<op.data[1], i>> /\ i \in 0 .. PageLen - 1
        /\ q_data = dma_addr /\ q_ncs_in = TRUE
    BY <1>1, <1>3, CycleStep DEF CopyShape, CopyStages, Dma!Index
  <2>2. /\ s \in 0 .. PageLen - 1
        /\ q_spr_ram_a' = (s + 1) % PageLen
        /\ oam' = [oam EXCEPT ![s] = <<op.data[1], i>>]
    BY <2>1, <1>3, BusStep, SpriteRamStep DEF Dma!Registers
  <2>3. \A k \in 0 .. i - 1 : oam[(s + (PageLen - i) + k) % PageLen] = <<op.data[1], k>>
    BY <2>1, <1>1, <1>3 DEF CopyHolds, Copied, Place
  <2> HIDE DEF i, s
  <2>4. ASSUME NEW k \in 0 .. i
        PROVE  oam'[(q_spr_ram_a' + (PageLen - (i + 1)) + k) % PageLen] = <<op'.data[1], k>>
    <3>1. (q_spr_ram_a' + (PageLen - (i + 1)) + k) % PageLen
             = IF k = i THEN s ELSE (s + (PageLen - i) + k) % PageLen
      BY <2>1, <2>2, <2>4, NextPlace
    <3>2. k # i => (s + (PageLen - i) + k) % PageLen \in (0 .. PageLen - 1) \ {s}
      BY <2>1, <2>2, <2>4, NextPlace
    <3>3. k # i => k \in 0 .. i - 1
      BY <2>1, <2>4
    <3>4. CASE k = i
      BY <3>1, <3>4, <2>1, <2>2, <1>1
    <3>5. CASE k # i
      <4> DEFINE a == (s + (PageLen - i) + k) % PageLen
      <4>1. oam[a] = <<op.data[1], k>> /\ a \in (0 .. PageLen - 1) \ {s}
        BY <3>2, <3>3, <3>5, <2>3
      <4> HIDE DEF a
      <4>2. oam'[a] = oam[a]
        BY <4>1, <2>2, <1>1
      <4>3. (q_spr_ram_a' + (PageLen - (i + 1)) + k) % PageLen = a
        BY <3>1, <3>5 DEF a
      <4> QED
        BY <4>1, <4>2, <4>3, <2>1
    <3> QED
      BY <3>4, <3>5
  <2>5. CASE i = PageLen - 1
    <3>1. q_state' = "COOLDOWN" /\ i + 1 = PageLen
      BY <2>5, <1>3, <2>1, DmaConstants, EngineStep DEF i
    <3>2. \A k \in 0 .. PageLen - 1 :
             oam'[(q_spr_ram_a' + (PageLen - PageLen) + k) % PageLen] = <<op'.data[1], k>>
      BY <3>1, <2>4, <2>5
    <3> QED
      BY <3>1, <3>2 DEF Copied, Place
  <2>6. CASE i # PageLen - 1
    <3>1. q_state' = "ACTIVE" /\ dma_addr' = <<op.data[1], i + 1>>
      BY <2>6, <1>3, EngineStep DEF i
    <3>2. dma_addr'[2] = i + 1 /\ (i + 1) - 1 = i
      BY <3>1, <2>1
    <3> QED
      BY <3>1, <3>2, <2>4 DEF Copied, Place
  <2> QED
    BY <2>5, <2>6
<1>4. CASE ~ Dma!CycleEnds /\ q_state = "READY"
  <2>1. q_state' = "ACTIVE" /\ dma_addr' = op.data /\ op' = op /\ Copying
    <3>1. op' = op
      BY <1>4, CycleStep
    <3>2. Copying
      BY <3>1 DEF Copying
    <3> QED
      BY <3>1, <3>2, <1>4, EngineStep
  <2>2. op.data[2] = 0
    <3>1. op.data = <<op.data[1], 0>>
      BY <2>1, <1>1, CopyCycle DEF Copying
    <3> QED
      BY <3>1
  <2>3. dma_addr'[2] = 0
    BY <2>1, <2>2
  <2> QED
    BY <2>1, <2>3 DEF Copied
<1>5. CASE ~ Dma!CycleEnds /\ q_state # "READY" /\ ~ (q_state = "ACTIVE" /\ dma_cnt = 2)
  <2>1. /\ op' = op /\ Copying /\ ~ broken /\ ~ dma_hci_active
        /\ q_state' = q_state /\ dma_addr' = dma_addr
    <3>1. op' = op /\ ~ broken /\ ~ dma_hci_active
      BY <1>5, CycleStep
    <3>2. Copying
      BY <3>1 DEF Copying
    <3> QED
      BY <3>1, <3>2, <1>1, <1>5, EngineStep
  <2>2. q_spr_ram_a' = q_spr_ram_a /\ oam' = oam
    BY <2>1, <1>5, BusStep, SpriteRamStep DEF Copying, Dma!Registers
  <2> QED
    BY <2>1, <2>2, <1>1 DEF CopyHolds, Copied, Place
<1> QED
  BY <1>2, <1>3, <1>4, <1>5

\* What the clock finds on the bus of a stretch.
LEMMA StretchStep ==
    ASSUME DmaInv, Dma!Clock
    PROVE  /\ q_ncs_in \in BOOLEAN /\ behind \in BOOLEAN /\ dma_hci_active' \in BOOLEAN
           /\ dma_hci_active => ~ Dma!Selected /\ ~ Dma!CycleEnds
           /\ op.to \in Dma!Registers /\ ~ dma_hci_active => Dma!Selected
           /\ Dma!CycleEnds /\ op.to \notin Dma!Registers => ~ Dma!Selected
           /\ q_ncs_in' = ~ Dma!Selected
           /\ Dma!Accessed <=> q_ncs_in /\ Dma!Selected
<1>1. /\ CopyShape /\ op \in Dma!CpuOps /\ q_ncs_in \in BOOLEAN /\ behind \in BOOLEAN
      /\ dma_hci_active' \in BOOLEAN
  BY DEF DmaInv, Dma!TypeOK, Dma!Clock, Dma!Hci
<1>2. op.to \in Dma!Registers => q_state # "ACTIVE"
  BY <1>1 DEF CopyShape, Copying, Dma!Registers
<1>3. Dma!CycleEnds => q_state # "ACTIVE" /\ ~ dma_hci_active
  BY CycleStep
<1>4. /\ dma_hci_active => Dma!Bus.to = "other"
      /\ ~ dma_hci_active /\ q_state # "ACTIVE" => Dma!Bus = op
      /\ Dma!Selected <=> Dma!Bus.to \in Dma!Registers
      /\ q_ncs_in' = ~ Dma!Selected
  BY BusStep
<1>5. dma_hci_active => ~ Dma!Selected
  BY <1>4 DEF Dma!Registers
<1> QED
  BY <1>1, <1>2, <1>3, <1>4, <1>5 DEF Dma!Accessed

\* A clock keeps the count of the accesses of a stretch.
LEMMA ActsOnceStep ==
    ASSUME DmaInv, Dma!Clock
    PROVE  ActsOnce'
<1>1. /\ ActsOnce /\ op \in Dma!CpuOps /\ accesses \in 0 .. 2
  BY DEF DmaInv, Dma!TypeOK
<1>2. /\ accesses' = IF Dma!StretchEnds THEN 0 ELSE IF Dma!Acted > 2 THEN 2 ELSE Dma!Acted
      /\ behind' = IF Dma!StretchEnds THEN Dma!Selected /\ ~ dma_hci_active' ELSE behind
  BY DEF Dma!Clock, Dma!Ghosts
<1>3. /\ Dma!Acted = accesses + (IF Dma!Accessed THEN 1 ELSE 0)
      /\ Dma!StretchEnds <=> ~ dma_hci_active /\ (Dma!CycleEnds \/ dma_hci_active')
  BY DEF Dma!Acted, Dma!StretchEnds
<1>4. Dma!Registers' = Dma!Registers
  OBVIOUS
<1>5. ASSUME dma_hci_active'
      PROVE  accesses' = 0 /\ behind' = FALSE
  <2>1. CASE dma_hci_active
    BY <2>1, <1>1, <1>2, <1>3, StretchStep DEF ActsOnce
  <2>2. CASE ~ dma_hci_active
    BY <2>2, <1>2, <1>3, <1>5
  <2> QED
    BY <2>1, <2>2
<1>6. ASSUME op'.to \in Dma!Registers, ~ dma_hci_active'
      PROVE  \/ behind' = TRUE /\ accesses' = 0 /\ q_ncs_in' = FALSE
             \/ behind' = FALSE /\ accesses' = 0 /\ q_ncs_in' = TRUE
             \/ behind' = FALSE /\ accesses' = 1 /\ q_ncs_in' = FALSE
  <2>1. CASE Dma!CycleEnds
    <3>1. Dma!StretchEnds
      BY <2>1, <1>3, StretchStep
    <3>2. accesses' = 0
      BY <3>1, <1>2
    <3>3. CASE Dma!Selected
      <4>1. behind' = TRUE
        BY <3>1, <3>3, <1>2, <1>6
      <4>2. q_ncs_in' = FALSE
        BY <3>3, StretchStep
      <4> QED
        BY <3>2, <4>1, <4>2
    <3>4. CASE ~ Dma!Selected
      <4>1. behind' = FALSE
        BY <3>1, <3>4, <1>2
      <4>2. q_ncs_in' = TRUE
        BY <3>4, StretchStep
      <4> QED
        BY <3>2, <4>1, <4>2
    <3> QED
      BY <3>3, <3>4
  <2>2. CASE ~ Dma!CycleEnds /\ dma_hci_active
    <3>1. accesses = 0 /\ behind = FALSE /\ ~ Dma!Selected /\ ~ Dma!Accessed
      BY <2>2, <1>1, StretchStep DEF ActsOnce
    <3>2. ~ Dma!StretchEnds /\ q_ncs_in' = TRUE
      BY <2>2, <3>1, <1>3, StretchStep
    <3> QED
      BY <3>1, <3>2, <1>2, <1>3
  <2>3. CASE ~ Dma!CycleEnds /\ ~ dma_hci_active
    <3>1. op' = op
      BY <2>3, CycleStep
    <3>2. /\ Dma!Selected /\ (Dma!Accessed <=> q_ncs_in) /\ q_ncs_in' = FALSE
          /\ ~ Dma!StretchEnds
      BY <2>3, <3>1, <1>3, <1>6, StretchStep
    <3>3. behind' = behind
      BY <3>2, <1>2
    <3>4. \/ behind = TRUE /\ accesses = 0 /\ q_ncs_in = FALSE
          \/ behind = FALSE /\ accesses = 0 /\ q_ncs_in = TRUE
          \/ behind = FALSE /\ accesses = 1 /\ q_ncs_in = FALSE
      BY <2>3, <3>1, <1>1, <1>6 DEF ActsOnce
    <3> QED
      BY <3>2, <3>3, <3>4, <1>2, <1>3
  <2> QED
    BY <2>1, <2>2, <2>3
<1> QED
  BY <1>4, <1>5, <1>6 DEF ActsOnce

\* Every clock, and every step that leaves the DMA alone, keeps DmaInv.
LEMMA DmaStep == DmaInv /\ [Dma!Next]_dmaVars => DmaInv'
<1>1. ASSUME DmaInv, Dma!Clock PROVE DmaInv'
  BY <1>1, DmaTypeStep, CopyShapeStep, CopyStagesStep, CopyHoldsStep, ActsOnceStep
     DEF DmaInv
<1>2. ASSUME DmaInv, UNCHANGED dmaVars PROVE DmaInv'
  BY ZenonT(60), <1>2 DEF dmaVars, DmaInv, Dma!TypeOK, CopyShape, CopyStages, CopyHolds, ActsOnce,
              Copying, Copied, Place
<1> QED
  BY <1>1, <1>2 DEF Dma!Next

\* DmaInv holds on the board.
LEMMA BoardDma == BoardSpec => []DmaInv
<1>1. BoardInit => DmaInv
  BY DmaInit DEF BoardInit
<1>2. DmaInv /\ [BoardNext]_boardVars => DmaInv'
  <2>1. [BoardNext]_boardVars => [Dma!Next]_dmaVars
    BY DEF BoardNext, boardVars
  <2> QED
    BY <2>1, DmaStep
<1> QED
  BY <1>1, <1>2, PTL DEF BoardSpec

\* The board changes the DMA's state by a clock of the DMA only.
LEMMA DmaClocks == [BoardNext]_boardVars => [Dma!Clock]_dmaVars
BY DEF BoardNext, boardVars, Dma!Next

\* sprdma.v: when the CPU goes on behind a write of $4014 without a break, the whole
\* page is in sprite RAM, from the sprite pointer on.
THEOREM CopiedBeforeNextCycleCorrect == BoardSpec => CopiedBeforeNextCycle
<1>1. DmaInv /\ [BoardNext]_boardVars
          => [op.to = "dma" /\ op.write /\ op' # op /\ ~ broken =>
                \A k \in Dma!Index :
                    oam[(q_spr_ram_a + k) % PageLen] = <<op.data[1], k>>]_(Dma!vars)
  <2> SUFFICES ASSUME DmaInv, Dma!Clock, op.to = "dma", op.write, op' # op, ~ broken,
                      NEW k \in Dma!Index
               PROVE  oam[(q_spr_ram_a + k) % PageLen] = <<op.data[1], k>>
    BY DmaClocks DEF dmaVars, Dma!vars
  <2>1. q_state = "COOLDOWN"
    <3>1. Dma!CycleEnds
      BY CycleStep
    <3>2. q_state # "ACTIVE" /\ dma_clk_phase = 0
      BY <3>1, CycleStep
    <3> QED
      BY <3>2, EngineStep DEF DmaInv, CopyShape, Copying
  <2>2. Copied(PageLen) /\ q_spr_ram_a \in 0 .. PageLen - 1
    BY <2>1, SpriteRamStep DEF DmaInv, CopyHolds, Copying
  <2>3. k \in 0 .. PageLen - 1 /\ q_spr_ram_a + (PageLen - PageLen) + k = q_spr_ram_a + k
    BY <2>2, DmaConstants DEF Dma!Index
  <2> QED
    BY <2>2, <2>3 DEF Copied, Place
<1> QED
  BY <1>1, BoardDma, PTL DEF BoardSpec, CopiedBeforeNextCycle, Dma!CopiedBeforeNextCycle

\* ppu_ri.v:216: in a stretch of a bus cycle on one of its registers the PPU acts
\* exactly once, or not at all if the cycle follows another such cycle.
THEOREM ExecutedOnceCorrect == BoardSpec => ExecutedOnce
<1>1. DmaInv /\ [BoardNext]_boardVars
          => [op.to \in Dma!Registers /\ Dma!StretchEnds =>
                Dma!Acted = IF behind THEN 0 ELSE 1]_(Dma!vars)
  <2> SUFFICES ASSUME DmaInv, Dma!Clock, op.to \in Dma!Registers, Dma!StretchEnds
               PROVE  Dma!Acted = IF behind THEN 0 ELSE 1
    BY DmaClocks DEF dmaVars, Dma!vars
  <2>1. ~ dma_hci_active
    BY DEF Dma!StretchEnds
  <2>2. Dma!Accessed <=> q_ncs_in
    BY <2>1, StretchStep
  <2>3. \/ behind = TRUE /\ accesses = 0 /\ q_ncs_in = FALSE
        \/ behind = FALSE /\ accesses = 0 /\ q_ncs_in = TRUE
        \/ behind = FALSE /\ accesses = 1 /\ q_ncs_in = FALSE
    BY <2>1 DEF DmaInv, ActsOnce
  <2> QED
    BY <2>2, <2>3 DEF Dma!Acted
<1> QED
  BY <1>1, BoardDma, PTL DEF BoardSpec, ExecutedOnce, Dma!ExecutedOnce

-----------------------------------------------------------------------------
(***************************************************************************)
(* The CPU's control: its inductive invariant.                              *)
(***************************************************************************)
\* A pending NMI is owed to the game, or its routine has just been entered.
NmiPending == q_nmi => owed = 1 \/ Cpu!InService
\* An edge that cpu.v is about to see is new: the game is owed nothing before it.
EdgeAlone == ~ nnmi /\ q_nnmi => owed = 0 /\ ~ Cpu!InService
\* The BRK of a service clears the NMI that it serves at its end: one that is still
\* pending then is a new one, and owed.
ServiceEnds ==
    Cpu!InService /\ q_t = 0 /\ ~ fresh /\ q_nmi => owed = 1
\* HLT breaks as it leaves clock phase 1: not before, and once from then on.
HltCounted ==
    q_ir = Cpu!HLT /\ q_t = 1 => hlt = IF q_clk_phase = 1 THEN 0 ELSE 1

\* The inductive invariant.
CpuInv == Cpu!TypeOK /\ NmiPending /\ EdgeAlone /\ ServiceEnds /\ HltCounted

\* What is assumed of the constants of the CPU.
LEMMA CpuConstants ==
    LastPhase \in Nat /\ LastPhase >= 2 /\ Cycles \subseteq 1 .. 6
BY BoardAssumption DEF BoardAssumption, Cpu!CpuAssumption

\* What the proofs need of the instructions.
LEMMA Instructions ==
    /\ \A ir \in Cpu!Opcodes \cup {Cpu!NOP} :
           ir.last \in 1 .. 6 /\ ir.prefetch \in BOOLEAN
    /\ Cpu!HLT.last = 1 /\ Cpu!HLT.prefetch = FALSE
    /\ Cpu!BRK.last = 6 /\ Cpu!BRK.prefetch = FALSE
    /\ Cpu!HLT \in Cpu!Opcodes /\ Cpu!BRK \in Cpu!Opcodes
    /\ Cpu!HLT # Cpu!BRK /\ Cpu!NOP # Cpu!HLT /\ Cpu!NOP # Cpu!BRK
<1>1. \A ir \in Cpu!Instr : ir.last \in 1 .. 6 /\ ir.prefetch \in BOOLEAN
  BY CpuConstants DEF Cpu!Instr
<1>2. /\ Cpu!HLT.last = 1 /\ Cpu!HLT.prefetch = FALSE /\ Cpu!HLT.kind = "HLT"
      /\ Cpu!BRK.last = 6 /\ Cpu!BRK.prefetch = FALSE /\ Cpu!BRK.kind = "BRK"
      /\ Cpu!NOP.last = 1 /\ Cpu!NOP.prefetch = FALSE /\ Cpu!NOP.kind = "plain"
  BY DEF Cpu!HLT, Cpu!BRK, Cpu!NOP
<1>3. \A ir \in {Cpu!HLT, Cpu!BRK, Cpu!NOP} : ir.last \in 1 .. 6
  BY <1>2
<1>4. \A ir \in {Cpu!HLT, Cpu!BRK, Cpu!NOP} : ir.prefetch \in BOOLEAN
  BY <1>2
<1>5. \A ir \in Cpu!Opcodes \cup {Cpu!NOP} :
          ir \in Cpu!Instr \/ ir \in {Cpu!HLT, Cpu!BRK, Cpu!NOP}
  BY DEF Cpu!Opcodes
<1>6. \A ir \in Cpu!Opcodes \cup {Cpu!NOP} :
          ir.last \in 1 .. 6 /\ ir.prefetch \in BOOLEAN
  BY <1>1, <1>3, <1>4, <1>5
<1>7. Cpu!HLT \in Cpu!Opcodes /\ Cpu!BRK \in Cpu!Opcodes
  BY DEF Cpu!Opcodes
<1>8. Cpu!HLT # Cpu!BRK /\ Cpu!NOP # Cpu!HLT /\ Cpu!NOP # Cpu!BRK
  BY <1>2
<1> QED BY <1>2, <1>6, <1>7, <1>8

\* The CPU as reset leaves it.
LEMMA CpuInit == Cpu!Init => CpuInv
<1> SUFFICES ASSUME Cpu!Init PROVE CpuInv
  OBVIOUS
<1>1. Cpu!TypeOK
  <2>1. /\ q_clk_phase \in 0 .. LastPhase /\ q_t \in 0 .. 6
        /\ owed \in 0 .. 2 /\ hlt \in 0 .. 2
    BY CpuConstants DEF Cpu!Init
  <2>2. /\ q_ready \in BOOLEAN /\ q_nmi \in BOOLEAN /\ q_nnmi \in BOOLEAN
        /\ nnmi \in BOOLEAN /\ hci_active \in BOOLEAN /\ fresh \in BOOLEAN
        /\ q_irq_sel \in {"RST", "NMI", "BRK"}
        /\ q_ir \in Cpu!Opcodes \cup {Cpu!NOP}
    BY DEF Cpu!Init
  <2> QED BY <2>1, <2>2 DEF Cpu!TypeOK
<1>2. NmiPending /\ EdgeAlone /\ ServiceEnds
  BY DEF Cpu!Init, NmiPending, EdgeAlone, ServiceEnds, Cpu!InService
<1>3. HltCounted
  BY Instructions DEF Cpu!Init, HltCounted
<1> QED BY <1>1, <1>2, <1>3 DEF CpuInv

\* A clock of the CPU, whatever hci.v does with it, keeps the types.
LEMMA CpuStepType ==
    ASSUME Cpu!TypeOK, Cpu!Edges, hci_active' \in BOOLEAN
    PROVE  Cpu!TypeOK'
<1> USE DEF Cpu!TypeOK, Cpu!Edges
<1>1. q_ir.last \in 1 .. 6 /\ q_ir.prefetch \in BOOLEAN
  BY Instructions
<1>2. q_t' \in 0 .. 6
  BY <1>1 DEF Cpu!Sequence, Cpu!NextT
<1>3. q_clk_phase' \in 0 .. LastPhase
  BY CpuConstants DEF Cpu!Sequence
<1>4. q_ir' \in Cpu!Opcodes \cup {Cpu!NOP}
  BY Instructions DEF Cpu!Sequence
<1>5. q_ready' \in BOOLEAN /\ fresh' \in BOOLEAN
  BY DEF Cpu!ReadyIn
<1>6. hlt' \in 0 .. 2
  BY DEF Cpu!BreakOut
<1>7. owed' \in 0 .. 2
  BY DEF Cpu!Ghosts
<1>8. q_irq_sel' \in {"RST", "NMI", "BRK"} /\ q_nmi' \in BOOLEAN /\ q_nnmi' \in BOOLEAN
  BY DEF Cpu!Interrupts
<1>9. nnmi' \in BOOLEAN
  BY DEF Cpu!Ppu
<1> QED BY <1>2, <1>3, <1>4, <1>5, <1>6, <1>7, <1>8, <1>9

\* A clock of the CPU keeps the account of the NMIs.
LEMMA NmiEdges ==
    ASSUME CpuInv, Cpu!Edges
    PROVE  NmiPending' /\ EdgeAlone' /\ ServiceEnds'
<1> DEFINE serves == Cpu!Phase0 /\ Cpu!Serves
           next == Cpu!NextT
<1>1. /\ q_t \in 0 .. 6 /\ owed \in 0 .. 2 /\ q_ir \in Cpu!Opcodes \cup {Cpu!NOP}
      /\ q_nmi \in BOOLEAN /\ q_nnmi \in BOOLEAN /\ nnmi \in BOOLEAN
  BY DEF CpuInv, Cpu!TypeOK
<1>2. NmiPending /\ EdgeAlone /\ ServiceEnds
  BY DEF CpuInv
<1>3. q_ir = Cpu!BRK => (next = 1 <=> q_t = 0) /\ (next = 0 <=> q_t = 6)
  BY <1>1, Instructions DEF Cpu!NextT
<1>4. Cpu!Phase0 => q_clk_phase = 0
  BY DEF Cpu!Phase0
<1>5. owed' = owed + (IF Cpu!Edge /\ owed < 2 THEN 1 ELSE 0)
                   - (IF serves /\ owed > 0 THEN 1 ELSE 0)
  BY DEF Cpu!Edges, Cpu!Ghosts
<1>6. /\ q_t' = IF Cpu!Phase0 THEN next ELSE q_t
      /\ IF Cpu!Phase0 /\ next = 1
         THEN IF q_nmi THEN q_ir' = Cpu!BRK ELSE q_ir' \in Cpu!Opcodes
         ELSE q_ir' = q_ir
  BY DEF Cpu!Edges, Cpu!Sequence, Cpu!Fetches
<1>7. /\ q_nmi' <=> IF q_clk_phase = 0
                      THEN ((~ nnmi /\ q_nnmi) \/ q_nmi) /\ ~ Cpu!ClearNmi ELSE q_nmi
      /\ q_nnmi' <=> IF q_clk_phase = 0 THEN nnmi ELSE q_nnmi
      /\ q_irq_sel' = IF q_clk_phase = 0 /\ next = 1
                      THEN IF q_nmi THEN "NMI" ELSE "BRK" ELSE q_irq_sel
  BY DEF Cpu!Edges, Cpu!Interrupts, Cpu!Fetches, Cpu!FallingEdge
<1>8. /\ nnmi /\ ~ nnmi' => owed = 0 /\ ~ Cpu!InService
      /\ ~ nnmi /\ q_nnmi => ~ nnmi'
  BY <1>1 DEF Cpu!Edges, Cpu!Ppu
<1>9. Cpu!Edge <=> q_clk_phase = 0 /\ ~ nnmi /\ q_nnmi
  BY DEF Cpu!Edge, Cpu!FallingEdge
<1>10. serves <=> Cpu!Phase0 /\ next = 1 /\ q_nmi
  BY DEF Cpu!Serves, Cpu!Fetches
<1>11. fresh' <=> fresh /\ ~ (Cpu!Phase0 /\ next = 1)
  BY DEF Cpu!Edges, Cpu!Fetches
<1>12. Cpu!ClearNmi <=> q_ir = Cpu!BRK /\ q_t = 6 /\ q_irq_sel = "NMI"
  BY DEF Cpu!ClearNmi
<1> HIDE DEF serves, next
<1>13. NmiPending'
  <2>1. CASE q_clk_phase # 0
    BY <2>1, <1>1, <1>2, <1>3, <1>4, <1>5, <1>6, <1>7, <1>8, <1>9, <1>10, <1>11, <1>12
       DEF NmiPending, EdgeAlone, ServiceEnds, Cpu!InService
  <2>2. CASE q_clk_phase = 0 /\ ~ Cpu!Phase0
    BY <2>2, <1>1, <1>2, <1>3, <1>4, <1>5, <1>6, <1>7, <1>8, <1>9, <1>10, <1>11, <1>12
       DEF NmiPending, EdgeAlone, ServiceEnds, Cpu!InService
  <2>3. CASE Cpu!Phase0
    BY <2>3, <1>1, <1>2, <1>3, <1>4, <1>5, <1>6, <1>7, <1>8, <1>9, <1>10, <1>11, <1>12
       DEF NmiPending, EdgeAlone, ServiceEnds, Cpu!InService
  <2> QED BY <2>1, <2>2, <2>3
<1>14. EdgeAlone'
  <2>1. CASE q_clk_phase # 0
    BY <2>1, <1>1, <1>2, <1>3, <1>4, <1>5, <1>6, <1>7, <1>8, <1>9, <1>10, <1>11, <1>12
       DEF NmiPending, EdgeAlone, ServiceEnds, Cpu!InService
  <2>2. CASE q_clk_phase = 0 /\ ~ Cpu!Phase0
    BY <2>2, <1>1, <1>2, <1>3, <1>4, <1>5, <1>6, <1>7, <1>8, <1>9, <1>10, <1>11, <1>12
       DEF NmiPending, EdgeAlone, ServiceEnds, Cpu!InService
  <2>3. CASE Cpu!Phase0
    BY <2>3, <1>1, <1>2, <1>3, <1>4, <1>5, <1>6, <1>7, <1>8, <1>9, <1>10, <1>11, <1>12
       DEF NmiPending, EdgeAlone, ServiceEnds, Cpu!InService
  <2> QED BY <2>1, <2>2, <2>3
<1>15. ServiceEnds'
  <2>1. CASE q_clk_phase # 0
    BY <2>1, <1>1, <1>2, <1>3, <1>4, <1>5, <1>6, <1>7, <1>8, <1>9, <1>10, <1>11, <1>12
       DEF NmiPending, EdgeAlone, ServiceEnds, Cpu!InService
  <2>2. CASE q_clk_phase = 0 /\ ~ Cpu!Phase0
    BY <2>2, <1>1, <1>2, <1>3, <1>4, <1>5, <1>6, <1>7, <1>8, <1>9, <1>10, <1>11, <1>12
       DEF NmiPending, EdgeAlone, ServiceEnds, Cpu!InService
  <2>3. CASE Cpu!Phase0
    BY <2>3, <1>1, <1>2, <1>3, <1>4, <1>5, <1>6, <1>7, <1>8, <1>9, <1>10, <1>11, <1>12
       DEF NmiPending, EdgeAlone, ServiceEnds, Cpu!InService
  <2> QED BY <2>1, <2>2, <2>3
<1> QED BY <1>13, <1>14, <1>15

\* A clock of the CPU keeps the count of the breaks of HLT.
LEMMA HltEdges ==
    ASSUME CpuInv, Cpu!Edges
    PROVE  HltCounted'
<1> DEFINE next == Cpu!NextT
<1>1. /\ q_t \in 0 .. 6 /\ q_clk_phase \in 0 .. LastPhase /\ hlt \in 0 .. 2
      /\ q_ir \in Cpu!Opcodes \cup {Cpu!NOP}
  BY DEF CpuInv, Cpu!TypeOK
<1>2. HltCounted
  BY DEF CpuInv
<1>3. q_ir = Cpu!HLT => (next = 1 <=> q_t = 0)
  BY <1>1, Instructions DEF Cpu!NextT
<1>4. Cpu!Phase0 <=> Cpu!Rdy /\ q_clk_phase = 0
  BY DEF Cpu!Phase0
<1>5. /\ q_clk_phase' = IF ~ Cpu!Rdy THEN q_clk_phase
                         ELSE IF q_clk_phase = LastPhase THEN 0 ELSE q_clk_phase + 1
      /\ q_t' = IF Cpu!Phase0 THEN next ELSE q_t
      /\ ~ (Cpu!Phase0 /\ next = 1) => q_ir' = q_ir
  BY DEF Cpu!Edges, Cpu!Sequence, Cpu!Fetches
<1>6. hlt' = IF Cpu!Phase0 THEN 0
             ELSE IF Cpu!BreakOut /\ hlt < 2 THEN hlt + 1 ELSE hlt
  BY DEF Cpu!Edges
<1>7. Cpu!BreakOut <=> q_ir = Cpu!HLT /\ q_t = 1 /\ q_clk_phase = 1 /\ Cpu!Rdy
  BY DEF Cpu!BreakOut
<1> HIDE DEF next
<1>8. CASE Cpu!Phase0
  BY <1>8, <1>1, <1>4, <1>5, <1>6, CpuConstants DEF HltCounted
<1>9. CASE ~ Cpu!Phase0
  BY <1>9, <1>1, <1>2, <1>4, <1>5, <1>6, <1>7, CpuConstants DEF HltCounted
<1> QED BY <1>8, <1>9

\* So does a write of the program counter by the debugger.
LEMMA CpuWritePc ==
    ASSUME CpuInv, Cpu!WritePc
    PROVE  CpuInv'
<1>1. /\ q_t' = 0 /\ q_clk_phase' = 1 /\ q_ready' = FALSE /\ fresh' = TRUE
      /\ hlt' = 0 /\ q_ir' = q_ir /\ hci_active' = hci_active
      /\ Cpu!Interrupts /\ Cpu!Ppu
      /\ owed' = owed + (IF Cpu!Edge /\ owed < 2 THEN 1 ELSE 0)
  <2>1. owed \in 0 .. 2
    BY DEF CpuInv, Cpu!TypeOK
  <2> QED
    BY <2>1 DEF Cpu!WritePc, Cpu!Ghosts
<1>2. /\ q_t \in 0 .. 6 /\ owed \in 0 .. 2 /\ q_ir \in Cpu!Opcodes \cup {Cpu!NOP}
      /\ q_nmi \in BOOLEAN /\ q_nnmi \in BOOLEAN /\ nnmi \in BOOLEAN
      /\ hci_active \in BOOLEAN /\ q_irq_sel \in {"RST", "NMI", "BRK"}
  BY DEF CpuInv, Cpu!TypeOK
<1>3. Cpu!TypeOK'
  <2>1. /\ q_clk_phase' \in 0 .. LastPhase /\ q_t' \in 0 .. 6
        /\ owed' \in 0 .. 2 /\ hlt' \in 0 .. 2
    BY <1>1, <1>2, CpuConstants
  <2>2. /\ q_ready' \in BOOLEAN /\ hci_active' \in BOOLEAN /\ fresh' \in BOOLEAN
        /\ q_ir' \in Cpu!Opcodes \cup {Cpu!NOP}
    BY <1>1, <1>2
  <2>3. /\ q_irq_sel' \in {"RST", "NMI", "BRK"}
        /\ q_nmi' \in BOOLEAN /\ q_nnmi' \in BOOLEAN
    BY <1>1, <1>2 DEF Cpu!Interrupts
  <2>4. nnmi' \in BOOLEAN
    BY <1>1, <1>2 DEF Cpu!Ppu
  <2> QED BY <2>1, <2>2, <2>3, <2>4 DEF Cpu!TypeOK
<1>4. q_ir = Cpu!BRK => (Cpu!NextT = 1 <=> q_t = 0)
  BY <1>2, Instructions DEF Cpu!NextT
<1>5. /\ q_nmi' <=> IF q_clk_phase = 0
                    THEN ((~ nnmi /\ q_nnmi) \/ q_nmi) /\ ~ Cpu!ClearNmi ELSE q_nmi
      /\ q_nnmi' <=> IF q_clk_phase = 0 THEN nnmi ELSE q_nnmi
      /\ q_irq_sel' = IF q_clk_phase = 0 /\ Cpu!NextT = 1
                      THEN IF q_nmi THEN "NMI" ELSE "BRK" ELSE q_irq_sel
  BY <1>1 DEF Cpu!Interrupts, Cpu!Fetches, Cpu!FallingEdge
<1>6. /\ nnmi /\ ~ nnmi' => owed = 0 /\ ~ Cpu!InService
      /\ ~ nnmi /\ q_nnmi => ~ nnmi'
  BY <1>1, <1>2 DEF Cpu!Ppu
<1>7. Cpu!Edge <=> q_clk_phase = 0 /\ ~ nnmi /\ q_nnmi
  BY DEF Cpu!Edge, Cpu!FallingEdge
<1>8. Cpu!ClearNmi <=> q_ir = Cpu!BRK /\ q_t = 6 /\ q_irq_sel = "NMI"
  BY DEF Cpu!ClearNmi
<1>9. NmiPending /\ EdgeAlone
  BY DEF CpuInv
<1>10. NmiPending'
  BY <1>1, <1>2, <1>4, <1>5, <1>6, <1>7, <1>8, <1>9
     DEF NmiPending, EdgeAlone, Cpu!InService
<1>11. EdgeAlone'
  BY <1>1, <1>2, <1>4, <1>5, <1>6, <1>7, <1>8, <1>9
     DEF NmiPending, EdgeAlone, Cpu!InService
<1>12. ServiceEnds' /\ HltCounted'
  BY <1>1 DEF ServiceEnds, HltCounted
<1> QED BY <1>3, <1>10, <1>11, <1>12 DEF CpuInv

\* Every step keeps CpuInv.
LEMMA CpuStep == CpuInv /\ [Cpu!Next]_cpuVars => CpuInv'
<1> SUFFICES ASSUME CpuInv, [Cpu!Next]_cpuVars PROVE CpuInv'
  OBVIOUS
<1>1. ASSUME Cpu!Edges, hci_active' \in BOOLEAN PROVE CpuInv'
  BY <1>1, CpuStepType, NmiEdges, HltEdges DEF CpuInv
<1>2. hci_active \in BOOLEAN
  BY DEF CpuInv, Cpu!TypeOK
<1>3. CASE Cpu!Clock
  <2>1. (hci_active \/ Cpu!BreakOut) \in BOOLEAN
    OBVIOUS
  <2> QED BY <2>1, <1>1, <1>3 DEF Cpu!Clock
<1>4. CASE Cpu!Break
  BY <1>1, <1>4 DEF Cpu!Break
<1>5. CASE Cpu!Resume
  BY <1>1, <1>5 DEF Cpu!Resume
<1>6. CASE Cpu!WritePc
  BY <1>6, CpuWritePc
<1>7. CASE UNCHANGED cpuVars
  BY <1>7 DEF cpuVars, CpuInv, Cpu!TypeOK, NmiPending, EdgeAlone, ServiceEnds,
              HltCounted, Cpu!InService
<1> QED BY <1>3, <1>4, <1>5, <1>6, <1>7 DEF Cpu!Next

\* An NMI that is served was owed.
LEMMA NmiOnlyOnceStep ==
    ASSUME CpuInv, Cpu!Phase0, Cpu!Serves, ~ fresh
    PROVE  owed = 1
<1>1. q_nmi /\ Cpu!NextT = 1
  BY DEF Cpu!Serves, Cpu!Fetches
<1>2. q_ir = Cpu!BRK => q_t = 0
  <2>1. q_t \in 0 .. 6
    BY DEF CpuInv, Cpu!TypeOK
  <2> QED BY <2>1, <1>1, Instructions DEF Cpu!NextT
<1> QED BY <1>1, <1>2 DEF CpuInv, NmiPending, ServiceEnds, Cpu!InService

\* HLT has broken when it ends.
LEMMA HltBreaksOnceStep ==
    ASSUME CpuInv, q_ir = Cpu!HLT, q_t = 1, Cpu!Phase0
    PROVE  hlt = 1
BY DEF CpuInv, HltCounted, Cpu!Phase0

\* CpuInv holds on the board.
LEMMA BoardCpu == BoardSpec => []CpuInv
<1>1. BoardInit => CpuInv
  BY CpuInit DEF BoardInit
<1>2. CpuInv /\ [BoardNext]_boardVars => CpuInv'
  <2>1. [BoardNext]_boardVars => [Cpu!Next]_cpuVars
    BY DEF BoardNext, boardVars
  <2> QED BY <2>1, CpuStep
<1> QED BY <1>1, <1>2, PTL DEF BoardSpec

\* cpu.v: outside a fresh program counter, the routine of NMI is entered for an edge
\* that has not been served, and once for it.
THEOREM NmiOnlyOnceCorrect == BoardSpec => NmiOnlyOnce
<1>1. CpuInv /\ [BoardNext]_boardVars
          => [Cpu!Phase0 /\ Cpu!Serves /\ ~ fresh => owed = 1]_(Cpu!vars)
  BY NmiOnlyOnceStep
<1> QED BY <1>1, BoardCpu, PTL DEF BoardSpec, NmiOnlyOnce, Cpu!NmiOnlyOnce

\* cpu.v: an HLT breaks into the debugger once, however the debugger and the DMA stop
\* the CPU meanwhile.
THEOREM HltBreaksOnceCorrect == BoardSpec => HltBreaksOnce
<1>1. CpuInv /\ [BoardNext]_boardVars
          => [q_ir = Cpu!HLT /\ q_t = 1 /\ Cpu!Phase0 => hlt = 1]_(Cpu!vars)
  BY HltBreaksOnceStep
<1> QED BY <1>1, BoardCpu, PTL DEF BoardSpec, HltBreaksOnce, Cpu!HltBreaksOnce

-----------------------------------------------------------------------------
\* The registers of the controllers, of the DMA and of the CPU's control keep their
\* widths.
THEOREM TypesOKCorrect == BoardSpec => []TypesOK
<1>1. JoyInv /\ DmaInv /\ CpuInv => TypesOK
  BY DEF JoyInv, DmaInv, CpuInv, TypesOK
<1> QED
  BY <1>1, BoardJoy, BoardDma, BoardCpu, PTL
=============================================================================
