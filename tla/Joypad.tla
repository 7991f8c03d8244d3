------------------------------- MODULE Joypad -------------------------------
(***************************************************************************)
(* A controller's way to the game: the SoC writes a snapshot of the buttons *)
(* to the GPIO output (main.c), top.v plays the controller's shift register *)
(* with it, jp.v shifts the bits in over and over, and the game strobes and *)
(* reads $4016.  One step is one clock of the NES.                          *)
(*                                                                          *)
(* A snapshot is a sequence of bits, bit 1 for the A button; on the wire a  *)
(* pressed button is 0, in jp.v's registers it is 1.  The second controller *)
(* has the same logic and its own registers.                                *)
(***************************************************************************)
EXTENDS Integers, Sequences

CONSTANTS
    Buttons,      \* buttons of a controller (8)
    BitClks,      \* clocks between two bits (64)
    Snapshots     \* the states of the buttons the SoC reports

\* What the module assumes of its constants.
JoypadAssumption ==
    /\ Buttons \in Nat \ {0, 1}
    /\ BitClks \in Nat /\ BitClks >= 8 /\ BitClks % 4 = 0
    /\ Snapshots \subseteq [1 .. Buttons -> 0 .. 1]

VARIABLES
    gpio_out,                                   \* main.c's last write
    joy1_data, last_nes_clock,                  \* top.v
    q_cnt, q_jp_clk, q_jp_latch, q_jp1_state,   \* jp.v: the poll
    q_addr, q_read_state, q_strobe_state,       \* jp.v: $4016
    bus,          \* the CPU's cycle: "other", "read", "write0" or "write1"
    reads,        \* ghost: reads since the strobe, up to Buttons + 1
    high,         \* ghost: the game's last write, if not behind a read, was 1
    strobed,      \* ghost: q_jp1_state when the game strobed
    latched       \* ghost: the snapshots that the last two latches took

vars == <<gpio_out, joy1_data, last_nes_clock, q_cnt, q_jp_clk, q_jp_latch,
          q_jp1_state, q_addr, q_read_state, q_strobe_state, bus, reads,
          high, strobed, latched>>

Bits == [1 .. Buttons -> 0 .. 1]
Released == [k \in 1 .. Buttons |-> 1]
Flip(bits) == [k \in DOMAIN bits |-> 1 - bits[k]]

-----------------------------------------------------------------------------
(* top.v: the shift register, filled with 1 from above.                       *)

ShiftRegister ==
    /\ joy1_data' =
         IF q_jp_latch THEN gpio_out
         ELSE IF q_jp_clk /\ ~ last_nes_clock THEN Append(Tail(joy1_data), 1)
         ELSE joy1_data
    /\ last_nes_clock' = q_jp_clk

(* jp.v: the bit the counter stands for, 1 .. Buttons; at the latch it is the *)
(* last one of the poll before.  Mutant: one place further up.               *)
UnshiftedIdx == q_cnt \div BitClks + 1
StateIdx == LET k == q_cnt \div BitClks IN IF k = 0 THEN Buttons ELSE k

Sampling == q_cnt % BitClks < 2
AtLatch == q_cnt < 2

ClockRises == Sampling /\ ~ AtLatch
LatchRises == Sampling /\ AtLatch
Falls == (q_cnt % BitClks) \div 2 = BitClks \div 4

(* Mutant of NextCnt: the counter is one wider than the poll.                 *)
WideCnt == (q_cnt + 1) % (2 * Buttons * BitClks)
NextCnt == (q_cnt + 1) % (Buttons * BitClks)

Poll ==
    /\ q_cnt' = NextCnt
    /\ q_jp1_state' = IF Sampling
                      THEN [q_jp1_state EXCEPT ![StateIdx] = 1 - joy1_data[1]]
                      ELSE q_jp1_state
    /\ q_jp_latch' = (LatchRises \/ (q_jp_latch /\ ~ Falls))
    /\ q_jp_clk' = (ClockRises \/ (q_jp_clk /\ ~ Falls))

-----------------------------------------------------------------------------
(* jp.v: $4016 as the game sees it; a cycle of the CPU acts in its first      *)
(* clock only.                                                               *)
Addressed == bus # "other"
(* Mutant of FirstClock: the address is not compared.                        *)
EveryClock == Addressed
FirstClock == Addressed /\ ~ q_addr

Strobes == FirstClock /\ bus = "write0" /\ q_strobe_state
Reads == FirstClock /\ bus = "read"

Mmr ==
    /\ q_addr' = Addressed
    /\ q_strobe_state' = IF FirstClock /\ bus = "write1" THEN TRUE
                         ELSE IF Strobes THEN FALSE ELSE q_strobe_state
    /\ q_read_state' = IF Strobes THEN <<0>> \o q_jp1_state
                       ELSE IF Reads THEN Append(Tail(q_read_state), 1)
                       ELSE q_read_state

Dout == q_read_state[1]

(* The CPU's cycles on the bus.  A write is the last cycle of its instruction.*)
(* A read may last for two cycles, and the write of an indexed store or of a  *)
(* read-modify-write follows it at once.                                     *)
Cpu ==
    bus' \in CASE bus = "other" -> {"other", "read", "write0", "write1"}
               [] bus = "read" -> {"read", "other", "write0", "write1"}
               [] bus \in {"write0", "write1"} -> {bus, "other"}

(* main.c writes GPIO_OUTPUT when the value of the controllers has changed.   *)
Soc == gpio_out' \in {gpio_out} \cup Snapshots

-----------------------------------------------------------------------------
LatchFalls == q_jp_latch /\ ~ q_jp_latch'

(* A strobe or a read of the game: a cycle of the CPU, not a clock.  A write   *)
(* directly behind a read is none: the address has not changed.               *)
GameWrites == ~ q_addr /\ bus \in {"write0", "write1"}
GameStrobes == GameWrites /\ bus = "write0" /\ high
GameReads == ~ q_addr /\ bus = "read"

Ghosts ==
    /\ reads' = IF GameStrobes THEN 0
                ELSE IF GameReads /\ reads <= Buttons THEN reads + 1 ELSE reads
    /\ high' = IF GameWrites THEN bus = "write1" ELSE high
    /\ strobed' = IF GameStrobes THEN q_jp1_state ELSE strobed
    /\ latched' = IF ~ LatchFalls THEN latched
                  ELSE IF Len(latched) < 2 THEN Append(latched, gpio_out)
                  ELSE <<latched[2], gpio_out>>

Init ==
    /\ gpio_out = Released
    /\ joy1_data = [k \in 1 .. Buttons |-> 0] /\ last_nes_clock = FALSE
    /\ q_cnt = 0 /\ q_jp_clk = FALSE /\ q_jp_latch = FALSE
    /\ q_jp1_state = [k \in 1 .. Buttons |-> 0]
    /\ q_addr = FALSE /\ q_strobe_state = FALSE
    /\ q_read_state = [k \in 1 .. Buttons + 1 |-> 0]
    /\ bus = "other" /\ reads = 0 /\ high = FALSE
    /\ strobed = [k \in 1 .. Buttons |-> 0]
    /\ latched = << >>

\* One edge of the clock.
Clock == ShiftRegister /\ Poll /\ Mmr /\ Cpu /\ Soc /\ Ghosts

Next == Clock

Spec == Init /\ [][Next]_vars /\ WF_vars(Clock)

-----------------------------------------------------------------------------
\* The registers keep their widths.
TypeOK ==
    /\ gpio_out \in Bits /\ joy1_data \in Bits /\ last_nes_clock \in BOOLEAN
    /\ q_cnt \in 0 .. Buttons * BitClks - 1
    /\ q_jp_clk \in BOOLEAN /\ q_jp_latch \in BOOLEAN /\ q_jp1_state \in Bits
    /\ q_addr \in BOOLEAN /\ q_strobe_state \in BOOLEAN
    /\ q_read_state \in [1 .. Buttons + 1 -> 0 .. 1]
    /\ bus \in {"other", "read", "write0", "write1"} /\ reads \in 0 .. Buttons + 1
    /\ high \in BOOLEAN /\ strobed \in Bits /\ Len(latched) <= 2

\* What the poll has gathered is never older than two latches and is torn in
\* one place only: the first buttons are those of the last latch, the others
\* those of the latch before, each button at its own place, although the SoC
\* may change them in the middle of a latch or of a shift.
TornOnce ==
    Len(latched) = 2 =>
        \E m \in 0 .. Buttons :
            q_jp1_state = Flip([k \in 1 .. Buttons |->
                              IF k <= m THEN latched[2][k] ELSE latched[1][k]])

\* jp.v:170 "Shift appropriate jp read state on every read.  After 8 reads, all
\* subsequent reads should be 1.": the n-th read of the game returns the n-th
\* button of what it strobed, A first, however long the cycle of the CPU
\* lasts and whatever the poll does meanwhile.  A read that lasts for two cycles
\* is one, a dummy read is one, too, and a write behind a read is none: a game
\* that strobes with STA $4016,X shifts and does not strobe.
ReadsInOrder ==
    bus = "read" /\ q_addr =>
        Dout = IF reads <= Buttons THEN strobed[reads] ELSE 1

\* A change of the buttons that lasts arrives: all of them at their places.
SteadyArrives ==
    \A s \in Snapshots :
        <>[] (gpio_out = s) => <>[] (q_jp1_state = Flip(s))
=============================================================================
