----------------------------- MODULE SpriteDma -----------------------------
(***************************************************************************)
(* sprdma.v between the CPU, the memories and the PPU's register interface, *)
(* clock by clock: a CPU write of $4014 stops the CPU and copies a page to  *)
(* sprite RAM through $2004, three clocks a byte.  The parts it meets are   *)
(* modelled as far as it depends on them: the CPU's clock phase and ready   *)
(* input (cpu.v, rp2a03.v), the registered address of the block RAMs        *)
(* (block_ram.v), the edge detector and the sprite pointer of ppu_ri.v, and *)
(* the multiplexers of nes.v that give the bus to hci.v in a break.         *)
(*                                                                          *)
(* A byte of memory is where it came from, <<page, index>>.                 *)
(***************************************************************************)
EXTENDS Integers

CONSTANTS
    PageLen,       \* bytes in a page and in sprite RAM (256)
    LastPhase,     \* the clock phase that is followed by phase 0 ('h37)
    Pages,         \* pages of memory a game copies from
    Bytes          \* bytes a game writes to $2004 by itself

\* What the module assumes of its constants.
DmaAssumption ==
    PageLen \in Nat \ {0} /\ LastPhase \in Nat /\ LastPhase >= 2

VARIABLES
    op,         \* the bus cycle of the CPU
    q_clk_phase, q_ready,
    q_state, q_addr, q_cnt, q_data,    \* sprdma.v
    q_ram_a,    \* the block RAM's registered address
    q_ncs_in, q_spr_ram_a,             \* ppu_ri.v
    oam,        \* sprite RAM
    hci_active,
    accesses,   \* ghost: times ppu_ri.v acted in this stretch of the CPU, up to 2
    behind,     \* ghost: the stretch before it was on a PPU register, too
    broken      \* ghost: the debugger was active in this cycle of the CPU

vars == <<op, q_clk_phase, q_ready, q_state, q_addr, q_cnt, q_data, q_ram_a,
          q_ncs_in, q_spr_ram_a, oam, hci_active, accesses, behind, broken>>

Index == 0 .. PageLen - 1
Nothing == <<"nothing", 0>>

-----------------------------------------------------------------------------
(* Bus cycles: the target of an access, whether it writes, and what; "ppu" is *)
(* any register of the PPU but $2003 and $2004.                              *)
Access(target, w, d) == [to |-> target, write |-> w, data |-> d]

Registers == {"oamaddr", "oamdata", "ppu"}

Other == Access("other", FALSE, Nothing)
Read(target) == Access(target, FALSE, Nothing)
CpuOps ==
    {Other}
    \cup {Read(target) : target \in Registers \cup {"dma"}}
    \cup {Access("dma", TRUE, <<p, 0>>) : p \in Pages}
    \cup {Access("oamaddr", TRUE, <<"index", a>>) : a \in {0, PageLen - 1}}
    \cup {Access("oamdata", TRUE, b) : b \in Bytes}
    \cup {Access("ppu", TRUE, Nothing)}

(* The register behind one, whose bytes JMP ($2003) reads one after the other.*)
NextRegister(target) ==
    CASE target = "oamaddr" -> "oamdata"
      [] target = "oamdata" -> "ppu"
      [] target = "ppu" -> "oamaddr"

(* What the CPU puts on the bus behind a cycle.  A write is the last cycle of *)
(* its instruction.  A read may stay on the bus for another cycle (indexed    *)
(* loads, read-modify-write), or the write of an indexed store or of a        *)
(* read-modify-write follows at once.  The CPU executes nothing from these    *)
(* addresses.                                                                *)
Following(o) ==
    IF o = Other THEN CpuOps
    ELSE IF o.write THEN {Other}
    ELSE {Other} \cup {n \in CpuOps : n.to = o.to}
         \cup {Read(NextRegister(t)) : t \in {o.to} \cap Registers}

(* The three stages of a copy: the address is put on the bus, the byte the    *)
(* block RAM then shows is latched, and written to $2004.                    *)
DmaAccess ==
    IF q_cnt = 2 THEN Access("oamdata", TRUE, q_data)
                 ELSE Access("ram", FALSE, q_addr)

(* rp2a03.v gives the bus to the DMA, nes.v to the debugger before either,    *)
(* whose own address is taken to be none of these.                           *)
Bus ==
    IF hci_active THEN Other
    ELSE IF q_state = "ACTIVE" THEN DmaAccess ELSE op

ReadData == IF Bus.to = "ram" THEN q_ram_a ELSE Nothing

-----------------------------------------------------------------------------
(* sprdma.v *)

(* Mutant of LastByte: the copy goes on past the page.                        *)
PastPage == q_addr[2] = PageLen
LastByte == q_addr[2] = PageLen - 1

(* Mutant of AfterLastByte: no cooldown, the write cycle of the CPU that      *)
(* began the copy is still on the bus.                                       *)
NoCooldown == "READY"
AfterLastByte == "COOLDOWN"

(* Mutant of Latches: the byte is latched one stage early.                    *)
LatchesEarly == q_cnt = 0
Latches == q_cnt = 1

DmaReady ==
    /\ q_state = "READY"
    /\ IF op.to = "dma" /\ op.write
       THEN q_state' = "ACTIVE" /\ q_addr' = op.data
       ELSE UNCHANGED <<q_state, q_addr>>
    /\ UNCHANGED <<q_cnt, q_data>>

DmaActive ==
    /\ q_state = "ACTIVE"
    /\ q_data' = IF Latches THEN ReadData ELSE q_data
    /\ q_cnt' = (q_cnt + 1) % 3
    /\ q_state' = IF q_cnt = 2 /\ LastByte THEN AfterLastByte ELSE "ACTIVE"
    /\ q_addr' = IF q_cnt = 2 /\ ~ LastByte
                 THEN <<q_addr[1], q_addr[2] + 1>> ELSE q_addr

DmaCooldown ==
    /\ q_state = "COOLDOWN"
    /\ q_state' = IF op.write THEN "COOLDOWN" ELSE "READY"
    /\ UNCHANGED <<q_addr, q_cnt, q_data>>

Dma == DmaReady \/ DmaActive \/ DmaCooldown

-----------------------------------------------------------------------------
(* The CPU stands still when the debugger or the DMA is active, and one       *)
(* clock longer.                                                             *)
ReadyIn == ~ hci_active /\ q_state # "ACTIVE"
Rdy == ReadyIn /\ q_ready

Cpu ==
    /\ q_ready' = ReadyIn
    /\ q_clk_phase' = IF ~ Rdy THEN q_clk_phase
                      ELSE IF q_clk_phase = LastPhase THEN 0 ELSE q_clk_phase + 1
    /\ IF Rdy /\ q_clk_phase = 0
       THEN op' \in Following(op)
       ELSE UNCHANGED op

(* ppu_ri.v acts on the falling edge of its chip select; a read changes        *)
(* nothing that is modelled.                                                 *)
Selected == Bus.to \in Registers
(* Mutant of Accessed: the level of the chip select, not its edge.           *)
AccessedByLevel == Selected
Accessed == q_ncs_in /\ Selected

Ppu ==
    /\ q_ncs_in' = ~ Selected
    /\ q_spr_ram_a' = IF ~ Accessed THEN q_spr_ram_a
                      ELSE CASE Bus.write /\ Bus.to = "oamaddr" -> Bus.data[2]
                             [] Bus.write /\ Bus.to = "oamdata" ->
                                    (q_spr_ram_a + 1) % PageLen
                             [] OTHER -> q_spr_ram_a
    /\ oam' = IF Accessed /\ Bus.write /\ Bus.to = "oamdata"
              THEN [oam EXCEPT ![q_spr_ram_a] = Bus.data] ELSE oam

Ram == q_ram_a' = IF Bus.to = "ram" THEN Bus.data ELSE Nothing

(* The debugger comes and goes at any clock.                                  *)
Hci == hci_active' \in BOOLEAN

CycleEnds == Rdy /\ q_clk_phase = 0

(* The clocks of a cycle in which the CPU has the bus fall into stretches     *)
(* that the debugger's breaks separate.                                      *)
StretchEnds == ~ hci_active /\ (CycleEnds \/ hci_active')
Acted == accesses + (IF Accessed THEN 1 ELSE 0)

Ghosts ==
    /\ accesses' = IF StretchEnds THEN 0 ELSE IF Acted > 2 THEN 2 ELSE Acted
    /\ behind' = IF StretchEnds THEN Selected /\ ~ hci_active' ELSE behind
    /\ broken' = (~ CycleEnds /\ (broken \/ hci_active))

Init ==
    /\ op = Other /\ q_clk_phase = 1 /\ q_ready = FALSE
    /\ q_state = "READY" /\ q_addr = Nothing /\ q_cnt = 0 /\ q_data = Nothing
    /\ q_ram_a = Nothing
    /\ q_ncs_in = TRUE /\ q_spr_ram_a = 0 /\ oam = [k \in Index |-> Nothing]
    /\ hci_active = FALSE /\ accesses = 0 /\ behind = FALSE /\ broken = FALSE

\* One edge of the system clock.
Clock == Dma /\ Cpu /\ Ppu /\ Ram /\ Hci /\ Ghosts

Next == Clock

Spec == Init /\ [][Next]_vars /\ WF_vars(Clock)

\* The debugger is finally left for good.
Resumed == Spec /\ <>[] ~ hci_active

-----------------------------------------------------------------------------
\* The registers keep their widths, and no byte reaches sprite RAM but one of
\* the game's memory or one it wrote itself.
Sources == (Pages \X Index) \cup Bytes \cup {Nothing}
TypeOK ==
    /\ op \in CpuOps /\ q_clk_phase \in 0 .. LastPhase /\ q_ready \in BOOLEAN
    /\ q_state \in {"READY", "ACTIVE", "COOLDOWN"} /\ q_cnt \in 0 .. 2
    /\ q_addr \in Sources /\ q_data \in Sources /\ q_ram_a \in Sources
    /\ q_ncs_in \in BOOLEAN /\ q_spr_ram_a \in Index
    /\ oam \in [Index -> Sources] /\ accesses \in 0 .. 2
    /\ hci_active \in BOOLEAN /\ behind \in BOOLEAN /\ broken \in BOOLEAN

\* When the CPU goes on behind a write of $4014, sprite RAM holds the whole
\* page, each byte once and from the sprite pointer on, wherever that pointed
\* and whatever clock phase the copy began in, unless the debugger took the
\* bus from the copy.
CopiedBeforeNextCycle ==
    [][op.to = "dma" /\ op.write /\ op' # op /\ ~ broken =>
         \A k \in Index : oam[(q_spr_ram_a + k) % PageLen] = <<op.data[1], k>>]_vars

\* ppu_ri.v:216 "This prevents executing the same command multiple times
\* because the CPU runs at a slower clock rate than the PPU.": an access of the
\* CPU to one of its registers is acted on once, however long its cycle lasts
\* and whatever the DMA did to the chip select before.  That is exact both ways.
\* An access that breaks cut into stretches is acted on once in each of them.
\* One that follows another without a cycle between them is not acted on at all:
\* of STA $2004,X ppu_ri.v sees the dummy read and drops the write.
ExecutedOnce ==
    [][op.to \in Registers /\ StretchEnds =>
         Acted = IF behind THEN 0 ELSE 1]_vars

\* A copy comes to an end and the CPU goes on behind the write that began it,
\* also when breaks interrupt the copy: that write is not taken for another one.
CopyEnds == (op.to = "dma" /\ op.write) ~> ~ (op.to = "dma" /\ op.write)
=============================================================================
