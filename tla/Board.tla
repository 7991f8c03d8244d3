------------------------------- MODULE Board -------------------------------
(***************************************************************************)
(* Three parts of the NES that are modelled each in a module of its own, one *)
(* at a time: the others stay as they begin.                                *)
(***************************************************************************)
EXTENDS Integers, Sequences

CONSTANTS Buttons, BitClks, Snapshots,      \* Joypad
          PageLen, Pages, Bytes,            \* SpriteDma
          Cycles,                           \* CpuDebug
          LastPhase                         \* SpriteDma and CpuDebug

VARIABLES
    part,
    gpio_out, joy1_data, last_nes_clock, q_cnt, q_jp_clk, q_jp_latch,
    q_jp1_state, q_addr, q_read_state, q_strobe_state, bus, reads, high,
    strobed, latched,
    op, dma_clk_phase, dma_ready, q_state, dma_addr, dma_cnt, q_data, q_ram_a,
    q_ncs_in, q_spr_ram_a, oam, dma_hci_active, accesses, behind, broken,
    q_ready, q_clk_phase, q_t, q_ir, q_irq_sel, q_nmi, q_nnmi, hci_active, nnmi,
    owed, fresh, hlt

Joy == INSTANCE Joypad
Dma == INSTANCE SpriteDma WITH
           q_clk_phase <- dma_clk_phase, q_ready <- dma_ready, q_addr <- dma_addr,
           q_cnt <- dma_cnt, hci_active <- dma_hci_active
Cpu == INSTANCE CpuDebug

ASSUME BoardAssumption ==
    Joy!JoypadAssumption /\ Dma!DmaAssumption /\ Cpu!CpuAssumption

joyVars == <<gpio_out, joy1_data, last_nes_clock, q_cnt, q_jp_clk, q_jp_latch,
             q_jp1_state, q_addr, q_read_state, q_strobe_state, bus, reads,
             high, strobed, latched>>
dmaVars == <<op, dma_clk_phase, dma_ready, q_state, dma_addr, dma_cnt, q_data, q_ram_a,
             q_ncs_in, q_spr_ram_a, oam, dma_hci_active, accesses, behind, broken>>
cpuVars == <<q_ready, q_clk_phase, q_t, q_ir, q_irq_sel, q_nmi, q_nnmi, hci_active,
             nnmi, owed, fresh, hlt>>
boardVars == <<part, joyVars, dmaVars, cpuVars>>

BoardInit ==
    /\ part \in {"joypad", "dma", "cpu"}
    /\ Joy!Init /\ Dma!Init /\ Cpu!Init

BoardNext ==
    \/ part = "joypad" /\ Joy!Next /\ UNCHANGED <<part, dmaVars, cpuVars>>
    \/ part = "dma" /\ Dma!Next /\ UNCHANGED <<part, joyVars, cpuVars>>
    \/ part = "cpu" /\ Cpu!Next /\ UNCHANGED <<part, joyVars, dmaVars>>

(* The clocks run, and the debugger is finally left for good.                *)
BoardSpec ==
    /\ BoardInit /\ [][BoardNext]_boardVars /\ WF_boardVars(BoardNext)
    /\ <>[] ~ ((part = "dma" /\ dma_hci_active) \/ (part = "cpu" /\ hci_active))

-----------------------------------------------------------------------------
\* The registers of all three keep their widths.
TypesOK == Joy!TypeOK /\ Dma!TypeOK /\ Cpu!TypeOK

\* Joypad.tla: a poll is torn between two latches in one place only.
TornOnce == Joy!TornOnce
\* Joypad.tla: the n-th read returns the n-th button of what was strobed.
ReadsInOrder == Joy!ReadsInOrder
\* Joypad.tla: buttons that are held arrive.
SteadyArrives == Joy!SteadyArrives

\* SpriteDma.tla: the whole page is in sprite RAM when the CPU goes on.
CopiedBeforeNextCycle == Dma!CopiedBeforeNextCycle
\* SpriteDma.tla: the PPU acts once on an access of the CPU, or on none that
\* follows another at once.
ExecutedOnce == Dma!ExecutedOnce
\* SpriteDma.tla: a copy ends.
CopyEnds == Dma!CopyEnds

\* CpuDebug.tla: an edge of NMI is served once.
NmiOnlyOnce == Cpu!NmiOnlyOnce
\* CpuDebug.tla: an edge of NMI is served.
NmiServed == Cpu!NmiServed
\* CpuDebug.tla: HLT breaks once.
HltBreaksOnce == Cpu!HltBreaksOnce
=============================================================================
