------------------------------ MODULE CpuDebug ------------------------------
(***************************************************************************)
(* The control of cpu.v that debug breaks interfere with: the ready input   *)
(* and the clock phase, the cycle of the instruction, the NMI latch, HLT,   *)
(* and the "partial reset" by which the debugger writes the program         *)
(* counter.  Instructions are reduced to their number of cycles and whether *)
(* they fetch the next opcode in their last one; the PPU goes on in a break *)
(* and may raise an NMI there.  One step is one clock of the NES.           *)
(***************************************************************************)
EXTENDS Integers

CONSTANTS
    LastPhase,     \* the clock phase followed by phase 0 ('h37)
    Cycles         \* lengths of the instructions, in T states after T0

\* What the module assumes of its constants.
CpuAssumption ==
    /\ LastPhase \in Nat /\ LastPhase >= 2
    /\ Cycles \subseteq 1 .. 6

VARIABLES
    q_ready, q_clk_phase, q_t, q_ir, q_irq_sel, q_nmi, q_nnmi,   \* cpu.v
    hci_active,    \* hci.v is out of DISABLED
    nnmi,          \* the PPU's NMI line, active low
    owed,          \* ghost: falling edges sampled and not yet served, up to 2
    fresh,         \* ghost: PC written and no instruction begun since
    hlt            \* ghost: breaks asked for by the HLT being executed, up to 2

vars == <<q_ready, q_clk_phase, q_t, q_ir, q_irq_sel, q_nmi, q_nnmi,
          hci_active, nnmi, owed, fresh, hlt>>

(* An instruction: its last T state and whether it prefetches there.          *)
Instr == [last : Cycles, prefetch : BOOLEAN, kind : {"plain"}]
NOP == [last |-> 1, prefetch |-> FALSE, kind |-> "plain"]
HLT == [last |-> 1, prefetch |-> FALSE, kind |-> "HLT"]
BRK == [last |-> 6, prefetch |-> FALSE, kind |-> "BRK"]
Opcodes == Instr \cup {HLT, BRK}

-----------------------------------------------------------------------------
ReadyIn == ~ hci_active
Rdy == ReadyIn /\ q_ready

Phase0 == Rdy /\ q_clk_phase = 0

(* Mutant of NextT: one T state too many.                                     *)
OverlongT == IF q_t <= q_ir.last \/ q_t = 0 THEN q_t + 1
             ELSE IF q_ir.prefetch THEN 1 ELSE 0
NextT == IF q_t < q_ir.last \/ q_t = 0 THEN q_t + 1
         ELSE IF q_ir.prefetch THEN 1 ELSE 0

(* The opcode is replaced by BRK when an NMI waits.                           *)
Fetches == NextT = 1
Serves == Fetches /\ q_nmi

(* Mutants of ClearNmi: the latch is never cleared; a BRK instruction clears   *)
(* it, too.                                                                  *)
NeverClear == FALSE
ClearByBrk == q_ir = BRK /\ q_t = 6
ClearNmi == q_ir = BRK /\ q_t = 6 /\ q_irq_sel = "NMI"

FallingEdge == ~ nnmi /\ q_nnmi

(* The interrupt registers look at the clock phase only, not at rdy.          *)
Interrupts ==
    IF q_clk_phase = 0
    THEN /\ q_nmi' = ((FallingEdge \/ q_nmi) /\ ~ ClearNmi)
         /\ q_nnmi' = nnmi
         /\ q_irq_sel' = IF ~ Fetches THEN q_irq_sel
                         ELSE IF q_nmi THEN "NMI" ELSE "BRK"
    ELSE UNCHANGED <<q_nmi, q_nnmi, q_irq_sel>>

(* Mutant of BreakOut: for as long as the HLT lasts, so that a resumed CPU    *)
(* breaks again.                                                             *)
LongBreakOut == q_ir = HLT /\ q_t = 1 /\ Rdy
BreakOut == q_ir = HLT /\ q_t = 1 /\ q_clk_phase = 1 /\ Rdy

Sequence ==
    /\ q_clk_phase' = IF ~ Rdy THEN q_clk_phase
                      ELSE IF q_clk_phase = LastPhase THEN 0 ELSE q_clk_phase + 1
    /\ q_t' = IF Phase0 THEN NextT ELSE q_t
    /\ IF Phase0 /\ Fetches
       THEN IF q_nmi THEN q_ir' = BRK ELSE q_ir' \in Opcodes
       ELSE UNCHANGED q_ir

(* The PPU lowers its line at most once until the sequence of that NMI is     *)
(* over: vertical blanks are a frame apart (a break that lasts a frame in the *)
(* middle of the sequence is left out: cpu.v then merges the two NMIs).  It   *)
(* holds the line for a CPU cycle at least.                                  *)
InService == q_ir = BRK /\ q_irq_sel = "NMI"
Ppu ==
    nnmi' \in {nnmi} \cup
              (IF nnmi THEN (IF owed = 0 /\ ~ InService THEN {FALSE} ELSE {})
               ELSE IF q_nnmi THEN {} ELSE {TRUE})

Ghosts(edge, served) ==
    owed' = owed + (IF edge /\ owed < 2 THEN 1 ELSE 0) - (IF served /\ owed > 0 THEN 1 ELSE 0)

Edge == q_clk_phase = 0 /\ FallingEdge

\* What every clock does in which no packet writes the program counter.
Edges ==
    /\ Sequence /\ Interrupts /\ Ppu
    /\ q_ready' = ReadyIn
    /\ Ghosts(Edge, Phase0 /\ Serves)
    /\ fresh' = (fresh /\ ~ (Phase0 /\ Fetches))
    /\ hlt' = IF Phase0 THEN 0
              ELSE IF BreakOut /\ hlt < 2 THEN hlt + 1 ELSE hlt

\* A clock without a packet; a HLT asks for a break by itself.
Clock == Edges /\ hci_active' = (hci_active \/ BreakOut)

\* The clock in which hci.v takes a DBG_BRK packet, or a DBG_RUN packet.
Break == ~ hci_active /\ Edges /\ hci_active' = TRUE
Resume == hci_active /\ Edges /\ hci_active' = FALSE

\* A CPU_REG_WR packet for PCL or PCH reaches its last byte.
WritePc ==
    /\ hci_active
    /\ q_t' = 0 /\ q_clk_phase' = 1 /\ q_ready' = FALSE
    /\ Interrupts /\ Ppu
    /\ Ghosts(Edge, FALSE)
    /\ fresh' = TRUE /\ hlt' = 0
    /\ UNCHANGED <<q_ir, hci_active>>

Init ==
    /\ q_ready = FALSE /\ q_clk_phase = 1 /\ q_t = 1 /\ q_ir = NOP
    /\ q_irq_sel = "RST" /\ q_nmi = FALSE /\ q_nnmi = TRUE
    /\ hci_active = TRUE /\ nnmi = TRUE
    /\ owed = 0 /\ fresh = FALSE /\ hlt = 0

Next == Clock \/ Break \/ Resume \/ WritePc

\* The clock runs, and the debugger is finally left for good.
Spec == Init /\ [][Next]_vars
Resumed == Spec /\ WF_vars(Next) /\ <>[] ~ hci_active

-----------------------------------------------------------------------------
\* The registers keep their widths, the T state within its instruction.
TypeOK ==
    /\ q_ready \in BOOLEAN /\ q_clk_phase \in 0 .. LastPhase
    /\ q_t \in 0 .. 6 /\ q_ir \in Opcodes \cup {NOP}
    /\ q_irq_sel \in {"RST", "NMI", "BRK"}
    /\ q_nmi \in BOOLEAN /\ q_nnmi \in BOOLEAN /\ nnmi \in BOOLEAN
    /\ hci_active \in BOOLEAN
    /\ owed \in 0 .. 2 /\ fresh \in BOOLEAN /\ hlt \in 0 .. 2

\* An NMI is served only for an edge of its own, and never twice for one,
\* although the latch is set and cleared at phase 0 also while the CPU stands
\* still in a break.  Only the first instruction behind a program counter
\* write may be a second service, of an NMI whose sequence the write cut off.
NmiOnlyOnce == [][Phase0 /\ Serves /\ ~ fresh => owed = 1]_vars

\* Every sampled edge is served in the end, also one in the middle of a break.
NmiServed == (owed = 1) ~> (owed = 0)

\* A HLT breaks into the debugger exactly once: the CPU never runs through it,
\* and when it is resumed, or was stopped by a break packet just then, it does
\* not break a second time.
HltBreaksOnce == [][q_ir = HLT /\ q_t = 1 /\ Phase0 => hlt = 1]_vars

=============================================================================
