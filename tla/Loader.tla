------------------------------- MODULE Loader -------------------------------
(***************************************************************************)
(* fw/nes/main.c against the NES it loads: the SoC walks the directory,     *)
(* checks a file's header, halts the NES, sends it the file packet by       *)
(* packet, sets the program counter and lets it run, then waits for the     *)
(* Pano button; the NES takes the packets off the serial link one by one    *)
(* (hci.v, whose handling of a packet's bytes is Hci.tla) and, while it     *)
(* runs, the game does what it likes with the cartridge and the PPU.        *)
(*                                                                          *)
(* A transfer of TRANSFER_LEN bytes is one unit: a file is its header and a *)
(* sequence of transfers, the cartridge's memories are arrays of transfers. *)
(***************************************************************************)
EXTENDS Integers, Sequences

CONSTANTS
    Files,            \* the directory, in SPIFFS's order: a sequence of files
    PrgBank,          \* transfers in a PRG bank (16 in the program)
    ChrBank,          \* transfers in a CHR bank (8 in the program)
    HaveControllers,  \* gHaveControllers, after InitControllers
    MaxLink           \* bound: packets in the serial link

(* A file: whether SPIFFS opens it, how its header fares, the header fields   *)
(* the program uses, and the number of whole transfers behind the header.    *)
FileType ==
    [name : STRING, opens : BOOLEAN,
     header : {"ok", "short", "magic", "mirroring", "mapper"},
     prg : 0 .. 255, chr : 0 .. 255, vertical : BOOLEAN, transfers : Nat]

ASSUME LoaderAssumption ==
    /\ Files \in Seq(FileType) /\ Files # << >>
    /\ PrgBank \in Nat \ {0} /\ ChrBank \in Nat \ {0}
    /\ HaveControllers \in BOOLEAN
    /\ MaxLink \in Nat \ {0}

VARIABLES
    at,        \* where the SoC's program is
    next,      \* the directory entry SPIFFS_readdir returns next
    file,      \* the file being loaded, or loaded last
    i,         \* the loop index of the two copying loops
    read,      \* transfers read from the file
    buf,       \* the transfer in Buf, "stack" before the first read
    vector,    \* pclVal and pchVal: the transfer they were taken from
    last,      \* ButtonLast: "none" is the initial 3
    link,      \* packets sent and not yet handled by the NES
    button,    \* level of the Pano button: "up" or "down"
    pressed,   \* ghost: pressed, and not yet counted as a press
    halted,    \* hci.v is out of DISABLED (hci_active)
    ppu_on,    \* rendering or NMI enabled in the PPU
    cfg,       \* q_cart_cfg: PRG size and mirroring
    prg, chr,  \* contents of the cartridge's block RAMs
    pc         \* PCL and PCH as last written: the transfers they came from

soc == <<at, next, file, i, read, buf, vector, last>>
nes == <<halted, ppu_on, cfg, prg, chr, pc>>
user == <<button, pressed>>
vars == <<at, next, file, i, read, buf, vector, last, link, button, pressed,
          halted, ppu_on, cfg, prg, chr, pc>>

-----------------------------------------------------------------------------
(* Contents: the n-th transfer of a file, or what was there before.          *)

Transfer(f, n) == <<f.name, n>>

PrgSlots == 0 .. 2 * PrgBank - 1
ChrSlots == 0 .. ChrBank - 1

CfgOf(f) == [two |-> (f.prg \div 2) % 2 = 1, vertical |-> f.vertical]

(* The block RAM slot behind an address: without the second bank its high    *)
(* address bit is forced to 0.                                               *)
Slot(c, a) == IF c.two THEN a ELSE a % PrgBank

PrgTransfers(f) == f.prg * PrgBank
ChrTransfers(f) == f.chr * ChrBank

-----------------------------------------------------------------------------
Init ==
    /\ at = "dir" /\ next = 1 /\ file = Files[1]
    /\ i = 0 /\ read = 0 /\ buf = <<"stack", 0>> /\ vector = <<"stack", 0>>
    /\ last = "none" /\ link = << >> /\ button = "up" /\ pressed = FALSE
    /\ halted = TRUE /\ ppu_on = FALSE
    /\ cfg = [two |-> FALSE, vertical |-> FALSE]
    /\ prg = [s \in PrgSlots |-> <<"blank", 0>>]
    /\ chr = [s \in ChrSlots |-> <<"blank", 0>>]
    /\ pc = [pcl |-> <<"reset", 0>>, pch |-> <<"reset", 0>>]

Goto(label) ==
    /\ at' = label
    /\ UNCHANGED <<next, file, i, read, buf, vector, last>>

(* Uart_putc waits until the UART takes the byte.                            *)
Send(packet) == Len(link) < MaxLink /\ link' = Append(link, packet)

(* Mutant of NextEntry: the directory is read once.                           *)
LastEntry == IF next = Len(Files) THEN next ELSE next + 1
NextEntry == IF next = Len(Files) THEN 1 ELSE next + 1

(* PlayFiles: the next entry, from the start again after the last one.  The  *)
(* transfer buffer is NesLoad's local: it holds whatever the stack held.     *)
OpenNext ==
    /\ at = "dir"
    /\ file' = Files[next]
    /\ next' = NextEntry
    /\ at' = "header"
    /\ i' = 0 /\ read' = 0 /\ buf' = <<"stack", 0>> /\ vector' = <<"stack", 0>>
    /\ UNCHANGED <<last, link, user, nes>>

(* Mutant of Acceptable: one bank too many passes.                           *)
LaxAcceptable(f) == f.opens /\ f.header = "ok" /\ f.prg <= 3 /\ f.chr <= 1
Acceptable(f) == f.opens /\ f.header = "ok" /\ f.prg <= 2 /\ f.chr <= 1

(* Mutants of FirstPacket and AfterHalt: no break, and no PPU_DISABLE.       *)
NoBreak == "ppu"
NoPpuDisable == "cfg"
FirstPacket == "halt"
AfterHalt == "ppu"

(* Every rejection leaves before the first packet.                           *)
CheckHeader ==
    /\ at = "header"
    /\ Goto(IF Acceptable(file) THEN FirstPacket ELSE "wait")
    /\ UNCHANGED <<link, user, nes>>

SendStep(label, packet, then) ==
    /\ at = label
    /\ Send(packet)
    /\ Goto(then)
    /\ UNCHANGED <<user, nes>>

SendHalt == SendStep("halt", [op |-> "DbgHlt"], AfterHalt)
SendPpuDisable == SendStep("ppu", [op |-> "PpuDisable"], "cfg")
SendCfg == SendStep("cfg", [op |-> "CartSetCfg", cfg |-> CfgOf(file)], "prg")

(* SPIFFS_read of a whole transfer: a truncated file ends the load at once.  *)
ReadFails == read >= file.transfers

ShortRead ==
    /\ \/ at = "prg" /\ i < PrgTransfers(file)
       \/ at = "chr" /\ i < ChrTransfers(file)
    /\ ReadFails
    /\ Goto("wait")
    /\ UNCHANGED <<link, user, nes>>

Copy(label, packet) ==
    /\ at = label
    /\ ~ ReadFails
    /\ Send(packet)
    /\ read' = read + 1 /\ i' = i + 1
    /\ buf' = Transfer(file, read)
    /\ UNCHANGED <<at, next, file, vector, last, user, nes>>

SendPrg ==
    /\ i < PrgTransfers(file)
    /\ Copy("prg", [op |-> "CpuMemWr", adr |-> i, data |-> Transfer(file, read)])

SendChr ==
    /\ i < ChrTransfers(file)
    /\ Copy("chr", [op |-> "PpuMemWr", adr |-> i, data |-> Transfer(file, read)])

(* Mutant of TakeVector: the bytes are not taken.                            *)
TakeNoVector == UNCHANGED vector
(* The reset vector is in the fourth and third last byte of the last PRG     *)
(* transfer, which is still in the buffer when the first loop ends.          *)
TakeVector == vector' = buf

EndPrg ==
    /\ at = "prg" /\ i >= PrgTransfers(file)
    /\ TakeVector
    /\ at' = "chr" /\ i' = 0
    /\ UNCHANGED <<next, file, read, buf, last, link, user, nes>>

EndChr ==
    /\ at = "chr" /\ i >= ChrTransfers(file)
    /\ Goto("pcl")
    /\ UNCHANGED <<link, user, nes>>

SendPcl == SendStep("pcl", [op |-> "CpuRegWr", reg |-> "pcl", data |-> vector], "pch")
SendPch == SendStep("pch", [op |-> "CpuRegWr", reg |-> "pch", data |-> vector], "run")
SendRun == SendStep("run", [op |-> "DbgRun"], "wait")

(* ButtonJustPressed: an edge to the pressed level between two polls.  The    *)
(* first poll of all has nothing to compare with.  Mutant: the level alone.  *)
LevelPressed == button = "down"
JustPressed == last # "none" /\ last # button /\ button = "down"

(* Wait4Button: one turn of the loop, up to the transfers with the port       *)
(* expander.                                                                 *)
PollButton ==
    /\ at = "wait"
    /\ last' = button
    /\ at' = IF JustPressed THEN "dir"
             ELSE IF HaveControllers THEN "pads" ELSE "wait"
    /\ pressed' = (pressed /\ ~ JustPressed)
    /\ UNCHANGED <<next, file, i, read, buf, vector, link, button, nes>>

(* The rest of the turn: the controllers are read, or a transfer fails and    *)
(* the loop is left.  What the controllers show is Joypad.tla.               *)
ReadPads ==
    /\ at = "pads"
    /\ Goto("wait") \/ Goto("dir")
    /\ UNCHANGED <<link, user, nes>>

Soc ==
    \/ OpenNext \/ CheckHeader
    \/ SendHalt \/ SendPpuDisable \/ SendCfg
    \/ SendPrg \/ EndPrg \/ SendChr \/ EndChr \/ ShortRead
    \/ SendPcl \/ SendPch \/ SendRun
    \/ PollButton \/ ReadPads

Press ==
    /\ button = "up" /\ button' = "down" /\ pressed' = TRUE
    /\ UNCHANGED <<soc, link, nes>>

Release ==
    /\ button = "down" /\ button' = "up"
    /\ UNCHANGED <<soc, link, pressed, nes>>

-----------------------------------------------------------------------------
(* The NES: hci.v takes the packets in order.  In DISABLED only a break has   *)
(* an effect, and every byte counts as an opcode.                            *)

Received(op) == link # << >> /\ Head(link).op = op /\ link' = Tail(link)

TakeBreak ==
    /\ Received("DbgHlt")
    /\ halted' = TRUE
    /\ UNCHANGED <<soc, user, ppu_on, cfg, prg, chr, pc>>

\* The value that a packet leaves behind which would set it to new.
Effect(old, new) == IF halted THEN new ELSE old

DisablePpu ==
    /\ Received("PpuDisable")
    /\ ppu_on' = Effect(ppu_on, FALSE)
    /\ UNCHANGED <<soc, user, halted, cfg, prg, chr, pc>>

SetCfg ==
    /\ Received("CartSetCfg")
    /\ cfg' = Effect(cfg, Head(link).cfg)
    /\ UNCHANGED <<soc, user, halted, ppu_on, prg, chr, pc>>

WritePrg ==
    /\ Received("CpuMemWr")
    /\ prg' = Effect(prg, [prg EXCEPT ![Slot(cfg, Head(link).adr)] = Head(link).data])
    /\ UNCHANGED <<soc, user, halted, ppu_on, cfg, chr, pc>>

WriteChr ==
    /\ Received("PpuMemWr")
    /\ chr' = Effect(chr, [chr EXCEPT ![Head(link).adr] = Head(link).data])
    /\ UNCHANGED <<soc, user, halted, ppu_on, cfg, prg, pc>>

SetPc ==
    /\ Received("CpuRegWr")
    /\ pc' = Effect(pc, [pc EXCEPT ![Head(link).reg] = Head(link).data])
    /\ UNCHANGED <<soc, user, halted, ppu_on, cfg, prg, chr>>

Run ==
    /\ Received("DbgRun")
    /\ halted' = FALSE
    /\ UNCHANGED <<soc, user, ppu_on, cfg, prg, chr, pc>>

Hci == TakeBreak \/ DisablePpu \/ SetCfg
       \/ WritePrg \/ WriteChr \/ SetPc \/ Run

(* A running game: it switches the PPU, it writes the CHR RAM through the     *)
(* PPU and, since the block RAM behind PRG-ROM is writable, the program too, *)
(* and it may reach a HLT instruction, which breaks into the debugger.       *)
GamePpu ==
    /\ ~ halted /\ ppu_on' = ~ ppu_on
    /\ UNCHANGED <<soc, link, user, halted, cfg, prg, chr, pc>>

GameWritesPrg ==
    /\ ~ halted
    /\ \E a \in PrgSlots : prg' = [prg EXCEPT ![Slot(cfg, a)] = <<"game", 0>>]
    /\ UNCHANGED <<soc, link, user, halted, ppu_on, cfg, chr, pc>>

GameWritesChr ==
    /\ ~ halted
    /\ \E s \in ChrSlots : chr' = [chr EXCEPT ![s] = <<"game", 0>>]
    /\ UNCHANGED <<soc, link, user, halted, ppu_on, cfg, prg, pc>>

GameHalts ==
    /\ ~ halted /\ halted' = TRUE
    /\ UNCHANGED <<soc, link, user, ppu_on, cfg, prg, chr, pc>>

Game == GamePpu \/ GameWritesPrg \/ GameWritesChr \/ GameHalts

Next == Soc \/ Press \/ Release \/ Hci \/ Game

(* The SoC and hci.v never stop.  The user presses the button again and again *)
(* and holds it down, and leaves it up, long enough to be polled: a turn of   *)
(* Wait4Button takes milliseconds.                                           *)
Fairness ==
    /\ WF_vars(Soc) /\ WF_vars(Hci)
    /\ SF_vars(Press /\ at = "wait") /\ SF_vars(Release /\ at = "wait")
    /\ SF_vars(PollButton /\ button = "down")
    /\ SF_vars(PollButton /\ button = "up")

Spec == Init /\ [][Next]_vars /\ Fairness

-----------------------------------------------------------------------------
FileSet == {Files[n] : n \in 1 .. Len(Files)}
Contents == {<<"stack", 0>>, <<"blank", 0>>, <<"game", 0>>, <<"reset", 0>>}
            \cup {Transfer(f, n) : f \in FileSet,
                                  n \in 0 .. 2 * PrgBank + ChrBank - 1}

(* What is sent: each packet with the fields that it carries.                 *)
Packets ==
    [op : {"DbgHlt", "PpuDisable", "DbgRun"}]
    \cup [op : {"CartSetCfg"}, cfg : [two : BOOLEAN, vertical : BOOLEAN]]
    \cup [op : {"CpuMemWr", "PpuMemWr"}, adr : Nat, data : Contents]
    \cup [op : {"CpuRegWr"}, reg : {"pcl", "pch"}, data : Contents]

\* Every variable keeps its type: in particular no copying loop leaves the
\* cartridge's memories, and no load outgrows the address it starts from.
TypeOK ==
    /\ at \in {"dir", "header", "halt", "ppu", "cfg", "prg", "chr", "pcl",
               "pch", "run", "wait", "pads"}
    /\ next \in 1 .. Len(Files) /\ file \in FileSet
    /\ i \in PrgSlots \cup ChrSlots \cup {2 * PrgBank, ChrBank}
    /\ read \in 0 .. 2 * PrgBank + ChrBank
    /\ buf \in Contents /\ vector \in Contents
    /\ last \in {"none", "up", "down"} /\ button \in {"up", "down"}
    /\ pressed \in BOOLEAN
    /\ link \in Seq(Packets) /\ Len(link) <= MaxLink /\ halted \in BOOLEAN /\ ppu_on \in BOOLEAN
    /\ cfg \in [two : BOOLEAN, vertical : BOOLEAN]
    /\ prg \in [PrgSlots -> Contents] /\ chr \in [ChrSlots -> Contents]
    /\ pc \in [pcl : Contents, pch : Contents]

\* What the CPU and the PPU find is one whole file: its program at every
\* address, its pictures, its mirroring, and the vector of its own last
\* transfer in the program counter.
Loaded(f) ==
    /\ cfg = CfgOf(f)
    /\ \A a \in PrgSlots : prg[Slot(cfg, a)] = Transfer(f, Slot(cfg, a))
    /\ f.chr # 0 => \A s \in ChrSlots : chr[s] = Transfer(f, PrgTransfers(f) + s)
    /\ LET v == Transfer(f, PrgTransfers(f) - 1)
       IN  pc = [pcl |-> v, pch |-> v]

\* A game is never let run half loaded: whenever the NES leaves the debugger,
\* the cartridge and the program counter are those of one accepted file,
\* whatever the games before it and the loads that were cut short left behind,
\* and the PPU is still.
RunsOnlyLoaded ==
    [][halted /\ ~ halted' =>
          ~ ppu_on /\ \E f \in FileSet : Acceptable(f) /\ Loaded(f)]_vars

\* The NES is never sent a packet it would take for opcodes: when a packet
\* other than a break arrives it is in the debugger, although a running game
\* may have entered the debugger by itself and the SoC asks for no reply.
InSync == link # << >> /\ Head(link).op # "DbgHlt" => halted

\* CHR memory is written by the loader only while the PPU is still: rendering
\* would put its own address on the bus.
NoWriteWhileRendering ==
    link # << >> /\ Head(link).op \in {"PpuMemWr", "CpuMemWr"} => ~ ppu_on

\* A poll of the button ends the wait only for a press that was not counted
\* before: holding the button down through a load, or through a failed
\* transfer, does not count again.
NextOnlyOnPress ==
    [][at = "wait" /\ at' = "dir" => pressed]_vars

\* Every file in the directory gets its turn, again and again, although files
\* are rejected or end early, as long as the user keeps pressing the button.
EveryFileComesUp ==
    \A f \in FileSet : []<> (at = "header" /\ file = f)
=============================================================================
