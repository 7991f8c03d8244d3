# TLA+ models of the Pano G2 NES

A Pano Logic G2 thin client turned into a Nintendo Entertainment System: an
FPGA holds a RISC-V SoC and a NES.  The SoC's firmware (`fw/nes/main.c`) reads
game files from flash, sends them over a serial line to the NES's debugger
interface (`fpga/nes/hci/hci.v`), lets the NES run, and from then on passes the
game controllers' buttons to it and waits for the Pano button, which moves on
to the next game.

This directory holds TLA+ modules for the parts that decide whether a game gets
into the NES, starts, and keeps running, from the file system it is read from
to the CPU that executes it; TLC configurations that check them on
small instances; and theorems that TLAPS proves for every instance.  Paths
below are relative to `src/`.

- [Inventory](#inventory): the system's components
- [Modules](#modules): what models what, and how
- [Runs](#runs): what is checked, with which bounds
- [Fairness](#fairness)
- [Proofs](#proofs)
- [Findings](#findings): where the code and its own words disagree, and what
  else the modelling met
- [Not modelled](#not-modelled)
- [Plan](#plan)

## Inventory

All of `fpga/nes` is one clock domain of 100 MHz; the CPU does one cycle in 56
clocks, told by a phase counter, the PPU one pixel in 4, and everything between
them is combinational logic and registers.  The SoC runs at 25 MHz and meets
the NES only through two wires of a serial line and eight bits per controller.

| Component | State | Operations | Talks to |
|---|---|---|---|
| FIFO (`cmn/fifo/fifo.v`) | two pointers, two flags, the entries | read, write, both, reset | the UART's two directions |
| UART (`cmn/uart/*`) | transmitter, receiver, oversampling counters, parity error | send a byte, receive a byte | a UART of another make and speed in the SoC |
| hci (`hci/hci.v`) | state, decode and execute counters, address, cartridge configuration, one byte of output | twelve packets: echo, break, run, queries, CPU and PPU memory, CPU registers, PPU disable, cartridge configuration | UART; takes the CPU and PPU buses in a break; CPU register port; cartridge |
| Loader (`fw/nes/main.c`) | directory position, file, buffer, reset vector, button level | walk, check a header, load, wait for the button, poll the controllers | SPIFFS, serial line, GPIO, I2C |
| SPIFFS (`fw/spiffs/*`) | flash pages and object lookup; in RAM: page counters, free and search cursors, file handles, two work buffers | open, read, write, seek, remove, rename, list, collect garbage, check and mend, mount | the firmware; flash through three HAL functions |
| Cartridge (`cart/cart.v`) | two block RAMs | reads, writes with a bank mask | CPU and PPU buses |
| Controllers (`top.v`, `cpu/jp.v`) | shift registers, poll counter, two state registers, strobe | poll, strobe, read | GPIO of the SoC; CPU bus |
| Sprite DMA (`cpu/sprdma.v`) | state, address, stage, byte | copy a page | CPU's ready input, CPU bus |
| CPU (`cpu/cpu.v`) | registers, T state, phase, ready, interrupt latches | some 150 instructions, interrupts, HLT, debugger register access | CPU bus, hci, PPU's NMI |
| PPU registers (`ppu/ppu_ri.v`) | scroll, address, read buffer, sprite pointer, vblank, edge detector | $2000..$2007 | CPU bus, the other PPU blocks |
| PPU picture (`ppu/ppu_bg.v`, `ppu_spr.v`, `ppu_vga.v`, `cmn/vga_sync`) | address counters, sprite memories, frame position | fetch, evaluate, show | VRAM, DVI |
| APU (`cpu/apu/*`) | frame counter, four channels | register writes, 240/120 Hz ticks | CPU bus, audio |
| SoC bus (`axi4_axi4lite_conv.v`, `axi4lite_dist.v`) | pending and selection registers, burst counters and addresses, masks | read and write bursts to single accesses of one peripheral | processor's AXI4 port, peripherals |
| Processor data port (`tb/src_v/dport_*.v`, `tcm_mem*.v`) | outstanding accesses, request and response queues, the memory's second port | load, store, accesses of the debug bridge | processor, SoC bus |
| DVI set-up (`dvi/iic_init.v`, `dvi/i2c.v`) | command index, bit and byte counters | write the transmitter's registers | I2C pads |

What is hard about them:

- **A queue whose flags are registers.**  `fifo.v` computes the next flags from
  the present pointers and looks at one side only; the interesting clocks are
  those with a read and a write in the same clock.
- **A protocol without framing.**  A packet's end is where its count says.
  There is no reply to most packets, no checksum, and an hci that is not in the
  debugger takes every byte for an opcode.
- **One bus, three owners.**  CPU, sprite DMA and debugger share the CPU bus,
  at different rates, and each stops the others in its own way: ready for the
  CPU, nothing for the DMA.
- **A PPU that watches the bus for edges.**  It runs at another rate than the
  CPU, so it acts on falling edges of chip select: an access that is
  interrupted has two, an access that follows another has none.
- **A debugger that stops the CPU but not the PPU.**  Interrupts come in while
  the phase counter stands still.
- **Two UARTs that disagree on the length of a bit**, 96 clocks against 100.
- **Controllers polled by one state machine and read by another**, with no
  synchronisation between the polls and the game.
- **A bus protocol of five independent handshakes** whose addresses, data and
  answers meet in any order, and a converter that counts some of them only.
- **A file system that moves under its users.**  SPIFFS writes nothing in
  place but bits that are still set, so every change of an index page is a new
  page, and every call that allocates may run the garbage collector first, which
  moves the pages that open handles and half-done calls hold numbers of.  The
  object lookup, the page headers and the index pages say the same thing three
  times and are written one after the other; the power may go in between.
- **Failures in the firmware**: files that end early, headers that lie, I2C
  transfers that are not acknowledged.

What makes each component correct, in the order in which the parts carry a
game:

- FIFO: it is a queue.  What is accepted comes out once, in order; the flags
  may be late but never let a byte be overwritten or read twice.
- UART: a byte that is sent is reported exactly once and unchanged, for any
  phase between the two boards and for frames without a gap; a byte that is
  queued is sent, if the FIFO's empty flag does not hide it.
- hci: a packet's replies and its effect on memory are those it asks for; after
  any packet the next byte is an opcode again; PPU_DISABLE disables.
- Loader: nothing but a complete and consistent game is ever run.  The NES is
  never sent a packet while it would take it for opcodes.  The PPU is still
  while memory is written.  The SoC moves on when the button is pressed, only
  then, and every file gets its turn.
- SPIFFS: it is a store of named files.  A call does what it says and nothing to
  any other file, whatever the collector does meanwhile; the counters it decides
  by are those of the flash; a power loss by itself costs no file that the call
  was not about.  The check behind it ends and leaves nothing that was never
  written; it may delete such a file in one case, see [Findings](#findings).
- Controllers: what a game reads is, in order, the bits of what the SoC
  reported, torn at most once and never for longer than a poll.
- SoC bus: every beat of a burst reaches its address once, every answer its
  burst, and neither module ever waits for the other.
- DMA: the page is copied before the CPU goes on, and the bus is given back.
- CPU: an interrupt is served, once; HLT breaks once; a program counter written
  by the debugger is where execution goes on.

## Modules

| Module | Models | State variables are |
|---|---|---|
| `FifoOps` | `fifo.v`: one clock edge as an operator on a record of registers | none (used by the others) |
| `BoundedQueue` | the abstract promise of a FIFO | the queue |
| `Fifo` | `fifo.v` with any client | the registers |
| `FifoProofs` | theorems about `Fifo` | |
| `UartOps` | `uart_tx.v`, `uart_rx.v`, `uart_baud_clk.v`: one clock edge of each | none |
| `UartLink` | a receiver of `uart.v` behind another `uart.v` or behind the SoC's UART | the registers of both, the entries and the empty flag of the transmitter's FIFO, the SoC's frame and its current bit |
| `Hci` | `hci.v`, the FIFOs of its UART, a host, the memories behind the buses | the registers of `hci.v` by name, the two FIFOs' registers (`FifoOps`), memories, the host's packets and the reference state |
| `Loader` | `main.c` and the NES it loads | the program's variables, the serial link, the debugger, cartridge and PPU as the loader sees them |
| `LoaderProofs` | theorems about `Loader` | |
| `HciProofs` | theorems about `Hci` | |
| `SpriteDma` | `sprdma.v`, bus multiplexers, `ppu_ri.v`'s edge detector and sprite pointer | registers by name, sprite memory, the CPU's bus cycle |
| `Joypad` | `top.v`'s shift register, `jp.v`, a game whose accesses may be in successive cycles | registers by name, the CPU's bus cycle |
| `SocBus` | `axi4_axi4lite_conv.v` before `axi4lite_dist.v`, any master, any peripherals | both modules' registers by name, one record each for reads and for writes; the accesses each peripheral owes an answer |
| `CpuDebug` | the control of `cpu.v` under debug breaks | registers by name, the PPU's NMI line |
| `Board` | `Joypad`, `SpriteDma` and `CpuDebug` side by side, one of them moving | those of the three |
| `UartProofs` | a theorem about `UartLink` | |
| `BoardProofs` | theorems about the three parts of `Board` | |
| `SocBusProofs` | theorems about `SocBus` | |
| `ProofLemmas` | what the proofs need of division and sequences | |
| `FileStore` | the abstract promise of a file system | the files and the last call with its result |
| `SpiffsGeo` | the geometry macros of `spiffs_nucleus.h` | none |
| `SpiffsGeoProofs` | theorems about `SpiffsGeo` | |
| `SpiffsFlash` | the NOR flash; search, allocation, move and deletion of pages, erasure and quick collection (`spiffs_nucleus.c`, `spiffs_gc.c`) | none: operators on a record that is `spiffs_t` and the flash |
| `SpiffsGc` | `spiffs_gc.c`, and the event that tells handles of a moved page | none |
| `SpiffsObj` | objects: create, open, append, modify, truncate, read (`spiffs_nucleus.c`) | none |
| `SpiffsCheck` | the three passes of `spiffs_check.c` | none |
| `SpiffsApi` | handles (`spiffs_nucleus.c`) and API (`spiffs_hydrogen.c`) | none |
| `Spiffs` | calls one after the other, power losses in the middle of one | `fs` (flash, `spiffs_t`), `mounted`; the files in the flash, the last call and the one that was cut off, the directory listing |

`Board` puts `Joypad`, `SpriteDma` and `CpuDebug`, which share no register as far as
they are modelled, next to each other: `part`, chosen in the initial state, is the
one that moves.  One run so checks all three, and a theorem about `BoardSpec` is one
about each of them.

Composition: `Fifo` and `Hci` are built over `FifoOps`, so that the FIFO inside
`Hci` is the one about which `FifoProofs` proves.  `UartLink` is built over
`UartOps`.  `Spiffs` is built, one on the other, over `SpiffsApi`,
`SpiffsCheck`, `SpiffsObj`, `SpiffsGc`, `SpiffsFlash` and `SpiffsGeo`, and
implements `FileStore`, which is what `Loader` reads its games from.  `Loader` sends whole packets, whose handling byte by
byte is `Hci`; `Hci` receives whole bytes, whose bits are `UartLink`'s.  The
layers meet in what each shows to the next: bytes arrive unchanged and in order
(`FramesExact`), packets have the effect they ask for (`RepliesRight`,
`QuietMeansDone`), and no byte is dropped at the speed of the line
(`NoByteDropped`).

How code becomes TLA+:

- **A Verilog module is one action per clock edge.**  `d_x` becomes `x'`; the
  defaults at the head of an `always @*` block become the last alternative or
  `UNCHANGED`; a `case` over the state becomes a disjunction of actions.
  Registers keep their names, so `q_cnt` here is `q_cnt` there.
- **Widths are kept** where they matter: `% ByteBase`, `% (Depth)`, and
  `q_execute_cnt` is one bit wider than a count in `Hci` because reads count
  twice.
- **A function of SPIFFS is an operator** from the state of the file system to
  the next, with its result in `err`; `Then` is `SPIFFS_CHECK_RES`.  Nothing runs
  between two statements of a call (`SPIFFS_LOCK` is empty, `main.c` has one
  thread), so a call is one step.  What a power loss can leave is kept in `log`:
  the flash writes of the call in order, of which a cut keeps the first ones.
- **The firmware is one action per statement that is seen from outside**: a
  packet sent, a button polled, a file opened.  `at` is its program counter.
- **Data that is only carried is reduced to where it came from.**  A kilobyte
  of a game is `<<file, index>>`, a byte of a page is `<<page, index>>`.
- **What is not in `src/`** is modelled from how the code uses it and listed as
  external in `PROJECT.json`: the host's end of the serial line in `Hci`, the
  SoC's `uart_lite`, games, users, the flash chip behind SPIFFS's HAL.
- Operators called *mutant* in a comment are plausible bugs of the definition
  below them; each shows that some property notices it.

Ghost variables (`pending`, `owed`, `reads`, `ref`, ...) record history that the
properties speak about.  No action of the code reads one.

### Details worth knowing

`Hci`: bytes have `ByteBase` values and an address is two bytes.  The host
keeps `ref`, the state and the replies its packets call for, computed by `Execute`
from a packet as a whole; the state machine computes
the same byte by byte, with the real counters.  Memories are read one clock
after their address is presented, and the CPU bus shows `q_addr` always, as
`cpu_a` does.

`Loader`: `PrgBank` and `ChrBank` are transfers per bank.  The reset vector is
`vector`, the transfer it was taken from.  A game, once it runs, does what it
likes: it switches the PPU, overwrites PRG (which `cart.v` allows) and CHR, and
may execute HLT.  `at = "wait"` and `"pads"` are the two halves of a turn of
`Wait4Button`, which can fail between them.

`SpriteDma`: `oam` is written only through `ppu_ri.v`'s edge detector.  In a
break the multiplexers of `nes.v` show the PPU another bus cycle, and the DMA
goes on.  The CPU reads and writes all registers of the PPU, those without an
effect that is modelled included.  `Following` says what `cpu.v` puts on the bus
behind an access: the target of an indexed store or of a read-modify-write is
read before it is written, with the chip select low throughout, and `JMP` through
a register reads that and the next one.  `ExecutedOnce` counts by stretches, the
clocks of a cycle of the CPU between two breaks.

`Joypad`: the same holds of $4016, of which `bus` tells reads and writes.  `jp.v`
compares addresses, so it does not see a write directly behind a read.

`UartLink`: `q_empty` is `fifo.v`'s registered flag and may stand while `queue` has
an entry.  `missed` remembers that the last byte came in such a clock.

`SocBus`: the read half and the write half share no register, so each is an
action of its own; a clock that moves both is one of each.  The inputs (what the
master and the peripherals hold up) are chosen anew in every clock: neither
module keeps anything of a request that it has not accepted, so more is allowed
here than AXI allows, and it does no harm.  A peripheral answers a read with
the address it was asked for, which is how `Beats` tells which answer is whose.

`SpiffsFlash`: the flash is `dev`: `lu` the lookup entries, `pg` the pages, `ec`
the erase counts.  A page is a record of its header and its cells; `fl` holds the
flag bits that are *cleared*, `Undef` is the erased word.  Programming keeps the
bits that are set in both the old and the new value (`BitAnd`), and `garbled`
records that a write did not leave what it wrote.  A data cell stands for a part
of a data page that is written at once.

`SpiffsObj`: reading, appending, modifying and truncating walk through the file
one data page at a time.  The walk `w` carries the index page in the work
buffer and whether the C code left its loop by `break` (what was done is still
stored) or by `return` (nothing is).

`SpiffsGc`, `SpiffsCheck`: a scan of a block or of the lookup is a fold over its
entries, with the C code's cursors and work buffers in the accumulator.

Assumptions of the SPIFFS modules:

- The HAL's writes are atomic and reach the flash in order.  The two halves of
  the unchanged data that a modify copies are one write; the page is not final
  before or after it.  A page that is copied is two writes, the header and the
  rest, where `spiffs_phys_cpy` takes chunks of 64 bytes: its lookup entry is not
  written before the last one, so no search finds it, and the check tells an
  incomplete copy from none by its header only.
- The hash by which handles remember a name is the name: no two names collide.
- After a power loss the user mounts and runs SPIFFS_check before anything else.
  `spiffs.h:608-609` asks for a check only when more is used than there is; what
  writes to a file system that was not checked do is left open.
- `PagesPerScan` is a parameter; the runs check all pages in one scan.
- A call that runs out of pages behind its own check for room (`starved`) ends
  what the properties claim of the behaviour; see [Findings](#findings).
- Two repairs of SPIFFS_check for damage that no single power loss leaves are not
  spelled out: a check that meets such damage sets `astray`, and `CheckEnds`
  says that it never does.

`CpuDebug`: an instruction is its number of cycles and whether it prefetches
the next opcode in its last one.  `owed` counts falling edges of NMI that were
sampled and not served.

## Runs

"violation" runs state what a comment or the documentation says and show that
the code does something else; see [Findings](#findings).

| Run | Instance | Shows |
|---|---|---|
| `fifo` | 4 slots, 2 values | the flags never let a byte be lost or read twice (`FlagsSafe`), at least one side is open (`OneSideOpen`), what a flag hides comes back (`FlagsRecover`), and the FIFO implements `BoundedQueue` |
| `hci` | bytes of 4 bits, FIFOs of 4, 3 packets of every kind, breaks by the program | replies and memory are what the packets ask for (`RepliesRight`, `QuietMeansDone`), no byte is lost (`NoByteDropped`), PPU_DISABLE works (`PpuDisableWorks`), every packet is completed (`PacketsComplete`) |
| `hci_pipelined` | 3 requests back to back | violation: a reply stays behind the empty flag |
| `uart` | real rates, 2 bytes, 2 queued, without parity and with odd parity; the SoC's bits of 92, 96 and 100 clocks against 96 | every byte that is sent is reported once, unchanged, in order, without a parity error, with and without a gap between frames (`FramesExact`), and every byte that is queued in the end, but for one that the empty flag hides until the next write (`Delivered`) |
| `loader` | 4 files: small, too large, large, cut short; I2C transfers that may fail | `RunsOnlyLoaded`, `InSync`, `NoWriteWhileRendering`, `NextOnlyOnPress`, `EveryFileComesUp` |
| `board` | DMA: pages of 3 bytes, CPU cycles of 4 clocks, breaks at any clock. Controllers: 3 buttons, 8 clocks a bit, 2 snapshots. CPU: cycles of 4 phases, instructions of 1 to 6 cycles, breaks at any clock, program counter writes, HLT | the page is complete when the CPU goes on (`CopiedBeforeNextCycle`), an access is executed once in each stretch between breaks, and not at all directly behind another (`ExecutedOnce`), every copy ends (`CopyEnds`); reads are in order (`ReadsInOrder`), torn at most once (`TornOnce`), and buttons that are held arrive (`SteadyArrives`); an NMI is served (`NmiServed`), and once (`NmiOnlyOnce`); HLT breaks once (`HltBreaksOnce`) |
| `soc_bus` | two peripherals of 8 words, bursts of 1 to 4 beats, all kinds | `OneAnswerOwed`, every beat once, in order, to its address and its answer to its burst (`Beats`), `BurstsDoNotOverlap`, `BurstsAnswered` |
| `cpu_debug_pc` | the CPU of `board` | violation: an NMI of the old program comes before the new one's first opcode |
| `spiffs` | 5 blocks of 4 entries, data pages of 2 cells, 2 names, 2 handles, 4 calls of every kind from an empty flash and from one with deleted pages to collect | the API implements `FileStore` (`ImplementsStore`); the counters are those of the flash (`StatsTrue`); nothing is programmed over (`NoGarbledWrite`); no page is lost or double (`PagesAccounted`); handles follow their files (`HandlesTrack`); the check finds nothing to do (`CheckChangesNothing`) |
| `spiffs_power` | the same, one call cut off after any of its writes, then the check | other files keep every cell until the check, and in it but for two cases that are spelled out (`CutSparesOthers`); the check ends, and meets only damage it is modelled for (`CheckEnds`); files it leaves hold nothing that was never written (`NeverWrong`) |
| `spiffs_cut` | the same, one cut among four calls, then the check | violation: the check deletes a file that the call was not about and that shares its id with none |
| `spiffs_handles` | the same, files opened by directory entry | violation: such a handle stays at a header that was deleted |

Why the bounds are enough:

- FIFO: four slots have every relation between the pointers that a larger FIFO
  has (equal, one apart on either side, further apart, wrapped), and the proofs
  cover every depth from four on.  Two values tell an entry from its neighbour.
- `Hci`: a byte of 4 bits holds all opcodes and two unknown ones; packets cover
  counts of zero, one, more than the FIFO holds, a carry into the high address
  byte and the wrap of the address.  Three packets are enough for one to leave
  a state that the next one finds and a third to show it.  `RxClks` and `TxClks`
  keep the order of the hardware's 1000 and 960 clocks a byte and the state
  machine's few clocks.
- UART: the rates are the hardware's (96 clocks a bit in the NES, 100 in the
  SoC), and every phase of the receiver's
  oversampling counter is an initial state; bits that differ from their
  neighbours expose a sampling point that drifts.
- `Loader`: two transfers a bank give both loops a first and a last turn, `two`
  and one bank, and files that end in each loop.  `MaxLink` bounds the packets
  in flight: what matters is whether the NES is behind the SoC at all.
- `SpriteDma`: a page of three bytes has a first, a middle and a last one; it
  takes longer than a cycle of four clocks, so a copy begins and ends at every
  phase.  The real page is 256 bytes and the real cycle 56 clocks.
- `SocBus`: `CntBase = 4` makes the longest burst four beats, and its count
  wraps where the hardware's wraps at 256.  Bursts of one, two, three and four
  beats, wrapping and fixed, to two ports; `MaxAccepted = 2` lets a peripheral
  take an access before it has answered the last one, if the distributor did
  not prevent it.
- `Joypad`: three buttons have a first, a middle and a last one.  Eight clocks
  a bit keep the two sampling clocks, the latch and the two clock edges apart.
- SPIFFS: a header with one entry and index pages of two make a file of five
  cells use three data pages and a second index page, and a file of seven a
  second entry of it; the real numbers differ only in size.  Of five blocks two
  stay free and `spiffs_gc_check` collects with fewer than four, so that the
  collector runs in the middle of calls while handles are open, and calls fail
  because the file system is full, within the four calls behind the prepared
  file system.  Two names and
  two handles give one handle more than a file needs, and a file beside the one a
  call is about.  `MaxCuts = 1`: `spiffs.h:609-610` speaks of files
  lost to repeated power losses, so what one may do is the question.  `MaxRestarts = 5` is a claim, not a restriction: a check that
  started over more often would violate `CheckEnds`.
- `CpuDebug`: phases 0 and 1 are the ones the control asks for, and two more
  stand for the rest.

## Fairness

- Hardware: the clock runs (`WF_vars(Clock)`), which the code cannot do without.
- `Loader`: the firmware and `hci.v` never stop (`WF` of `Soc` and `Hci`).  The
  user presses the button again and again while the firmware waits, and keeps
  it down, and up, for longer than a turn of the loop, which is milliseconds:
  `SF` of `Press`, `Release` and of a poll at either level.  Nothing is assumed
  of the game.
- `SpriteDma` and `CpuDebug`: the debugger is finally left for good
  (`Resumed`), without which nothing can be expected of a CPU that it stops.
- `SocBus`: the master and the peripherals, which are not in the repository, do
  not withhold a ready for ever from a valid that stays up, and hold theirs up
  until it is accepted.  AXI asks for the second; the first is what a peripheral
  that works does.
- SPIFFS: nothing.  Its calls end or do not; that the check ends is the safety
  property `CheckEnds`.
- `Hci`: the clock runs, and the host finishes the packet that it has begun.
  That it sends another is not assumed.

## Proofs

TLC checks the instances above; TLAPS proves the following for every value of the
constants that the modules' assumptions allow.  None of the properties is inductive
as it stands.  Each proof first finds what is: an invariant that says of the
registers in between what the property only says at the end.

`FifoProofs`, for every `Depth >= 4` and every `Data` (`DepthAssumption`):

- `FlagsCorrect`: `Spec => []FlagsSafe`.  `FlagsSafe` alone is not inductive,
  since the number of entries reads equal pointers through the full flag; the
  inductive invariant is `IInv == TypeOK /\ FlagsSafe /\ OneSideOpen`.
  `CountStep` says what one clock does to the number of entries: plus the
  accepted write, minus the accepted read.  `OneSideOpenCorrect` is its last part.
- `FifoImplementsQueue`: `Spec => ImplementsQueue`, by the same invariant and a
  lemma that relates the entries before and after a clock to the queue's
  operations.
- `FlagsRecoverCorrect`: `Spec => FlagsRecover`.

In the hardware the depth is a power of two and the pointers wrap by their width;
the proofs need only that they wrap at `Depth`.

`LoaderProofs`, for every directory, every number of transfers in a PRG
and a CHR bank and every number of packets in the link (`LoaderAssumption`):

- `TypeCorrect`: `Spec => []TypeOK`, which says that no copying loop leaves the
  cartridge's memories.  That needs `LoopsInStep`: within a load, the number of
  transfers read and the loop's index move together, and only a file whose
  header was accepted is copied.  `LoopBounds` turns the header's bounds into
  the loops'.
- `InSyncCorrect`: `Spec => []InSync`.  The difficulty is that the NES lags
  behind by whatever is in the link, and that the game does as it likes until
  the break reaches it.  So the invariant is not about the NES's state but about
  what it will be when a packet's turn comes: `WillHold(s, now, setter, k)` says
  that a condition holds now and no DbgRun is before packet k, or that a packet
  that establishes it is before k and no DbgRun in between.  `SyncInv` says that
  of every packet in the link that is not a break, and of the one that the SoC
  sends next.  `WillHoldAppend` and `WillHoldTail` say how it fares when a packet
  is sent and when one is handled; what the game does cannot end it.
- `StillCorrect`: `Spec => []NoWriteWhileRendering`, by the same argument with
  "halted, and the PPU still" and PPU_DISABLE in place of the break (`StillInv`).
  PPU_DISABLE has its effect because it never arrives in DISABLED, which is
  `SyncInv`, so the two invariants are proved in this order; `IInv` is all of
  them.
- `RunsOnlyLoadedCorrect`: `HasProgram => (Spec => RunsOnlyLoaded)`.  The link may
  hold packets of several loads, of which all but the last may have been cut short,
  and a packet does not tell its load.  `PlanInv` says that the packets can be
  given places, a load and a number in it, so that each is the packet of its place
  (`IsPacket`), each load follows the one before from its first packet on
  (`Planned`), the SoC's own place is next, and the NES is in the state that the
  places before the first packet's call for (`Done`).  `DoneStep` shows that one
  more packet handled is one more place done, `PlanAppend` and `PlanTail` that
  sending and handling leave a plan, `GameKeeps` that a game cannot undo anything:
  a load that has done anything has halted it.  `VectorTaken` follows the reset
  vector from the last transfer of the first loop to the two register writes.
  A DbgRun has the last place of its load, so all of it is done.
  The hypothesis `HasProgram`, that no accepted file has zero PRG banks, is
  necessary: `main.c:222` rejects more than two banks only, and a file with none is
  run with a vector from an uninitialised buffer.  The files of the runs have
  programs.
- `NextOnlyOnPressCorrect`: `Spec => NextOnlyOnPress`, because a level that differs
  from the one polled last has a press behind it that was not counted
  (`PressPending`).

`HciProofs`, for every width of a byte, every depth of the FIFOs, every pace of the
UART and every set of packets (`HciAssumption`):

- `RepliesCorrect`, `QuietCorrect` and `NoByteDroppedCorrect`: under `HostRules`,
  `Spec => []RepliesRight`, `Spec => []QuietMeansDone` and `Spec => NoByteDropped`.
  `Execute` says what a packet means as a function of all its bytes; the state
  machine sees one byte at a time and keeps counters.  The invariant (`IInv`,
  `LinkHolds`) therefore says where the packet is of which k bytes have been taken:
  `ToCome` what the line and the receive FIFO still hold of it, `Effect` that what
  the host calls for is what the NES holds but for this packet, `Answers` that its
  replies are the last ones called for, and `Doing` which state of the machine this
  is, with what each counter and the address register then hold: waiting for the
  opcode, in the header, reading, writing, echoing, or in one of the packets of a
  few bytes.  Memory packets are the core: what has been written so far is
  `StoredTo`, and storing the next byte leaves `Stored`, the memory with the whole
  packet in it, as it was (`StoreByte`), whatever the address wraps to; a read owes
  m answers exactly when `q_execute_cnt` is 2m or 2m - 1.  `TxOk` carries an answer
  through `q_tx_data` and the transmit FIFO to the host.  There is one lemma for
  each action.
- What `HostRules` asks, and why.  The host waits for the replies to its requests:
  without that the last one may stay behind (the finding of `hci_pipelined`).  A
  byte comes at least eight clocks behind the last one (a thousand in the
  hardware): PPU_DISABLE does not look at the FIFO for six.  Bytes come no faster
  than the transmitter sends: ECHO does not look at its full flag.  A packet is as
  long as its header says and names a register that exists: any other would wait
  for its missing bytes, or take those of the next.  And no memory of the CPU's bus
  is where the PPU's registers are.  The constants of the `hci` run satisfy all of
  them.
- `PpuDisableCorrect`: `Spec /\ [][StartsOff]_vars => PpuDisableWorks`.  `Stage`
  says what each of the six clocks of PPU_DISABLE finds on the bus and in the PPU.
  `StartsOff` says that the address register is not on one of the PPU's addresses
  when the opcode is taken.  Without it the theorem is false: after a CPU_MEM
  packet that ends at such an address chip select is low already, the write of
  $2000 has no edge and the NMI stays on.  No packet of the loader or of the `hci`
  run leaves the register there.
- `RenderingStops`: without that hypothesis, rendering is off and the byte pointer
  is reset.  PPU_DISABLE takes the bus off the PPU itself before its second and its
  third access.

`UartProofs`, for every set of bytes, queues of any length, every phase of the
oversampling clocks and all rates that fit (`RatesFit`):

- `FramesExactCorrect`: `RatesFit => (Spec => []FramesExact)`.  The argument is one
  number that does not change while a frame is under way: the clocks to the
  receiver's next sample, less the bits that it has (`RxPhase`), and the clocks
  that the sender is into its frame (`TxPhase` of another board, `Elapsed` of the
  SoC).  The first falls and the second rises by one in every clock, through all
  the states of both; the start bit leaves their sum between half a bit and that and
  two ticks.  A sample is taken where `RxPhase` is a multiple of a bit, so the
  sum tells in which of the sender's bits that is (`BoardSamples`, `SampleInBit`).
  The same sum tells who ends the frame first and by how much: of two boards the
  transmitter at most two clocks, so the byte is reported before the next start
  bit can be seen, or the receiver, in the sender's stop bit (`BoardInv`'s
  situations `TxAhead`, `RxAhead`, `Both`).
  What the transmitter sends is the head of the queue, since a flag that is
  clear has an entry behind it (`FlagOk`); that a flag that is set may have one,
  too, does not matter to a frame, only to `Delivered`.
- What `RatesFit` asks.  The counters' widths: 4 to 16 ticks a bit, at most 2^16
  clocks a tick.  Parity none or odd: in mode 2 `uart_tx.v:115` sends what
  `uart_rx.v` does not expect.  Of the SoC's bit, two bounds: with H clocks from the
  falling edge to the first sample, T a tick, P a bit of the receiver and D data
  bits, H + T + (D + 1) P + 2 <= (D + 2) b, so that the receiver is in IDLE when the
  next frame begins, and (D + 1) b <= H + (D + 1) P + 2, so that it is not before
  the stop bit.  `RatesOfTheBoard` proves that this holds of the hardware's rates
  for 92 to 100 clocks a bit; at 91 and at 101 TLC finds `FramesExact` violated, so
  the bounds are exact there.  100 is what the SoC uses: it is the last length that
  works.

`BoardProofs`, for every number of buttons, every divider of the poll's clock and
any snapshots of the SoC (`BoardAssumption`):

- `TornOnceCorrect` and `ReadsInOrderCorrect`: `BoardSpec => []TornOnce` and
  `BoardSpec => []ReadsInOrder`.  The poll's counter determines the latch, its clock
  and how often each of the two registers has shifted (`PollShape`), and with that
  what the register of `top.v` (`RegisterHolds`) and the one of `jp.v`
  (`StateHolds`) hold of the last two latches; the register behind $4016 holds what
  is left of the strobe after the reads so far (`ReadHolds`).  That the strobe
  state is the game's last write that `jp.v` saw (`high`) holds although the game
  may write directly behind a read, because no strobe is counted there either.

and for every page length, number of clock phases and lengths of instructions:

- `CopiedBeforeNextCycleCorrect`: `CopyHolds` says that the bytes before the DMA's
  address are in sprite RAM behind where the sprite pointer was (`Place`), wherever
  that wraps; it rests on where the byte on its way is (`CopyStages`) and on the
  copy's course against the CPU's cycle (`CopyShape`).
- `ExecutedOnceCorrect`: in a stretch on a register of the PPU, the edge detector
  holds the level of the clock before, which is low if the stretch is `behind`
  another and else only from its second clock on; by then it has acted once, and
  in a stretch behind another never (`ActsOnce`).
- `NmiOnlyOnceCorrect`: a pending NMI is owed, or its routine was just entered
  (`NmiPending`); an edge about to be sampled finds nothing owed (`EdgeAlone`); the
  BRK of a service clears only what it serves (`ServiceEnds`).
- `HltBreaksOnceCorrect`, by `HltCounted`.
- `TypesOKCorrect`: the types of all three parts.

`SocBusProofs`, for every set of ports and every set of bursts that stays in them
(`BusAssumption`, `BurstsStayInPorts`, and `WrapLengths`, which is AXI's: a wrapping
burst has 2, 4, 8 or 16 beats, the lengths that `calculate_addr_next` knows):

- `BeatsCorrect`: `Spec => []Beats`.  The reckoning behind it is `ReadCount` and
  `WriteCount`: the beats handed over, the one awaited and those that `arcnt_q` or
  `awcnt_q` counts are the burst, and the address register is at the next one.
  `NextBeat` shows that the converter's step from address to address, for fixed,
  incrementing and wrapping bursts, is AXI's closed form.  `ReadCases` and
  `WriteCases` reduce a clock to the four and five things that it can do.
- `OneAnswerOwedCorrect` and `BurstsDoNotOverlapCorrect`, from the same invariant.

`SpiffsGeoProofs`, for every geometry (`GeoAssumption`), what everything
else in SPIFFS rests on:

- `EntriesAreThePages`: block and lookup entry determine a page and the page
  them, and no such page is a lookup page.
- `EntriesAreTheSpans`: each page of a file has one entry in one index page, and
  the arithmetic by which data pages are looked up (`IxEntry`, `IxSpan`) is the
  inverse of the one by which the collector and the check walk an index page
  (`FirstDataSpan`), on both sides of the step from the header's entries to those
  of the next index page.

Uniqueness of quotient and remainder for a divisor that is a variable is beyond the
SMT solver's arithmetic: `DivModUnique` of `ProofLemmas` and the lemmas before it
lead it back to multiplication.

Only model-checked:

- All liveness (`EveryFileComesUp`, `Delivered`, `PacketsComplete`, `SteadyArrives`,
  `CopyEnds`, `NmiServed`, `BurstsAnswered`): fairness and ENABLED are out of the
  prover's reach.
- The file system above its geometry (`StatsTrue`, `NoGarbledWrite`,
  `PagesAccounted`, `HandlesTrack`, `CheckEnds`, the refinement of `FileStore` and
  the power-cut properties).  Its scans, the collector and the check are folds over
  all blocks, entries and open handles; what such a fold leaves behind is a
  statement by induction over its argument, and none of the provers can instantiate
  the library's induction theorems.

## Findings

| Run | What the code or its documentation says | What the code does |
|---|---|---|
| `hci_pipelined` | `hci.v:25-26`: "returns the specified data." | a reply written in the clock in which the transmitter pops the last byte stays in the FIFO until another reply follows.  The loader asks for no replies, so it never meets this |
| `spiffs_cut` | `spiffs_check.c:699-701`: "getting this means there must be multiple files with same object id. Only solution is to delete the object which is referring to this page" | two headers of one file get it there, too: a power loss between the copy of a header and the deletion of the original leaves them, and the check deletes the file, although it is whole and the call that was cut was about another |
| `cpu_debug_pc` | `cpu.v:489-491`: "so the first opcode fill be fetched as soon as rdy is asserted again." | an NMI that the old program left pending is served first, with the new program's vectors |
| `spiffs_handles` | `spiffs_nucleus.c:1062`: "update index caches in all file descriptors"; `spiffs_nucleus.h:468`: "score == 0 indicates never used fd" | handles opened by directory entry or by page have score 0, and are not told that their file's header has moved: what they read and write next fails |

Seen while modelling, and kept out of the passing runs by the inputs they choose
or by a property's premise:

- `fifo.v:40-41` calls the flags "FIFO is full (writes invalid)" and "FIFO is
  empty (reads invalid)".  They are also set with one slot, or one entry, left
  over from a clock with a read and a write; `FlagsSafe` says what is true of
  them and `FlagsRecover` that it passes.
- `hci.v:586`, "Write 0x2000 to 0.", makes no edge of chip select when the
  address register was left at $2000 by an earlier packet.  The loader sends
  PPU_DISABLE right behind a break, when the address is that of the load before,
  and no packet of the `hci` run leaves it at $2000 either.
- `uart_tx.v:115` sends the complement of bit 0 as even parity (`uart.v:41`: "2 =
  even").  `hci.v` uses no parity.
- `main.c:295-296` takes the reset vector from a buffer that nothing was read
  into when the header has no PRG bank.
- A break in the middle of an access shows the PPU two edges of it
  (`ppu_ri.v:216-218`), so the access is executed again when the game goes on,
  once for each stretch, as `ExecutedOnce` says.  The loader never lets an
  interrupted game go on.
- `ppu_ri.v:218`, `jp.v:152`: an access directly behind another has no edge.  STA
  $2004,X reads its target and then writes it: the PPU acts on the read and drops
  the write.  STA $4016,X, and a read-modify-write of $4016, shift the buttons
  and do not strobe.  `ExecutedOnce` and `ReadsInOrder` say so.
- `uart.v:118` starts a frame on `fifo.v`'s registered empty flag.  A byte that is
  written in the clock in which the done tick pops the last entry stays unsent
  until another is written; `Delivered` makes an exception of it.  It is the same
  clock as in `hci_pipelined`.
- `main.c:475`: a transfer with the port expander that is not acknowledged leaves
  `Wait4Button`, so a game is skipped without a press, where `README.md:256-257`
  says "you can skip to the next game by pressing the Pano button."  `NextOnlyOnPress`
  speaks of polls of the button.
- `sprdma.v:93` does not see the debugger: in a break the DMA goes on while the
  bus is the debugger's.  `CopiedBeforeNextCycle` speaks of undisturbed copies.
- `cpu.v:410`: two NMIs that fall into one break are merged.
- `hci.v:221`: a byte lost on the line shifts every later packet; the protocol
  has no way to recover.
- `axi4lite_dist.v:181`: an access to a select that has no port is never
  accepted, and what is behind it waits for ever.
- `spiffs_check.c:925` lets every whole index page pass before it asks for the
  header, so that a whole orphan stays, while `spiffs_check.c:12-13` has it
  deleted.  The runs claim nothing about orphans after a check.
- `spiffs_check.c:696-710`, beyond the finding of `spiffs_cut`: it is the copies of
  a header or another index page that both name the file's data pages; a
  `CutSparesOthers` without this exception is violated, and so is one without the
  next.  `NeverWrong` says only that a file is not wrong, not that it is there.
- A check that runs out of pages in the middle of a repair leaves what it was
  repairing as the power loss left it, with a data page that the index does not
  list.
- `spiffs_gc.c:297` picks a block that is free altogether when it is the oldest;
  erasing it counts it as free once more, and `free_blocks` is one too high until
  the next mount.  `StatsTrue` speaks of the page counters.
- `spiffs_nucleus.c:1318`: an append through several index pages can run out of
  pages behind the check for room (`spiffs_nucleus.c:1231`), and then leaves data
  pages without an index.  Behaviours behind such a call are `starved` and left
  out of `ImplementsStore`, `PagesAccounted` and `HandlesTrack`.

## Not modelled

- The CPU's data path and the effect of each opcode: a table whose check needs
  an instruction set reference that the repository does not have.
- The processor's data port (`dport_mux.v`, `dport_axi.v`, `tcm_mem*.v`), the
  rest of the PPU's registers, picture and sound (`ppu_bg.v`, `ppu_spr.v`,
  `ppu_vga.v`, `vga_sync.v`, the APU) and the start-up of the DVI transmitter:
  planned, see below.
- Colour tables, the DVI encoder and serialiser and the audio mixer: data paths
  without control.
- SPIFFS: the index map (`SPIFFS_ix_map` and its relatives, which nothing here
  calls), the compacted search for a free object id, file meta data and types, `SPIFFS_vis`, and the arguments the API
  refuses (unmounted, unconfigured, long names).  `spiffs_cache.c` is not
  compiled: `SPIFFS_CACHE` is 0.  The compacted search is the one that the shipped
  geometry takes, as half of its lookup entries (59 blocks of 508) are more than
  a page of 256 bytes has bits (`spiffs_nucleus.c:2145-2155`); the geometry of the
  runs takes the other one, with a bit for each id.  Both return an id that no
  file has.  In `Loader`, open, read and readdir are inputs.
- The RISC-V core, `uart_lite`, the I2C driver and the debug bridge are in a
  submodule whose directory is empty.
- `nes_top.v` is the original project's top level, which this build does not use.
- A byte lost on the line or a SoC that restarts in the middle of a packet: the
  protocol has no way to recover, so there is nothing to state.

## Plan

The order is that of the way a game takes, then of what the player sees and
hears.

1. Done: the way of a game into the NES, from the file system to the first
   opcode (`Spiffs`, `Fifo`, `UartLink`, `Hci`, `Loader`), the parts that keep it
   running (`Joypad`, `SpriteDma`, `CpuDebug`), and the SoC's bus (`SocBus`).
2. `PpuRi`: the register interface with its read buffer, the two-write
   registers and vblank against a read of $2002; composed with `PpuBg`'s
   counters.  Abstract specification: the scroll and address registers as the
   game sees them.
3. `PpuSpr`: the sprite evaluation of a line against a reference definition; the
   overflow flag and its comment.  `PpuVga` over `VgaSync`: position and frame
   timing.
4. `Apu`: frame counter, length counters, envelope, sweep and the triangle's
   linear counter, with the register writes that race their ticks.
5. `DataPort`: `dport_mux.v`, `dport_axi.v` and the memory's port that the
   processor shares with the debug bridge; abstract specification: one memory
   that answers in order.
6. `I2cInit`: the start-up sequence of `iic_init.v` over `i2c.v`.
7. Theorems: invariants of SPIFFS over the operators of `SpiffsFlash`
   (`NoGarbledWrite`, `StatsTrue`).
