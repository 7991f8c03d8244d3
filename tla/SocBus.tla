------------------------------- MODULE SocBus -------------------------------
(***************************************************************************)
(* The bus of the SoC: axi4_axi4lite_conv.v, which turns the bursts of the *)
(* processor's AXI4 port into single AXI4-Lite accesses, in front of       *)
(* axi4lite_dist.v in core_soc.v, which sends each to one of the           *)
(* peripherals by bits 26..24 of its address.                              *)
(*                                                                         *)
(* The read half and the write half of both modules share no register, so  *)
(* a clock edge is an action of its own for each of them.  Every action's  *)
(* parameters are the inputs in that clock.  The master and the            *)
(* peripherals are not in the repository.  An AXI valid stays up until it  *)
(* is accepted, but neither module keeps anything of one that is not, so   *)
(* the inputs are chosen anew at every clock.  Addresses are those of      *)
(* words.                                                                  *)
(***************************************************************************)
EXTENDS Integers, Sequences

CONSTANTS Ports,      \* the selects behind which there is a peripheral
          PageWords,  \* words per select, 2^22 in hardware
          CntBase,    \* values of arcnt_q and awcnt_q, 256 in hardware
          Bursts,     \* what the master asks for: [id, addr, len, kind]
          MaxAccepted \* bound: accesses that one peripheral takes in advance

Selects == 8
Kinds == {"fixed", "incr", "wrap"}
Sel(addr) == (addr \div PageWords) % Selects

\* The words that a wrapping burst of len + 1 beats stays in.
\* Mutant: the length is ignored.
WideSpan(len) == 16
Span(len) == IF len \in {0, 1, 3, 7, 15} THEN len + 1 ELSE 16

calculate_addr_next(addr, kind, len) ==
    CASE kind = "fixed" -> addr
      [] kind = "wrap"  -> (addr - (addr % Span(len))) + ((addr + 1) % Span(len))
      [] kind = "incr"  -> addr + 1

\* AXI's own definition of the address of beat k, counted from 0.
BeatAddr(b, k) ==
    CASE b.kind = "fixed" -> b.addr
      [] b.kind = "wrap"  -> LET base == b.addr - (b.addr % (b.len + 1))
                             IN base + ((b.addr - base + k) % (b.len + 1))
      [] b.kind = "incr"  -> b.addr + k

BurstType == [id : Nat, addr : Nat, len : 0 .. CntBase - 1, kind : Kinds]

ASSUME BusAssumption ==
    /\ Ports \subseteq 0 .. Selects - 1
    /\ PageWords \in Nat \ {0} /\ CntBase \in Nat \ {0, 1}
    /\ MaxAccepted \in Nat \ {0}
    /\ Bursts \subseteq BurstType

\* AXI: a wrapping burst has 2, 4, 8 or 16 beats; calculate_addr_next knows these
\* and the one of a single beat.
ASSUME WrapLengths ==
    \A b \in Bursts : b.kind = "wrap" => b.len \in {0, 1, 3, 7, 15}

\* A burst stays with one peripheral: AXI forbids crossing 4 kilobytes.
ASSUME BurstsStayInPorts ==
    \A b \in Bursts : \A k \in 0 .. b.len : Sel(BeatAddr(b, k)) \in Ports

VARIABLES rconv, wconv,  \* the converter's registers
          rdist, wdist,  \* the distributor's registers
          rport, wport,  \* accesses a peripheral has accepted and not answered
          rd, wr         \* ghosts: the burst accepted last, and what came of it

rvars == <<rconv, rdist, rport, rd>>
wvars == <<wconv, wdist, wport, wr>>
vars == <<rvars, wvars>>

\* Where the converter hides the master's address: from the clock in which it
\* accepts one to the one in which it hands the last answer over.
\* Mutant: it is not hidden.
ForgottenMask(mask, accepted, done) == mask /\ ~ done
NextMask(mask, accepted, done) == accepted \/ (mask /\ ~ done)

-----------------------------------------------------------------------------
(* Reads.                                                                  *)

\* The distributor passes a request on while none is outstanding.
\* Mutant: while one is outstanding, too.
AlwaysFree == TRUE
ReadFree == ~ rdist.pending

AfterRead(c) ==
    [c EXCEPT !.addr = calculate_addr_next(@, c.burst.kind, c.burst.len),
              !.valid = c.cnt # 1,
              !.cnt = (@ + CntBase - 1) % CntBase]

ReadAccepted(c, b) ==
    [c EXCEPT !.valid = b.len # 0,
              !.cnt = b.len,
              !.burst = b,
              !.addr = calculate_addr_next(b.addr, b.kind, b.len)]

rlast == rconv.cnt = 0

ReadClock(arvalid, b, rready, ready, up) ==
    LET out_arvalid == (arvalid /\ ~ rconv.mask) \/ rconv.valid
        out_araddr == IF rconv.valid THEN rconv.addr ELSE b.addr
        sel == IF rdist.pending THEN rdist.sel ELSE Sel(out_araddr)
        out_arready == sel \in ready /\ ReadFree
        arready == out_arready /\ ~ rconv.mask
        accepted == arvalid /\ arready
        asked == {p \in ready : out_arvalid /\ sel = p /\ ReadFree}
        rvalid == rdist.sel \in up /\ rport[rdist.sel] # <<>>
        answered == {p \in up : rvalid /\ rready /\ rdist.sel = p}
        beat == [data |-> Head(rport[rdist.sel]), id |-> rconv.burst.id,
                 last |-> rlast]
        regs == IF rconv.valid /\ out_arready THEN AfterRead(rconv)
                ELSE IF accepted THEN ReadAccepted(rconv, b)
                ELSE rconv
    IN  /\ rdist' = [pending |-> IF rvalid /\ rready THEN FALSE
                                 ELSE IF ReadFree /\ out_arvalid
                                      THEN out_arready
                                      ELSE rdist.pending,
                     sel |-> sel]
        /\ rconv' = [regs EXCEPT !.mask =
                       NextMask(@, accepted, rvalid /\ rlast /\ rready)]
        /\ rport' = [p \in Ports |->
                       (IF p \in answered THEN Tail(rport[p]) ELSE rport[p])
                         \o (IF p \in asked THEN <<out_araddr>> ELSE <<>>)]
        /\ rd' = IF accepted THEN [burst |-> b, open |-> TRUE, got |-> <<>>]
                 ELSE IF rvalid /\ rready
                      THEN [rd EXCEPT !.got = Append(@, beat), !.open = ~ rlast]
                      ELSE rd

\* The ports that can take another access.
Room(port) == {p \in Ports : Len(port[p]) < MaxAccepted}

Read ==
    /\ \E arvalid, rready \in BOOLEAN, b \in Bursts,
          ready \in SUBSET Room(rport), up \in SUBSET Ports :
             ReadClock(arvalid, b, rready, ready, up)
    /\ UNCHANGED wvars

-----------------------------------------------------------------------------
(* Writes.                                                                 *)

WriteFree == ~ wdist.pending

\* A burst's address goes out with each of its data, the first of which may
\* come with it or later.
\* Mutant: the last one is not noted.
AfterWriteNotLast(c) ==
    [c EXCEPT !.addr = calculate_addr_next(@, c.burst.kind, c.burst.len),
              !.valid = c.cnt # 1,
              !.cnt = (@ + CntBase - 1) % CntBase]
AfterWrite(c) ==
    [c EXCEPT !.addr = calculate_addr_next(@, c.burst.kind, c.burst.len),
              !.valid = c.cnt # 1,
              !.blast = @ \/ c.cnt = 1,
              !.cnt = (@ + CntBase - 1) % CntBase]

\* Mutant: the first beat counts as the last.
FirstIsLast(c, b, wlast) ==
    [c EXCEPT !.valid = ~ wlast,
              !.cnt = b.len,
              !.addr = calculate_addr_next(b.addr, b.kind, b.len),
              !.burst = b,
              !.blast = TRUE]
WriteAcceptedWithData(c, b, wlast) ==
    [c EXCEPT !.valid = ~ wlast,
              !.cnt = b.len,
              !.addr = calculate_addr_next(b.addr, b.kind, b.len),
              !.burst = b,
              !.blast = wlast]

\* Mutant: the address is advanced as if the first beat had gone.
AddressAdvanced(c, b) ==
    [c EXCEPT !.valid = TRUE, !.cnt = (b.len + 1) % CntBase, !.burst = b,
              !.addr = calculate_addr_next(b.addr, b.kind, b.len),
              !.blast = FALSE]
WriteAccepted(c, b) ==
    [c EXCEPT !.valid = TRUE,
              !.cnt = (b.len + 1) % CntBase,
              !.addr = b.addr,
              !.burst = b,
              !.blast = FALSE]

\* The beats of the accepted burst that the master has not yet handed over.
Left == wr.burst.len + 1 - wr.taken
\* wlast: of the open burst's next beat, or of the first one of the next burst.
Wlast(b) == IF wr.open /\ wr.taken <= wr.burst.len THEN Left = 1 ELSE b.len = 0

WriteClock(awvalid, b, wvalid, bready, ready, up) ==
    LET out_awvalid == wvalid /\ ((awvalid /\ ~ wconv.mask) \/ wconv.valid)
        out_awaddr == IF wconv.valid THEN wconv.addr ELSE b.addr
        awvalid_w == out_awvalid \/ wdist.awvalid
        awaddr_w == IF wdist.awvalid THEN wdist.awaddr ELSE out_awaddr
        sel == IF wdist.pending THEN wdist.sel ELSE Sel(awaddr_w)
        out_awready == sel \in ready /\ WriteFree /\ ~ wdist.awvalid
        wready == sel \in ready /\ WriteFree /\ awvalid_w
        awready == out_awready /\ ~ wconv.mask
        accepted == awvalid /\ awready
        taken == wvalid /\ wready
        asked == {p \in ready : awvalid_w /\ wvalid /\ sel = p /\ WriteFree}
        out_bvalid == wdist.sel \in up /\ wport[wdist.sel] # <<>>
        out_bready == ~ wconv.blast \/ bready
        bvalid == out_bvalid /\ wconv.blast
        confirmed == {p \in up : out_bvalid /\ out_bready /\ wdist.sel = p}
        regs == IF wconv.valid /\ out_awvalid /\ out_awready
                THEN AfterWrite(wconv)
                ELSE IF accepted
                     THEN IF taken THEN WriteAcceptedWithData(wconv, b, Wlast(b))
                                   ELSE WriteAccepted(wconv, b)
                     ELSE [wconv EXCEPT !.blast = @ /\ ~ (bvalid /\ bready)]
        came == IF asked # {} THEN <<awaddr_w>> ELSE <<>>
        n == IF taken THEN 1 ELSE 0
    IN  /\ wdist' = [awvalid |-> \/ out_awvalid /\ out_awready /\ ~ wvalid
                                 \/ wdist.awvalid /\ ~ (out_bvalid /\ out_bready),
                     awaddr |-> IF out_awvalid /\ out_awready
                                THEN out_awaddr ELSE wdist.awaddr,
                     pending |-> IF out_bvalid /\ out_bready THEN FALSE
                                 ELSE IF WriteFree /\ wvalid THEN wready
                                      ELSE wdist.pending,
                     sel |-> sel]
        /\ wconv' = [regs EXCEPT !.mask = NextMask(@, accepted, bvalid /\ bready)]
        /\ wport' = [p \in Ports |->
                       (IF p \in confirmed THEN Tail(wport[p]) ELSE wport[p])
                         \o (IF p \in asked THEN came ELSE <<>>)]
        /\ wr' = IF accepted
                 THEN [burst |-> b, open |-> TRUE, taken |-> n, came |-> came]
                 ELSE [wr EXCEPT !.taken = @ + n, !.came = @ \o came,
                                 !.open = @ /\ ~ (bvalid /\ bready)]

Write ==
    /\ \E awvalid, wvalid, bready \in BOOLEAN, b \in Bursts,
          ready \in SUBSET Room(wport), up \in SUBSET Ports :
             WriteClock(awvalid, b, wvalid, bready, ready, up)
    /\ UNCHANGED rvars

-----------------------------------------------------------------------------
NoBurst == [id |-> 0, addr |-> 0, len |-> 0, kind |-> "fixed"]

Init ==
    /\ rconv = [mask |-> FALSE, valid |-> FALSE, addr |-> 0, cnt |-> 0,
                burst |-> NoBurst]
    /\ wconv = [mask |-> FALSE, valid |-> FALSE, addr |-> 0, cnt |-> 0,
                burst |-> NoBurst, blast |-> FALSE]
    /\ rdist = [pending |-> FALSE, sel |-> 0]
    /\ wdist = [awvalid |-> FALSE, awaddr |-> 0, pending |-> FALSE, sel |-> 0]
    /\ rport = [p \in Ports |-> <<>>] /\ wport = [p \in Ports |-> <<>>]
    /\ rd = [burst |-> NoBurst, open |-> FALSE, got |-> <<>>]
    /\ wr = [burst |-> NoBurst, open |-> FALSE, taken |-> 0, came |-> <<>>]

Next == Read \/ Write
Spec == Init /\ [][Next]_vars

(* The master and the peripherals keep valid up until it is accepted and do  *)
(* not withhold ready for ever, so that again and again both sides of every  *)
(* handshake meet.                                                           *)
ReadsProceed ==
    \E b \in Bursts : ReadClock(FALSE, b, TRUE, Ports, Ports) /\ UNCHANGED wvars
WritesProceed ==
    \E b \in Bursts : WriteClock(FALSE, b, TRUE, TRUE, Ports, Ports) /\ UNCHANGED rvars
FairSpec == Spec /\ WF_vars(ReadsProceed) /\ WF_vars(WritesProceed)

-----------------------------------------------------------------------------
(* Properties.                                                             *)

\* What the distributor keeps of an access is enough to find its answer: while
\* it waits for one, the port it listens to owes exactly one, and no other port
\* owes any; while it does not, nobody does (read_pending_q, read_sel_q and
\* their counterparts in axi4lite_dist.v, which remember no more than a bit and
\* a number).
Owes(port, dist) ==
    \A p \in Ports : Len(port[p]) = IF dist.pending /\ dist.sel = p THEN 1 ELSE 0
OneAnswerOwed == Owes(rport, rdist) /\ Owes(wport, wdist)

\* Every beat of a read burst carries the data of its own address and the id of
\* its burst, in order, and exactly the last one is marked as the last, although
\* the converter counts the requests that were accepted and not the answers
\* (arcnt_q, inport_rlast_o).
ReadBeats ==
    \A k \in DOMAIN rd.got :
        rd.got[k] = [data |-> BeatAddr(rd.burst, k - 1), id |-> rd.burst.id,
                     last |-> k = rd.burst.len + 1]

\* Every beat that the master hands over reaches a peripheral in the same clock,
\* at its own address, in order and once, whether the first one comes with the
\* address or later; and none is taken before its address (awaddr_q, awcnt_q,
\* inport_wready_o).  The master is told that its write is done when every beat
\* is, and no answer of a peripheral is outstanding that could be taken for the
\* next burst's (blast_q, which hides the answers to all beats but the last).
WriteBeats ==
    /\ wr.taken = Len(wr.came)
    /\ Len(wr.came) <= wr.burst.len + 1
    /\ \A k \in DOMAIN wr.came : wr.came[k] = BeatAddr(wr.burst, k - 1)
    /\ (~ wr.open /\ wr.came # <<>>) =>
           /\ Len(wr.came) = wr.burst.len + 1
           /\ \A p \in Ports : wport[p] = <<>>

\* The two directions share the ports, and neither loses, repeats, reorders or
\* mislabels a beat of its own: reads in the converter's read half and the
\* distributor's, writes in the other.
Beats == ReadBeats /\ WriteBeats

\* A burst is accepted only when the one before it is answered in full: the
\* registers that describe a burst are there once (the masks).
BurstsDoNotOverlap ==
    [][ /\ (rd'.got = <<>> /\ rd' # rd) => ~ rd.open
        /\ (wr'.taken < wr.taken \/ wr'.burst # wr.burst) => ~ wr.open ]_vars

\* Every burst is answered: neither half ever waits for something that the other
\* module waits for.
BurstsAnswered == (rd.open ~> ~ rd.open) /\ (wr.open ~> ~ wr.open)
=============================================================================
