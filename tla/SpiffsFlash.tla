---------------------------- MODULE SpiffsFlash ----------------------------
(* The lowest layer of the file system (spiffs_nucleus.c, spiffs_gc.c): the  *)
(* NOR flash and what programming does to it, the statistics and cursors in  *)
(* RAM, the search of the object lookup, and the allocation, move, deletion  *)
(* and erasure of pages.                                                     *)
(*                                                                           *)
(* Every operator takes a state s of the file system and returns the next:   *)
(*   dev     the flash: lu (page -> id in the object lookup), pg (page ->    *)
(*           contents), ec (block -> erase count)                            *)
(*   log     the flash writes of the running call, in order: a power loss    *)
(*           keeps a prefix of them and nothing of RAM                       *)
(*   garbled whether a write did not leave in the flash what it wrote        *)
(*   starved whether a call ran out of pages after its check for room        *)
(*   astray  whether a check met what no crash leaves (see SpiffsCheck)      *)
(*   err, pix  result and found or allocated page of the last call           *)
(*   work    the page in the work buffer when it is an index page            *)
(*   the rest is spiffs_t: freeBlocks, pAlloc, pDel, freeAt and findAt (the  *)
(*           two cursors, as lookup entries), maxEc, cleaning, fds           *)
EXTENDS SpiffsGeo, Sequences, FiniteSets, FiniteSetsExt, SequencesExt

CONSTANTS Fds            \* file handles, 1..fd_count

Body == 0..DataPageSize - 1
Flags == {"USED", "FINAL", "INDEX", "IXDELE", "DELET"}

(* A page with every bit set.  fl holds the flag bits that are cleared; body *)
(* holds the data cells of a data page and the entries of an index page.     *)
ErasedPage ==
    [id |-> Free, span |-> Undef, fl |-> {}, size |-> Undef, name |-> "",
     body |-> [i \in Body |-> Undef]]

(* Programming can only clear bits: what is left has the bits of both.       *)
BitAnd[a \in Nat, b \in Nat] ==
    IF a = 0 THEN 0 ELSE (a % 2) * (b % 2) + 2 * BitAnd[a \div 2, b \div 2]

Programmed(old, new) == IF old = Undef THEN new ELSE BitAnd[old, new]

ProgrammedPage(old, new) ==
    [id   |-> Programmed(old.id, new.id),
     span |-> Programmed(old.span, new.span),
     fl   |-> old.fl \cup new.fl,
     size |-> Programmed(old.size, new.size),
     name |-> IF old.name = "" THEN new.name
              ELSE IF new.name \in {"", old.name} THEN old.name ELSE "?",
     body |-> [i \in Body |-> Programmed(old.body[i], new.body[i])]]

(* The writes of the flash chip: a lookup entry, (part of) a page, the erase *)
(* count of a block, and the erasure of a block.                             *)
LuWritten(dev, pix, id) == [dev EXCEPT !.lu[pix] = Programmed(@, id)]
PageWritten(dev, pix, page) == [dev EXCEPT !.pg[pix] = ProgrammedPage(@, page)]
CountWritten(dev, block, count) == [dev EXCEPT !.ec[block] = Programmed(@, count)]
Erased(dev, block) ==
    [lu |-> [p \in Pages |-> IF BlockOf(p) = block THEN Free ELSE dev.lu[p]],
     pg |-> [p \in Pages |-> IF BlockOf(p) = block THEN ErasedPage ELSE dev.pg[p]],
     ec |-> [dev.ec EXCEPT ![block] = Undef]]

ApplyWrite(dev, w) ==
    CASE w.op = "page"  -> PageWritten(dev, w.at, w.val)
      [] w.op = "lu"    -> LuWritten(dev, w.at, w.val)
      [] w.op = "count" -> CountWritten(dev, w.at, w.val)
      [] w.op = "erase" -> Erased(dev, w.at)

(* Did the page take every value the write gives it?                         *)
Kept(page, new) ==
    LET took(a, b) == b = Undef \/ a = b
    IN  /\ took(page.id, new.id) /\ took(page.span, new.span)
        /\ took(page.size, new.size) /\ new.name \in {"", page.name}
        /\ \A i \in Body : took(page.body[i], new.body[i])

(* A write of s that leaves the flash dev.                                   *)
Wrote(s, dev, op, at, val) ==
    [s EXCEPT !.dev = dev, !.log = Append(@, [op |-> op, at |-> at, val |-> val])]

LuWrote(r, pix, id) == [r EXCEPT !.garbled = @ \/ r.dev.lu[pix] # id]
WriteLu(s, pix, id) ==
    LuWrote(Wrote(s, LuWritten(s.dev, pix, id), "lu", pix, id), pix, id)

PageWrote(r, pix, page) == [r EXCEPT !.garbled = @ \/ ~Kept(r.dev.pg[pix], page)]
WritePage(s, pix, page) ==
    PageWrote(Wrote(s, PageWritten(s.dev, pix, page), "page", pix, page), pix, page)
WriteFlags(s, pix, flags) == WritePage(s, pix, [ErasedPage EXCEPT !.fl = flags])

Ok(s) == s.err = "OK"
Fail(s, e) == [s EXCEPT !.err = e]
Forgive(s, e) == IF s.err = e THEN Fail(s, "OK") ELSE s
Then(s, Op(_)) == IF Ok(s) THEN Op(s) ELSE s      \* SPIFFS_CHECK_RES

Header(id, span, flags) ==
    [ErasedPage EXCEPT !.id = id, !.span = span, !.fl = flags]

(* The common tests of a page header, in the order of the macros             *)
(* SPIFFS_VALIDATE_OBJIX and SPIFFS_VALIDATE_DATA.  Neither looks at the id  *)
(* in the header: the id tested is the caller's.                             *)
ObjIxError(page, id, span) ==
    CASE "USED" \notin page.fl  -> "IS_FREE"
      [] "DELET" \in page.fl    -> "DELETED"
      [] "FINAL" \notin page.fl -> "NOT_FINALIZED"
      [] "INDEX" \notin page.fl \/ ~IsIx(id) -> "NOT_INDEX"
      [] page.span # span       -> "INDEX_SPAN_MISMATCH"
      [] OTHER                  -> "OK"

DataError(page, id, span) ==
    CASE "USED" \notin page.fl  -> "IS_FREE"
      [] "DELET" \in page.fl    -> "DELETED"
      [] "FINAL" \notin page.fl -> "NOT_FINALIZED"
      [] "INDEX" \in page.fl \/ IsIx(id) -> "IS_INDEX"
      [] page.span # span       -> "DATA_SPAN_MISMATCH"
      [] OTHER                  -> "OK"

(* spiffs_page_data_check and spiffs_page_index_check.  No page number the   *)
(* code can hold lies beyond the last page, so their third test is left out. *)
PageDataCheck(s, fd, pix, span) ==
    IF pix = Undef THEN Fail(s, "INDEX_REF_FREE")
    ELSE IF IsLookupPage(pix) THEN Fail(s, "INDEX_REF_LU")
    ELSE Fail(s, DataError(s.dev.pg[pix], NoIx(s.fds[fd].id), span))

PageIndexCheck(s, fd, pix, span) ==
    IF pix = Undef THEN Fail(s, "INDEX_FREE")
    ELSE IF IsLookupPage(pix) THEN Fail(s, "INDEX_LU")
    ELSE Fail(s, ObjIxError(s.dev.pg[pix], s.fds[fd].id, span))

ReadIndex(s, pix, id, span) == Fail(s, ObjIxError(s.dev.pg[pix], id, span))

-----------------------------------------------------------------------------
(* Searches of the object lookup (spiffs_obj_lu_find_entry_visitor): the     *)
(* first page from the cursor on, cyclically, among those that are sought.   *)

LuIndex(pix) == BlockOf(pix) * MaxEntries + EntryOf(pix)
LuPix(i) == LET n == i % (BlockCount * MaxEntries)
            IN  Pix(n \div MaxEntries, n % MaxEntries)

FindEntry(s, from, sought) ==
    LET ahead(p) == (LuIndex(p) - from) % (BlockCount * MaxEntries)
    IN  IF sought = {} THEN Fail(s, "NOT_FOUND")
        ELSE [s EXCEPT !.err = "OK",
                       !.pix = LuPix(from + Min({ahead(p) : p \in sought}))]

(* spiffs_obj_lu_find_id_and_span, and the variant that trusts the page      *)
(* headers and not the lookup.  Both leave the search cursor at the hit.     *)
IsLivePage(page, id, span) ==
    /\ page.id = id /\ page.span = span
    /\ {"FINAL", "USED"} \subseteq page.fl /\ "DELET" \notin page.fl
    /\ ~(IsIx(id) /\ "IXDELE" \in page.fl /\ page.span = 0)

AtHit(r) == IF Ok(r) THEN [r EXCEPT !.findAt = LuIndex(r.pix)] ELSE r

FindIdAndSpan(s, id, span, exclude) ==
    AtHit(FindEntry(s, s.findAt, {p \in Pages \ {exclude} :
        s.dev.lu[p] = id /\ IsLivePage(s.dev.pg[p], id, span)}))

FindIdAndSpanByPhdr(s, id, span, exclude) ==
    AtHit(FindEntry(s, s.findAt, {p \in Pages \ {exclude} :
        IsLivePage(s.dev.pg[p], id, span)}))

(* A page the code takes for the header of a file: what the searches by name *)
(* accept.  They do not ask whether the page was ever used.                  *)
IsFileHeader(s, p) ==
    /\ IsObject(s.dev.lu[p]) /\ IsIx(s.dev.lu[p])
    /\ s.dev.pg[p].span = 0
    /\ "FINAL" \in s.dev.pg[p].fl
    /\ {"DELET", "IXDELE"} \cap s.dev.pg[p].fl = {}

FindHeaderByName(s, name) ==
    AtHit(FindEntry(s, s.findAt, {p \in Pages :
        IsFileHeader(s, p) /\ s.dev.pg[p].name = name}))

-----------------------------------------------------------------------------
(* Erasing and the quick garbage collection.                                 *)

EraseBlock(s, block) ==
    LET erased == Wrote(s, Erased(s.dev, block), "erase", block, 0)
        counted(r) == Wrote(r, CountWritten(r.dev, block, r.maxEc), "count", block, r.maxEc)
    IN  [counted(erased) EXCEPT !.freeBlocks = @ + 1,
                                !.maxEc = (@ + 1) % IxFlag]

CountIn(s, block, ids) == Cardinality({p \in PagesOf(block) : s.dev.lu[p] \in ids})
DeletedIn(s, block) == CountIn(s, block, {Deleted})
FreeIn(s, block) == CountIn(s, block, {Free})
UsedIn(s, block) == MaxEntries - CountIn(s, block, {Deleted, Free})

(* Mutant of GcQuick: the deleted pages that are erased stay counted.        *)
GcQuickUncounted(s, maxFree) ==
    LET clean == {b \in Blocks : UsedIn(s, b) = 0 /\ FreeIn(s, b) <= maxFree}
    IN  IF clean = {} THEN Fail(s, "NO_DELETED_BLOCKS") ELSE EraseBlock(s, Min(clean))

(* spiffs_gc_quick: erases the first block that has no object and at most    *)
(* maxFree free pages.                                                       *)
GcQuick(s, maxFree) ==
    LET clean == {b \in Blocks : UsedIn(s, b) = 0 /\ FreeIn(s, b) <= maxFree}
    IN  IF clean = {} THEN Fail(s, "NO_DELETED_BLOCKS")
        ELSE LET b == Min(clean)
             IN  EraseBlock([s EXCEPT !.pDel = @ - DeletedIn(s, b)], b)

(* spiffs_obj_lu_find_free: the last free block but one is kept for the      *)
(* garbage collector.                                                        *)
IsShort(s) == ~s.cleaning /\ s.freeBlocks < 2
Swept(s) == IF IsShort(s) THEN Forgive(GcQuick(s, 0), "NO_DELETED_BLOCKS") ELSE s

TakeFree(found) ==
    IF ~Ok(found) THEN [found EXCEPT !.starved = TRUE]
    ELSE [found EXCEPT
            !.freeAt = LuIndex(found.pix) + 1,
            !.freeBlocks = IF EntryOf(found.pix) = 0 THEN @ - 1 ELSE @]

FindFree(s) ==
    Then(Swept(s), LAMBDA r :
        IF IsShort(r) THEN Fail([r EXCEPT !.starved = TRUE], "FULL")
        ELSE TakeFree(FindEntry(r, r.freeAt, {p \in Pages : r.dev.lu[p] = Free})))

-----------------------------------------------------------------------------
(* Pages.  Allocation occupies the lookup entry first, then programs header, *)
(* data and final flag; a move programs the copy first, then its lookup      *)
(* entry, then the final flag, and deletes the source last.                  *)

Occupied(s, pix, id) == [WriteLu(s, pix, id) EXCEPT !.pAlloc = @ + 1]
Filled(s, pix, body) ==
    IF body = ErasedPage.body THEN s
    ELSE WritePage(s, pix, [ErasedPage EXCEPT !.body = body])
Finalized(s, pix, flags) ==
    IF "FINAL" \in flags THEN s ELSE WriteFlags(s, pix, flags \cup {"USED", "FINAL"})

AllocateOpen(s, id, span, flags, body) ==
    Then(FindFree(s), LAMBDA r :
        Filled(WritePage(Occupied(r, r.pix, id), r.pix, Header(id, span, flags \cup {"USED"})),
               r.pix, body))
AllocateData(s, id, span, flags, body) ==
    Then(AllocateOpen(s, id, span, flags, body), LAMBDA r : Finalized(r, r.pix, flags))

PageDelete(s, pix) ==
    LET dropped == WriteLu(s, pix, Deleted)
    IN  WriteFlags([dropped EXCEPT !.pDel = @ + 1, !.pAlloc = @ - 1],
                   pix, {"DELET", "USED"})

(* With the page in memory: the copy is programmed unfinished.               *)
PageMoveData(s, page, id, src) ==
    LET open == [page EXCEPT !.fl = (@ \ {"FINAL"}) \cup {"USED"}]
        copied(r) == Occupied(WritePage(r, r.pix, open), r.pix, id)
        final(r) == IF "FINAL" \in page.fl THEN WriteFlags(r, r.pix, open.fl \cup {"FINAL"})
                    ELSE r
    IN  Then(FindFree(s), LAMBDA r : PageDelete(final(copied(r)), src))

(* Without: the source is copied chunk by chunk, the header and its flags     *)
(* with the first one (spiffs_phys_cpy).                                     *)
Copied(s, pix, page) ==
    Filled(WritePage(s, pix, [page EXCEPT !.body = ErasedPage.body]), pix, page.body)

(* Mutant of PageMoveCopy: the source is deleted before it is copied.        *)
PageMoveDeleteFirst(s, id, src) ==
    Then(FindFree(s), LAMBDA r :
        Occupied(Copied(PageDelete(r, src), r.pix, r.dev.pg[src]), r.pix, id))

PageMoveCopy(s, id, src) ==
    Then(FindFree(s), LAMBDA r :
        PageDelete(Occupied(Copied(r, r.pix, r.dev.pg[src]), r.pix, id), src))

-----------------------------------------------------------------------------
(* spiffs_obj_lu_scan: what a mount computes from the flash.                 *)

ScannedEraseCount(dev) ==
    LET counts == {dev.ec[b] : b \in Blocks} \ {Undef}
        lo == Min(counts)
        hi == Max(counts)
    IN  IF counts = {} THEN 1   \* 0 - 0xffff does not exceed half the range in 16 bits' int
        ELSE IF hi - lo > Free \div 2 THEN lo + 1 ELSE hi + 1

LuScan(s) ==
    [s EXCEPT
       !.maxEc = ScannedEraseCount(s.dev),
       !.freeBlocks = Cardinality({b \in Blocks : s.dev.lu[Pix(b, 0)] = Free}),
       !.pAlloc = Cardinality({p \in Pages : IsObject(s.dev.lu[p])}),
       !.pDel = Cardinality({p \in Pages : s.dev.lu[p] = Deleted})]
=============================================================================
