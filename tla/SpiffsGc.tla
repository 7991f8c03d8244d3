------------------------------ MODULE SpiffsGc ------------------------------
(* The garbage collector of the file system (spiffs_gc.c), and what it needs *)
(* of the objects: the event that tells the file handles that an index page  *)
(* has moved, and the rewriting of an index header.                          *)
EXTENDS SpiffsFlash

CONSTANTS GcMaxRuns      \* SPIFFS_GC_MAX_RUNS

WeightDeleted == 5       \* SPIFFS_GC_HEUR_W_DELET
WeightUsed == -1         \* SPIFFS_GC_HEUR_W_USED
WeightEraseAge == 50     \* SPIFFS_GC_HEUR_W_ERASE_AGE

(* spiffs_cb_object_event: index page `span` of object id is now at newPix.  *)
(* A new size of 0 means "unchanged".  A handle whose score is 0 is taken    *)
(* for one that was never used, and is not told of a header that moves.      *)
ToldOfHeader(fd, newPix, newSize) ==
    LET length == IF newSize = Undef THEN 0 ELSE newSize
        moved == [fd EXCEPT !.hdr = newPix]
    IN  IF newSize = 0 THEN moved
        ELSE [moved EXCEPT !.size = newSize,
                           !.fdoff = IF @ > length THEN length ELSE @]

(* Mutant of ToldOfPage: a cursor at a page that moves stays where it is.    *)
ToldOfHeaderOnly(fd, ev, id, span, newPix) ==
    IF span # 0 THEN fd
    ELSE IF ev.kind # "DEL" THEN ToldOfHeader(fd, newPix, ev.size)
    ELSE [fd EXCEPT !.open = FALSE, !.id = Deleted]

ToldOfPage(fd, ev, id, span, newPix) ==
    LET header == IF span # 0 THEN fd
                  ELSE IF ev.kind # "DEL" THEN ToldOfHeader(fd, newPix, ev.size)
                  ELSE [fd EXCEPT !.open = FALSE, !.id = Deleted]
    IN  IF header.cspan # span THEN header
        ELSE [header EXCEPT !.cpix = IF ev.kind = "DEL" THEN 0 ELSE newPix]

ObjectEvent(s, kind, id, span, newPix, newSize) ==
    LET ev == [kind |-> kind, size |-> newSize]
        concerned(fd) == /\ NoIx(fd.id) = NoIx(id)
                         /\ ~(span = 0 /\ kind # "DEL" /\ fd.score = 0)
    IN  [s EXCEPT !.fds = [f \in Fds |->
            IF concerned(s.fds[f]) THEN ToldOfPage(s.fds[f], ev, id, span, newPix)
            ELSE s.fds[f]]]

(* spiffs_object_update_index_hdr: page is the header in memory, given by    *)
(* the caller or read from hdrPix; name "" and size 0 change nothing.  fd 0  *)
(* stands for the null handle of the garbage collector.                      *)
HeaderAt(s, fd, pix) == IF fd = 0 THEN s ELSE [s EXCEPT !.fds[fd].hdr = pix]

StoreIndexHdr(s, fd, id, hdrPix, page, kind) ==
    Then(PageMoveData(s, page, OrIx(id), hdrPix), LAMBDA r :
        HeaderAt(ObjectEvent([r EXCEPT !.work = page], kind, OrIx(id), 0, r.pix, page.size),
                 fd, r.pix))

UpdateIndexHdr(s, fd, id, hdrPix, page, given, name, size) ==
    LET changed == [page EXCEPT !.name = IF name = "" THEN @ ELSE name,
                                !.size = IF size = 0 THEN @ ELSE size]
    IN  Then(Fail(s, ObjIxError(page, OrIx(id), 0)), LAMBDA r :
            StoreIndexHdr(r, fd, id, hdrPix, changed, IF given THEN "UPD" ELSE "UPD_HDR"))

-----------------------------------------------------------------------------
(* spiffs_gc_clean: moves every page of a block to other blocks.  Data pages *)
(* come first, one index page's worth at a time: the index page is loaded,   *)
(* every page of the block it indexes is moved, and only then is the changed *)
(* index page stored.  The index pages that are left are moved last.         *)

(* One data page of the group (the state MOVE_OBJ_DATA); g holds the state   *)
(* and the index page in memory.                                             *)
Referring(g, r, entry, dead) ==
    [s |-> r, index |-> [g.index EXCEPT !.body[entry] = IF dead THEN Free ELSE r.pix]]

MoveGrouped(g, pix, id, ixspan) ==
    LET page == g.s.dev.pg[pix]
        dead == "DELET" \in page.fl
    IN  IF ~Ok(g.s) \/ g.s.dev.lu[pix] # id \/ IxSpan(page.span) # ixspan THEN g
        ELSE Referring(g, IF dead THEN PageDelete(g.s, pix) ELSE PageMoveCopy(g.s, id, pix),
                       IxEntry(page.span), dead)

StoreGroup(g, id, ixspan, ixPix) ==
    LET s == [g.s EXCEPT !.work = g.index]
    IN  IF ~Ok(s) THEN s
        ELSE IF ixspan = 0 THEN UpdateIndexHdr(s, 0, id, ixPix, g.index, TRUE, "", 0)
        ELSE Then(PageMoveData(s, g.index, OrIx(id), ixPix),
                  LAMBDA r : ObjectEvent(r, "UPD", id, ixspan, r.pix, 0))

BlockPages(block) == [e \in 1..MaxEntries |-> Pix(block, e - 1)]

(* A data page was found (FIND_OBJ_DATA): its group is moved; a page whose   *)
(* index page does not exist is referenced from nowhere and deleted.         *)
CleanGroup(found, block, pix, id, ixspan) ==
    IF found.err = "NOT_FOUND" THEN PageDelete(Fail(found, "OK"), pix)
    ELSE Then(ReadIndex(found, found.pix, OrIx(id), ixspan), LAMBDA r :
             StoreGroup(FoldLeft(LAMBDA g, p : MoveGrouped(g, p, id, ixspan),
                                 [s |-> r, index |-> r.dev.pg[r.pix]], BlockPages(block)),
                        id, ixspan, r.pix))

CleanData(s, block, pix) ==
    LET id == s.dev.lu[pix]
        ixspan == IxSpan(s.dev.pg[pix].span)
    IN  IF ~Ok(s) \/ ~IsObject(id) \/ IsIx(id) THEN s
        ELSE CleanGroup(FindIdAndSpan(s, OrIx(id), ixspan, 0), block, pix, id, ixspan)

(* MOVE_OBJ_IX *)
CleanIndex(s, pix) ==
    LET id == s.dev.lu[pix]
        page == s.dev.pg[pix]
    IN  IF ~Ok(s) \/ ~IsObject(id) \/ ~IsIx(id) THEN s
        ELSE IF "DELET" \in page.fl
        THEN ObjectEvent(PageDelete(s, pix), "DEL", id, page.span, pix, 0)
        ELSE Then(PageMoveCopy(s, id, pix),
                  LAMBDA r : ObjectEvent(r, "MOV", id, page.span, r.pix, 0))

GcClean(s, block) ==
    LET aside == IF BlockOf(LuPix(s.freeAt)) = block
                 THEN [s EXCEPT !.freeAt = ((block + 1) % BlockCount) * MaxEntries]
                 ELSE s
        datamoved == FoldLeft(LAMBDA r, p : CleanData(r, block, p),
                              aside, BlockPages(block))
    IN  FoldLeft(CleanIndex, datamoved, BlockPages(block))

-----------------------------------------------------------------------------
(* Which block, and when.                                                    *)

(* spiffs_gc_find_candidate: deleted pages count for a block, used pages and *)
(* a recent erasure against it.  The counts stop at the first free entry,    *)
(* and a block with nothing but free pages is a candidate like any other.    *)
EraseAge(s, block) ==
    LET ec == s.dev.ec[block]
    IN  IF s.maxEc > ec THEN s.maxEc - ec ELSE Free - (ec - s.maxEc)

Score(s, block, crammed) ==
    LET before(p) == \A q \in PagesOf(block) : q <= p => s.dev.lu[q] # Free
        counted == {p \in PagesOf(block) : before(p)}
        gone == {p \in counted : s.dev.lu[p] = Deleted}
    IN  Cardinality(gone) * WeightDeleted
        + Cardinality(counted \ gone) * WeightUsed
        + (IF crammed THEN 0 ELSE EraseAge(s, block) * WeightEraseAge)

FindCandidate(s, crammed) ==
    LET score == [b \in Blocks |-> Score(s, b, crammed)]
    IN  CHOOSE b \in Blocks : \A c \in Blocks :
            score[c] < score[b] \/ (score[c] = score[b] /\ b <= c)

(* spiffs_gc_erase_page_stats and spiffs_gc_erase_block *)
GcErase(s, block) ==
    EraseBlock([s EXCEPT !.pAlloc = @ - UsedIn(s, block),
                         !.pDel = @ - DeletedIn(s, block)], block)

FreePages(s) == MaxEntries * (BlockCount - 2) - s.pAlloc - s.pDel

GcRunOn(s, block) ==
    Then([GcClean([s EXCEPT !.cleaning = TRUE, !.work = ErasedPage], block)
             EXCEPT !.cleaning = FALSE], LAMBDA r : GcErase(r, block))

(* At most GcMaxRuns of them, until there is room or nothing is gained.      *)
GcRunOnce(c, length) ==
    LET s == c.s
        crammed == FreePages(s) <= 0
        done(r) == \/ ~Ok(r)
                   \/ crammed /\ FreePages(s) = FreePages(r)
                   \/ r.freeBlocks > 2 /\ length <= FreePages(r) * DataPageSize
        next(r) == [s |-> r, done |-> done(r)]
    IN  IF c.done THEN c ELSE next(GcRunOn(s, FindCandidate(s, crammed)))

GcRuns(s, length) ==
    FoldLeft(LAMBDA c, n : GcRunOnce(c, length), [s |-> s, done |-> FALSE],
             [n \in 1..GcMaxRuns |-> n]).s

(* spiffs_gc_check: room for length cells, with garbage collection if needed *)
GcCheck(s, length) ==
    LET needed == (length + DataPageSize - 1) \div DataPageSize
    IN  IF s.freeBlocks > 3 /\ length < FreePages(s) * DataPageSize THEN Fail(s, "OK")
        ELSE IF needed > FreePages(s) + s.pDel THEN Fail(s, "FULL")
        ELSE Then(GcRuns(s, length), LAMBDA r :
                 IF length > FreePages(r) * DataPageSize THEN Fail(r, "FULL") ELSE r)
=============================================================================
