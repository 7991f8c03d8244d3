----------------------------- MODULE SpiffsObj -----------------------------
(* Objects (spiffs_nucleus.c): creating, opening, reading, appending,        *)
(* modifying and truncating them.  An object is a header page, which is the  *)
(* index of its first data pages, further index pages, and data pages.       *)
(*                                                                           *)
(* Reading and writing walk through the object one data page at a time; the  *)
(* walk w holds the file system s, the index page in the work buffer (page,  *)
(* of span `span`, read from pix), the number of cells written so far or the *)
(* cells read, and how it halted: not yet, by a break, or by a return.       *)
EXTENDS SpiffsGc

(* The pieces of a write or read of data at offset, one for each data page.  *)
Pieces(offset, data) ==
    LET end == offset + Len(data)
        first == offset \div DataPageSize
        from(span) == Max({offset, span * DataPageSize})
        to(span) == Min({end, (span + 1) * DataPageSize})
    IN  [i \in 1..IF data = <<>> THEN 0 ELSE (end - 1) \div DataPageSize - first + 1 |->
            LET span == first + i - 1
            IN  [span  |-> span,
                 at    |-> from(span) % DataPageSize,
                 cells |-> SubSeq(data, from(span) - offset + 1, to(span) - offset)]]

SizeOf(h) == IF h.size = Undef THEN 0 ELSE h.size

CellsAt(at, cells) ==
    [i \in Body |-> IF i \in at..at + Len(cells) - 1 THEN cells[i - at + 1] ELSE Undef]

Walk(s, fd) ==
    [s |-> s, span |-> -1, pix |-> s.fds[fd].hdr, page |-> s.work,
     written |-> 0, read |-> <<>>, halt |-> "no"]
Halted(w, r, how) == [w EXCEPT !.s = r, !.halt = IF Ok(r) THEN @ ELSE how]
Running(w) == w.halt = "no"
Go(w, Op(_)) == IF Running(w) THEN Op(w) ELSE w
Cursor(w, fd) == [w EXCEPT !.s.fds[fd].cpix = w.pix, !.s.fds[fd].cspan = w.span]
Loaded(w, r, pix, span) ==
    [Halted(w, r, "return") EXCEPT !.pix = pix, !.span = span, !.page = r.dev.pg[pix]]

(* The header of the object is loaded from where the walk knows it; another  *)
(* index page through the handle's cursor, or by a search.                   *)
LoadHeader(w, id) == Loaded(w, ReadIndex(w.s, w.pix, id, 0), w.pix, 0)

Located(w, fd, span) ==
    LET h == w.s.fds[fd]
    IN  IF h.cspan = span THEN [w.s EXCEPT !.err = "OK", !.pix = h.cpix]
        ELSE FindIdAndSpan(w.s, OrIx(h.id), span, 0)

LoadFound(w, found, id, span) ==
    IF Ok(found) THEN Loaded(w, ReadIndex(found, found.pix, id, span), found.pix, span)
    ELSE Halted(w, found, "return")

LoadIndex(w, fd, span) == LoadFound(w, Located(w, fd, span), w.s.fds[fd].id, span)

-----------------------------------------------------------------------------
(* Mutant of UsedIds: only data pages occupy an id.                          *)
UsedIdsOfData(s) ==
    {s.dev.lu[p] : p \in {q \in Pages : IsObject(s.dev.lu[q]) /\ ~IsIx(s.dev.lu[q])}}

(* spiffs_obj_lu_find_free_obj_id: the lowest id of no page; with a name, it *)
(* fails if a file has that name.  Modelled is the search with one bit for   *)
(* each id, as it is made when a page has that many bits; a flash with half  *)
(* its lookup entries above that, as the board's, is searched with counters  *)
(* of ranges of ids.  The bits are left in the work buffer.                  *)
UsedIds(s) == {NoIx(s.dev.lu[p]) : p \in {q \in Pages : IsObject(s.dev.lu[q])}}
BitsInWork == [ErasedPage EXCEPT !.fl = Flags]

FindFreeObjId(s, name) ==
    IF \E p \in Pages : name # "" /\ IsFileHeader(s, p) /\ s.dev.pg[p].name = name
    THEN Fail(s, "CONFLICTING_NAME")
    ELSE [s EXCEPT !.err = "OK", !.work = BitsInWork,
                   !.pix = Min(1..IxFlag - 1 \ UsedIds(s))]

(* spiffs_object_create: a header of undefined size, programmed at once.     *)
ObjectCreate(s, id, name) ==
    LET header == [Header(OrIx(id), 0, {"FINAL", "INDEX", "USED"}) EXCEPT !.name = name]
    IN  Then(Then(GcCheck(s, DataPageSize), FindFree), LAMBDA r :
            ObjectEvent(WritePage(Occupied(r, r.pix, OrIx(id)), r.pix, header),
                        "NEW", OrIx(id), 0, r.pix, Undef))

(* spiffs_object_open_by_page: the handle is filled before the page is       *)
(* looked at.                                                                *)
OpenByPage(s, pix, fd, flags) ==
    LET id == s.dev.lu[pix]
        filled == [s EXCEPT !.fds[fd] =
            [@ EXCEPT !.hdr = pix, !.size = s.dev.pg[pix].size, !.cpix = pix,
                      !.cspan = 0, !.id = id, !.flags = flags]]
    IN  ReadIndex(filled, pix, id, 0)

-----------------------------------------------------------------------------
(* spiffs_object_append: data pages are programmed final and the index page  *)
(* in memory follows.  It is stored when the walk comes to the next index    *)
(* page and at the end: a page that already had its entries blank in place,  *)
(* the header of a file that was not empty as a new copy.                    *)
Headed(w, offset) ==
    [w EXCEPT !.page.size = IF w.span = 0 THEN offset + w.written ELSE @]

StoreHeader(w, fd, offset, last) ==
    LET h == w.s.fds[fd]
        size == offset + w.written
    IN  IF offset > 0 THEN UpdateIndexHdr(w.s, fd, h.id, h.hdr, w.page, TRUE, "", size)
        ELSE Then(PageIndexCheck(w.s, fd, w.pix, 0), LAMBDA r :
                 IF last THEN ObjectEvent(WritePage(r, w.pix, w.page), "UPD_HDR", h.id, 0,
                                          w.pix, size)
                 ELSE WritePage(r, w.pix, w.page))

Resized(s, fd, size) ==
    LET h == s.fds[fd]
    IN  UpdateIndexHdr(s, fd, h.id, h.hdr, s.dev.pg[h.hdr], FALSE, "", size)

StoreAppended(w, fd, offset, last) ==
    IF w.span = 0 THEN StoreHeader(w, fd, offset, last)
    ELSE Then(PageIndexCheck(w.s, fd, w.pix, w.span), LAMBDA r :
             Resized(ObjectEvent(WritePage(r, w.pix, w.page), "UPD", w.s.fds[fd].id,
                                 w.span, w.pix, 0),
                     fd, offset + w.written))

NewIndexPage(w, fd, span) ==
    LET id == OrIx(w.s.fds[fd].id)
        header == Header(id, span, {"FINAL", "INDEX", "USED"})
        allocated == AllocateData(w.s, id, span, header.fl, ErasedPage.body)
    IN  Go(Halted(w, allocated, "return"), LAMBDA v :
            [v EXCEPT !.s = ObjectEvent(v.s, "NEW", id, span, v.s.pix, 0),
                      !.pix = v.s.pix, !.span = span, !.page = header])

(* The walk leaves an index page, which is stored.                           *)
AppendLeave(w, fd, offset) ==
    LET h == Headed(w, offset)
    IN  IF w.written = 0 THEN w
        ELSE Go(Halted(h, StoreAppended(h, fd, offset, FALSE), "return"),
                LAMBDA v : [v EXCEPT !.s.fds[fd].size = offset + w.written])

(* It enters index page `span`, which exists unless the walk wrote up to it. *)
AppendEnter(w, fd, offset, span) ==
    LET beyond(v) == \/ v.written > 0
                     \/ span > IxSpan((v.s.fds[fd].size - 1) \div DataPageSize)
        entered(v) == IF beyond(v) THEN NewIndexPage(v, fd, span) ELSE LoadIndex(v, fd, span)
    IN  IF span = w.span THEN w
        ELSE Go(AppendLeave(w, fd, offset), LAMBDA v :
                IF span = 0 THEN LoadHeader(v, v.s.fds[fd].id)
                ELSE Go(entered(v), LAMBDA x :
                         [Cursor(x, fd) EXCEPT !.s.fds[fd].size = offset + w.written]))

(* The piece goes to a page of its own, or behind what its page holds.       *)
AppendCells(w, fd, piece) ==
    LET page == w.page.body[IxEntry(piece.span)]
        data == [ErasedPage EXCEPT !.body = CellsAt(piece.at, piece.cells)]
    IN  IF piece.at = 0
        THEN Halted(w, AllocateData(w.s, NoIx(w.s.fds[fd].id), piece.span, {"FINAL"},
                                    data.body), "break")
        ELSE Go(Halted(w, PageDataCheck(w.s, fd, page, piece.span), "return"), LAMBDA v :
                [v EXCEPT !.s = [WritePage(v.s, page, data) EXCEPT !.pix = page]])

(* A header in memory gets the size before the piece; storing sets it right. *)
AppendPiece(w, fd, offset, piece) ==
    LET noted(v) == [v EXCEPT !.page.body[IxEntry(piece.span)] = v.s.pix,
                              !.page.size = IF v.span = 0 THEN offset + v.written ELSE @,
                              !.written = @ + Len(piece.cells)]
    IN  Go(w, LAMBDA u :
            Go(AppendEnter(u, fd, offset, IxSpan(piece.span)), LAMBDA v :
                Go(AppendCells(v, fd, piece), noted)))

WithErrorOf(s, err) == IF Ok(s) THEN Fail(s, err) ELSE s

AppendFinish(w, fd, offset) ==
    LET page == Headed(w, offset).page
        sized == [w EXCEPT !.page = page, !.s.work = page,
                           !.s.fds[fd].size = offset + w.written]
    IN  IF w.halt = "return" THEN [w.s EXCEPT !.work = w.page]
        ELSE WithErrorOf(StoreAppended(Cursor(sized, fd), fd, offset, TRUE), w.s.err)

ObjectAppend(s, fd, offset, data) ==
    LET from == Min({offset, s.fds[fd].size})
        walked(r) == FoldLeft(LAMBDA w, piece : AppendPiece(w, fd, from, piece),
                              Walk(r, fd), Pieces(from, data))
    IN  Then(GcCheck(s, Len(data) + DataPageSize),
             LAMBDA r : AppendFinish(walked(r), fd, from))

-----------------------------------------------------------------------------
(* spiffs_object_modify: every data page is written anew and the old one     *)
(* deleted; every index page touched is stored as a new copy.                *)
StoreModified(w, fd) ==
    LET h == w.s.fds[fd]
    IN  IF w.span <= 0 THEN UpdateIndexHdr(w.s, fd, h.id, h.hdr, w.page, TRUE, "", 0)
        ELSE Then(Then(PageIndexCheck(w.s, fd, w.pix, w.span), LAMBDA r :
                      PageMoveData(r, w.page, h.id, w.pix)), LAMBDA r :
                 ObjectEvent(r, "UPD", h.id, w.span, r.pix, 0))

ModifyLeave(w, fd) ==
    IF w.written = 0 THEN w ELSE Halted(w, StoreModified(w, fd), "return")

ModifyEnter(w, fd, span) ==
    LET entered(v) == IF span = 0 THEN LoadHeader(v, v.s.fds[fd].id) ELSE LoadIndex(v, fd, span)
    IN  IF span = w.span THEN w
        ELSE Go(ModifyLeave(w, fd), LAMBDA v :
                Go(entered(v), LAMBDA x : Cursor(x, fd)))

(* A page that is written in part keeps the other cells of the old page.     *)
CopyRest(r, id, span, old, data) ==
    LET kept == [i \in Body |-> IF data[i] = Undef THEN r.dev.pg[old].body[i] ELSE Undef]
        put(q, body) == WritePage(q, q.pix, [ErasedPage EXCEPT !.body = body])
    IN  Then(AllocateOpen(r, id, span, {}, ErasedPage.body), LAMBDA q :
            WriteFlags(put(put(q, kept), data), q.pix, {"USED", "FINAL"}))

ModifyCells(w, fd, piece, old) ==
    LET id == NoIx(w.s.fds[fd].id)
        data == CellsAt(piece.at, piece.cells)
    IN  IF Len(piece.cells) = DataPageSize
        THEN Halted(w, AllocateData(w.s, id, piece.span, {}, data), "break")
        ELSE Go(Halted(w, PageDataCheck(w.s, fd, old, piece.span), "return"), LAMBDA v :
                Halted(v, CopyRest(v.s, id, piece.span, old, data), "break"))

(* The new page takes the place of the old one.                              *)
ModifyPiece(w, fd, piece) ==
    LET entry == IxEntry(piece.span)
        replaced(v) == [v EXCEPT !.page.body[entry] = v.s.pix,
                                 !.s = PageDelete(v.s, v.page.body[entry]),
                                 !.written = @ + Len(piece.cells)]
    IN  Go(w, LAMBDA u :
            Go(ModifyEnter(u, fd, IxSpan(piece.span)), LAMBDA v :
                Go(ModifyCells(v, fd, piece, v.page.body[entry]), replaced)))

ModifyFinish(w, fd) ==
    LET at == [w EXCEPT !.span = Max({@, 0}), !.s.work = w.page]
        moved(r) == IF at.span = 0 \/ ~Ok(r) THEN r ELSE [r EXCEPT !.fds[fd].cpix = r.pix]
    IN  IF w.halt = "return" THEN [w.s EXCEPT !.work = w.page]
        ELSE WithErrorOf(moved(StoreModified(Cursor(at, fd), fd)), w.s.err)

ObjectModify(s, fd, offset, data) ==
    LET walked(r) == FoldLeft(LAMBDA w, piece : ModifyPiece(w, fd, piece),
                              Walk(r, fd), Pieces(offset, data))
    IN  Then(GcCheck(s, Len(data) + DataPageSize), LAMBDA r : ModifyFinish(walked(r), fd))
-----------------------------------------------------------------------------
(* spiffs_object_truncate, to nothing: the API never asks for another size.  *)
(* A file that goes away is marked in its header first; then its pages are   *)
(* deleted from the end, and the header is deleted or emptied last.          *)
DropIndexPage(w, fd, remove, size) ==
    LET h == w.s.fds[fd]
        dropped(r) == ObjectEvent(PageDelete(r, w.pix), "DEL", h.id, w.span, w.pix, 0)
        sized(r) == IF remove THEN dropped(r) ELSE Resized(dropped(r), fd, size)
    IN  Then(Then(PageIndexCheck(w.s, fd, w.pix, w.span), sized),
             LAMBDA r : [r EXCEPT !.fds[fd].size = size])

TruncateLeave(w, fd, remove, size) ==
    IF w.span = -1 THEN w ELSE Halted(w, DropIndexPage(w, fd, remove, size), "return")

TruncateEnter(w, fd, remove, size, span) ==
    LET id == w.s.fds[fd].id
        entered(v) ==
            IF span = 0 THEN LoadHeader([v EXCEPT !.pix = v.s.fds[fd].hdr], id)
            ELSE LoadFound(v, FindIdAndSpan(v.s, OrIx(id), span, 0), id, span)
    IN  IF span = w.span THEN w
        ELSE Go(TruncateLeave(w, fd, remove, size), LAMBDA v :
                Go(entered(v), LAMBDA x : Cursor(x, fd)))

(* One data page; a page that is gone already is passed over.                *)
DropData(w, fd, span, checked, pix) ==
    IF checked.err \notin {"OK", "DELETED", "INDEX_REF_FREE"} THEN Halted(w, checked, "break")
    ELSE [w EXCEPT !.s = [IF Ok(checked) THEN PageDelete(checked, pix) ELSE Fail(checked, "OK")
                              EXCEPT !.fds[fd].size = span * DataPageSize]]

TruncatePiece(w, fd, remove, span) ==
    LET size == w.s.fds[fd].size
        entry == IxEntry(span)
        dropped(v, pix) == DropData([v EXCEPT !.page.body[entry] = Free], fd, span,
                                    PageDataCheck(v.s, fd, pix, span), pix)
    IN  Go(w, LAMBDA u :
            Go(TruncateEnter(u, fd, remove, size, IxSpan(span)), LAMBDA v :
                dropped(v, v.page.body[entry])))

(* What is left is stored; a walk that broke off stores what it has.         *)
StoreTruncated(w, fd, size) ==
    LET h == w.s.fds[fd]
        told(r) == Cursor([w EXCEPT !.pix = r.pix,
                              !.s = ObjectEvent(r, "UPD", h.id, w.span, r.pix, 0)], fd).s
    IN  Then(Then(PageIndexCheck(w.s, fd, w.pix, w.span), LAMBDA r :
                 PageMoveData(r, w.page, h.id, w.pix)),
             LAMBDA r : Resized(told(r), fd, size))

TruncateStore(w, fd, remove, size) ==
    LET id == w.s.fds[fd].id
        emptied == [w.page EXCEPT !.body = ErasedPage.body]
        gone(r) == ObjectEvent(PageDelete(r, w.pix), "DEL", id, 0, w.pix, 0)
    IN  IF w.span > 0 THEN StoreTruncated(w, fd, size)
        ELSE IF size = 0 /\ remove THEN Then(PageIndexCheck(w.s, fd, w.pix, 0), gone)
        ELSE UpdateIndexHdr(w.s, fd, id, w.pix, IF size = 0 THEN emptied ELSE w.page, TRUE, "",
                            IF size = 0 THEN Undef ELSE size)

TruncateFinish(w, fd, remove) ==
    LET size == SizeOf(w.s.fds[fd])
    IN  IF w.halt = "return" THEN [w.s EXCEPT !.work = w.page]
        ELSE Then(TruncateStore([w EXCEPT !.s.work = w.page], fd, remove, size),
                  LAMBDA r : [r EXCEPT !.fds[fd].size = size])

ObjectTruncate(s, fd, remove) ==
    LET size == s.fds[fd].size
        empty == size \in {0, Undef}
        ready == IF remove THEN Fail(s, "OK") ELSE GcCheck(s, 2 * DataPageSize)
        marked(r) == IF remove
                     THEN WriteFlags(r, r.fds[fd].hdr, {"USED", "INDEX", "FINAL", "IXDELE"})
                     ELSE r
        spans == IF empty THEN <<>>
                 ELSE Reverse([i \in 1..(size - 1) \div DataPageSize + 1 |-> i - 1])
        walked(r) == FoldLeft(LAMBDA w, span : TruncatePiece(w, fd, remove, span),
                              Walk(r, fd), spans)
    IN  IF empty /\ ~remove THEN Fail(s, "OK")
        ELSE Then(ready, LAMBDA r : TruncateFinish(walked(marked(r)), fd, remove))

-----------------------------------------------------------------------------
(* spiffs_object_read: the state that follows and the cells that were read.  *)
ReadEnter(w, fd, span) ==
    IF span = w.span THEN w
    ELSE IF span = 0 THEN LoadHeader([w EXCEPT !.pix = w.s.fds[fd].hdr], w.s.fds[fd].id)
    ELSE LoadIndex(w, fd, span)

ReadCells(w, fd, piece, pix) ==
    LET cells(r) == [i \in 1..Len(piece.cells) |-> r.dev.pg[pix].body[piece.at + i - 1]]
    IN  Go(Halted(w, PageDataCheck(w.s, fd, pix, piece.span), "return"), LAMBDA v :
            [v EXCEPT !.read = @ \o cells(v.s)])

ReadPiece(w, fd, piece) ==
    Go(w, LAMBDA u :
        Go(ReadEnter(u, fd, IxSpan(piece.span)), LAMBDA v :
            ReadCells(Cursor(v, fd), fd, piece, v.page.body[IxEntry(piece.span)])))

ObjectRead(s, fd, offset, length) ==
    LET blank == [i \in 1..length |-> Undef]
        result(w) == [s |-> [w.s EXCEPT !.work = w.page], data |-> w.read]
    IN  result(FoldLeft(LAMBDA w, piece : ReadPiece(w, fd, piece),
                        Walk(Fail(s, "OK"), fd), Pieces(offset, blank)))
=============================================================================
