----------------------------- MODULE SpiffsApi -----------------------------
(* The calls of the file system (spiffs_hydrogen.c) and its table of file    *)
(* handles (end of spiffs_nucleus.c), as operators from a state to the next. *)
(* A handle that is closed keeps its object, its header page and a score, so *)
(* that the next opening of the same name starts its search there.           *)
EXTENDS SpiffsCheck

HitScore == 4                    \* SPIFFS_TEMPORAL_CACHE_HIT_SCORE

ClosedHandle ==
    [open |-> FALSE, id |-> 0, size |-> 0, hdr |-> 0, cpix |-> 0, cspan |-> 0,
     fdoff |-> 0, flags |-> {}, name |-> "", score |-> 0]

(* SPIFFS_mount clears the structure and the handles and scans the lookup.   *)
Mount(dev) ==
    LuScan([dev |-> dev, log |-> <<>>, garbled |-> FALSE, starved |-> FALSE,
            astray |-> FALSE, work |-> ErasedPage,
            err |-> "OK", pix |-> 0, freeBlocks |-> 0, pAlloc |-> 0, pDel |-> 0,
            freeAt |-> 0, findAt |-> 0, maxEc |-> 0, cleaning |-> FALSE,
            fds |-> [f \in Fds |-> ClosedHandle]])

(* SPIFFS_format erases every block with an erase count of 0.                *)
BlankDev == [lu |-> [p \in Pages |-> Free], pg |-> [p \in Pages |-> ErasedPage],
             ec |-> [b \in Blocks |-> Undef]]
Format(s) ==
    FoldLeft(LAMBDA r, b : EraseBlock([r EXCEPT !.maxEc = 0], b - 1), s,
             [b \in 1..BlockCount |-> b])

-----------------------------------------------------------------------------
(* The handles: spiffs_fd_find_new, spiffs_fd_return.  With a name, closed   *)
(* handles age, and one that had the name is taken; otherwise the one of the *)
(* lowest score.  A search by name begins at the header that the handle last *)
(* had.  For a handle whose open failed that is page 0, and the code's cursor *)
(* the word before the first lookup entry, which is no file: the entries come *)
(* in the order in which they come from entry 0.                             *)
IsOpen(s, fd) == s.fds[fd].open
FdReturn(s, fd) == [s EXCEPT !.fds[fd].open = FALSE]

FdFindNew(s, name) ==
    LET closed == {f \in Fds : ~IsOpen(s, f)}
        score(f) == LET n == s.fds[f].score
                    IN  IF name # "" /\ f \in closed /\ n > 1 THEN n - 1 ELSE n
        matches == {f \in closed : name # "" /\ s.fds[f].name = name}
        lowest == {f \in closed : \A g \in closed : score(f) <= score(g)}
        fd == Min(IF matches # {} THEN matches ELSE lowest)
        aged == [f \in Fds |-> [s.fds[f] EXCEPT !.score = score(f)]]
        hit == name # "" /\ aged[fd].name = name /\ aged[fd].score > 0
        taken == IF name = "" THEN aged[fd]
                 ELSE [aged[fd] EXCEPT !.score = IF hit THEN @ + HitScore ELSE HitScore,
                                       !.name = name]
        header == aged[fd].hdr
    IN  IF closed = {} THEN Fail(s, "OUT_OF_FILE_DESCS")
        ELSE [s EXCEPT !.err = "OK", !.pix = fd,
                       !.fds = [aged EXCEPT ![fd] = [taken EXCEPT !.open = TRUE]],
                       !.findAt = IF ~hit THEN @ ELSE IF header = 0 THEN 0
                                  ELSE LuIndex(header)]

(* What a call leaves when it fails after taking handle fd.                  *)
Settle(s, fd) == IF Ok(s) THEN s ELSE FdReturn(s, fd)

-----------------------------------------------------------------------------
Creat(s, name) ==
    Then(FindFreeObjId(s, name), LAMBDA r : ObjectCreate(r, r.pix, name))

(* The common end of the three ways to open: truncation, and offset 0.       *)
Opened(opened, fd, flags) ==
    LET emptied(r) == IF "TRUNC" \in flags THEN ObjectTruncate(r, fd, FALSE) ELSE r
    IN  Then(Settle(Then(opened, emptied), fd),
             LAMBDA r : [r EXCEPT !.fds[fd].fdoff = 0, !.pix = fd])

(* The file that is opened: the one that was found, or a new one.            *)
OpenFound(found, fd, name, flags) ==
    LET creates == "CREAT" \in flags /\ found.err = "NOT_FOUND"
        mode == IF creates THEN flags \ {"TRUNC"} ELSE flags
        file == IF creates
                THEN Then(FindFreeObjId(found, ""), LAMBDA r : ObjectCreate(r, r.pix, name))
                ELSE IF Ok(found) /\ {"CREAT", "EXCL"} \subseteq flags
                THEN Fail(found, "FILE_EXISTS")
                ELSE found
    IN  Opened(Then(file, LAMBDA r : OpenByPage(r, r.pix, fd, mode)), fd, mode)

Open(s, name, flags) ==
    Then(FdFindNew(s, name), LAMBDA r :
        OpenFound(FindHeaderByName(r, name), r.pix, name, flags))

(* SPIFFS_open_by_dirent: the page is the one the directory entry was read   *)
(* from.                                                                     *)
OpenByDirent(s, pix, flags) ==
    Then(FdFindNew(s, ""), LAMBDA r : Opened(OpenByPage(r, pix, r.pix, flags), r.pix, flags))

(* SPIFFS_open_by_page, which does not trust the caller's page.              *)
OpenByPageIx(s, pix, flags) ==
    LET noFile == {"IS_FREE", "DELETED", "NOT_FINALIZED", "NOT_INDEX", "INDEX_SPAN_MISMATCH"}
        named(r) == IF r.err \in noFile THEN Fail(r, "NOT_A_FILE") ELSE r
        tried(r) == IF IsLookupPage(pix) THEN Fail(r, "NOT_A_FILE")
                    ELSE named(OpenByPage(r, pix, r.pix, flags))
    IN  Then(FdFindNew(s, ""), LAMBDA r : Opened(tried(r), r.pix, flags))

-----------------------------------------------------------------------------
(* SPIFFS_read: at most what the file has left; at its end nothing.          *)
Read(s, fd, length) ==
    LET h == s.fds[fd]
        n == Min({length, h.size - h.fdoff})
        advanced(got) == IF Ok(got.s) THEN [got EXCEPT !.s.fds[fd].fdoff = @ + n]
                         ELSE [got EXCEPT !.data = <<>>]
    IN  IF "RDONLY" \notin h.flags THEN [s |-> Fail(s, "NOT_READABLE"), data |-> <<>>]
        ELSE IF h.size = Undef \/ n <= 0 THEN [s |-> Fail(s, "OK"), data |-> <<>>]
        ELSE advanced(ObjectRead(s, fd, h.fdoff, n))

(* Mutant of HydroWrite: the last cell of the file is appended over.         *)
HydroWriteShort(s, fd, offset, data) ==
    LET h == s.fds[fd]
        inside == IF h.size # Undef /\ offset < h.size
                  THEN Min({h.size - offset - 1, Len(data)}) ELSE 0
        modified == IF inside > 0 THEN ObjectModify(s, fd, offset, SubSeq(data, 1, inside))
                    ELSE Fail(s, "OK")
    IN  IF inside = Len(data) THEN modified
        ELSE Then(modified, LAMBDA r : ObjectAppend(r, fd, offset + inside,
                                           SubSeq(data, inside + 1, Len(data))))

(* spiffs_hydro_write: what lies inside the file is modified, the rest is    *)
(* appended.  A write inside the file modifies even when it has no data.     *)
HydroWrite(s, fd, offset, data) ==
    LET h == s.fds[fd]
        within == h.size # Undef /\ offset < h.size
        inside == IF within THEN Min({h.size - offset, Len(data)}) ELSE 0
        modified == IF within THEN ObjectModify(s, fd, offset, SubSeq(data, 1, inside))
                    ELSE Fail(s, "OK")
        rest == SubSeq(data, inside + 1, Len(data))
    IN  Then(modified, LAMBDA r :
            IF rest = <<>> THEN r ELSE ObjectAppend(r, fd, offset + inside, rest))

WriteAt(h) == IF "APPEND" \in h.flags THEN SizeOf(h) ELSE h.fdoff

Put(s, fd, data) ==
    LET at == WriteAt(s.fds[fd])
        placed == [s EXCEPT !.fds[fd].fdoff = at]
    IN  IF "WRONLY" \notin s.fds[fd].flags THEN Fail(s, "NOT_WRITABLE")
        ELSE Then(HydroWrite(placed, fd, at, data),
                  LAMBDA r : [r EXCEPT !.fds[fd].fdoff = @ + Len(data)])

(* SPIFFS_lseek to an absolute offset; past the end it goes to the end and   *)
(* fails.                                                                    *)
Seek(s, fd, offset) ==
    LET h == s.fds[fd]
        span == IxSpan((Max({offset, 1}) - 1) \div DataPageSize)
        found == FindIdAndSpan(s, OrIx(h.id), span, 0)
        sought == IF h.cspan = span THEN Fail(s, "OK")
                  ELSE Then(found, LAMBDA r : [r EXCEPT !.fds[fd].cspan = span,
                                                        !.fds[fd].cpix = r.pix])
    IN  IF offset > SizeOf(h)
        THEN Fail([s EXCEPT !.fds[fd].fdoff = SizeOf(h)], "END_OF_OBJECT")
        ELSE Then(sought, LAMBDA r : [r EXCEPT !.fds[fd].fdoff = offset])

RemoveFile(s, name) ==
    LET got == FdFindNew(s, "")
        fd == got.pix
        opened == Then(FindHeaderByName(got, name), LAMBDA r : OpenByPage(r, r.pix, fd, {}))
    IN  IF ~Ok(got) THEN got
        ELSE Settle(Then(opened, LAMBDA r : ObjectTruncate(r, fd, TRUE)), fd)

FRemove(s, fd) ==
    IF "WRONLY" \notin s.fds[fd].flags THEN Fail(s, "NOT_WRITABLE")
    ELSE ObjectTruncate(s, fd, TRUE)

(* SPIFFS_rename rewrites the header, without asking for room first.         *)
Rehash(s, old, new) ==
    [s EXCEPT !.fds = [f \in Fds |->
        IF s.fds[f].score > 0 /\ s.fds[f].name = old
        THEN [s.fds[f] EXCEPT !.name = new] ELSE s.fds[f]]]

Rename(s, old, new) ==
    LET this == FindHeaderByName(s, old)
        other == FindHeaderByName(this, new)
        got == FdFindNew(Fail(other, "OK"), "")
        fd == got.pix
        opened == OpenByPage(got, this.pix, fd, {})
        moved == Then(opened, LAMBDA r :
            UpdateIndexHdr(r, fd, r.fds[fd].id, r.fds[fd].hdr,
                           r.dev.pg[r.fds[fd].hdr], FALSE, new, 0))
        hashed == Then(moved, LAMBDA r : Rehash(r, old, new))
    IN  IF ~Ok(this) THEN this
        ELSE IF Ok(other) THEN Fail(other, "CONFLICTING_NAME")
        ELSE IF ~Ok(got) THEN got
        ELSE FdReturn(hashed, fd)

(* SPIFFS_unmount returns every handle; the flash is not touched.            *)
Unmount(s) == [s EXCEPT !.fds = [f \in Fds |-> [s.fds[f] EXCEPT !.open = FALSE]]]

(* SPIFFS_readdir: the first file at or after the position, without wrapping *)
Listed(s, at) == {p \in Pages : LuIndex(p) >= at /\ IsFileHeader(s, p)}
NextListed(s, at) == Min(Listed(s, at))

(* SPIFFS_stat and SPIFFS_fstat: name and size in a header page.             *)
StatPix(s, pix) ==
    [name |-> s.dev.pg[pix].name, id |-> NoIx(s.dev.lu[pix]),
     size |-> IF s.dev.pg[pix].size = Undef THEN 0 ELSE s.dev.pg[pix].size]

(* SPIFFS_info, in pages: what the file system says it has and uses.         *)
InfoTotal == (BlockCount - 2) * MaxEntries + 1
InfoUsed(s) == s.pAlloc
=============================================================================
