------------------------------- MODULE RmFile -------------------------------
(***************************************************************************)
(* The record file handle of src/record/rm_file_handle.cpp and the record  *)
(* scan of src/record/rm_scan.cpp, called by one thread.                   *)
(*                                                                         *)
(* Each public method is one step.  A page's header (num_records,          *)
(* next_free_page_no), bitmap and slots are functions of the page number;  *)
(* a page number at or above num_pages has the zeroed state new_page gives *)
(* it.  Payloads are small integers, 0 being the zeroed slot.              *)
(*                                                                         *)
(* The buffer pool is abstracted to the pages a method left pinned: the    *)
(* record layer always unpins with is_dirty = true and never calls         *)
(* delete_page, the usage under which MCBufferPool_content.cfg checks      *)
(* ImplementsPageStore and FramesReusable.  So page contents are exactly   *)
(* what the record layer wrote, and fetch_page/new_page of a page that is  *)
(* not pinned fails exactly when every frame holds a pinned page.  A page  *)
(* a method forgets to unpin stays pinned for good, since nothing unpins   *)
(* it later, so only the set of such pages matters, not their counts.      *)
(***************************************************************************)
EXTENDS Integers, FiniteSets

CONSTANTS
    RecsPerPage,   \* file_hdr_.num_records_per_page
    MaxPages,      \* bound: num_pages never exceeds it
    NumFrames,     \* frames of the buffer pool
    Vals,          \* payloads callers insert, nonzero
    MaxUnderflow,  \* bound: num_records is never driven below -MaxUnderflow
    RM_NO_PAGE     \* end of the free-page list (-1)

ASSUME RecsPerPage \in Nat \ {0} /\ 0 \notin Vals

\* Page 0 holds the file header; record pages start at RM_FIRST_RECORD_PAGE.
RM_FIRST_RECORD_PAGE == 1

DataPages == RM_FIRST_RECORD_PAGE..(MaxPages - 1)
Slots == 0..(RecsPerPage - 1)
Rids == DataPages \X Slots

VARIABLES
    numPages,     \* file_hdr_.num_pages
    firstFree,    \* file_hdr_.first_free_page_no
    numRecords,   \* page_hdr->num_records, per page
    nextFree,     \* page_hdr->next_free_page_no, per page
    bitmap,       \* the set bits of the page's bitmap
    content,      \* the payload in each slot
    pinned,       \* pages some method fetched and never unpinned
    crashed,      \* a method dereferenced the page of a null page handle
    scanPc,       \* the executor's loop over an RmScan
    cursor,       \* RmScan::rid_
    yielded,      \* rids the loop has been handed (history)
    mustSee,      \* records present when the scan opened, not deleted since
    lastCall      \* the last insert, delete or update that returned (history)

fileVars == <<numPages, firstFree, numRecords, nextFree, bitmap, content>>
scanVars == <<scanPc, cursor, yielded, mustSee>>
vars == <<fileVars, pinned, crashed, scanVars, lastCall>>

Live(p, s) == p < numPages /\ s \in bitmap[p]
Occupied == {r \in Rids : Live(r[1], r[2])}

TypeOK ==
    /\ numPages \in 1..MaxPages
    /\ firstFree \in {RM_NO_PAGE} \cup DataPages
    /\ numRecords \in [DataPages -> -MaxUnderflow..RecsPerPage]
    /\ nextFree \in [DataPages -> {RM_NO_PAGE} \cup DataPages]
    /\ bitmap \in [DataPages -> SUBSET Slots]
    /\ content \in [DataPages -> [Slots -> {0} \cup Vals]]
    /\ pinned \in SUBSET DataPages
    /\ crashed \in BOOLEAN
    /\ scanPc \in {"idle", "positioned", "atRecord", "ended"}
    /\ cursor \in [page : 1..MaxPages, slot : -1..(RecsPerPage - 1)]
    /\ yielded \in SUBSET (DataPages \X (-1..(RecsPerPage - 1)))
    /\ mustSee \in SUBSET Rids

Init ==
    /\ numPages = 1
    /\ firstFree = RM_NO_PAGE
    /\ numRecords = [p \in DataPages |-> 0]
    /\ nextFree = [p \in DataPages |-> RM_NO_PAGE]
    /\ bitmap = [p \in DataPages |-> {}]
    /\ content = [p \in DataPages |-> [s \in Slots |-> 0]]
    /\ pinned = {}
    /\ crashed = FALSE
    /\ scanPc = "idle"
    /\ cursor = [page |-> RM_FIRST_RECORD_PAGE, slot |-> -1]
    /\ yielded = {}
    /\ mustSee = {}
    /\ lastCall = <<"none">>

-----------------------------------------------------------------------------
(***************************************************************************)
(* The buffer pool as seen from this layer.  fetch_page of p succeeds if p *)
(* is pinned already (a hit) or some frame holds no pinned page (a free    *)
(* frame or a replacer victim); new_page needs such a frame.               *)
(***************************************************************************)
CanFetch(p, pin) == p \in pin \/ Cardinality(pin) < NumFrames
CanNewPage(pin) == Cardinality(pin) < NumFrames

\* fetch_page_handle(page_no) returns a page: page_no in [0, num_pages)
\* and fetch_page succeeded.
Fetchable(p) == 0 <= p /\ p < numPages /\ CanFetch(p, pinned)

(***************************************************************************)
(* get_record(rid): fetch_page_handle, then the slot range check, then the *)
(* copy.  No path unpins the page, so a fetched page stays pinned.         *)
(***************************************************************************)
GetRecord(p) ==
    /\ ~crashed
    /\ Fetchable(p)
    /\ pinned' = pinned \cup {p}
    /\ UNCHANGED <<fileVars, crashed, scanVars, lastCall>>

(***************************************************************************)
(* insert_record(buf).  create_page_handle: a new page when                *)
(* first_free_page_no is RM_NO_PAGE (create_new_page_handle sets its       *)
(* next_free_page_no and num_records, num_pages++, and does NOT put it on  *)
(* the free list), else the head of the free list.  Then the first unset   *)
(* bit, the copy, the bit, num_records++, unlink the page if it is now     *)
(* full, unpin.                                                            *)
(***************************************************************************)
InsertPage == IF firstFree = RM_NO_PAGE THEN numPages ELSE firstFree

InsertPageAvailable ==
    IF firstFree = RM_NO_PAGE THEN CanNewPage(pinned) ELSE Fetchable(firstFree)

FirstUnset(bm) ==
    IF Slots \subseteq bm THEN RecsPerPage
    ELSE CHOOSE s \in Slots \ bm : \A t \in Slots \ bm : s <= t

NumPagesAfterInsert ==
    IF firstFree = RM_NO_PAGE THEN numPages + 1 ELSE numPages

\* Mutant: the PageFull early return is dropped.
SlotFoundUnchecked(s) == TRUE

\* The bitmap scan stopped before slot_no == num_records_per_page.
SlotFound(s) == s < RecsPerPage

InsertRecord(v) ==
    LET p == InsertPage
        s == FirstUnset(bitmap[p])
    IN
    /\ ~crashed
    /\ firstFree = RM_NO_PAGE => numPages < MaxPages
    /\ InsertPageAvailable
    /\ SlotFound(s)
    /\ numPages' = NumPagesAfterInsert
    /\ bitmap' = [bitmap EXCEPT ![p] = @ \cup {s}]
    /\ content' = [content EXCEPT ![p][s] = v]
    /\ numRecords' = [numRecords EXCEPT ![p] = @ + 1]
    /\ firstFree' = IF numRecords'[p] = RecsPerPage THEN nextFree[p]
                    ELSE firstFree
    /\ lastCall' = <<"insert", <<p, s>>>>
    /\ UNCHANGED <<nextFree, pinned, crashed, scanVars>>

\* The bitmap of the chosen page has no unset bit: return Rid{-1, -1}
\* without unpinning the page.
InsertRecordPageFull ==
    /\ ~crashed
    /\ firstFree = RM_NO_PAGE => numPages < MaxPages
    /\ InsertPageAvailable
    /\ ~SlotFound(FirstUnset(bitmap[InsertPage]))
    /\ numPages' = NumPagesAfterInsert
    /\ pinned' = pinned \cup {InsertPage}
    /\ UNCHANGED <<firstFree, numRecords, nextFree, bitmap, content, crashed,
                   scanVars, lastCall>>

\* new_page or fetch_page failed: the handle's page is nullptr and the
\* bitmap scan dereferences it.
InsertRecordNoFrame ==
    /\ ~crashed
    /\ firstFree = RM_NO_PAGE => numPages < MaxPages
    /\ ~InsertPageAvailable
    /\ crashed' = TRUE
    /\ UNCHANGED <<fileVars, pinned, scanVars, lastCall>>

(***************************************************************************)
(* insert_record(rid, buf), delete_record, update_record share the prefix  *)
(* fetch_page_handle; return if the page is null or slot_no >=            *)
(* num_records_per_page.  A null page returns with nothing pinned; a bad   *)
(* slot returns with the page still pinned.                                *)
(***************************************************************************)
RidOpBadSlot(p, s) ==
    /\ ~crashed
    /\ Fetchable(p)
    /\ s >= RecsPerPage
    /\ pinned' = pinned \cup {p}
    /\ UNCHANGED <<fileVars, crashed, scanVars, lastCall>>

\* insert_record(rid, buf): copy into the slot; the bitmap is untouched.
InsertRecordAt(p, s, v) ==
    /\ ~crashed
    /\ Fetchable(p)
    /\ s < RecsPerPage
    /\ content' = [content EXCEPT ![p][s] = v]
    /\ lastCall' = <<"write", <<p, s>>>>
    /\ UNCHANGED <<numPages, firstFree, numRecords, nextFree, bitmap, pinned,
                   crashed, scanVars>>

\* update_record: the same copy (a separate method with the same body).
UpdateRecord(p, s, v) ==
    /\ ~crashed
    /\ Fetchable(p)
    /\ s < RecsPerPage
    /\ content' = [content EXCEPT ![p][s] = v]
    /\ lastCall' = <<"write", <<p, s>>>>
    /\ UNCHANGED <<numPages, firstFree, numRecords, nextFree, bitmap, pinned,
                   crashed, scanVars>>

(***************************************************************************)
(* delete_record: reset the bit (set or not), num_records--, unpin, then   *)
(* read num_records through the handle and, if it is now capacity - 1,     *)
(* release_page_handle: push the page on the head of the free list.        *)
(***************************************************************************)
\* Mutant: Bitmap::reset is missing.
ResetSlotNoReset(p, s) ==
    /\ bitmap' = bitmap
    /\ numRecords' = [numRecords EXCEPT ![p] = @ - 1]

\* Bitmap::reset of the slot, then num_records--.
ResetSlot(p, s) ==
    /\ bitmap' = [bitmap EXCEPT ![p] = @ \ {s}]
    /\ numRecords' = [numRecords EXCEPT ![p] = @ - 1]

\* Mutant: re-link whenever the page is not full, not only on the full ->
\* not full transition.
ReleaseIfNotFullAlways(p) ==
    IF numRecords'[p] < RecsPerPage
    THEN /\ nextFree' = [nextFree EXCEPT ![p] = firstFree]
         /\ firstFree' = p
    ELSE UNCHANGED <<nextFree, firstFree>>

\* The re-link test on num_records after the decrement, and
\* release_page_handle: push the page on the head of the free list.
ReleaseIfNotFull(p) ==
    IF numRecords'[p] = RecsPerPage - 1
    THEN /\ nextFree' = [nextFree EXCEPT ![p] = firstFree]
         /\ firstFree' = p
    ELSE UNCHANGED <<nextFree, firstFree>>

DeleteRecord(p, s) ==
    /\ ~crashed
    /\ Fetchable(p)
    /\ s < RecsPerPage
    /\ numRecords[p] > -MaxUnderflow
    /\ ResetSlot(p, s)
    /\ ReleaseIfNotFull(p)
    /\ mustSee' = mustSee \ {<<p, s>>}
    /\ lastCall' = <<"delete", <<p, s>>>>
    /\ UNCHANGED <<numPages, content, pinned, crashed, scanPc, cursor, yielded>>

-----------------------------------------------------------------------------
(***************************************************************************)
(* RmScan::next(): from rid_, while page_no < num_pages: fetch the page    *)
(* (never unpinned), advance slot_no over the page's slots and stop at the *)
(* first set bit; otherwise go to the next page with slot_no = -1.  The    *)
(* result is the new rid_, the pages now pinned, and whether a fetch       *)
(* failed, in which case the bitmap read goes through a null page.         *)
(***************************************************************************)
\* Mutant: the slot search starts at slot_no instead of slot_no + 1.
NextSetSlotInclusive(p, sl) == {s \in Slots : s >= sl /\ s \in bitmap[p]}

NextSetSlot(p, sl) == {s \in Slots : s > sl /\ s \in bitmap[p]}

RECURSIVE ScanFrom(_, _, _)
ScanFrom(pg, sl, pin) ==
    IF pg >= numPages
    THEN [page |-> pg, slot |-> sl, pinned |-> pin, crash |-> FALSE]
    ELSE IF ~CanFetch(pg, pin)
    THEN [page |-> pg, slot |-> sl, pinned |-> pin, crash |-> TRUE]
    ELSE IF NextSetSlot(pg, sl) # {}
    THEN [page |-> pg,
          slot |-> CHOOSE s \in NextSetSlot(pg, sl) :
                      \A t \in NextSetSlot(pg, sl) : s <= t,
          pinned |-> pin \cup {pg}, crash |-> FALSE]
    ELSE ScanFrom(pg + 1, -1, pin \cup {pg})

\* Apply a ScanFrom result.
MoveCursor(r) ==
    /\ cursor' = [page |-> r.page, slot |-> r.slot]
    /\ pinned' = r.pinned
    /\ crashed' = r.crash

(***************************************************************************)
(* The executor's loop: for (RmScan scan(fh); !scan.is_end(); scan.next()) *)
(* { use scan.rid() }.  The constructor sets rid_ = {1, -1} and calls      *)
(* next().  Other methods may run between the loop's calls.                *)
(***************************************************************************)
ScanOpen ==
    /\ ~crashed
    /\ scanPc \in {"idle", "ended"}
    /\ MoveCursor(ScanFrom(RM_FIRST_RECORD_PAGE, -1, pinned))
    /\ scanPc' = "positioned"
    /\ yielded' = {}
    /\ mustSee' = Occupied
    /\ UNCHANGED <<fileVars, lastCall>>

(***************************************************************************)
(* is_end(): true if page_no >= num_pages; else it fetches the page (never *)
(* unpinned) and is true if slot_no >= that page's num_records.  When it   *)
(* is false the loop takes rid().                                          *)
(***************************************************************************)
ScanIsEnd ==
    LET pg == cursor.page IN
    /\ ~crashed
    /\ scanPc = "positioned"
    /\ IF pg >= numPages
       THEN /\ scanPc' = "ended"
            /\ UNCHANGED <<pinned, crashed, yielded>>
       ELSE /\ crashed' = ~CanFetch(pg, pinned)
            /\ pinned' = IF CanFetch(pg, pinned) THEN pinned \cup {pg}
                         ELSE pinned
            /\ IF cursor.slot >= numRecords[pg]
               THEN scanPc' = "ended" /\ UNCHANGED yielded
               ELSE /\ scanPc' = "atRecord"
                    /\ yielded' = yielded \cup {<<pg, cursor.slot>>}
    /\ UNCHANGED <<fileVars, cursor, mustSee, lastCall>>

ScanNext ==
    /\ ~crashed
    /\ scanPc = "atRecord"
    /\ MoveCursor(ScanFrom(cursor.page, cursor.slot, pinned))
    /\ scanPc' = "positioned"
    /\ UNCHANGED <<fileVars, yielded, mustSee, lastCall>>

-----------------------------------------------------------------------------
\* Every action requires ~crashed: after a null dereference nothing runs.
Next ==
    \/ \E p \in DataPages : GetRecord(p)
    \/ \E v \in Vals : InsertRecord(v)
    \/ InsertRecordPageFull
    \/ InsertRecordNoFrame
    \/ \E p \in DataPages, s \in 0..RecsPerPage :
          \/ RidOpBadSlot(p, s)
          \/ DeleteRecord(p, s)
          \/ \E v \in Vals : InsertRecordAt(p, s, v) \/ UpdateRecord(p, s, v)
    \/ ScanOpen
    \/ ScanIsEnd
    \/ ScanNext

Spec == Init /\ [][Next]_vars

\* The executor's loop runs on its own thread and calls is_end() and next()
\* in turn without waiting on anything but the pool latch, so each of its
\* steps, once enabled, is taken.  Record-layer callers get no fairness.
FairSpec == Spec /\ WF_vars(ScanIsEnd) /\ WF_vars(ScanNext)

\* The records the file holds, as the abstract record store sees them: a
\* slot holds a record when its page exists and its bit is set.
StoredRecords ==
    [r \in Rids |-> IF Live(r[1], r[2]) THEN content[r[1]][r[2]] ELSE 0]

Store == INSTANCE RecordStore WITH NoRecord <- 0, records <- StoredRecords

-----------------------------------------------------------------------------
\* The pages reachable from first_free_page_no through next_free_page_no.
RECURSIVE FreeChain(_, _)
FreeChain(p, seen) ==
    IF p = RM_NO_PAGE \/ p \in seen THEN seen ELSE FreeChain(nextFree[p], seen \cup {p})

\* The free-page list never loops back on itself: following
\* next_free_page_no from first_free_page_no reaches RM_NO_PAGE.
RECURSIVE ChainEnds(_, _)
ChainEnds(p, n) ==
    IF p = RM_NO_PAGE THEN TRUE ELSE n > 0 /\ ChainEnds(nextFree[p], n - 1)

\* The free-page list keeps its shape under every call sequence, double
\* deletes included: following next_free_page_no from first_free_page_no
\* ends at RM_NO_PAGE, and every page on the way exists and has a header
\* count below capacity (delete_record re-links at num_records =
\* capacity - 1, insert_record unlinks at num_records = capacity).  It is
\* about the count only: after a double delete a listed page can have no
\* unset bit, which SlotAccountingExact rules out and rm_free_list_exact
\* shows broken.
FreeListSound ==
    /\ ChainEnds(firstFree, Cardinality(DataPages))
    /\ \A p \in FreeChain(firstFree, {}) :
          p < numPages /\ numRecords[p] < RecsPerPage

\* num_records equals the number of set bits of the page (spec.md 8:
\* "capacity accounting must match the number of set bits exactly").
NumRecordsMatchesBitmap ==
    \A p \in DataPages : p < numPages => numRecords[p] = Cardinality(bitmap[p])

\* A page is on the free-page list exactly when it has a free slot
\* (spec.md 8, free-list invariant: the next insert lands on a non-full
\* page rather than a new one).
FreeListExact ==
    \A p \in DataPages :
        p < numPages => (p \in FreeChain(firstFree, {}) <=> numRecords[p] < RecsPerPage)

\* Slot accounting is exact (spec.md 8): a page is on the free-page list
\* exactly when num_records < records_per_page, and num_records is its
\* number of set bits.  Together they say the list holds exactly the pages
\* with an unset bit, so insert_record never takes the PageFull return that
\* spec.md 4.3 calls unreachable.
SlotAccountingExact == FreeListExact /\ NumRecordsMatchesBitmap

\* When the executor's loop stops (is_end() is true), it has been handed
\* every record that was in the file when the scan opened and has not been
\* deleted since (spec.md 4.4, 8: scan completeness).
ScanSeesAll == scanPc = "ended" => mustSee \subseteq yielded

\* Every rid the executor's loop is handed is a rid of the file: a data
\* page and a slot in [0, records_per_page) (spec.md 6, Rid).  next()
\* leaves rid_ at {num_pages, -1} at end of file; an insert before the
\* loop's is_end() must not turn that cursor into a record.
ScanYieldsRids == yielded \subseteq Rids

\* The scan is exact (spec.md 8, scan completeness and order): it hands
\* the loop only rids of the file, and when is_end() stops the loop it has
\* handed every record present at open and not deleted since.
ScanExact == ScanSeesAll /\ ScanYieldsRids

\* The record file implements the abstract record store: an insert puts
\* its record at a rid holding none, a delete removes exactly the record
\* at its rid, update_record and insert_record(rid) change only records
\* that exist, and failing calls change no record (spec.md 4.3, 8).
ImplementsRecordStore == Store!Spec

\* Once the executor's loop has opened a scan, it eventually stops: next()
\* moves rid_ strictly forward and is_end() ends at num_pages, whatever
\* inserts, deletes and updates run in between, unless a fetch fails.
ScanTerminates ==
    scanPc \in {"positioned", "atRecord"} ~> (scanPc = "ended" \/ crashed)

\* No method dereferences the page of a null page handle: a full buffer
\* pool is reported as a failure (spec.md 4.3 BufferExhausted, 7), not a
\* crash.
NoNullPageDeref == ~crashed

=============================================================================
