# TLA+ models of the RMDB storage core

These modules model the storage core of RMDB under
`src/db2024-main-rmdb/rmdb/src/`:

- the LRU replacer (`replacer/lru_replacer.cpp`);
- the buffer pool manager (`storage/buffer_pool_manager.cpp`);
- the record file handle (`record/rm_file_handle.cpp`);
- the record scan (`record/rm_scan.cpp`).

Every action is translated from the C++ source. Code that is not under
`src/` (the disk manager, `Page`, `RmPageHandle`, the file header that
`RmManager::create_file` writes) is modelled from `spec.md` and marked
`spec_modelled` in `PROJECT.json`.

## The system

The **buffer pool** caches disk pages in a fixed array of frames. Its state is:

- `page_table_`, mapping `PageId` to frame;
- per frame, `id_`, `pin_count_`, `is_dirty_` and `data_`;
- `free_list_`, the frames that never held a page or were freed by `delete_page`;
- the **replacer**, which lists the unpinned resident frames in recency order.
  `victim` takes the least recently unpinned frame, `pin` removes a frame and
  `unpin` pushes one at the front.

Every public pool method takes `latch_` for its whole body, disk I/O
included. Callers use the returned `Page*` outside the latch, and give it
back with `unpin_page(id, is_dirty)`.

The **record file handle** stores fixed-size records in the data pages of
a file (page 0 is the header). It keeps the file header
(`num_pages`, `first_free_page_no`) in memory. Each page has:

- a header (`num_records`, `next_free_page_no`);
- a bitmap of used slots;
- the slots.

Every method fetches the page through the pool. Inserts draw pages from a
free-page list: a new page when the list is empty, else its head. Deletes
re-link a page when it goes from full to not full. The handle has no latch
of its own.

The **record scan** is a cursor `rid_` over one file handle. The
executor's loop is `for (RmScan s(fh); !s.is_end(); s.next()) use(s.rid())`.
Other calls, e.g. the deletes of a DELETE executor, run between the
loop's calls.

## Modules

| Module | Models | State | Actions |
|---|---|---|---|
| `LRUReplacer` | `lru_replacer.cpp` | `lru`, the list front = most recent (`LRUlist_`; `LRUhash_` is its index) | `Victim`, `Pin`, `Unpin`; the operators `VictimOf`, `AfterVictim`, `PinList`, `UnpinList` are what the pool uses |
| `RecordStore` | abstract record file (spec.md 4.3, 8) | `records` (rid to record), `lastCall` (kind and rid of the last call that returned) | `Insert` (only at a rid holding no record), `Delete`, `Write` (update or `insert_record(rid)`: changes an existing record only) |
| `PageStore` | abstract pool | `mem` (content of each page), `holds` | `Acquire`, `Release`, `Write` (only a holder writes) |
| `BufferPool` | `buffer_pool_manager.cpp` with the replacer and caller threads | one variable per member listed above, plus `disk`, `numAlloc` (the disk manager), and the callers' `held`/`wrote` | `FetchHit`, `FetchMiss`, `UnpinPage`, `UnpinPageFails`, `FlushPage`, `FlushAllPages`, `NewPage`, `NewPageAllocFails`, `DeletePage`; the caller step `WriteData` |
| `RmFile` | `rm_file_handle.cpp` and `rm_scan.cpp`, one caller | file header, per-page `numRecords`, `nextFree`, `bitmap`, `content`; `pinned` (pages left pinned); `crashed`; the scan loop `scanPc`, `cursor` and history `yielded`, `mustSee` | `GetRecord`, `InsertRecord`, `InsertRecordPageFull`, `InsertRecordNoFrame`, `RidOpBadSlot`, `InsertRecordAt`, `UpdateRecord`, `DeleteRecord`, `ScanOpen`, `ScanIsEnd`, `ScanNext` |
| `RmFileConcurrent` | `insert_record(buf)` and `delete_record` of `rm_file_handle.cpp` run by several threads, over the latched pool of `buffer_pool_manager.cpp` | file header `numPages`, `firstFree`; the pool's `pageTable`, `frameId`, `pinCount`, `fdata` (each frame's page header, bitmap and slots), `freeFrames`, `lru`, `disk`, `numAlloc`; per thread `th` (pc and locals: page, frame, slot, the value read for `++`/`--`, the rid); ghosts `ops`, `returned`; `crashed` | one action per statement: `StartCall`, `InsertNewPage`, `InsertNewPageFails`, `InsertNpRead`, `InsertNpWrite`, `InsertCheckFree`, `InsertFetch`, `InsertFetchFails`, `InsertScan`, `InsertPageFull`, `InsertWrite`, `InsertIncRead`, `InsertIncWrite`, `InsertUnlink`, `InsertUnpin`, `InsertReturn`; `DeleteFetch`, `DeleteNoPage`, `DeleteReset`, `DeleteDecRead`, `DeleteDecWrite`, `DeleteUnpin`, `DeleteCheck`, `DeleteLinkNext`, `DeleteLinkHead` |
| `MCBufferPool`, `MCRmFile`, `MCRmFileConcurrent` | model values, symmetry and constant definitions for TLC | | |

Each pool method is one action, because the latch makes it atomic. A
method's early returns are separate actions, or guards of the same action
when they leave the state alone:

- A miss in `fetch_page` and `new_page` runs `find_victim_page`, then
  `update_page`: write back a dirty victim, erase its old mapping, map the
  new id, reset the bytes. These are the operators `FindVictim` and
  `UpdatePage`.
- `unpin_page` assigns `is_dirty_ = is_dirty`, exactly as the code does.
- `delete_page` leaves `id_`, `is_dirty_` and the replacer entry as they
  were, as the code does.

`Next` is `PoolStep /\ RecordUnpins`. `RecordUnpins` keeps the history
variable `unpinnedBefore`, which no pool step reads. A pair `<<g, f>>` in it
means that frame `g` last reached pin count 0 before frame `f` did. This is
the reference the LRU policy is judged by, and it never looks at
`LRUlist_`. `EvictsLeastRecentlyUnpinned` says that a frame which
`find_victim_page` takes from the replacer was unpinned before every other
frame the replacer tracks. Under the mutant `VictimOfFront` (a search from
`begin()` instead of `rbegin()`) TLC finds it violated. Without this
property, no other property tells LRU from MRU. `AfterVictim` translates
`LRUlist_.remove(*it)` as `Remove(l, VictimOf(l))`, so a wrong victim
changes both what is evicted and what leaves the list.

Page bytes are abstracted to a version number. A caller's write makes the
next version, and `reset_memory` makes version 0.

`RmFile` abstracts the pool to the set of pages that some method fetched
and never unpinned. This is sound because the record layer always unpins
with `is_dirty = true`, never deletes pages, and does not allocate from a
failing disk. Under exactly those conditions the `bp_content` run shows the
pool loses no write (`ImplementsPageStore`) and no frame (`FramesReusable`).
A fetch then succeeds exactly when the page is already pinned or fewer than
`NumFrames` pages are pinned.

`get_record`, the scan, and the early returns that forget to unpin add
pages to `pinned` for good. When a fetch fails, the code goes on through a
null page (`RmPageHandle` computes its pointers from `page->get_data()`).
That is the `crashed` state, after which nothing runs.

`delete_record`'s two parts are separate operators: `ResetSlot` (the
bit and `num_records--`) and `ReleaseIfNotFull` (the re-link test and
`release_page_handle`).

`RmFile` refines `RecordStore`. The mapping sends a rid to its slot's
content when the page exists and the bit is set, and to 0 otherwise. The
ghost `lastCall` records the kind and rid of the last insert, delete or
update that returned. Without it, a delete that left its record in place
would look like a failed call, which the abstract spec allows as a
stutter. `ImplementsRecordStore == Store!Spec` is checked as a property.

`ScanFrom` is a RECURSIVE operator that gives the result of the whole
`RmScan::next` loop: the new rid, the pages it pinned, and whether a fetch
failed. `ScanIsEnd` models `is_end` together with the loop body's `rid()`.

`BufferPool` refines `PageStore` under the mapping
`Mem == page p's frame bytes if resident, else its disk image`:
`Store == INSTANCE PageStore WITH mem <- Mem, holds <- ...` and the
property `ImplementsPageStore == Store!Spec`.

`RmFileConcurrent` is the record layer with no latch of its own, as the
code has it, called by several threads (spec.md 5 says threads call it
concurrently). Each C++ statement of `insert_record(buf)` and
`delete_record` that touches shared state is one step. `num_pages++`,
`num_records++` and `num_records--` are a read step and a write step. The
pool methods `fetch_page`, `new_page` and `unpin_page` hold `latch_`, so
each is one step. Their victim choice uses `LRUReplacer` and writes the
victim back, so another thread can evict a frame as soon as it is
unpinned. The checked calls always pass `is_dirty = true`, so write-back
on eviction is unconditional. The differences from the code:

- `new_page` and the header initialisation of `create_new_page_handle`
  (lines 206-208) are one step. No other thread can reach the new page
  before `num_pages` is written.
- The record payload is the inserting thread, so a rid's content tells
  which insert wrote it. The threads are symmetric.
- Steps after a failed fetch or `new_page` that use the null handle set
  `crashed`, and nothing runs after that.

## Runs

| Run | Expect | Shows |
|---|---|---|
| `bp_content` | pass | Two threads, two frames, one file of up to 3 pages, used the way the record layer uses the pool. The pool refines `PageStore`, every frame stays reusable, each pin count equals its number of holders, and every victim taken from the replacer is the frame unpinned longest ago (`EvictsLeastRecentlyUnpinned`). |
| `bp_frames` | pass | Any `is_dirty` argument, `delete_page` enabled, and allocation may fail. `page_table_` and `id_` agree, and a pinned frame never changes page (action property). |
| `bp_dirty_overwrite` | violation of `ImplementsPageStore` | c1 writes and unpins dirty, c2 unpins the same page clean, and eviction drops c1's write. |
| `bp_delete_reuse` | violation of `ImplementsPageStore` | A dirty page is flushed and deleted. Its frame keeps `is_dirty_` and `id_`, so reusing the frame writes zeros over the deleted page on disk. |
| `rm_file` | pass | Any call sequence with a scan open throughout. Through re-links and unlinks, double deletes included, the free-page list stays acyclic and holds only existing pages whose header count is below capacity (`FreeListSound`, a property of the count only: after a double delete a listed page can have no unset bit, see `rm_free_list_exact`). The file refines `RecordStore`: an insert never takes a rid that holds a record, and a delete leaves none. Under weak fairness of the scan loop, every opened scan ends or hits a null page (`ScanTerminates`), whatever calls run in between. |
| `rm_free_list_exact` | violation of `SlotAccountingExact` | `SlotAccountingExact` is `FreeListExact /\ NumRecordsMatchesBitmap`, spec.md 8's free-list invariant together with its exact count. With 2 slots per page, TLC's trace is the first insert: its new page has a free slot but is not on the free list, so every later insert makes a new page. The second way to break it is a delete of a slot with no record: `delete_record` decrements `num_records` without testing the bit. Checking `NumRecordsMatchesBitmap` alone under the same cfg gives that 3-state trace. With one slot per page the same drift leaves a re-linked page on the list with no unset bit, and every later insert takes the PageFull return. |
| `rm_scan_misses` | violation of `ScanExact` | `ScanExact` is `ScanSeesAll /\ ScanYieldsRids`. TLC's shortest counterexample breaks `ScanYieldsRids`: a scan opens on an empty file, so `next()` leaves `rid_ = {1, -1}` with `num_pages = 1`. An insert then appends page 1, and `is_end` re-reads `num_pages` and compares -1 with `num_records = 1`, so the loop is handed rid (1, -1). A delete executor would pass that slot to `delete_record`, whose check only rejects `slot_no >= capacity`. The second way to break it is `ScanSeesAll`: records on pages 1 and 2, the scan stands on (1,0) and that record is deleted. `is_end` then compares slot 0 with `num_records = 0`, and the scan ends without reaching page 2. Checking `ScanSeesAll` alone under the same cfg gives that 6-state trace. |
| `rm_null_deref` | violation of `NoNullPageDeref` | Two `get_record` calls pin both frames for good, and the next `insert_record` dereferences a null page. |
| `rmc_one_thread` | pass | One caller with 1 slot per page, 2 frames and up to 4 data pages, so pages are evicted and read back. Every rid returned and not deleted holds its record (`RoundTrip`), and the free-page list is exactly the non-full pages through eviction and read-back (`FreeListExact`). One slot per page hides the `create_new_page_handle` bug that `rm_free_list_exact` shows. |
| `rmc_two_threads` | pass | Two unlatched callers over every statement interleaving: the state stays well-typed, and the frame of a pinned handle holds the handle's page (`PinnedHandleValid`), so the pool itself is sound under the record layer's races. |
| `rmc_slot_race` | violation of `SlotClaimedOnce` | A delete re-links page 1, and two inserts fetch it, both find slot 0 unset and both return rid (1,0). |
| `rmc_use_after_unpin` | violation of `UnpinnedHandleKeepsPage` | After `insert_record` unpins, another thread's `new_page` takes the frame. The rid read through the handle names the new page. `delete_record`'s re-link after its unpin (lines 129-130) is the same pattern. |

Some counterexamples come from checking a property of a passing run under
another run's configuration. The project has no separate run for them,
because it keeps to twelve runs. They are listed with their hazards in
`PROJECT.json`:

- `FramesReusable` under `MCBufferPool_frames.cfg`: `new_page` loses its
  victim frame when `allocate_page` fails.
- `NumPagesCoversAllocated` under `MCRmFileConcurrent_two_threads.cfg`: two
  inserts both create a page, both read `num_pages = 1` and both write 2.
- `FreeListExact` under `MCRmFileConcurrent_two_threads.cfg`: a delete
  re-links page 1 while an insert that filled a new page 2 has not yet
  unlinked. The unlink writes page 2's `next_free_page_no` (none) over the
  head, and page 1 is lost from the list.
- `NoNullPageDeref` under `MCRmFileConcurrent_two_threads.cfg`:
  `create_page_handle` tests `first_free_page_no`, another insert fills
  that page and sets it to `RM_NO_PAGE`, and the second read gives
  `fetch_page_handle(-1)`, a null handle.

Every property of a passing run has a mutant in `PROJECT.json`: an
operator defined just before the original, modelling a plausible slip in
that code. Each mutant makes its property fail under the run's own
configuration.

## Bounds

The buffer pool runs use:

- 2 frames, 2 threads (symmetric model values), 1 file;
- 2 pages on disk at start, and `new_page` may add a third;
- at most 2 pages held per thread, and 2 writes per page.

Two frames and three pages force evictions of dirty and clean frames.
Two threads are the fewest that can share a page, which is what the
dirty-flag and pin-count bugs need. One file is enough because the code
never treats files differently except in `flush_all_pages`.

`rm_file` uses 1 slot per page, 3 data pages and 2 frames, with `num_records`
allowed down to -1. It uses one payload value, because the properties
checked tell records apart by rid. A second value makes the run four
times larger (2.2 million states, 8 minutes), and the only thing it adds
is the value a write leaves. With 1 slot, every insert and delete moves a page on or
off the free list, which is the only way the list is exercised (see
`rm_free_list_exact`). The violation run uses 2 slots.

The `RmFileConcurrent` runs use 2 frames and 1 slot per page. The
one-thread run allows 4 data pages and 10 calls; the two-thread runs allow
3 data pages and 4 calls per thread, which is 4.5 million distinct states
in under a minute. One slot per page is the only size at which a page
returns to the free list, so it is the one where pages are shared:
`create_new_page_handle` never links a new page (see `rm_free_list_exact`),
and a delete re-links only at `num_records = capacity - 1`. With 2 slots a
page holds one record at most, and inserts and deletes never meet on a
page. So the races on `num_records` are unreachable in this code. Two
frames with three pages make every `new_page` after the second one evict.

With 2 frames, leaked pins exhaust the pool in two steps. The `crashed`
final states are real stops, so these runs say `CHECK_DEADLOCK FALSE`;
the buffer pool runs check deadlock.

## Fairness

Only `rm_file` assumes fairness, through `RmFile!FairSpec`, which is
`Spec /\ WF_vars(ScanIsEnd) /\ WF_vars(ScanNext)`. The executor's loop
calls `is_end()` and `next()` in turn on its own thread. Neither waits on
anything except the pool latch, so an enabled step of the loop is
eventually taken. Record-layer calls get no fairness: a caller may stop
calling at any time. Failed fetches end in `crashed`, and
`ScanTerminates` allows that outcome. The pool and the concurrent record
layer have no retry or wait whose progress depends on scheduling, so
their runs check safety only.

## Not modelled

- The bytes of pages and records, `memcpy`, and the bitmap encoding.
- The disk manager's file I/O. Read and write are exact; I/O errors are
  not modelled.
- What a write through a negative slot corrupts. `delete_record`,
  `update_record` and `insert_record(rid)` accept `slot_no < 0`, and the
  scan hands out slot -1 (`ScanYieldsRids`). The bytes that slot -1
  overwrites belong to the bitmap and the page header, and that byte
  layout is abstracted. So the record calls draw slots from
  `0..capacity` only.
- The use of a freed hash node in `LRUReplacer::pin`
  (`LRUhash_.erase(it)` before `LRUlist_.erase(it->second)`). In this
  build the read is harmless. The node is {next, key, iterator} at
  offsets 0, 8 and 16, and glibc's `free` writes only offsets 0 and 8
  when it caches the chunk for the calling thread. `PinList` models that
  outcome.
- Fetching page 0 (the file header page) through `get_record`.
- The catalog, the executors and the parser.
- In the concurrent model: `get_record`, `update_record`,
  `insert_record(rid)` and the scan. They do not write the file header or
  the free-page list, which is what the races are about. Their pin leaks
  are shown by `rm_null_deref`.

## Further work

Composing `RmFile` over `BufferPool` would replace the `pinned`
abstraction with the real pool. `RmFileConcurrent` already runs
`insert_record` and `delete_record` over the real pool. `get_record`,
`update_record` and the scan would join it there. They write neither the
file header nor the free-page list, so they add pin leaks (already shown
by `rm_null_deref`) and no new race on shared metadata.
