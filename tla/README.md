# Verification of the dimdb storage engine

TLA+ models of dimdb (C++17, `src/dimserver`), model-checked with TLC, with
proofs checked by TLAPS. dimdb is at the stage of its storage engine: a commit
log, the frames of a buffer pool, and the utilities below them. What the
project README draws above these (transactions, indexes, executor, network)
has no code yet.

Paths below are relative to `src/dimserver/` of the repository unless they
begin with `unittests/`. `PROJECT.json` holds the list of
components, the runs, the mutants, the map from definitions to source lines, the
findings and the hazards.

## 1. The system

| Component | Code | State | Operations | Interacts with |
|---|---|---|---|---|
| Log buffer | `storage/clog/log_buffer.{h,cpp}` | `entries_` (deque), `current_bytes_`, `current_lsn_`, `flushed_lsn_` (atomics), `mutex_`, `max_bytes_` | `append` (two forms), `flush`, `flush_batch`, `is_full`, `size` | appending and flushing threads; writes to the log file writer with `mutex_` held |
| Log entry | `storage/clog/log_entry.{h,cpp}` | header (LSN, size, module), payload | `init` (size check) | everything in the log |
| Log file writer | `LogFileWriter` in `storage/clog/log_file.{h,cpp}`, `writen` in `common/io/io.cpp` | descriptor, `m_last_lsn`, `m_end_lsn`; the file | `open`, `close`, `write`, `is_full` | no lock of its own; log buffer and file manager |
| Log file reader | `LogFileReader`, `readn` | descriptor and its offset | `open`, `close`, `go_to`, `iterate` | callback of the recovery |
| Log file manager | `LogFileManager` | `m_log_files` (LSN to path), entries per file; the directory | `init`, `list_files`, `last_file`, `next_file` | opens the writer; survives restarts only through file names |
| Frame manager | `storage/buffer/buffer_pool.cpp`, `lru_cache.h` | cache of frames in order of use, allocator, `mutex_` | `get`, `find_list`, `alloc`, `free`, `purge_frames` (callback under the lock) | frames; memory pool |
| Frame | `storage/buffer/frame.{h,cpp}` | `pin_count_` (atomic), `frame_id_`, page | `pin`, `unpin` (no lock), `reinit`, `reset`, flags | frame manager, its users |
| Memory pools | `common/mem/mem_pool.{h,cpp}` | pools, used set, free list, lock, in two classes | `init`, `alloc`, `alloc_unique_ptr`, `free`, `extend`, `cleanup` | frame manager; threads that hold items |
| Double write buffer | `storage/buffer/double_write_buffer.{h,cpp}` | map of pages, header; slots and header in its file | `open_file`, `load_pages`, `add_page`, `flush_page`; `recover` (declared) | buffer pool, data files, crashes |
| Page | `storage/buffer/page.h`, `common/math/crc.cpp` | header, data, a static CRC table | `calc_checksum`, `verify_checksum` | frames, double write buffer |
| Buffer pool | `storage/buffer/buffer_pool.h`, `buffer_pool_log.h` | (declared only) | (declared only) | would use all of the above |
| Diagnostic log | `common/log/log.{h,cpp}` | appenders of a logger; stream, size and day of each; the files | `InitLogger`, `log`, `addAppender`, `delAppender`, `reopen`, `checkRotate`, `createNewFile` | every component, from every thread |
| Bitmap | `common/bitmap/bitmap.{h,cpp}` | size, bytes of its owner | `set`, `clear`, `get`, `next_zero_bit`, `next_one_bit` | buffer pool |
| Values | `common/value.{h,cpp}` | type, null mark, a variant | compare, `serialize_to`, `deserialize_from`, `set_null`, convert | SQL layer |
| SQL parser | `sql/parser/` | none between calls | grammar, lexer, syntax nodes | generated code |
| Log handlers | `storage/clog/log_handler.h`, `vacuous_log_handler.h`, `log_replayer.h`, `log_module.h` | none | interfaces | would own buffer, writer and manager |

What is hard, and what correct means, per component:

- **Log buffer.** Appends test the limit without the lock, spin, then assign an
  LSN under it; flushes read `entries_.size()` without the lock, then write and
  pop under it; writes fail, files fill up and close. Correct: LSNs form one
  chain across buffer and file, `flushed_lsn_` never runs ahead of what is
  stored, nothing is stored twice, memory is bounded, bytes are counted
  exactly, every append returns, everything is flushed in the end.
- **Writer and reader.** Header and payload are separate writes; a crash or an
  error leaves a fragment; the reader finds its way by sizes in headers.
  Correct: recovery delivers exactly the complete entries wanted and tells a
  torn end from a clean one, and always ends.
- **File manager.** File names carry the boundaries between files across
  restarts. The map of the files is read once, a file that cannot be
  opened looks like an empty directory. Correct: names bound contents, files
  follow one another without a gap, each is full before the next is begun,
  listing finds what is needed.
- **Frame manager.** `unpin` runs beside everything; look-up and allocation are
  two critical sections; purging calls back with the lock held. Correct: pins
  match holders, a held frame stays its page, no frame leaks or is handed out
  twice.
- **Double write buffer.** Crashes between and inside its writes, also while it
  recovers; writes that fail half way through a batch; slots of earlier rounds
  that are still in the file. Correct: every page is whole in one of its two
  places, in the version that was taken, and never goes back.
- **Memory pools.** Items are cleared outside the lock; two methods take a lock
  they hold. Correct: no item is lost or handed out twice, what is handed out
  belongs to one thread.
- **Diagnostic log.** Threads, two locks, rotation by size or day over a
  midnight, appenders on one file name, opens and writes that fail. Correct:
  each line is in a file once and in order, files keep their limits, every call
  returns.
- **Page.** A check that writes to the page it checks, by several threads.
  Correct: damage is told, and telling leaves no trace.
- **Bitmap, values.** Sequential; boundaries of bytes, nulls, strings behind one
  another in a buffer. Correct: searches find what was set, rows come back as
  they were written, comparison is an order.

## 2. Modules

| Module | Models | State and actions against the code |
|---|---|---|
| `LogEntry` | entries and the items they become in a file | An item is an entry and the number of its bytes that reached the file. A payload is its size. `LeftByWriter` says what a file can be that `write()` has left. |
| `LogFileWriter` | `LogFileWriter` | `writer` is the object, `files` the contents, `created` the directory. `Open`, `Close`, and the three outcomes of `write()`: `WriteRefused` (closed or full), `WriteDone`, `WriteTorn` (any prefix of the bytes). Operations only. |
| `WriteAheadLog` | the abstract promise | `issued`, `hardened`, `stored`: an LSN is issued, stored, hardened, each in order. |
| `LogBuffer` | `LogBuffer`, its threads, the owner of the writer | One action for what a thread does between two accesses to shared state; `pc` says where it is. The read in `flush()` that races with a push or pop of the deque yields any value of `TornSize`. EXTENDS `LogFileWriter`. |
| `LogFileReader` | `LogFileReader`, `readn` | Byte offsets; a header read at a wrong offset is any of `Garbage`, the same at each look of one call. The files are any that are `LeftByWriter`. |
| `LogFileManager` | `LogFileManager` over restarts | `m_log_files` per process, `created` and `files` on disk; `Start`, `Stop` (end or crash), `LastFile`, `NextFile`, an open that fails in either, writes between them. `skipped` remembers the files begun because `last_file()` could not open one. EXTENDS `LogFileWriter`. |
| `LruCache` | `LruCache` | Operators on the list of items. |
| `FrameManager` | `FrameManager`, `Frame`, fixed `MemPoolSimple` | Methods under `mutex_` are one step each; `purge_frames` is a step per frame, and `unpin` two, since they run side by side. |
| `MemPool` | `MemPoolSimple`, `MemPoolItem` | The part of a call under `mutex_` is one step; clearing an item is another, outside it. `kind` is the class. Taking the lock twice throws, as libstdc++ does, and unwinding releases it. A caller may free an item it does not own (any more); `clobbered` remembers whom that hit. |
| `FileLog` | `Logger`, `FileLogAppender`, `InitLogger` | One action between two accesses to what threads share: the check for a rotation, choosing a name, opening, writing. `stream` is the `std::ofstream` with its failbit. An appender that reopens under its own lock is stuck. |
| `PageStore` | the promise of a double write buffer | `stored` versions of pages never go back, `exempt` pages excepted. |
| `DoubleWriteBuffer` | `DiskDoubleWriteBuffer` | One action per write; `slot` and `header` are its file, `data` the data files, a page its version or `Torn`. `Crash` at any point, `Load` is `open_file()` with `load_pages()`, then the pages found are flushed like any others. |
| `Bitmap` | `Bitmap` | A byte is the set of its bits. `members` remembers what was set. |
| `PageChecksum` | `Page` and `crc32()` | A word is a set of bits, the CRC the real one. `verify_checksum()` is four accesses, so that two threads can overlap. |
| `Value` | `Value`, `CharString` | Bytes as numbers; a value is type, null mark and variant. `Write`, `Read` and `WriteBack` are the functions applied one behind the other to one buffer. |
| `LogBufferProofs`, `MemPoolProofs`, `FrameManagerProofs`, `DoubleWriteBufferProofs` | theorems about the module of that name | Section 4. |
| `LogFileProofs` | theorems about `LogFileReader` and `LogFileManager` | Section 4. |
| `CommonProofs` | theorems about `Bitmap`, `PageChecksum`, `Value` and `FileLog` | Section 4. |
| `LogFileWriterProofs` | lemmas about the writer's operations | Shared by the proofs of `LogBuffer` and `LogFileManager`. |
| `DataLemmas` | lemmas about numbers, sets, sequences and sums | Induction is stated with a set in the place of a predicate. |
| `MC*` | constants for TLC | `MCCommon` runs `Bitmap`, `PageChecksum` and `Value`, one in each behaviour. |

Definitions marked "Mutant" are plausible bugs of the definition below them.
They take no part in any specification; each property is shown to fail when
one of them replaces that definition.

### What the clients are assumed to do

The repository has no code that owns a log buffer, a file manager or a frame
manager, so the models contain the least restrictive client the interfaces
allow:

- a `LogFileWriter` has no lock: its owner does not open or close it during a
  flush, and replaces the file only when `write()` answers `FILE_FULL`;
- a process appends consecutive LSNs, starts with `last_file()` or else, on its
  `FILE_NOT_FOUND`, `next_file()`, and calls `next_file()` again when the file is
  full. The directory holds what managers with the same number per file made.
  These steps of the client are in `WriteNext` and `WriteFull`, which are marked
  external; what `write()` does in them is in `LogFileWriter`;
- a thread holds a page once and frees only a page nobody else holds or is
  about to allocate. Nothing keeps two threads from looking a page up and
  allocating it at the same time: no comment asks them to.

- `init()` and `cleanup()` of a memory pool run while nothing is handed out;
- one thread uses a double write buffer, which has no lock, `recover()` follows
  `open_file()`, and pages are stamped with the `crc32()` that `load_pages()`
  looks for. `write_page()`, `write_page_internal()` and `recover()` have no
  definition: they are what their callers need of them (the module's head says
  what);
- pages are edited while no thread verifies them; rows are read in the order
  they were written.

The manager of frames has two faults the invariants have to live with: a
purged frame stays in the cache (`frames_evict`), and a page may be allocated
twice (section 5). The history variables `purged` and `doubled` record
them; `PinsAreHandles`, `HandleIsPage` and `UsedAreFound` say what holds until
then, `PoolPartition` holds always.

## 3. Runs

| Run | Expected | Shows |
|---|---|---|
| `log_buffer` | pass | Types, `LsnChain`, `Durable`, `OnceInOrder`, `LimitOvershoot`, `BytesExact` and the refinement `ImplementsLog` of `WriteAheadLog`, with racing size reads, full and closed files and a write that fails after any byte. |
| `log_buffer_live` | pass | `FlushCoversCall`: without a racing size read, a `flush()` that returns SUCCESS has flushed all that was appended before its call. `AppendReturns`, `Drains`: no append spins for ever, every LSN is flushed in the end. |
| `log_reader` | pass | `DeliversWanted`, `TornPayloadReported` and `Terminates` on every file of up to three items. |
| `reader_skip` | violation of `StartsAtLsn` | `go_to()` skips a payload by the length of a header (`log_file.cpp:92`). |
| `log_manager` | pass | `RangeByName`, `FilesTile`, `ListMissesTwo` over three process lifetimes, with writes and opens that fail. |
| `frames` | pass | `PinsAreHandles`, `HandleIsPage`, `UsedAreFound` until a purge succeeds; `PoolPartition` always, also with stale cache entries and double frees. |
| `mem_pool` | pass | `PoolsWhole`, `OwnContent`, `FailsOnlyDry` for both classes, with a stray `free()`, pools that are extended from outside, cleaned up and used again; no deadlock. |
| `file_log` | pass | `LinesKept`, `SizeLimit`, `DayFile`; `CallsReturn`: every call returns, whatever writes fail, unless a thread waits for itself in an appender whose file could not be opened. |
| `double_write` | pass | `IntactCopy`, `TakenSurvives`, and the refinement `ImplementsStore` of `PageStore`, with any number of crashes and a failing write. |
| `double_write_ages` | violation of `RecoveryNeverAges` | Two crashes make recovery put an old version of a page over a newer one; `storage/README.md:388` promises "崩溃恢复". |
| `common` | pass | `BitmapSearch`, `VerifyTells`, `RowRoundTrip`, `ValueOrder`. |
| `frames_evict` | violation of `EvictedIsGone` | A purged page is still found, in a free frame. |

The properties of the passing log runs that depend on what the findings break
say so in their antecedents: `DeliversWanted` holds where `go_to()` need not
skip a payload of another length than a header (`Aligned`) and no write
followed a failed one (`CleanTail`).

The other modules do the same with history variables: `skipped`
(`LogFileManager`), `clobbered` (`MemPool`), `faulty`, `shared`, `straddled` and `reopened` (`FileLog`),
`failed`, `cut` and `twice` (`DoubleWriteBuffer`), `raced` (`PageChecksum`).
Each names exactly the files, items, appenders or pages that one fault reaches, so
that the property still speaks of all the others.

### Bounds

- *Log buffer*: two appenders and two flushers, so that each kind races with
  itself and with the other; three LSNs, so that a batch fails at its first,
  middle and last entry; `HEAD_SIZE` 1, payloads 0 and 1, and 2 that is
  refused; a limit of 2 bytes, reached by one or two entries; two files with
  ends 2 and 4, so that a file fills up in the middle of a batch and another
  is opened; one failing write, after any number of bytes. Threads of one kind
  are symmetric in the safety runs. The liveness run has one file name and no
  symmetry.
- *Reader*: `HEAD_SIZE` 2 and payloads of 0 to 3 bytes, shorter than, equal to
  and longer than a header; up to three items with a gap in the LSNs; every
  cut of the last item, and of the second with the entry written again behind
  it; garbage headers with small and large LSNs and with negative, small and
  refused sizes; start LSNs before, on, between and behind those in the file.
- *Manager*: files of two entries, five LSNs, three starts, two errors: a
  change of file in each process, a restart into each state of the directory,
  and a failed open in `last_file()` followed by another or by a torn write.
- *Frames*: three pages in two files compete for two frames, so that every
  frame is freed and used again for another page; two threads (symmetric), who
  race for a page, or one of whom unpins while the other purges; one purge
  that succeeds, enough for a stale entry, an aliased frame and a double free.
- *Memory pools*: two threads (symmetric), pools of two items, two pools, one
  stray call of `free()`: a stray call meets its victim at every step of an
  allocation or of its own `free()`, and the pool runs dry with one or two
  pools.
- *Diagnostic log*: two threads, two appenders on one name, four events (one
  below the level, one longer than a line), files of two units, one midnight,
  one fault, one `reopen()`: a rotation inside a call, one for each appender,
  and a fault in either while the other goes on. File names are not bounded: an index
  is any number that is free.
- *Double write buffer*: three pages and a buffer of two, so that one add is a
  hit, one a miss, and one finds slots of an earlier round; two versions of each
  page; one failing write; crashes without bound. The refinement is checked with
  pages as a symmetry set, which `PageStore` treats alike.
- *Common*: bitmaps of up to seven bits in bytes of three, over any bytes, also
  with set spare bits; pages of four bytes with two values each, and two
  threads, up to the overlap that damages the stamp; rows of three out of nine
  values, with no byte, a byte that is not NUL, or such a byte and a NUL behind
  them.
- Payloads are below 2^31 bytes; LSNs do not overflow 64 bits. Numbers in
  `Value`, and lengths of strings, are below 2^23 in size (`IsValue`), so that
  their bytes can be computed with TLC's integers; the sign is in the last byte
  all the same.

### Fairness

`LogBuffer!FairSpec` assumes what the scheduler and the lock give each thread:
weak fairness of the steps of a running call (a `std::mutex` that is free
again and again is obtained in the end, since a flush that waits for it keeps
its own call pending and appends return); of `flush()` being called again,
since a log that nobody flushes drains nothing; and strong fairness of the
owner replacing a full or missing file by one that has room, as the opportunity
comes and goes with each flush. `LogFileReader!ReaderFairSpec` assumes that a
call of `iterate()` runs on. `FileLog!Spec` assumes that a thread inside
`InitLogger()` or `log()` is scheduled again, thread by thread: each has
finitely many calls to make, so a thread that waits for a mutex finds it free
for good in the end, and no fairness of the mutex is needed. Nothing is assumed
of clients that append, log, fail or close.

## 4. Proofs

Everything here is proved for any values of the constants: any sets of threads,
pages, file names and payloads, any capacities and limits, any number of failing
calls, restarts and purges. The bounds of section 3 are those of TLC only.
`Spec`, or `ReaderSpec`, `BitmapSpec`, `PageSpec`, `ValueSpec`, is the specification of
the module in the table's heading. Every invariant, action property and refinement a passing
run checks is stated by a theorem here.

| `LogBuffer` (`LogBufferProofs`) | Statement |
|---|---|
| `TypeCorrect` | `Spec => []TypeOK` |
| `BufferIsChain` | `Spec => []LsnChain` |
| `FlushedIsDurable` | `Spec => []Durable` |
| `StoredOnceInOrder` | `Spec => []OnceInOrder` |
| `BufferImplementsLog` | `Spec => ImplementsLog` |
| `OvershootBounded` | `Spec => []LimitOvershoot` |
| `BytesCounted` | `Spec => []BytesExact` |
| `FlushCovers` | `TornSize = {}` implies `Spec => FlushCoversCall` |
| `FilesReadable` | `Spec => [](\A n \in FileName : LeftByWriter(files[n]))` |

| `LogFileReader` (`LogFileProofs`) | Statement |
|---|---|
| `ReaderTypesKept` | `ReaderSpec => []ReaderTypeOK` |
| `RecoveryDelivers` | `ReaderSpec => []DeliversWanted` |
| `TornIsReported` | `ReaderSpec => []TornPayloadReported` |

| `LogFileManager` (`LogFileProofs`) | Statement |
|---|---|
| `TypesKept` | `Spec => []TypeOK` |
| `NamesTellLsns` | `Spec => []RangeByName` |
| `FilesFollow` | `Spec => []FilesTile` |
| `ListMisses` | `Spec => []ListMissesTwo` |

| `FrameManager` (`FrameManagerProofs`) | Statement |
|---|---|
| `TypesKept` | `Spec => []TypeOK` |
| `PoolStaysWhole` | `Spec => []PoolPartition` |
| `PinsHaveOwners` | `Spec => []PinsAreHandles` |
| `HeldFramesKeepPages` | `Spec => []HandleIsPage` |
| `NoFrameLeaks` | `Spec => []UsedAreFound` |

| `MemPool` (`MemPoolProofs`) | Statement |
|---|---|
| `TypesKept` | `Spec => []TypeOK` |
| `PoolsStayWhole` | `Spec => []PoolsWhole` |
| `OwnContentKept` | `Spec => []OwnContent` |
| `FailsOnlyWhenDry` | `Spec => FailsOnlyDry` |

| `DoubleWriteBuffer` (`DoubleWriteBufferProofs`) | Statement |
|---|---|
| `TypesKept` | `Spec => []TypeOK` |
| `EveryPageWhole` | `Spec => []IntactCopy` |
| `TakenIsRecovered` | `Spec => []TakenSurvives` |
| `BufferImplementsStore` | `Spec => ImplementsStore` |

| `FileLog` (`CommonProofs`) | Statement |
|---|---|
| `LogTypes` | `Spec => []TypeOK` |
| `SmallFiles` | `Spec => []SizeLimit` |
| `DayFiles` | `Spec => []DayFile` |
| `NoLineLost` | `Spec => []LinesKept` |

| `Bitmap`, `PageChecksum`, `Value` (`CommonProofs`) | Statement |
|---|---|
| `BitmapSearches` | `BitmapSpec => []BitmapSearch` |
| `PageVerifies` | `PageSpec => [](NoCollision => VerifyTells)` |
| `RowsComeBack` | `ValueSpec => []RowRoundTrip` |
| `ValuesOrdered` | `ValueSpec => []ValueOrder` |

`NoCollision` says that the page is the stamped one if its checksum is. For pages
of any length that cannot be had without saying it: there are more pages than
checksums. On the pages of the run no two share a checksum.

They rest on the assumptions the modules name next to their constants: sizes,
capacities and numbers per file or pool that are positive, bounds that are
natural numbers, finite sets of appenders, frames and pages, kinds of threads
that are disjoint, a `NoFile`, `NoFrame` or `NoKey` that is none. TLC evaluates
each of them in the runs. One says more: `ContentsAssumption` of the reader, that
a file is `LeftByWriter`. `FilesReadable` shows that the log buffer leaves no
other. And two say what the code's types say: `ValuesAssumption`, that what is written
is a `Value` (any type, null mark and alternative of the variant, also one that does
not fit the type), and `TailsAssumption`, that the rest of the buffer is bytes.

### The arguments

None of the invariants is inductive as it stands.

**Log buffer.**

1. `TInv` adds to `TypeOK` that the holder of `mutex_` is exactly the thread
   whose `pc` is inside a critical section, that a popping flush has an entry
   to pop, and that what was admitted fits in an entry (`Locking`,
   `AdmittedFit`).
2. `LInv` joins `LsnChain`, `Durable` and `OnceInOrder`: an entry can only be
   appended to the file because its LSN is larger than all that are stored,
   which follows from `Durable` and the chain; a torn item changes neither.
   The same step lemma shows that each step is a step of `WriteAheadLog` or a
   stutter, which gives the refinement.
3. `BInv` counts what appends that have passed the limit check may still add
   (`Reserved`): the buffer plus the reservations stay below the bound because
   an append is admitted only below the limit, and each admitted one adds at
   most one largest entry. It is this pending amount that makes the bound
   inductive.
4. `BytesExact` is a sum over the buffer. A push adds the last summand, which
   unfolds the sum once; a pop takes the first, and that the sum loses exactly
   it is an induction over the length of the buffer (`FoldShift`).
5. `CInv` says what a running flush still owes to its caller (`Owes`): the
   batch it has left reaches the last LSN promised.
6. `FInv` adds to `LeftByWriter` that no item, torn ones included, has an LSN
   above `flushed_lsn + 1`. Every write is of that LSN, so neither a new nor a
   repeated one descends, whichever file it goes to.

**Reader.** `Route`: the offset is where some item begins, in `go_to()` behind
items that were all to be skipped, in `iterate()` behind exactly those
delivered. A header read there is the item's (`HeaderRead`), and garbage is
never looked at. Two items never begin at one offset, and the offset of one is
that of the one before plus its bytes: an induction over the file (`Layout`).
Since LSNs do not descend, the entries to be skipped are the first of the file,
and `Wanted` is the rest (`FirstOnes`, `Shape`).

**File manager.** `write()` checks the upper bound of a name (`end_lsn`); nothing
checks the lower one. It holds because the open file is not named after an LSN that
is still to come (`Reached`), files in `skipped` apart: a process turns to the next
file only when the LSN to be written is at the end of the present one, and one that
starts again opens the last. All LSNs below the next are stored (`Recorded`), and the
ranges of the files do not overlap (`Apart`): an LSN of the range of the last file is
not above its end, and in no file before it, so it can only be in the last one. This
is `FilesTile` when the next file is begun. That the map is stale does no harm to it,
because at most one file is not in the map (`Known`), and it is the one `next_file()`
names again; `ListMissesTwo` follows from `Known` and from the upper bound of a name.

**Frames.** `WInv` holds always, also with stale entries and double frees: the
cache has a page once, the pool a frame once, and a thread between two steps
still has what it works on. `EInv` holds until a frame is purged: every entry of
the cache is a frame in use that carries its page, without which `get()` could
hand out the wrong one. `CInv` counts the pins: `alloc()` and `free()` set the
count instead of changing it, so they need from `EInv` that nobody has the frame
then.

**Memory pools.** `WInv` says `PoolsWhole` pool by pool. `OInv` follows an item
between the steps of a call: on its way to a thread or back it is one thread's
alone, it is not in somebody's hand at the same time, and whatever is in use is
somebody's or was hit by a stray `free()`.

**Double write buffer.** `DInv` relates entries in memory to slots. While the
buffer is used, the entries take the slots from 0 on, one each (`Places`); a slot
holds its own entry's page, or that of a write that failed (`SlotsOwned`,
`SlotsHold`); a page is torn in its data file only while its slot waits to be
recovered (`NotTorn`); no slot is older than the data file (`Newer`); slots of the last round that the header
still counts hold what is in the data files (`OwnOnly`). The refinement maps
`stored` to the version a recovery would find now, and needs that no step makes
it older (`NoOlder`).

**Diagnostic log.** `LogInv` says first who is where. A thread logs or makes an
appender (`CallShape`); one thread logs at a time, and no two work on one appender,
though `InitLogger()` runs beside the Logger's lock (`CallsApart`): an appender in the
making is not in the Logger's list yet. Streams are good and point to files, of one
appender each unless the file is `shared` (`StreamsWhole`), which takes that a file
opened by two is found by the second among those that exist. Then:

- `SizeLimit` needs that `m_currentSize` covers the file (`SizeInv`): opening a new
  file and setting the size to 0 go together, a line is added to both sides, and
  who writes has checked the limit before. `SizeOf` is a fold; an appended line
  adds a last summand.
- `DayFile` needs that the name of the open file is `m_lastRotateTime` (`DayInv`), and
  that a thread between the check and the write began on that day or before: it may
  write after midnight into the file of the day before, which its call ran in.
- `LinesKept`: the events an appender has had ascend, and the present one is new to all
  appenders further on in the list (`EventsInOrder`), although `delAppender()` and
  `addAppender()` change the list between calls. So a line is appended behind smaller ones, in
  whichever file. That files go on in order as well needs that indexes are used without
  a gap and days do not come back (`NamesUsed`), so that the next file of an appender is
  none before those it has written (`FilesForward`); a `reopen()` of the bare file name
  breaks exactly this, and the invariant leaves these appenders out there.

**Bitmap.** `BitmapInv` keeps `members` equal to the bits below `size_`. Every index is
one place in one byte (`BytesHold`); the least hit byte and the least bit in it are the
least index, because all indexes of a byte come before those of the next; a hit at or
behind `size_` means there is none below.

**Page.** While the page is as it was stamped, all threads inside
`verify_checksum()` store the one checksum, whatever they overlap (`Whole`). While it is
not, one thread at most is inside, and it alone knows the stamp (`Damaged`): this is
what the second thread destroys. `Found` is about the checksums, and `NoCollision`
turns it into one about the data.

**Values.** `RowInv`: the buffer is the row's values back to back, each where the sizes
of those before it add up to (`Stands`). A write leaves the bytes in front alone; a read
finds its own bytes by the type, null mark and number it begins with (two's complement
over 1, 4 or 8 bytes), or the type does not fit and it throws. `strlen()` stops at the
first NUL, which may be one of the next value, but `CharString` takes no more than its
length, so the value is the same; it runs out only behind the last value of the buffer.
The order compares type, null mark, alternative and content, and each of the four is
totally ordered, strings by the first place where they differ.

## 5. What the code does against its comments

Runs show three of these (`reader_skip`, `frames_evict`, `double_write_ages`).
A formula named in brackets is stated in its module and fails under the constants of the
module's runs (`FlushCoversCall`: with a `TornSize` that is not empty); no run of the
project repeats this. The others were met while modelling; the model follows the code.

- `log_buffer.cpp:117` "刷入所有条目": `flush()` reads `entries_.size()` without
  the lock, and with a racing push the number may be too small.
  `FlushCoversCall` fails as soon as `TornSize` is not empty.
- `storage/README.md:387` "原子写入": header and payload of an entry are separate
  writes; an entry reported flushed may stand behind a fragment
  (`LogBuffer!FlushedReachable`).
- `log_file.h:118-120`: `list_files()` leaves out the file that `start_lsn` falls
  into, and the file that the process made after `init()`
  (`LogFileManager!ListCovers`).
- `log_file_test.cpp:124` "获取下一个文件": when a file that the process began itself
  is full, be it the first of an empty directory, `next_file()` opens it again
  (`LogFileManager!NextFileHasRoom`). So a process makes one file at most, and
  goes on only after a new `init()`.
- `log_file.cpp:303` and `:308`: `last_file()` answers `FILE_NOT_FOUND` for an empty
  directory and for a file it cannot open; a caller cannot tell them apart, and one
  that goes on with `next_file()` puts entries in a file that is named after larger LSNs.
- `frame.h:14`: two threads that miss one page allocate two frames for it
  (`FrameManager!OneFramePerPage`).
- `log_file.h:65` "文件允许的最大LSN": `write()` refuses `end_lsn` itself
  (`log_file.cpp:193`), and `is_full()` is never true. `log_file.h:112`
  "最大文件数量": `max_file_count` is the number of LSNs per file
  (`log_file.cpp:256`).
- A memory pool that may grow never does: `extend()` inside `alloc()` finds the
  lock taken (`mem_pool.h:266`), and `std::shared_mutex` throws. For the same
  reason `MemPoolItem::cleanup()` releases nothing (`mem_pool.cpp:44`) and the
  destructor of an initialised pool ends the process.
- `log.cpp:175`: an appender whose file is not open waits for its own mutex, and
  the logger with it (`FileLog!LogReturns`; a `std::mutex` over glibc waits for itself). After a failed write an appender stays mute
  (`log.cpp:201`). `FileLogAppender` throws for a file name without a directory.
- `load_pages()` refuses every page that `calc_checksum()` has stamped
  (`double_write_buffer.cpp:101`): `crc32()` folds four bytes at a time through
  one table and computes another function. TLC evaluates this as the assumption
  `StampsDiffer` of `MCCommon`.
- Rewriting a buffered page in its slot (`double_write_buffer.cpp:142`) gives up
  the version that was there: a crash inside that write takes the page back to
  what is in the data file. `TakenSurvives` says nothing of a page during its
  own write; the refinement excepts what a crash then leaves (`cut`).
- `verify_checksum()` is `const` and writes: two threads that verify a damaged
  page at once may both accept it and leave it stamped.
- A `CHAR` that holds a NUL, such as every new `CharString(size)`, comes back
  from its bytes cut and padded with spaces.

`buffer_pool.cpp` and `double_write_buffer.cpp` do not compile as they are
(headers include each other, `page.lsn` is in `page.header`); the models take
them as they are meant.

## 6. What is only model-checked, and what is not modelled

Only model-checked:

- liveness: `AppendReturns`, `Drains`, `Terminates`, `CallsReturn`. Fairness and
  ENABLED are out of the prover's reach;
- that `crc32()` computes another function than `calc_checksum()`
  (`StampsDiffer`), and that the latter tells the small pages of the run apart:
  nothing general is claimed of either.

`FlushCoversCall` is proved and checked where the unlocked read of the size is
not wrong (`TornSize = {}`); elsewhere it is false, see section 5.

Not modelled:

- the buffer pool and the log handlers, which are declared only;
  `read_page()` and `clear_pages()` of the double write buffer likewise;
- the SQL parser (a grammar for generated code), result codes and helpers;
- a power failure, which may undo writes that were not synchronised: no comment
  says what holds after one. Crashes here are those of the process;
- the first build of the CRC table (`page.h:80`), guarded by a plain `bool`: a
  race on it lets a thread compute with a table that is not complete;
- flags, LSN and access time of `Frame`; the console appender, `LogManager` and
  the formatting of lines, where `std::regex_replace` interprets `$` in them;
  dates and text forms of `Value`, NaN, copies of a `CharString` that has been
  moved from (its data are a null pointer);
- read errors of the log file reader other than the end of the file, which
  return at once and change nothing. `cleanup()` of the frame manager succeeds
  only on an empty cache. Statistics and condition variables of the log buffer
  have no reader. Assertions are compiled out: no build file defines `DEBUG`.

## 7. Plan

What is done is marked.

1. [done] `LogEntry`, `LogFileWriter`, `LogBuffer` refining `WriteAheadLog`;
   type correctness, safety and refinement proved.
2. [done] `LogFileReader`; `LogFileManager` over restarts.
3. [done] `FrameManager` with `LruCache` and a fixed pool.
4. [done] `MemPool`, `DoubleWriteBuffer` refining `PageStore`, `FileLog`,
   `PageChecksum`, `Bitmap`, `Value`.
5. [done] Proofs: the log buffer with its count of bytes, the memory pools, the
   double write buffer and its refinement, the file manager, the frames, the
   reader, and that what the buffer writes is what the reader assumes; the
   diagnostic log; bitmap, page and values.
6. `ChangeLog`: buffer, writer, manager and reader composed over crashes, once
   the repository has the handler that owns them and says what recovery owes
   its caller.
