# Verification of the EpaperTag firmware

TLA+ specifications of the firmware under `src/epaper/code`: a Bluetooth price
tag with an e-paper panel. TLC checks the specifications on small instances,
TLAPS proves theorems about them for all values of their constants.

## 1. The system

The firmware has one thread. The kernel of the SDK (a library, not in the
repository) runs one handler at a time, to its end: a message handler of a
task, a timer function, or a callback of the BLE stack. Nothing is preempted;
what is hard is the order of handlers, what they leave behind for each other,
and losses of power.

| Component | State | Operations | Talks to |
|---|---|---|---|
| Record store, `kvdb/flash_tlv.c` | two flash sectors, each a header (magic, version) and a log of blocks; in RAM `work_sector`, `mark_address`, `dirty_blocks` | init, format, append, query, read, delete; inside them the scan (`search_tlv`), the choice of a sector (`find_valid_sector`) and the collection (`flash_tlv_gc`) | cache, flash |
| Record cache, `kvdb/flash_tlv_cache.c` | 16 slots (valid, age, tag, address), `cursor` | invalidate, get, set, remove | store |
| Request handler, `request_handler.c` | `async_task_id`, `task_id`, `prf_id` | eight opcodes, dispatched from a GATT write; five of them create a task and post it a message, `async_task` answers and deletes it | store, driver, kernel, stack |
| Panel driver, `driver/ssd1680.c` | `frameBuffer`, `epd_status`, `busy_timeout`, `epd_timer`, `callback` | init, open, write, flush, sleep, close, timer callback | panel, request handler (callback) |
| BLE service, `epaper_svc.c` | `current_con_interval`, `update_param_timer`, sleep, what the stack advertises | connection and disconnection, negotiation of connection parameters, advertising, GATT messages | stack, request handler, settings |
| Boot, `proj_main.c` | `slp_timer` | mounts the store, reads MAC, interval and name, resets the panel, lets the tag sleep after 5 s | store, driver, service |
| Settings and helpers, `utils.c`, `shared_obj.c` | `sysinfo` (interval, name, flags) | checksum, getters, setters, text of an address | all |
| Port drivers, `softspi.c`, `driver_efuse.c`, `systick.c` | the wires | bits to the panel; registers | driver |

### What is hard in it, and what makes each part correct

* **Store.** Power can be lost between any two flash operations, and inside
  one. A boot has to find the sector in use; a record is there completely or
  not at all; a collection loses nothing and ends; room is not lost for good;
  the RAM cache agrees with the log; an operation on one tag leaves the others
  alone.
* **Requests.** A request that needs a task is finished by a later message,
  while other requests arrive. Each request is answered, task ids are given
  back, and the state that was checked at the dispatch may have changed.
* **Panel.** A refresh takes 25 seconds, in which anything can happen: it must
  not be cut short, must end, must show the picture that was flushed, and must
  leave the panel asleep.
* **Picture.** Four pixels a byte become two planes of eight a byte, sent over
  wires that the processor moves while, in one of the two builds, a peripheral
  shifts bytes out by itself. Counters of the panel have to wrap at the right
  place by themselves.
* **Boot.** Three records of any length and contents are read into one
  uninitialised buffer. The tag must run with what they say, or with defaults,
  and advertise something the stack takes.
* **Connection.** The negotiation of parameters is a chain of timers and
  reports which must not break, and it decides when the tag may sleep.

`PROJECT.json` lists the hazards at their lines and the properties aimed at
each of them.

## 2. The modules

| Module | Models | Role |
|---|---|---|
| `TagStore` | what `flash_tlv.c` promises | abstract specification |
| `FlashTlv` | `flash_tlv.c` | detailed specification, implements `TagStore` |
| `TagCache`, `TagCacheSpec` | what `flash_tlv_cache.c` is to the store | operators that `FlashTlv` uses; the same as a state machine |
| `FlashTlvCache` | `flash_tlv_cache.c` | slots and ages, implements `TagCacheSpec` |
| `EpdDriver` | `ssd1680.c` and the panel | operators on a record of the driver's state |
| `RequestHandler` | `request_handler.c`, the boot, the timer of the panel | composes requests, tasks, `EpdDriver` and an abstraction of the records |
| `Connection` | `epaper_svc.c`, `slp_timer` | state machine of the connection |
| `Device` | the boot of `proj_main.c`, the settings of `utils.c`, the advertisement | composes `Connection` with settings, records and boots |
| `Panel` | commands and planes of `ssd1680.c`; the panel | operators |
| `PanelBus` | calls of the driver, byte by byte | abstract specification |
| `PanelLink` | `epd_write_cmd`, `epd_flush` and `softspi.c`, wire by wire, and the SSP | implements `PanelBus` in both builds |
| `Checksum` | `calc_crc8`, the checksum of `flash_tlv_append`, `flash_tlv_verify` | state machine of one record that rots |
| `MCFlashTlv`, `MCFlashTlvCache`, `MCRequestHandler`, `MCDevice`, `MCPanelLink`, `MCChecksum` | | instances for TLC |
| `FlashTlvProofs`, `FlashStoreProofs`, `FlashTlvCacheProofs`, `RequestHandlerProofs`, `DeviceProofs`, `PanelBusProofs`, `PanelLinkProofs`, `ChecksumProofs` | | theorems |

An operator named `BugX` beside `X` is a mutant of it, a plausible mistake in
the code it models: the property that the mutant breaks is named in
`PROJECT.json`. Mutants are used by nothing else.

### FlashTlv

A sector is an array of cells. A block is one meta cell (header, status, tag and
length) and as many data cells as its value is long. In the code blocks have any
length in bytes and follow each other unaligned. Where a block starts makes no
difference as long as every access is to a block at its start, and
`MarkIsAlwaysBlock` proves that of the one access that does not come from a scan:
`mark_address` leads to a block until its sector is erased. After that the blocks
of the sector start elsewhere, and a strike at the old address may hit any byte
of any block, its length too, so that a scan may take data for a meta field.
`mark` is `Gone` then, and a strike at it (`StrikeGone`) ends what the model says
of this store: `pc` is `lost` from there on. The RAM
variables are those of the code (`work`, `mark`), `cache` is the map of
`TagCache`, and `job`, `pc`, `gcRead`, `gcWrite` are the local variables and the
place of a call in progress.

| Code | Actions |
|---|---|
| `search_tlv` on an unmounted store, `find_valid_sector` | `Mount` |
| `flash_tlv_format` | `FormatErase`, `FormatHeader` |
| `flash_tlv_query` | `Query` (a query that changes nothing is a stutter) |
| `flash_tlv_delete` | `Delete` |
| `flash_tlv_append`, its search | `AppendInPlace`, `AppendCollect`, `AppendFull` |
| `flash_tlv_gc` | `GcErase`, `GcCopy`, `GcSkip`, then `GcCommit` inside `GcPlace` or `GcFull` |
| `flash_tlv_append`, its writes | `WriteMeta`, `WriteData`, `CheckFails`, `ConfirmNew`, `ConfirmOver`, `StrikeMark`, `StrikeGone` |
| a store that a strike may have damaged anywhere | `Lost` |
| a loss of power | `PowerLoss`, with what `Interrupted` says of the operation under way |

There is one action for each flash operation, so that power can be lost
between any two. Inside an operation: a meta field may be cut short (`Bad`),
data may be cut short (`Junk`), a header may have its magic number and lack
bytes of its version (`TornVersions`; missing bytes read as 0xFF). An erasure is
taken to be atomic, and a byte to be programmed completely or not at all. With
`ProgramFaults` the programming of data may go wrong without a loss of power.

`TagStore` is a map from tags to values with atomic appends and deletions, of
which nothing else shows: no sectors, blocks or collections. The code keeps less
than one would want of such a map, and `TagStore` says exactly how much less.
After an append over a record was interrupted the tag is *vague*, because two
blocks are live, and appends and deletions of it may not do what they
acknowledge. After a refused append the store may be *armed*: `mark_address`
is left behind. As long as its sector is not erased the store is armed `stale`,
and the next append that succeeds may delete one record of any tag. Once a
collection has erased that sector it is armed `wild`, and the next append that
succeeds loses the store: nothing is promised to any tag from then on. Outside
these situations the map is exact, over all collections and losses of power, and
this is what `ImplementsTagStore` checks and `StoreRefinement` proves.

### FlashTlvCache

`slots` and `cursor` are the fields of `cache_obj_t`. `FlashTlv` does not use
the slots but the map of `TagCache`, in which any entry may be evicted;
`ImplementsTagCache` justifies that.

### RequestHandler and EpdDriver

A driver state is a record, and an operation of `ssd1680.c` a function on it, so
that a handler that calls four of them is one action, as it is one
uninterrupted run in the code. `queue` holds the messages of the kernel:
requests for the profile task, and messages for the tasks that handlers
created. Each handler is an action of its name, and each branch of
`async_task` is one (`FlushDisplay`, `EraseFlash`, `AppendConfig`, `QueryConfig`,
`RemoveConfig`). All but `QueryOverruns` end in `Ends`, which deletes the task of `async_task_id`,
whichever that is by then. `EpdCounts` and `EpdEnds` are the two branches of
`epd_timer_callback`, once a second; `Reboot` is a loss of power, which may
happen between the two sectors of an erasure, and the boot after it.

`asked`, `answers`, `told` and `clashes` are history variables: the requests
since the boot, what was notified for each of them, how many ends of a flush
were told, and how often a task was created while another one's message was
waiting. The code does not read them.

Of the store the module keeps what requests can tell. In flash these are the
records and headers of the two sectors and which one is in use; in RAM, the tag
and the sector of the block at `mark_address` (`mark`) and what the cache hands
out for each tag (`cached`). An append may collect before it finds room or is
refused (`Collected`, `Located`), leaves `mark` set when it is refused
(`Refused`), and strikes what `mark` leads to when it succeeds (`Struck`), be it
another tag's record. `Wiped` is an erase: `mark` and `cached` are not told, so
that they lead to erased cells, and to anything once the sector is written
again (`Refilled`). A boot searches for the records it needs (`BootTags`), which
caches them (`ReadAtBoot`). A strike in an erased sector loses the store (`lost`), which answers
anything from then on. `FlashTlv` has the rest.

A `READ_CONFIG` copies the record behind its answer's header into the 256 bytes of
`shared_tx_buffer`, and compares nothing. `QueryOverruns` is the read of a value
in `Overlong`, or of a cached block that was erased, whose length reads as 0xFFFF.
RAM is `ruined` then, and nothing is modelled up to the next boot.

### Connection

`saving` says whether the parameters in force save power, `ongoing` whether an
update is under way in the stack, `sleep` which of `appm_sleep_start` and
`appm_sleep_stop` was called last. Timers fire at any moment after they were
armed, which includes the times the code gives them. Disconnections and late
reports on updates of an earlier connection happen in every order, and power
may be lost at any moment (`Restart`).

### Device

`records` are the three configuration records in flash, `booted` is a history
variable: what they were at the last boot. `sysinfo` and `address` are what the
boot makes of them; `AfterMac`, `BootInterval` and `BootName` follow the one
buffer through the three reads, with `junk` as what it holds at first. `advert`
is what `epaper_start_advertising` last told the stack. A phone that is or was
connected changes records (`ChangesRecord`): that is the end of a
`WRITE_CONFIG` or `DELETE_CONFIG` of `RequestHandler`, whose task may run after
the phone has left. Each action of `Connection` is conjoined with what its
handler does to the settings.

Records are any the run's `Writes` name, of any length: `write_config` takes the
length from the packet and does not compare it with what arrived. A name longer
than the buffer of the boot is read over its end (`NameOverrun`), and what the
build makes of that is undefined: in the model the boot goes on with what is in
the buffer, or never comes to advertise. `AdvertisesTheBoot` does not speak of
such a boot; all other properties do.

### Panel, PanelBus and PanelLink

`EpdDriver` has the time a refresh takes and knows a picture as a model value.
These three modules have the picture itself. `Panel` translates the frame buffer
into the two planes (`BitScale`), has the commands of `epd_open`, `epd_flush`
and `epd_sleep` with their data, and what the SSD1680 makes of bytes: a window,
two counters, two RAMs, deep sleep. `PanelBus` has the driver's calls; each
sends its bytes to its end, and each byte arrives as the command or the data it
was sent as. `PanelLink` has the wires. A call is a program of steps (`prog`)
that the processor executes one by one. In the build with `softspi.c` the steps
move CS, SCLK and MOSI, and the panel collects bits in `latch`; in the build
with the SSP they put bytes into `fifo`, from which the SSP takes them while the
processor goes on, to move D/C for instance. `Remaining`, the bytes of `fifo`
and of the rest of `prog`, is the `todo` of `PanelBus` in the refinement.

The panel looks at D/C when the last bit of a byte arrives, and forgets an
incomplete byte when CS rises; the SSP handles CS itself, takes bytes while it
is disabled, shifts them while it is enabled, and a byte never in part. The
depth of its FIFO is not limited: `ssp_put_data_x` waits for room.

### Checksum

One record is written, then bits of it rot, and it is verified, chunk by chunk,
again and again. `Remainder`, the reference, divides bit by bit by the
polynomial that a comment names. The tag is among the bits that rot, so that the
record of one tag would be found as another's; the length is not, because a
verification with another length reads other bytes, of which a checksum says
nothing.

## 3. The runs

| Run | Bounds | What it shows |
|---|---|---|
| `store_safety` | 2 tags, values of 1 and 2 cells, 5 cells, a cache of 1 slot, versions of 2 digits of base 2 | well-formed log, where `mark_address` leads, boots, collections, room, and that the cache stays exact, with named exceptions |
| `store_refines` | values of 0 and 1 cells, 3 cells, faults of programming | `FlashTlv` implements `TagStore` |
| `store_live` | 1 tag, 1 value, 4 cells | calls return |
| `cache_slots` | 3 slots, 4 tags, 2 addresses, ages to 3 | slots implement the map |
| `request_panel` | 5 requests of 3 kinds, 3 task ids | tasks, answers, refreshes and what is told of them |
| `request_live` | 2 requests between two boots, all handlers, 1 task id, 2 tags, 2 values of which one is too long to be read | requests settle, refreshes end; what changes a record, with collections, stale strikes and erasures |
| `device` | 2 addresses, 2 intervals, 4 names, 2 contents of the uninitialised buffer; any number of boots and connections | settings and advertisement; negotiation and sleep |
| `panel_link` | 3 rows of 2 bytes on a panel of 4 rows of 3, 2 frames, both builds | the picture arrives, calls end, the wires implement the bus |
| `checksum` | 3 records of 0, 4 and 5 bytes, chunks of 4; 3 bits anywhere or a burst of 8 | the table, the agreement of append and verify, what is detected |
| `wrong_record_struck`, `cache_wrong_block`, `short_write_stores` | | a comment of the code and what the code does differ |

**Why the bounds are enough.** Three to six cells hold two to three blocks with
a rest that fits no more: every collection, every refusal and every stale
address needs no more than that, and the history of a sector is unbounded,
because nothing but its size limits how many calls a behaviour makes. Versions
of two binary digits wrap after four collections, and have all the headers of
which one digit is missing. A wrong strike takes two tags. Three task ids are
more than overlap in the shortest way to a torn picture, which needs three
requests; five requests let that happen and be followed by others. The two
times of the panel are kept small but in their order: a refresh is not longer
than its timeout (2 and 2 for 25 and 26 seconds), and what is left of the wait
of a reset can be shorter or longer than it (0 to 3). That is so in
`request_panel`; in `request_live`, with two requests and times of 1, no refresh
is reopened while it lasts, so that `RefreshEnds` is about the timer alone. Its
one task id leaves out two tasks that wait together, which `request_panel` has and
`RequestsSettle` exempts; a second request is answered `TASK_ERR`. Two requests
between two boots are enough for the records, because these outlive a boot: a
refused write and one that strikes, in a sector that is still there or, after two
collections, in one that was erased; or an erasure and a read of what the boot
has cached.

The records of `device` are chosen at the boundaries: an address whose last
bytes are a legal interval (they are what a short interval record leaves in the
buffer) and one that is too short; the lowest legal interval at the front of a
record longer than what is read of it, and half an interval; a name that fills
its 32 bytes, one that just fits the scan response, an empty one, and one of 33
letters, which overruns the buffer. The panel of
`panel_link` is larger than the picture in both directions, so that a wrong
window, a counter that is not reset and a wrong wrap all show; its second frame
has pixels of every value in different places of a byte. A checksum of 8 bits
says the same of records of any length up to 127 bits for two or three flipped
bits, and of any length for bursts; the run has its records below that bound.

**Symmetry and views.** Tags, task ids, and the tags and addresses of the cache
are interchangeable: no operator chooses one of them, and the properties of the
runs with symmetry are invariants, action properties or safety refinements; the
runs with liveness use neither symmetry nor a view. The view `CellsInUse` leaves
out the cells of the sector not in use that nothing will read before it is
erased. Every property that is checked with it speaks of cells that the view
keeps.

**Deadlock** is checked in every run.

**Fairness.** `FlashTlv` has weak fairness of `Proceed`, the steps inside a
call: the processor goes on. Nothing makes a client call, and `PowerLoss` and
calls are not fair. `RequestHandler` has weak fairness of the kernel's delivery
of messages and of the armed panel timer. `Connection` has weak fairness of its
timer and of the stack's report on an update, and `Device` the same.
`PanelLink` has weak fairness of the processor's steps and of the SSP, which
shifts as long as it is enabled and has bytes; `CallsEnd` says nothing of a tag
that loses its power again and again. The kernel's queue and timers are
not in the repository; `os_msg_post` and `os_timer_arm` are used on just these
terms.

### What the runs found

1. `mark_address` outlives the append that set it. A refused append returns
   without clearing it (`flash_tlv.c:103`), and the next append that succeeds
   strikes the record of another tag (`OthersUntouched`). If a collection has
   erased its sector in between, the strike (`flash_tlv.c:147`) hits any byte.
2. The cache is not told of collections: after a second one it hands out blocks
   of other tags (`CachedIsOfTag`).
3. A `WRITE_CONFIG` packet that is too short is answered with an error and then
   stored (`ShortWriteStoresNothing`).

Others are stated as the exact limit of a property that holds.
An append over a record that is interrupted leaves two live blocks; a later
deletion strikes one, answers that the record is deleted, and uncovers the other
(`TagStore`, the vague tags of `Delete`).
`async_task_id` is shared by all tasks, so overlapping requests lose requests and task ids, no
more than one for each overlap (`TasksAccounted`, `LostOnlyByOverlap`). Three
overlapping flushes tear a picture (`TornOnlyByOverlaps`). The user space of
`ERASE_FLASH` begins with the sectors of the store, and the write of one tag
changes another one's record after a refused write of it (`RecordsAccounted`).
The cache is not told of an erasure: a record that was cached has a length of
0xFFFF then (`flash_tlv_cache.c:21`), and its read copies as many bytes into a
buffer of 256 (`request_handler.c:336`). So does the read of a record that is too
long, for `write_config` stores any length; even one that fits may be longer than
the 8 bits of `extra_length` can say. This is why `RequestsSettle` and `RefreshEnds`
make an exception of `ruined`.
A record of an address or an interval that is too short leaves what was in the
buffer (`SettingsAreRecorded`, `BootsAlike`); a name of 32 letters gains the flag
byte as its last letter, and names of more than 28 do not fit a scan response,
which "scan response maximum 31 bytes" (`epaper_svc.c:186`) says and nothing
compares; one of more than 32 overruns the buffer of the boot (`AdvertisesTheBoot`). The missing backslash in the Y window of
`epd_open` (`ssd1680.c:120` and `:122`) does no harm to the panel that
`ssd1680.h` selects; the taller one, `EPD128X296`, needs a 1 where it gets an
even number.

## 4. The proofs

All proofs are checked to their leaves by `tlapm`. They assume the named
assumptions of the modules (sizes are natural numbers, the marker values are not
values, there is one empty value, `RefreshTime \in 1..FlushTicks`), which TLC
evaluates in the runs.

* **`FlashTlvProofs`**: `TypeCorrect` (`[]TypeOK`) and `WorkIsFound`
  (`[]BootFindsWork`), for every sector size and every base of the version.
  `BootFindsWork` alone is not inductive: that a format or a collection ends
  with the header that wins needs to know what the headers are while `pc` is
  inside them. The inductive invariant is `TypeOK`, `CallInv` (what each `pc`
  says of `work`, `job`, `mark` and the two positions of a collection) and
  `HeaderInv` (`BootFindsWork`, and no sector has a header while the store is
  formatted). The step that needs the arithmetic is `GcCommit`: `Newer` prefers
  `NextVersion(v)` to `v` for every `v`, at the wrap too.
  The second part of the module is the log itself, for every sector size and all
  lengths of values: `LogAlwaysTiled`, `MarkIsAlwaysBlock`, `CompactionAlwaysAdvances`,
  `CopyAlwaysFaithful`, `RefusedOnlyEverWhenFull`. What the scans of the code compute (`Starts`,
  `Tail`) are recursive functions. Induction is done once, in `ScanExists` and
  `ScanUnique`, by the least and the greatest element of a set of positions:
  `Starts` and `Tail` are the only solution of `Scan`, a set of positions each of
  which is followed by the next block or the end. From then on a write is either
  a retouch of a sector (the same blocks, `RetouchedScan`) or one block more
  (`LongerScan`). The invariant `LInv` is the first one with
  `LogInv`: both sectors are tiled, a new block goes where the scan ends, and
  during a collection (`Copying`) the new sector answers for every tag what the
  blocks read so far answer, and has as many cells as those blocks have committed.
  The last is what makes a refusal after a collection an honest one. `MarkInv` is
  `MarkIsBlock`, and that during a collection `mark_address` is in the sector that
  is read, if it is an address at all: no write takes a block from under it, only
  the erase of its sector does. All of it holds until a strike after such an erase; `LogAlwaysTiled` says
  nothing of a store that is lost.
* **`FlashStoreProofs`**: `StoreRefinement`, `Spec => ImplementsTagStore`, under
  the refinement mapping that the run checks: what a search would find in the
  sector in use, or in the one that a reboot would find; the append in progress;
  the tags with two live blocks besides the one being written; whether
  `mark_address` is stale. Lemmas say what each kind of write does to what is found in a
  sector (`GrownFound`, `FilledFound`, `ConfirmedFound`, `StruckFound`, ...), one lemma
  per action of `TagStore` what has to be shown for it (`BeginSeen`, `AcceptSeen`,
  ...), and one per action of `FlashTlv` which of them it is. The invariant `RInv`
  is `LInv` with `StoreInv`. The block at `job.at` describes the record that is
  appended and is committed only in `wr_delete` (`BlockWritten`). While an append
  writes, the address to strike is that of the last old block of the tag, if there
  is one (`MarksOld`): this is why a tag with one live block always gets its new
  value, and why one with several may not. A collection copies as many blocks of
  each tag as it has read (`SameCounts`), so that a switch of sectors, cut short
  or not, makes no tag vague. A stale address whose sector was not erased leads to
  a block (`MarkIsBlock`), which is of one tag (`StruckFound`), so that at most one
  other tag loses its record. Of one whose sector was erased nothing is proved:
  the abstract store is lost with the first strike at it. `CacheStaysExactAlways` rests on the same facts: each kind
  of write is followed through what is read at an address (`Read`, `ReadsKept`) and
  not only through what a search finds. Its invariant `CInv` adds that nothing is
  cached by a store that is not mounted, and `LastBlock`: the block being written
  is the last one, with nothing in its data cells until they are programmed, so
  that an address remembered before does not reach into it.
* **`FlashTlvCacheProofs`**: `SlotsTyped` and `OneSlotPerTagAlways` from the
  invariant `SInv` (types, no tag twice, unused slots are zero), and `CacheRefinement`: every step
  on the slots is a step of the bounded map, or a stutter. An eviction needs the
  most: the victim may be valid or not, and the number of valid entries is
  bounded by the slots.
* **`RequestHandlerProofs`**: the panel and the records. The invariant `KInv` is
  `PInv` (`RefreshCovered`, `IdleIsAsleep`, a busy driver has its timer armed,
  the driver's record has its type), `QInv` (every message of the queue is about
  a request that arrived), `PictureKept` (while the driver is busy the panel's
  memory holds the frame buffer, the panel is awake, and once it is ready it
  shows that picture or a torn one) and the type of the store. The proof goes
  operation by operation through the driver (`OpenedFacts`, `FlushFacts`,
  `SecondFacts`, ...), then says what any step does to the panel (`PanelKinds`)
  and to the store (`StoreKinds`). `RefreshCoveredAlways`, `IdleIsAsleepAlways`
  and `DoneIsAlwaysShown` follow.
  The second part of the module has the accounts, for any number of requests and
  task ids: `TypeCorrect`, `TasksAlwaysAccounted`, `LostOnlyEverByOverlap`,
  `DoneWasAlwaysAsked`, `TornOnlyEverByOverlaps`. None of them is inductive.
  A task that runs gives back `async_task_id` and not its own id, so what is lost
  depends on the order in which the waiting tasks run. What makes the account
  close is `NewestWaitsLast`: `async` is the id of the last message that waits.
  All tasks but the newest that is waited for have been paid for by an overlap
  (`IdsLost`), and so have all answers missing or yet to go missing
  (`AnswersLost`). `TornOnlyEverByOverlaps` needs `FlushesGuarded`: while the
  driver is busy and there was at most one overlap, no task of another flush that
  waits has its id in use. `DoneWasAlwaysAsked` needs that a request is in one
  message only and is not answered OK before its turn (`OneMessage`,
  `PendingNotDone`). `RecordsAlwaysAccounted` needs `MarkRefused`: between two
  handlers `mark` leads to no record but that of a tag whose write was refused
  since the boot, for every append that succeeds clears it. TLC checked each part
  before it was proved.
  `RequestsAssumption` says of requests what `request_handler.c` can tell apart:
  images and records are those of the module, a range of an erase is good or has
  one of two errors.
* **`DeviceProofs`**: first the connection: `NegotiationAlwaysContinues`, with an
  invariant that adds that an update is asked for with an interval of 6 or 9 only,
  and the action property `AlwaysAwakeWhileNegotiating`, which follows by the steps.
  A step of the device is a step of the connection or leaves
  it alone (`DeviceStep`), so these theorems hold of the device: `DeviceNegotiates`, `DeviceAwakeWhileNegotiating`. The invariant `DInv`
  adds the types of records, settings and address (`DeviceTyped`),
  `FlagsAlwaysAgree` and `SettingsAreAlwaysRecorded`; the last needs what is left
  in the buffer of the boot after each read (`ReadFacts`, `MemswapFacts`,
  `AfterMacFacts`, `IntervalSaid`). `BootAlwaysAdvertised` is inductive with two
  more parts: the name in RAM is the record's with zeros behind it, and a phone
  is connected only while there is a link, so that the flags behind a name of 32
  letters are 0 or 1 whenever they are read (`BleNameFacts`, `AdvertisementFacts`).
  It is about every boot whose name record has at most 32 bytes, an empty one too.
  `BootsAlwaysAlike` follows from the invariant before and after the boot.
  All of it is for every set `Writes` of records of bytes, of any length, and every
  content of the uninitialised buffer (`WritesAssumption`).

* **`PanelBusProofs`**: the picture, byte by byte, on the bus: `PictureAlwaysArrives`
  and `IdleAlwaysSleeps` for every size of panel that `SizeAssumption` allows and
  every content of the frame buffer. What a call sends is a concatenation of
  commands; `FlattenIs` and `FlattenUnique` say what `FlattenSeq` is (the least
  element of a set of positions does the induction once), and `FlatMapConcat`
  takes it apart. The invariant `Inv` says at which byte of which call the driver
  is: `Booting`, `Refreshing`, `Reopening` or `Sleeping` at byte k, `Ahead` for what is still to
  be sent, and for each k what the bytes before it made of the panel. Of the 27
  bytes of `epd_open` this is a table; of a plane it is the position of the
  counters in the window and the cells written so far. At the end of the first plane the
  counters have wrapped, so that the second begins in the same cell. Then each
  bit of a cell is that of the pixel (`BitScale` and `ShownColor` are inverse).
  `Reopening` is where the property could fail: a second `epd_open` during a refresh
  resets everything but the RAMs and the picture.
* **`PanelLinkProofs`**: `LinkIsTyped`, the refinement `LinkImplementsBus`, and from
  it and `PanelBusProofs` the theorems `PictureAlwaysArrives` and `IdleAlwaysSleeps` of
  the wires, in both builds and for every chunk size. A call is a program, put together from parts.
  `Moves(sf, A, p, x, Z)` says of a part p that from any lines in A (D/C, CS, bytes
  put since the last wait) it can be run, ends in Z, and delivers x; it is shown of
  each kind of step, composed over concatenations (`MovesBoth`, `MovesAll`), and so
  of `SoftspiWrite`, the commands, the planes, the chunks and the four calls. The
  invariant `LinkInv` then needs no word about calls: the rest of the program can run from
  where the wires are (`Lined`), what waits in the FIFO is meant as D/C says
  (`Queued`), the panel has the first bits of the present byte (`Shifting`), and
  each build uses its own way (`Apart`). `ImplementsPanelBus` alone is not
  inductive, for D/C may be moved only because the program waited before it.
  The eighth bit delivers the byte since its bits add up to it (`BitsAre`).

* **`ChecksumProofs`**: `TableIsPolynomial`, `SoundIsAccepted` and
  `DamageIsRejected`, for all records and every chunk size. A byte is a word of
  eight bits (`Word`, `Value`), where `XorByte` is addition of bits and a step of the
  division by the polynomial (`Shl`) a shift and three additions, so that both are
  linear. An entry of the table is eight steps of the division: those of
  2v and 2v + 1 follow from that of v (`TableDoubles`, `TableIs`). So `calc_crc8` over bytes is
  the division of their bits (`Rests`), in any chunks, and what is left of two
  rows of bits added is the sum of what is left of each. The
  invariant, also called `CInv`, says that the bits of what was stored, checksum
  included, leave nothing, that what is in flash differs from it just in `rotten`, and how
  far a verification has got. It accepts if and only if ones at the rotten places
  leave nothing (`VerdictIs`). Ones within eight places
  leave something because they have not yet left the byte of the remainder, and
  a shift by zeros never makes a nonzero remainder zero; an odd number of ones does
  because the polynomial has an even number of terms, so the parity of the bits
  is kept; two do while they are less than 127 places apart,
  the order of 2 among the bytes (`Powers` lists it). `DamageIsRejected` therefore
  has the hypothesis `Detectable`: bursts of at most 8 bits; and at most one bit
  anywhere, or at most three in records of up to 10 bytes of data. Longer records
  do lose two bits that are 127 apart, and four bits can spell the polynomial: the
  code promises no more, and the instance of the run is within it.

All three refinements are proved, and every invariant and every action property
that a passing run checks.

Only model-checked: the runs that expect a violation, and all liveness, which is
out of the prover's reach.

## 5. What is not modelled

* `epd_clear`, `calc_crc32`: nothing calls them. `flash_tlv_verify` is not
  called either, but a client may: it is in `Checksum`. `dirty_blocks` is not
  a variable: a search sets it before anything reads it, so `Dirty` computes it.
* In `FlashTlv`: what becomes of a store after a strike at a `mark_address` of an
  erased sector (`pc` is `lost`), and the checksum field.
* An erasure cut short. The code has no defence that could be checked.
* Contents of requests other than the configuration records: payloads are model
  values. The table of lengths in `read_hardware_info` (`request_handler.c:158-170`)
  is about contents.
* What a tag does whose RAM was overrun: after a read that is longer than the
  transmit buffer (`ruined`, up to the next boot), and after a name longer than the
  32 bytes of the boot's buffer but for the cases `Device` has. The 8 bits of
  `extra_length` in the answer of a read. `os_malloc` failing in `epd_flush`.
* In `RequestHandler`: two live blocks of one tag, which `FlashTlv` has.
* Two exemptions. `NegotiationContinues` and `SettlesToSleep` do not speak of a
  connection whose parameters the phone chose; `AwakeWhileNegotiating` leaves out
  the timer of the boot, which puts the tag to sleep whoever is connected by then.
* The picture of a panel of more than 256 rows (`PanelHeight`; the real one has
  296): no case of the driver depends on it. A panel that has lost its power comes
  back in one fixed state of its registers in `PanelLink`.
* Attribute reads and information requests of the BLE service (answered from
  constants) and the constant bytes of the advertising data.
* The SDK, the panel and the phone, but for what the code relies on: these
  definitions are marked external in `PROJECT.json`.
* `driver_efuse.c` and `systick.c`: registers, no state. Build and project files.

## 6. The plan

Done: the store and its cache, the requests with the panel, the connection, the
boot with its settings and the advertisement, the picture down to the wires, the
checksum; three refinements, and every invariant and action property of a passing
run, all of them proved.

Next, in this order:

1. `TagService`: `Device` and `RequestHandler` together: notifications to a
   phone that has left or changed, sleep during a refresh.
2. `RequestSpec`: an abstract service (each request answered once, in order)
   which `RequestHandler` implements as long as no two tasks overlap.

## 7. Running the checks

    tlc -config MCFlashTlvSafety.cfg MCFlashTlv     # and so on, see PROJECT.json
    tlapm FlashTlvProofs.tla
