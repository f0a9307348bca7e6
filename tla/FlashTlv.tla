------------------------------ MODULE FlashTlv ------------------------------
(***************************************************************************)
(* The tag-length-value record store of kvdb/flash_tlv.c: a log of blocks  *)
(* in one of two flash sectors, compacted into the other sector when it is *)
(* full.  One action per step that programs or erases flash, so that power *)
(* can be lost between any two of them and inside the longer ones.         *)
(*                                                                         *)
(* Abstractions:                                                           *)
(*  - A sector is an array of cells.  A block is one meta cell (8 bytes)   *)
(*    and Len[v] data cells, and blocks follow each other without gaps.    *)
(*    Where a block starts, in bytes, is of no account while every access  *)
(*    is to a block at its start: true of all but a strike at a            *)
(*    mark_address whose sector has been erased since.  Blocks have other  *)
(*    starts then, the strike can hit any byte of any block, and a scan    *)
(*    may take data for a meta field from there on.  Such an address is    *)
(*    Gone, and after the strike (pc = "lost") the model follows the       *)
(*    store no further: nothing is said of it any more.                    *)
(*  - The cells of a value are told apart from rubbish (Junk), not from    *)
(*    one another.                                                         *)
(*  - Flash is NOR: programming clears bits, in the order of addresses; an *)
(*    erase sets them all and is atomic.  One byte is programmed           *)
(*    atomically.                                                          *)
(*  - A 16-bit version is two digits of base ByteBase, so that the wrap    *)
(*    and a header of which one byte is missing are within reach.          *)
(*  - The firmware has one thread: operations do not overlap, and a record *)
(*    is looked up (Query) between them.                                   *)
(***************************************************************************)
EXTENDS TagCache

CONSTANTS
  Values,        \* the contents a record may have
  Len,           \* the length of a value, in cells
  Capacity,      \* cells in a sector, its header not counted
  ByteBase,      \* 256 in the code
  UseCache,      \* FLASH_TLV_USE_CACHE
  ProgramFaults, \* may programming a data cell go wrong
  NoValue,       \* "no such record"
  Junk,          \* data cells that were not completely programmed
  Gone           \* a mark_address into a sector that was erased since

ASSUME CapacityAssumption == Capacity \in Nat \ {0}
ASSUME LenAssumption == Len \in [Values -> Nat]
(* There is one empty value. *)
ASSUME EmptyAssumption == \A v, w \in Values : Len[v] = 0 /\ Len[w] = 0 => v = w
ASSUME ByteBaseAssumption == ByteBase \in Nat /\ ByteBase >= 2
ASSUME SwitchAssumption == UseCache \in BOOLEAN /\ ProgramFaults \in BOOLEAN
ASSUME NilAssumption ==
  /\ Nil \notin [sec : {"major", "minor"}, off : 0..(Capacity - 1)]
  /\ Nil \notin {"major", "minor"}
  /\ Nil \notin [tag : Tags, val : Values, at : 0..Capacity]
  /\ Nil \notin [tag : Tags, val : Values, done : BOOLEAN]
  /\ Junk \notin Values /\ NoValue \notin Values \cup {Junk}
  /\ Gone \notin [sec : {"major", "minor"}, off : 0..(Capacity - 1)] \cup {Nil}

VARIABLES
  flash,    \* the cells of the two sectors
  hdr,      \* their headers: is the magic number there, and which version
  work,     \* sector->work_sector, Nil for INVALID_ADDRESS
  mark,     \* sector->mark_address, Nil for 0
  cache,    \* tlv_cache
  job,      \* the record flash_tlv_append() is writing, Nil outside it
  pc,       \* where the call in progress is
  gcRead,   \* read_addr and write_addr of flash_tlv_gc(), as offsets
  gcWrite,
  ret       \* how the last flash_tlv_append() or flash_tlv_delete() ended

flashVars == <<flash, hdr>>
gcVars == <<gcRead, gcWrite>>
vars == <<flash, hdr, work, mark, cache, job, pc, gcRead, gcWrite, ret>>

Sector == {"major", "minor"}
Other(s) == CHOOSE o \in Sector : o # s
Offset == 0..(Capacity - 1)
Address == [sec : Sector, off : Offset]

(***************************************************************************)
(* Cells and headers.                                                      *)
(***************************************************************************)
Status == {"write", "verify", "delete"}

Blank == [kind |-> "blank"]
Bad == [kind |-> "bad"]       \* a meta field cut short: never a valid one
Meta(t, n, st) == [kind |-> "meta", tag |-> t, len |-> n, status |-> st]
Data(v) == [kind |-> "data", val |-> v]

Cell == [kind : {"blank", "bad"}]
        \cup [kind : {"meta"}, tag : Tags, len : Nat, status : Status]
        \cup [kind : {"data"}, val : Values \cup {Junk}]

VersionMax == ByteBase * ByteBase - 1
Header == [valid : BOOLEAN, version : 0..VersionMax]
NoHeader == [valid |-> FALSE, version |-> VersionMax]
Erased == [i \in Offset |-> Blank]

(* flash_write() of cell d over cell c *)
Program(c, d) == IF c = Blank THEN d ELSE Data(Junk)

(* The status byte of a block set to TLV_STATE_DELETE: c is a meta cell.   *)
Strike(c) == [c EXCEPT !.status = "delete"]

(***************************************************************************)
(* Reading a sector: b is the array of its cells.                          *)
(***************************************************************************)
(* check_tlv_block(), for a cell that is not empty *)
GoodMeta(b, i) == b[i].kind = "meta" /\ b[i].len <= Capacity - i - 1

IsBlock(b, i) == i < Capacity /\ b[i].kind # "blank"

(* Mutant of Span: an uncommitted block is taken for its meta cell only. *)
BugSpan(b, i) ==
  IF b[i].kind = "meta" /\ b[i].status = "write" THEN 1
  ELSE IF GoodMeta(b, i) THEN 1 + b[i].len ELSE 1

Span(b, i) == IF GoodMeta(b, i) THEN 1 + b[i].len ELSE 1

(* The positions search_tlv() stops over at, from p on, ... *)
Starts(b) ==
  LET from[p \in 0..Capacity] ==
        IF IsBlock(b, p) THEN {p} \cup from[p + Span(b, p)] ELSE {}
  IN  from[0]

(* ... and where it ends, at a blank cell or the end: the free space. *)
Tail(b) ==
  LET end[p \in 0..Capacity] ==
        IF IsBlock(b, p) THEN end[p + Span(b, p)] ELSE p
  IN  end[0]

Blocks(b, t) == {i \in Starts(b) \cap Offset : GoodMeta(b, i) /\ b[i].tag = t}
Live(b, t) == {i \in Blocks(b, t) : b[i].status # "delete"}
Verified(b, t) == {i \in Blocks(b, t) : b[i].status = "verify"}

(* Mutant of Dirty: only deleted blocks count. *)
BugDirty(b) == {i \in Starts(b) : GoodMeta(b, i) /\ b[i].status = "delete"}

(* sector->dirty_blocks after a scan; nothing reads the field before it    *)
(* has been set by the scan of the same flash_tlv_append().                *)
Dirty(b) == {i \in Starts(b) : ~(GoodMeta(b, i) /\ b[i].status = "verify")}

IsFirst(S, i) == i \in S /\ \A j \in S : i <= j
IsLast(S, i) == i \in S /\ \A j \in S : j <= i

Fits(i, v) == i + 1 + Len[v] <= Capacity

(***************************************************************************)
(* find_valid_sector(): the sector whose version is the later one.         *)
(***************************************************************************)
(* Mutant of NextVersion: the version does not wrap. *)
BugNextVersion(v) == v + 1

NextVersion(v) == IF v = VersionMax THEN 0 ELSE v + 1

(* Mutant of Newer: no special case for the wrap. *)
BugNewer(v, w) == v > w

Newer(v, w) == IF {v, w} = {0, VersionMax} THEN v = 0 ELSE v > w

FindValid(h) ==
  CASE h["major"].valid /\ h["minor"].valid ->
         IF Newer(h["major"].version, h["minor"].version) THEN "major" ELSE "minor"
    [] h["major"].valid /\ ~h["minor"].valid -> "major"
    [] ~h["major"].valid /\ h["minor"].valid -> "minor"
    [] OTHER -> Nil

-----------------------------------------------------------------------------
Init ==
  /\ flash = [s \in Sector |-> Erased]
  /\ hdr = [s \in Sector |-> NoHeader]
  /\ work = Nil
  /\ mark = Nil
  /\ cache = EmptyCache
  /\ job = Nil
  /\ pc = "boot"
  /\ gcRead = 0
  /\ gcWrite = 0
  /\ ret = "none"

(* The first search after a boot looks for the work sector: there is one,  *)
(* or both sectors are formatted.                                          *)
Mount ==
  /\ pc = "boot"
  /\ FindValid(hdr) # Nil
  /\ work' = FindValid(hdr)
  /\ pc' = "idle"
  /\ UNCHANGED <<flashVars, mark, cache, job, gcVars, ret>>

FormatErase ==
  /\ pc = "boot"
  /\ FindValid(hdr) = Nil
  /\ flash' = [s \in Sector |-> Erased]
  /\ hdr' = [s \in Sector |-> NoHeader]
  /\ pc' = "format"
  /\ UNCHANGED <<work, mark, cache, job, gcVars, ret>>

FormatHeader ==
  /\ pc = "format"
  /\ hdr' = [hdr EXCEPT !["major"] = [valid |-> TRUE, version |-> 0]]
  /\ work' = "major"
  /\ cache' = EmptyCache
  /\ pc' = "idle"
  /\ UNCHANGED <<flash, mark, job, gcVars, ret>>

(* flash_tlv_query(t) when the record is found by a search: it is cached.  *)
(* A query answered from the cache, or in vain, changes no state.          *)
Query(t) ==
  /\ pc = "idle"
  /\ UseCache
  /\ ~Cached(cache, t)
  /\ \E i \in Offset :
       /\ IsFirst(Verified(flash[work], t), i)
       /\ Remember(cache, t, [sec |-> work, off |-> i], cache')
  /\ UNCHANGED <<flashVars, work, mark, job, pc, gcVars, ret>>

(* flash_tlv_delete(t): the first block that is not deleted, committed or  *)
(* not, is struck.                                                         *)
DeleteFirst(t) ==
  \E i \in Offset :
    /\ IsFirst(Live(flash[work], t), i)
    /\ flash' = [flash EXCEPT ![work][i] = Strike(@)]
    /\ ret' = "ok"

DeleteNothing(t) ==
  /\ Live(flash[work], t) = {}
  /\ ret' = "fail"
  /\ UNCHANGED flash

Delete(t) ==
  /\ pc = "idle"
  /\ cache' = Forget(cache, t)
  /\ DeleteFirst(t) \/ DeleteNothing(t)
  /\ UNCHANGED <<hdr, work, mark, job, pc, gcVars>>

(***************************************************************************)
(* flash_tlv_append(t, v).                                                 *)
(***************************************************************************)
(* Mutant of Marks: the address of the data is remembered, which is where  *)
(* the search reads on.                                                    *)
BugMarks(s, t) ==
  \/ /\ Live(flash[s], t) = {}
     /\ mark' = mark
  \/ \E i \in Offset :
       /\ IsLast(Live(flash[s], t), i)
       /\ mark' = [sec |-> s, off |-> i + 1]

(* search_tlv(TLV_BLOCK_APPEND) on sector s passes the live blocks of t:   *)
(* mark_address is the last of them, or stays what it was.                 *)
Marks(s, t) ==
  \/ /\ Live(flash[s], t) = {}
     /\ mark' = mark
  \/ \E i \in Offset :
       /\ IsLast(Live(flash[s], t), i)
       /\ mark' = [sec |-> s, off |-> i]

(* The append ends: job' and pc' of every return statement. *)
Return(r) ==
  /\ ret' = r
  /\ job' = Nil
  /\ pc' = "idle"

Place(t, v, i) ==
  /\ job' = [tag |-> t, val |-> v, at |-> i]
  /\ pc' = "wr_meta"
  /\ ret' = "none"

AppendInPlace(t, v) ==
  /\ pc = "idle"
  /\ Marks(work, t)
  /\ \E i \in Offset : i = Tail(flash[work]) /\ Fits(i, v) /\ Place(t, v, i)
  /\ UNCHANGED <<flashVars, work, cache, gcVars>>

(* No room, but flash_tlv_gc() finds dirty blocks. *)
AppendCollect(t, v) ==
  /\ pc = "idle"
  /\ Marks(work, t)
  /\ ~Fits(Tail(flash[work]), v)
  /\ Dirty(flash[work]) # {}
  /\ job' = [tag |-> t, val |-> v, at |-> Capacity]
  /\ pc' = "gc_erase"
  /\ ret' = "none"
  /\ UNCHANGED <<flashVars, work, cache, gcVars>>

(* No room and nothing to collect: FALSE is returned, and mark stays set.  *)
AppendFull(t, v) ==
  /\ pc = "idle"
  /\ Marks(work, t)
  /\ ~Fits(Tail(flash[work]), v)
  /\ Dirty(flash[work]) = {}
  /\ Return("fail")
  /\ UNCHANGED <<flashVars, work, cache, gcVars>>

(* flash_tlv_gc().  mark_address itself is not changed, but what it is the *)
(* address of may be no more.                                              *)
GcErase ==
  /\ pc = "gc_erase"
  /\ flash' = [flash EXCEPT ![Other(work)] = Erased]
  /\ hdr' = [hdr EXCEPT ![Other(work)] = NoHeader]
  /\ mark' = IF mark \in Address /\ mark.sec = Other(work) THEN Gone ELSE mark
  /\ gcRead' = 0
  /\ gcWrite' = 0
  /\ pc' = "gc_copy"
  /\ UNCHANGED <<work, cache, job, ret>>

(* Mutants of Committed: a block is moved unless it is deleted; a block is  *)
(* not moved if it is the first one.                                       *)
BugCommittedOrNot(b, i) == GoodMeta(b, i) /\ b[i].status # "delete"
BugCommittedFirst(b, i) == GoodMeta(b, i) /\ b[i].status = "verify" /\ i > 0

Committed(b, i) == GoodMeta(b, i) /\ b[i].status = "verify"

(* A committed block is moved to the other sector, meta cell and data. *)
GcCopy ==
  LET from == flash[work]
      n == Span(from, gcRead)
  IN
  /\ pc = "gc_copy"
  /\ IsBlock(from, gcRead)
  /\ Committed(from, gcRead)
  /\ flash' = [flash EXCEPT ![Other(work)] =
                 [i \in Offset |->
                    IF i \in gcWrite..(gcWrite + n - 1)
                    THEN Program(@[i], from[gcRead + (i - gcWrite)])
                    ELSE @[i]]]
  /\ gcRead' = gcRead + n
  /\ gcWrite' = gcWrite + n
  /\ UNCHANGED <<hdr, work, mark, cache, job, pc, ret>>

(* Mutant of GcSkip: a block with a bad meta field is not passed. *)
BugGcSkip ==
  /\ pc = "gc_copy"
  /\ IsBlock(flash[work], gcRead)
  /\ ~Committed(flash[work], gcRead)
  /\ gcRead' = IF GoodMeta(flash[work], gcRead)
               THEN gcRead + Span(flash[work], gcRead) ELSE gcRead
  /\ UNCHANGED <<flashVars, work, mark, cache, job, pc, gcWrite, ret>>

GcSkip ==
  /\ pc = "gc_copy"
  /\ IsBlock(flash[work], gcRead)
  /\ ~Committed(flash[work], gcRead)
  /\ gcRead' = gcRead + Span(flash[work], gcRead)
  /\ UNCHANGED <<flashVars, work, mark, cache, job, pc, gcWrite, ret>>

(* All is moved: the header, with the next version, makes the other sector *)
(* the work sector.                                                        *)
GcCommit ==
  /\ pc = "gc_copy"
  /\ ~IsBlock(flash[work], gcRead)
  /\ hdr' = [hdr EXCEPT ![Other(work)] =
               [valid |-> hdr[work].valid, version |-> NextVersion(hdr[work].version)]]
  /\ work' = Other(work)
  /\ UNCHANGED <<flash, cache, gcVars>>

(* There is room now: the new sector is searched, as the old one was.      *)
GcPlace ==
  /\ GcCommit
  /\ Fits(gcWrite, job.val)
  /\ Marks(Other(work), job.tag)
  /\ \E i \in Offset : /\ i = Tail(flash[Other(work)])
                       /\ Place(job.tag, job.val, i)

(* Still no room: FALSE is returned, and mark stays set.  (A second search *)
(* that finds less room than the collection reported cannot happen:        *)
(* CompactionAdvances.)                                                    *)
GcFull ==
  /\ GcCommit
  /\ ~Fits(gcWrite, job.val)
  /\ Return("fail")
  /\ UNCHANGED mark

WriteMeta ==
  /\ pc = "wr_meta"
  /\ flash' = [flash EXCEPT ![work][job.at] =
                 Program(@, Meta(job.tag, Len[job.val], "write"))]
  /\ pc' = "wr_data"
  /\ UNCHANGED <<hdr, work, mark, cache, job, gcVars, ret>>

DataCells(i, v) == {k \in Offset : i < k /\ k <= i + Len[v]}

Filled(b, cells, d) == [k \in Offset |-> IF k \in cells THEN Program(b[k], d) ELSE b[k]]

WriteData ==
  /\ pc = "wr_data"
  /\ \E x \in {job.val} \cup {j \in {Junk} : ProgramFaults} :
       flash' = [flash EXCEPT ![work] = Filled(@, DataCells(job.at, job.val), Data(x))]
  /\ pc' = "check"
  /\ UNCHANGED <<hdr, work, mark, cache, job, gcVars, ret>>

(* What was written is read back. *)
ReadBackOk ==
  /\ flash[work][job.at] = Meta(job.tag, Len[job.val], "write")
  /\ \A k \in DataCells(job.at, job.val) : flash[work][k] = Data(job.val)

CheckFails ==
  /\ pc = "check"
  /\ ~ReadBackOk
  /\ Return("fail")
  /\ UNCHANGED <<flashVars, work, mark, cache, gcVars>>

Confirm == flash' = [flash EXCEPT ![work][job.at] = Meta(job.tag, Len[job.val], "verify")]

(* Mutant of CacheJob: what is appended is not cached. *)
BugCacheJob == UNCHANGED cache

CacheJob ==
  IF UseCache
  THEN Remember(cache, job.tag, [sec |-> work, off |-> job.at], cache')
  ELSE UNCHANGED cache

(* TLV_STATE_VERIFY is programmed; with no old record that ends the append *)
ConfirmNew ==
  /\ pc = "check"
  /\ ReadBackOk
  /\ mark = Nil
  /\ Confirm
  /\ CacheJob
  /\ Return("ok")
  /\ UNCHANGED <<hdr, work, mark, gcVars>>

ConfirmOver ==
  /\ pc = "check"
  /\ ReadBackOk
  /\ mark # Nil
  /\ Confirm
  /\ pc' = "wr_delete"
  /\ UNCHANGED <<hdr, work, mark, cache, job, gcVars, ret>>

(* Mutant of StrikeMark: mark_address is not reset. *)
BugStrikeMark ==
  /\ pc = "wr_delete"
  /\ mark # Gone
  /\ flash' = [flash EXCEPT ![mark.sec][mark.off] = Strike(@)]
  /\ CacheJob
  /\ Return("ok")
  /\ UNCHANGED <<hdr, work, mark, gcVars>>

(* ... and with one it is struck, at mark_address. *)
StrikeMark ==
  /\ pc = "wr_delete"
  /\ mark # Gone
  /\ flash' = [flash EXCEPT ![mark.sec][mark.off] = Strike(@)]
  /\ mark' = Nil
  /\ CacheJob
  /\ Return("ok")
  /\ UNCHANGED <<hdr, work, gcVars>>

(* A byte somewhere in the sector is programmed; TRUE is returned. *)
StrikeGone ==
  /\ pc = "wr_delete"
  /\ mark = Gone
  /\ mark' = Nil
  /\ CacheJob
  /\ job' = Nil
  /\ ret' = "ok"
  /\ pc' = "lost"
  /\ UNCHANGED <<flashVars, work, gcVars>>

Lost == pc = "lost" /\ UNCHANGED vars

(***************************************************************************)
(* Power is lost: before the next step, or inside it.  RAM is lost.        *)
(***************************************************************************)
TornMeta ==
  /\ pc = "wr_meta"
  /\ flash' = [flash EXCEPT ![work][job.at] = Bad]
  /\ UNCHANGED hdr

TornData ==
  /\ pc = "wr_data"
  /\ \E v \in Values :
       /\ Len[v] <= Len[job.val]
       /\ flash' = [flash EXCEPT ![work] = Filled(@, DataCells(job.at, v), Data(Junk))]
  /\ UNCHANGED hdr

(* The magic number is there, and the low byte of the version or neither:  *)
(* the missing bytes read as 0xFF.                                         *)
TornVersions(v) == {VersionMax, (ByteBase - 1) * ByteBase + (v % ByteBase)}

TornHeader(s, v) ==
  /\ \E x \in TornVersions(v) :
       hdr' = [hdr EXCEPT ![s] = [valid |-> TRUE, version |-> x]]
  /\ UNCHANGED flash

Interrupted ==
  \/ UNCHANGED flashVars
  \/ TornMeta
  \/ TornData
  \/ pc = "format" /\ TornHeader("major", 0)
  \/ /\ pc = "gc_copy"
     /\ ~IsBlock(flash[work], gcRead)
     /\ TornHeader(Other(work), NextVersion(hdr[work].version))

PowerLoss ==
  /\ pc \notin {"boot", "lost"}
  /\ Interrupted
  /\ work' = Nil
  /\ mark' = Nil
  /\ cache' = EmptyCache
  /\ job' = Nil
  /\ pc' = "boot"
  /\ gcRead' = 0
  /\ gcWrite' = 0
  /\ ret' = "none"

Append(t, v) == AppendInPlace(t, v) \/ AppendCollect(t, v) \/ AppendFull(t, v)

(* The steps a call goes through by itself once it has been made. *)
Proceed ==
  \/ FormatErase \/ FormatHeader
  \/ GcErase \/ GcCopy \/ GcSkip \/ GcPlace \/ GcFull
  \/ WriteMeta \/ WriteData
  \/ CheckFails \/ ConfirmNew \/ ConfirmOver \/ StrikeMark \/ StrikeGone

Next ==
  \/ Mount
  \/ \E t \in Tags : Query(t) \/ Delete(t)
  \/ \E t \in Tags, v \in Values : Append(t, v)
  \/ Proceed
  \/ PowerLoss
  \/ Lost

Spec == Init /\ [][Next]_vars

(* The processor goes on with a call it has begun.  Nothing makes a client *)
(* call, and power need not ever be lost.                                  *)
FairSpec == Spec /\ WF_vars(Proceed)

-----------------------------------------------------------------------------
(* Type invariant. *)
Jobs == [tag : Tags, val : Values, at : 0..Capacity]

TypeOK ==
  /\ flash \in [Sector -> [Offset -> Cell]]
  /\ hdr \in [Sector -> Header]
  /\ work \in Sector \cup {Nil}
  /\ mark \in Address \cup {Nil, Gone}
  /\ cache \in [used : 0..CacheMax, at : [Tags -> Address \cup {Nil}]]
  /\ job \in Jobs \cup {Nil}
  /\ pc \in {"boot", "format", "idle", "gc_erase", "gc_copy",
             "wr_meta", "wr_data", "check", "wr_delete", "lost"}
  /\ gcRead \in 0..Capacity
  /\ gcWrite \in 0..Capacity
  /\ ret \in {"none", "ok", "fail"}

(***************************************************************************)
(* Safety.                                                                 *)
(***************************************************************************)
(* Whenever power is lost between two operations, find_valid_sector()      *)
(* comes back to the sector in use: the header is programmed last, and     *)
(* versions wrap from the largest to 0.  (Where a header that is cut short *)
(* leads is a question to ImplementsTagStore.)                             *)
BootFindsWork == work # Nil => FindValid(hdr) = work

(* The blocks of a sector in use tile it: the scan goes from block to      *)
(* block over data cells only, never takes data for a meta field, and      *)
(* stops where nothing was ever written, whatever power losses and         *)
(* rejected appends there were, and as long as every block that was struck *)
(* at a stale mark_address was still in its place.  (A strike after its    *)
(* sector was erased is not covered: it can undo all of this.)             *)
LogTiled ==
  work # Nil /\ pc # "lost" =>
    LET b == flash[work] IN
    /\ \A i \in Starts(b) : b[i].kind \in {"meta", "bad"}
    /\ \A i \in Offset :
         i < Tail(b) /\ i \notin Starts(b) => b[i].kind \in {"data", "blank"}
    /\ \A i \in Offset : i >= Tail(b) => b[i].kind = "blank"

(* While its sector has not been erased, mark_address is the address of a  *)
(* block, whatever other appends, deletions and collections came between:  *)
(* the strike at it deletes that block, and hits nothing else.             *)
MarkIsBlock ==
  mark \in Address => flash[mark.sec][mark.off].kind = "meta"

(* A collection never catches up with its own reading, and a scan of the   *)
(* new sector finds exactly the room the collection reported, so that an   *)
(* append that goes on after flash_tlv_gc() cannot run out of it.          *)
CompactionAdvances ==
  pc = "gc_copy" => /\ gcWrite <= gcRead
                    /\ Tail(flash[Other(work)]) = gcWrite
                    /\ Dirty(flash[Other(work)]) = {}

(* The value of the block at i, Junk if its data cells are not all there. *)
ValueAt(b, i) ==
  LET stored == {v \in Values : b[i].len = Len[v] /\ \A k \in DataCells(i, v) : b[k] = Data(v)}
  IN  IF stored = {} THEN Junk ELSE CHOOSE v \in stored : TRUE

(* What a search finds: the first committed block of the tag. *)
Found(b, t) ==
  LET S == Verified(b, t)
  IN  IF S = {} THEN NoValue ELSE ValueAt(b, CHOOSE i \in S : IsFirst(S, i))

(* What the blocks before the reading position of a collection answer, the *)
(* copied blocks answer too: a power loss at the switch of sectors loses   *)
(* nothing and brings nothing back.                                        *)
CopyFaithful ==
  pc = "gc_copy" =>
    \A t \in Tags :
      Found(flash[Other(work)], t) =
        Found([i \in Offset |-> IF i < gcRead THEN flash[work][i] ELSE Blank], t)

(***************************************************************************)
(* The store implements TagStore.                                          *)
(***************************************************************************)
(* The sector in use, or the one a reboot would find. *)
Home == IF work # Nil THEN work ELSE FindValid(hdr)

Shows(t) == IF Home = Nil THEN NoValue ELSE Found(flash[Home], t)

(* The live blocks of t but the one an append in progress is writing *)
Old(t) ==
  IF Home = Nil THEN {}
  ELSE {i \in Live(flash[Home], t) : ~(job # Nil /\ job.at = i)}

Vague(t) == Cardinality(Old(t)) > 1

(* mark_address is what the append in progress set, or might have set *)
OwnMark ==
  /\ mark \in Address
  /\ job # Nil
  /\ mark # [sec |-> work, off |-> job.at]
  /\ mark.sec = work \/ pc \notin {"gc_erase", "gc_copy"}
  /\ flash[mark.sec][mark.off].tag = job.tag

Promise == INSTANCE TagStore WITH
  store <- [t \in Tags |-> Shows(t)],
  req <- IF job = Nil THEN Nil
         ELSE [tag |-> job.tag, val |-> job.val,
               done |-> pc = "wr_delete" /\ IsFirst(Verified(flash[work], job.tag), job.at)],
  vague <- {t \in Tags : Vague(t)},
  armed <- CASE mark = Gone -> "wild"
             [] mark \in Address /\ ~OwnMark -> "stale"
             [] OTHER -> "no",
  lost <- pc = "lost"

(* Seen from outside, flash_tlv.c is the map of TagStore, each append and  *)
(* deletion atomic whatever collections, switches of sectors, torn writes  *)
(* and power losses happen inside, but for vague tags and a stale mark,    *)
(* until one is struck of which the sector was erased.                     *)
ImplementsTagStore == Promise!SSpec

(***************************************************************************)
(* Room, the cache, progress.                                              *)
(***************************************************************************)
CommittedCells(b) ==
  UNION {i..(i + Span(b, i) - 1) : i \in {j \in Starts(b) : Committed(b, j)}}

(* No cell is lost for good: an append is refused for want of room only    *)
(* if the committed records leave too little of the sector, whatever       *)
(* deleted, torn and never committed blocks it holds besides.              *)
RefusedOnlyWhenFull ==
  [][\A t \in Tags, v \in Values :
       AppendFull(t, v) \/ (GcFull /\ job.val = v) =>
         Cardinality(CommittedCells(flash[work])) + 1 + Len[v] > Capacity]_vars

(* What get_cache() hands out for t, and flash_tlv_read() reads through it *)
CacheRead(t) ==
  LET b == flash[cache.at[t].sec]
      i == cache.at[t].off
  IN  IF GoodMeta(b, i) /\ b[i].tag = t THEN ValueAt(b, i) ELSE Junk

Exact(t) == Cached(cache, t) => CacheRead(t) = Shows(t)

(* A cached record is the record a search would find; no append, deletion, *)
(* eviction, power loss or collection changes that, but for a second       *)
(* collection over an entry that the first one left behind, a tag with     *)
(* several live blocks, and a strike at a stale mark_address.              *)
CacheStaysExact ==
  [][\A t \in Tags :
       Exact(t) /\ ~Exact(t)' =>
         \/ pc \in {"gc_erase", "gc_copy"} /\ cache.at[t].sec # work
         \/ Vague(t)
         \/ pc = "wr_delete" /\ ~OwnMark]_vars

(* Every call comes to an end (or power is lost): a collection and the     *)
(* append around it always get somewhere.                                  *)
CallsReturn ==
  pc \notin {"idle", "boot", "lost"} ~> pc \in {"idle", "boot", "lost"}

(***************************************************************************)
(* What the comments of the code say and the code does not do.             *)
(***************************************************************************)
AppendAccepted == job # Nil /\ job' = Nil /\ ret' = "ok"

(* mark_address is "the address of the old tag when a tag is written       *)
(* again" (flash_tlv.h): an append that returns TRUE leaves what is found  *)
(* for the other tags as it was.                                           *)
OthersUntouched ==
  [][AppendAccepted => \A t \in Tags \ {job.tag} : Shows(t)' = Shows(t)]_vars

(* "TRUE: the query succeeded", and the block describes the record         *)
(* (flash_tlv.c, flash_tlv_query): what the cache hands out for a tag is a *)
(* block of that tag.                                                      *)
CachedIsOfTag ==
  \A t \in Tags : pc = "idle" /\ Cached(cache, t) =>
    LET c == flash[cache.at[t].sec][cache.at[t].off]
    IN  c.kind = "meta" /\ c.tag = t
=============================================================================
