--------------------------- MODULE FlashTlvProofs ---------------------------
(***************************************************************************)
(* Theorems about the record store, for every set of tags and values,      *)
(* every sector size and every version range.                              *)
(***************************************************************************)
EXTENDS FlashTlv, FiniteSetTheorems, WellFoundedInduction, TLAPS

(***************************************************************************)
(* The inductive invariant: types, what the point in the code says of the  *)
(* variables of the call, and the headers.                                 *)
(***************************************************************************)
Writing == {"wr_meta", "wr_data", "check", "wr_delete"}
Collecting == {"gc_erase", "gc_copy"}

CallInv ==
  /\ work = Nil <=> pc \in {"boot", "format"}
  /\ job # Nil <=> pc \in Writing \cup Collecting
  /\ pc \in Writing => job.at \in Offset
  /\ pc = "wr_delete" => mark # Nil
  /\ pc = "gc_copy" => gcWrite <= gcRead

HeaderInv ==
  /\ BootFindsWork
  /\ pc = "format" => \A s \in Sector : ~hdr[s].valid

IInv == TypeOK /\ CallInv /\ HeaderInv

CacheType == [used : 0..CacheMax, at : [Tags -> Address \cup {Nil}]]

-----------------------------------------------------------------------------
(* Cells and headers. *)

LEMMA OtherSector ==
  ASSUME NEW s \in Sector
  PROVE  Other(s) \in Sector /\ Other(s) # s /\ Other(Other(s)) = s
<1>1. CASE s = "major"
  BY <1>1 DEF Other, Sector
<1>2. CASE s = "minor"
  BY <1>2 DEF Other, Sector
<1>. QED BY <1>1, <1>2 DEF Sector

LEMMA VersionBounds ==
  /\ VersionMax \in Nat
  /\ VersionMax >= 3
  /\ \A v \in 0..VersionMax : TornVersions(v) \subseteq 0..VersionMax
<1>1. ByteBase * ByteBase >= 2 * ByteBase
  BY ByteBaseAssumption
<1>2. VersionMax \in Nat /\ VersionMax >= 3
  BY <1>1, ByteBaseAssumption DEF VersionMax
<1>3. ASSUME NEW v \in 0..VersionMax
      PROVE  TornVersions(v) \subseteq 0..VersionMax
  <2>1. v % ByteBase \in 0..(ByteBase - 1)
    BY <1>2, ByteBaseAssumption
  <2>2. (ByteBase - 1) * ByteBase = ByteBase * ByteBase - ByteBase
    BY ByteBaseAssumption
  <2>3. (ByteBase - 1) * ByteBase + (v % ByteBase) \in 0..VersionMax
    BY <1>1, <2>1, <2>2, ByteBaseAssumption DEF VersionMax
  <2>. QED BY <1>2, <2>3 DEF TornVersions
<1>. QED BY <1>2, <1>3

LEMMA NextVersionType ==
  ASSUME NEW v \in 0..VersionMax
  PROVE  NextVersion(v) \in 0..VersionMax
BY VersionBounds DEF NextVersion

(* The version a collection writes is the later one, across the wrap too. *)
LEMMA NextVersionNewer ==
  ASSUME NEW v \in 0..VersionMax
  PROVE  Newer(NextVersion(v), v) /\ ~Newer(v, NextVersion(v))
BY VersionBounds DEF Newer, NextVersion

LEMMA CellTypes ==
  /\ Blank \in Cell /\ Bad \in Cell
  /\ \A t \in Tags, n \in Nat, st \in Status : Meta(t, n, st) \in Cell
  /\ \A v \in Values \cup {Junk} : Data(v) \in Cell
BY DEF Blank, Bad, Meta, Data, Cell

LEMMA DeletedType ==
  ASSUME NEW c \in Cell, c.kind = "meta"
  PROVE  [c EXCEPT !.status = "delete"] \in Cell
<1>1. c \in [kind : {"meta"}, tag : Tags, len : Nat, status : Status]
  BY DEF Cell
<1>. QED BY <1>1 DEF Cell, Status

LEMMA ProgramType ==
  ASSUME NEW c \in Cell, NEW d \in Cell
  PROVE  Program(c, d) \in Cell
BY CellTypes DEF Program

LEMMA StrikeType ==
  ASSUME NEW c \in Cell, c.kind = "meta"
  PROVE  Strike(c) \in Cell
BY DeletedType DEF Strike

LEMMA StruckType ==
  ASSUME NEW f \in [Sector -> [Offset -> Cell]], NEW s \in Sector, NEW i \in Offset,
         f[s][i].kind = "meta"
  PROVE  [f EXCEPT ![s][i] = Strike(@)] \in [Sector -> [Offset -> Cell]]
<1>1. f[s] \in [Offset -> Cell] /\ f[s][i] \in Cell
  OBVIOUS
<1>2. Strike(f[s][i]) \in Cell
  BY <1>1, StrikeType
<1>3. [f[s] EXCEPT ![i] = Strike(f[s][i])] \in [Offset -> Cell]
  BY <1>1, <1>2
<1>. QED BY <1>3

LEMMA ErasedType == Erased \in [Offset -> Cell]
BY CellTypes DEF Erased

LEMMA FilledType ==
  ASSUME NEW b \in [Offset -> Cell], NEW S, NEW d \in Cell
  PROVE  Filled(b, S, d) \in [Offset -> Cell]
BY ProgramType DEF Filled

(* A block ends inside its sector. *)
LEMMA SpanBound ==
  ASSUME NEW b \in [Offset -> Cell], NEW i \in Offset
  PROVE  /\ Span(b, i) \in Nat \ {0}
         /\ i + Span(b, i) <= Capacity
<1>1. CASE GoodMeta(b, i)
  <2>1. b[i] \in Cell /\ b[i].kind = "meta"
    BY <1>1 DEF GoodMeta
  <2>2. b[i].len \in Nat
    BY <2>1 DEF Cell
  <2>. QED BY <1>1, <2>2, CapacityAssumption DEF GoodMeta, Span, Offset
<1>2. CASE ~GoodMeta(b, i)
  BY <1>2, CapacityAssumption DEF Span, Offset
<1>. QED BY <1>1, <1>2

LEMMA RememberType ==
  ASSUME NEW c \in CacheType, NEW t \in Tags, NEW p \in Address, NEW d,
         Remember(c, t, p, d)
  PROVE  d \in CacheType
<1>. USE CacheMaxAssumption DEF CacheType
<1>1. CASE UpdateEntry(c, t, p, d)
  BY <1>1 DEF UpdateEntry
<1>2. CASE TakeSlot(c, t, p, d)
  BY <1>2 DEF TakeSlot
<1>3. CASE EvictEntry(c, t, p, d)
  BY <1>3 DEF EvictEntry, ValidEntries
<1>4. CASE ReuseInvalidSlot(c, t, p, d)
  BY <1>4 DEF ReuseInvalidSlot
<1>. QED BY <1>1, <1>2, <1>3, <1>4 DEF Remember

LEMMA ForgetType ==
  ASSUME NEW c \in CacheType, NEW t \in Tags
  PROVE  Forget(c, t) \in CacheType
<1>. DEFINE at == [c.at EXCEPT ![t] = Nil]
<1>1. at \in [Tags -> Address \cup {Nil}]
  BY DEF CacheType
<1>2. Forget(c, t) = [c EXCEPT !.at = at]
  BY DEF Forget
<1>. QED BY <1>1, <1>2 DEF CacheType

LEMMA EmptyCacheType == EmptyCache \in CacheType
BY CacheMaxAssumption DEF EmptyCache, CacheType

-----------------------------------------------------------------------------
(* Which sector is found. *)

LEMMA FindValidIsValid ==
  ASSUME NEW h \in [Sector -> Header]
  PROVE  /\ FindValid(h) \in Sector \cup {Nil}
         /\ FindValid(h) = Nil <=> \A s \in Sector : ~h[s].valid
         /\ \A s \in Sector : FindValid(h) = s => h[s].valid
<1>1. Nil # "major" /\ Nil # "minor"
  BY NilAssumption
<1>2. h["major"] \in Header /\ h["minor"] \in Header
  BY DEF Sector
<1>3. CASE h["major"].valid /\ h["minor"].valid
  BY <1>1, <1>3 DEF FindValid, Sector
<1>4. CASE h["major"].valid /\ ~h["minor"].valid
  BY <1>1, <1>4 DEF FindValid, Sector
<1>5. CASE ~h["major"].valid /\ h["minor"].valid
  BY <1>1, <1>5 DEF FindValid, Sector
<1>6. CASE ~h["major"].valid /\ ~h["minor"].valid
  BY <1>1, <1>6 DEF FindValid, Sector
<1>. QED BY <1>3, <1>4, <1>5, <1>6

(* Erasing the sector not in use does not change what is found, ... *)
LEMMA ErasedOtherFound ==
  ASSUME NEW h \in [Sector -> Header], NEW w \in Sector, FindValid(h) = w
  PROVE  FindValid([h EXCEPT ![Other(w)] = NoHeader]) = w
<1>. DEFINE g == [h EXCEPT ![Other(w)] = NoHeader]
<1>1. h[w].valid
  BY FindValidIsValid
<1>2. g[w] = h[w] /\ g[Other(w)] = NoHeader
  BY OtherSector
<1>3. g[w].valid /\ ~g[Other(w)].valid
  BY <1>1, <1>2 DEF NoHeader
<1>4. CASE w = "major"
  <2>1. Other(w) = "minor"
    BY <1>4, OtherSector DEF Sector
  <2>. QED BY <1>3, <1>4, <2>1 DEF FindValid
<1>5. CASE w = "minor"
  <2>1. Other(w) = "major"
    BY <1>5, OtherSector DEF Sector
  <2>. QED BY <1>3, <1>5, <2>1 DEF FindValid
<1>. QED BY <1>4, <1>5 DEF Sector

(* ... and giving it the next version makes it the one. *)
LEMMA NextVersionFound ==
  ASSUME NEW h \in [Sector -> Header], NEW w \in Sector, FindValid(h) = w
  PROVE  FindValid([h EXCEPT ![Other(w)] =
           [valid |-> h[w].valid, version |-> NextVersion(h[w].version)]]) = Other(w)
<1>. DEFINE new == [valid |-> h[w].valid, version |-> NextVersion(h[w].version)]
            g == [h EXCEPT ![Other(w)] = new]
<1>1. h[w].valid
  BY FindValidIsValid
<1>2. g[w] = h[w] /\ g[Other(w)] = new
  BY OtherSector
<1>3. g[w].valid /\ g[Other(w)].valid
  BY <1>1, <1>2
<1>4. h[w].version \in 0..VersionMax
  BY DEF Header
<1>5. Newer(g[Other(w)].version, g[w].version) /\ ~Newer(g[w].version, g[Other(w)].version)
  BY <1>2, <1>4, NextVersionNewer
<1>6. CASE w = "major"
  <2>1. Other(w) = "minor"
    BY <1>6, OtherSector DEF Sector
  <2>. QED BY <1>3, <1>5, <1>6, <2>1 DEF FindValid
<1>7. CASE w = "minor"
  <2>1. Other(w) = "major"
    BY <1>7, OtherSector DEF Sector
  <2>. QED BY <1>3, <1>5, <1>7, <2>1 DEF FindValid
<1>. QED BY <1>6, <1>7 DEF Sector

-----------------------------------------------------------------------------
(* The invariant holds initially and every action keeps it. *)

LEMMA InitInv == Init => IInv
<1>. SUFFICES ASSUME Init PROVE IInv
  OBVIOUS
<1>1. TypeOK
  BY ErasedType, VersionBounds, EmptyCacheType, CapacityAssumption
  DEF Init, TypeOK, NoHeader, Header, CacheType
<1>2. CallInv
  BY DEF Init, CallInv, Writing, Collecting
<1>3. HeaderInv
  BY DEF Init, HeaderInv, BootFindsWork
<1>. QED BY <1>1, <1>2, <1>3 DEF IInv

LEMMA MountInv == IInv /\ Mount => IInv'
<1>. SUFFICES ASSUME IInv, Mount PROVE IInv'
  OBVIOUS
<1>1. FindValid(hdr) \in Sector
  BY FindValidIsValid DEF IInv, TypeOK, Mount
<1>2. TypeOK'
  BY <1>1 DEF IInv, TypeOK, Mount, flashVars, gcVars
<1>3. CallInv'
  BY <1>1, NilAssumption
  DEF IInv, CallInv, Mount, flashVars, gcVars, Writing, Collecting, Sector
<1>4. HeaderInv'
  BY DEF IInv, HeaderInv, BootFindsWork, Mount, flashVars
<1>. QED BY <1>2, <1>3, <1>4 DEF IInv

LEMMA FormatInv == IInv /\ (FormatErase \/ FormatHeader) => IInv'
<1>1. ASSUME IInv, FormatErase PROVE IInv'
  <2>1. TypeOK'
    BY <1>1, ErasedType, VersionBounds
    DEF IInv, TypeOK, FormatErase, gcVars, NoHeader, Header
  <2>2. CallInv'
    BY <1>1 DEF IInv, CallInv, FormatErase, gcVars, Writing, Collecting
  <2>3. HeaderInv'
    BY <1>1 DEF IInv, CallInv, HeaderInv, BootFindsWork, FormatErase, NoHeader
  <2>. QED BY <2>1, <2>2, <2>3 DEF IInv
<1>2. ASSUME IInv, FormatHeader PROVE IInv'
  <2>1. TypeOK'
    BY <1>2, VersionBounds, EmptyCacheType
    DEF IInv, TypeOK, FormatHeader, gcVars, Header, Sector, CacheType
  <2>2. CallInv'
    BY <1>2, NilAssumption
    DEF IInv, CallInv, FormatHeader, gcVars, Writing, Collecting
  <2>3. FindValid(hdr') = "major"
    BY <1>2 DEF IInv, TypeOK, HeaderInv, FormatHeader, FindValid, Sector
  <2>4. HeaderInv'
    BY <1>2, <2>3 DEF HeaderInv, BootFindsWork, FormatHeader
  <2>. QED BY <2>1, <2>2, <2>4 DEF IInv
<1>. QED BY <1>1, <1>2

LEMMA QueryInv ==
  ASSUME NEW t \in Tags, IInv, Query(t)
  PROVE  IInv'
<1>1. work \in Sector
  BY DEF IInv, TypeOK, CallInv, Query
<1>2. PICK i \in Offset : Remember(cache, t, [sec |-> work, off |-> i], cache')
  BY DEF Query
<1>3. cache' \in CacheType
  BY <1>1, <1>2, RememberType DEF IInv, TypeOK, CacheType, Address
<1>4. TypeOK'
  BY <1>3 DEF IInv, TypeOK, Query, flashVars, gcVars, CacheType
<1>5. CallInv'
  BY DEF IInv, CallInv, Query, gcVars
<1>6. HeaderInv'
  BY DEF IInv, HeaderInv, BootFindsWork, Query, flashVars
<1>. QED BY <1>4, <1>5, <1>6 DEF IInv

LEMMA DeleteInv ==
  ASSUME NEW t \in Tags, IInv, Delete(t)
  PROVE  IInv'
<1>1. work \in Sector
  BY DEF IInv, TypeOK, CallInv, Delete
<1>2. cache' \in CacheType
  <2>1. cache \in CacheType /\ cache' = Forget(cache, t)
    BY DEF IInv, TypeOK, CacheType, Delete
  <2>. QED BY <2>1, ForgetType
<1>3. flash' \in [Sector -> [Offset -> Cell]]
  <2>1. CASE DeleteFirst(t)
    <3>1. PICK i \in Offset :
            /\ IsFirst(Live(flash[work], t), i)
            /\ flash' = [flash EXCEPT ![work][i] = Strike(@)]
      BY <2>1 DEF DeleteFirst
    <3>2. flash[work][i].kind = "meta"
      BY <3>1 DEF IsFirst, Live, Blocks, GoodMeta
    <3>. QED BY <1>1, <3>1, <3>2, StruckType DEF IInv, TypeOK
  <2>2. CASE DeleteNothing(t)
    BY <2>2 DEF IInv, TypeOK, DeleteNothing
  <2>. QED BY <2>1, <2>2 DEF Delete
<1>4. TypeOK'
  BY <1>2, <1>3
  DEF IInv, TypeOK, Delete, DeleteFirst, DeleteNothing, gcVars, CacheType
<1>5. CallInv'
  BY DEF IInv, CallInv, Delete, gcVars
<1>6. HeaderInv'
  BY DEF IInv, HeaderInv, BootFindsWork, Delete
<1>. QED BY <1>4, <1>5, <1>6 DEF IInv

LEMMA MarksType ==
  ASSUME NEW s \in Sector, NEW t \in Tags, mark \in Address \cup {Nil, Gone}, Marks(s, t)
  PROVE  mark' \in Address \cup {Nil, Gone}
BY DEF Marks, Address

LEMMA JobType ==
  ASSUME NEW t \in Tags, NEW v \in Values, NEW i \in 0..Capacity
  PROVE  /\ [tag |-> t, val |-> v, at |-> i] \in Jobs
         /\ [tag |-> t, val |-> v, at |-> i] # Nil
BY NilAssumption DEF Jobs

LEMMA AppendInv ==
  ASSUME NEW t \in Tags, NEW v \in Values, IInv, Append(t, v)
  PROVE  IInv'
<1>1. work \in Sector /\ pc = "idle"
  BY DEF IInv, TypeOK, CallInv, Append, AppendInPlace, AppendCollect, AppendFull
<1>2. /\ Marks(work, t)
      /\ UNCHANGED <<flash, hdr, work, cache, gcRead, gcWrite>>
  BY DEF Append, AppendInPlace, AppendCollect, AppendFull, flashVars, gcVars
<1>3. mark' \in Address \cup {Nil, Gone}
  BY <1>1, <1>2, MarksType DEF IInv, TypeOK
<1>4. CASE AppendInPlace(t, v)
  <2>1. PICK i \in Offset : Place(t, v, i)
    BY <1>4 DEF AppendInPlace
  <2>2. i \in 0..Capacity
    BY CapacityAssumption DEF Offset
  <2>3. job' \in Jobs /\ job' # Nil /\ job'.at \in Offset
    BY <2>1, <2>2, JobType DEF Place
  <2>4. TypeOK'
    BY <1>2, <1>3, <2>1, <2>3 DEF IInv, TypeOK, Place
  <2>5. CallInv'
    BY <1>1, <1>2, <2>1, <2>3 DEF IInv, CallInv, Place, Writing, Collecting
  <2>6. HeaderInv'
    BY <1>2, <2>1 DEF IInv, HeaderInv, BootFindsWork, Place
  <2>. QED BY <2>4, <2>5, <2>6 DEF IInv
<1>5. CASE AppendCollect(t, v)
  <2>1. job' \in Jobs /\ job' # Nil
    BY <1>5, JobType, CapacityAssumption DEF AppendCollect
  <2>2. TypeOK'
    BY <1>2, <1>3, <1>5, <2>1 DEF IInv, TypeOK, AppendCollect
  <2>3. CallInv'
    BY <1>1, <1>2, <1>5, <2>1 DEF IInv, CallInv, AppendCollect, Writing, Collecting
  <2>4. HeaderInv'
    BY <1>2, <1>5 DEF IInv, HeaderInv, BootFindsWork, AppendCollect
  <2>. QED BY <2>2, <2>3, <2>4 DEF IInv
<1>6. CASE AppendFull(t, v)
  <2>1. TypeOK'
    BY <1>2, <1>3, <1>6 DEF IInv, TypeOK, AppendFull, Return
  <2>2. CallInv'
    BY <1>1, <1>2, <1>6 DEF IInv, CallInv, AppendFull, Return, Writing, Collecting
  <2>3. HeaderInv'
    BY <1>2, <1>6 DEF IInv, HeaderInv, BootFindsWork, AppendFull, Return
  <2>. QED BY <2>1, <2>2, <2>3 DEF IInv
<1>. QED BY <1>4, <1>5, <1>6 DEF Append

LEMMA GcEraseInv == IInv /\ GcErase => IInv'
<1>. SUFFICES ASSUME IInv, GcErase PROVE IInv'
  OBVIOUS
<1>1. work \in Sector
  BY DEF IInv, TypeOK, CallInv, GcErase
<1>2. FindValid(hdr') = work
  BY <1>1, NilAssumption, ErasedOtherFound
  DEF IInv, TypeOK, HeaderInv, BootFindsWork, GcErase, Sector
<1>3. TypeOK'
  BY <1>1, OtherSector, ErasedType, VersionBounds, CapacityAssumption
  DEF IInv, TypeOK, GcErase, NoHeader, Header
<1>4. CallInv'
  BY DEF IInv, CallInv, GcErase, Writing, Collecting
<1>5. HeaderInv'
  BY <1>2 DEF HeaderInv, BootFindsWork, GcErase
<1>. QED BY <1>3, <1>4, <1>5 DEF IInv

LEMMA GcMoveInv == IInv /\ (GcCopy \/ GcSkip) => IInv'
<1>. SUFFICES ASSUME IInv, GcCopy \/ GcSkip PROVE IInv'
  OBVIOUS
<1>. DEFINE n == Span(flash[work], gcRead)
<1>1. work \in Sector /\ pc = "gc_copy" /\ gcWrite <= gcRead
  BY DEF IInv, TypeOK, CallInv, GcCopy, GcSkip
<1>2. flash[work] \in [Offset -> Cell] /\ gcRead \in Offset
  BY <1>1, CapacityAssumption DEF IInv, TypeOK, GcCopy, GcSkip, IsBlock, Offset
<1>3. n \in Nat \ {0} /\ gcRead + n <= Capacity
  BY <1>2, SpanBound
<1>4. /\ gcRead' = gcRead + n
      /\ gcWrite' \in {gcWrite, gcWrite + n}
      /\ UNCHANGED <<hdr, work, mark, cache, job, pc, ret>>
  BY DEF GcCopy, GcSkip, flashVars
<1>5. flash' \in [Sector -> [Offset -> Cell]]
  <2>1. CASE GcCopy
    <3>. DEFINE from == flash[work]
                old == flash[Other(work)]
                b == [i \in Offset |->
                        IF i \in gcWrite..(gcWrite + n - 1)
                        THEN Program(old[i], from[gcRead + (i - gcWrite)])
                        ELSE old[i]]
    <3>1. old \in [Offset -> Cell]
      BY <1>1, OtherSector DEF IInv, TypeOK
    <3>2. ASSUME NEW i \in Offset
          PROVE  b[i] \in Cell
      <4>1. CASE i \in gcWrite..(gcWrite + n - 1)
        <5>1. gcRead + (i - gcWrite) \in Offset
          BY <1>2, <1>3, <4>1, CapacityAssumption DEF IInv, TypeOK, Offset
        <5>2. from[gcRead + (i - gcWrite)] \in Cell
          BY <1>2, <5>1
        <5>3. Program(old[i], from[gcRead + (i - gcWrite)]) \in Cell
          BY <3>1, <5>2, ProgramType
        <5>. QED BY <4>1, <5>3
      <4>2. CASE i \notin gcWrite..(gcWrite + n - 1)
        BY <3>1, <4>2
      <4>. QED BY <4>1, <4>2
    <3>3. b \in [Offset -> Cell]
      BY <3>2
    <3>4. flash' = [flash EXCEPT ![Other(work)] = b]
      BY <2>1 DEF GcCopy
    <3>. HIDE DEF b
    <3>. QED BY <1>1, <3>3, <3>4, OtherSector DEF IInv, TypeOK
  <2>2. CASE GcSkip
    BY <2>2 DEF IInv, TypeOK, GcSkip, flashVars
  <2>. QED BY <2>1, <2>2
<1>6. gcRead' \in 0..Capacity /\ gcWrite' \in 0..Capacity /\ gcWrite' <= gcRead'
  <2>. HIDE DEF n
  <2>. QED BY <1>1, <1>3, <1>4, CapacityAssumption DEF IInv, TypeOK
<1>7. TypeOK'
  BY <1>4, <1>5, <1>6 DEF IInv, TypeOK
<1>8. CallInv'
  BY <1>1, <1>4, <1>6 DEF IInv, CallInv, Writing, Collecting
<1>9. HeaderInv'
  BY <1>4 DEF IInv, HeaderInv, BootFindsWork
<1>. QED BY <1>7, <1>8, <1>9 DEF IInv

LEMMA GcEndInv == IInv /\ (GcPlace \/ GcFull) => IInv'
<1>. SUFFICES ASSUME IInv, GcPlace \/ GcFull PROVE IInv'
  OBVIOUS
<1>1. work \in Sector /\ pc = "gc_copy" /\ job \in Jobs /\ GcCommit
  BY DEF IInv, TypeOK, CallInv, GcPlace, GcFull, GcCommit, Collecting
<1>2. /\ UNCHANGED <<flash, cache, gcRead, gcWrite>>
      /\ work' = Other(work)
      /\ work' \in Sector /\ work' # Nil
  BY <1>1, OtherSector, NilAssumption DEF GcCommit, gcVars, Sector
<1>3. FindValid(hdr') = work'
  BY <1>1, <1>2, NilAssumption, NextVersionFound
  DEF IInv, TypeOK, HeaderInv, BootFindsWork, GcCommit, Sector
<1>4. hdr' \in [Sector -> Header]
  <2>1. hdr[work] \in Header
    BY <1>1 DEF IInv, TypeOK
  <2>2. [valid |-> hdr[work].valid, version |-> NextVersion(hdr[work].version)] \in Header
    BY <2>1, NextVersionType DEF Header
  <2>. QED BY <1>1, <2>2, OtherSector DEF IInv, TypeOK, GcCommit
<1>5. CASE GcPlace
  <2>1. mark' \in Address \cup {Nil, Gone}
    BY <1>1, <1>5, OtherSector, MarksType DEF IInv, TypeOK, GcPlace, Jobs
  <2>2. PICK i \in Offset : Place(job.tag, job.val, i)
    BY <1>5 DEF GcPlace
  <2>3. i \in 0..Capacity
    BY CapacityAssumption DEF Offset
  <2>4. job' \in Jobs /\ job' # Nil /\ job'.at \in Offset
    BY <1>1, <2>2, <2>3, JobType DEF Place, Jobs
  <2>5. TypeOK'
    BY <1>2, <1>4, <2>1, <2>2, <2>4 DEF IInv, TypeOK, Place
  <2>6. CallInv'
    BY <1>2, <2>2, <2>4 DEF IInv, CallInv, Place, Writing, Collecting
  <2>7. HeaderInv'
    BY <1>3, <2>2 DEF HeaderInv, BootFindsWork, Place
  <2>. QED BY <2>5, <2>6, <2>7 DEF IInv
<1>6. CASE GcFull
  <2>1. TypeOK'
    BY <1>2, <1>4, <1>6 DEF IInv, TypeOK, GcFull, Return
  <2>2. CallInv'
    BY <1>2, <1>6 DEF IInv, CallInv, GcFull, Return, Writing, Collecting
  <2>3. HeaderInv'
    BY <1>3, <1>6 DEF HeaderInv, BootFindsWork, GcFull, Return
  <2>. QED BY <2>1, <2>2, <2>3 DEF IInv
<1>. QED BY <1>5, <1>6

LEMMA MetaAndData ==
  ASSUME NEW j \in Jobs, NEW st \in Status
  PROVE  /\ Meta(j.tag, Len[j.val], st) \in Cell
         /\ Data(j.val) \in Cell
         /\ Data(Junk) \in Cell
BY CellTypes, LenAssumption DEF Jobs

LEMMA WriteInv == IInv /\ (WriteMeta \/ WriteData) => IInv'
<1>. SUFFICES ASSUME IInv, WriteMeta \/ WriteData PROVE IInv'
  OBVIOUS
<1>1. work \in Sector /\ job \in Jobs /\ job.at \in Offset
  BY DEF IInv, TypeOK, CallInv, WriteMeta, WriteData, Writing
<1>2. flash[work] \in [Offset -> Cell]
  BY <1>1 DEF IInv, TypeOK
<1>3. UNCHANGED <<hdr, work, mark, cache, job, gcRead, gcWrite, ret>>
  BY DEF WriteMeta, WriteData, gcVars
<1>4. /\ pc \in {"wr_meta", "wr_data"}
      /\ pc' \in {"wr_data", "check"}
  BY DEF WriteMeta, WriteData
<1>5. flash' \in [Sector -> [Offset -> Cell]]
  <2>1. CASE WriteMeta
    <3>. DEFINE c == Program(flash[work][job.at], Meta(job.tag, Len[job.val], "write"))
    <3>1. c \in Cell
      BY <1>1, <1>2, MetaAndData, ProgramType DEF Status
    <3>2. [flash[work] EXCEPT ![job.at] = c] \in [Offset -> Cell]
      BY <1>2, <3>1
    <3>3. flash' = [flash EXCEPT ![work] = [flash[work] EXCEPT ![job.at] = c]]
      BY <2>1, <1>1 DEF IInv, TypeOK, WriteMeta
    <3>. QED BY <3>2, <3>3, <1>1 DEF IInv, TypeOK
  <2>2. CASE WriteData
    <3>. DEFINE S == DataCells(job.at, job.val)
    <3>1. PICK x \in {job.val} \cup {Junk} :
            flash' = [flash EXCEPT ![work] = Filled(@, S, Data(x))]
      BY <2>2 DEF WriteData
    <3>2. Filled(flash[work], S, Data(x)) \in [Offset -> Cell]
      BY <1>1, <1>2, FilledType, MetaAndData DEF Status
    <3>. QED BY <1>1, <3>1, <3>2 DEF IInv, TypeOK
  <2>. QED BY <2>1, <2>2
<1>6. TypeOK'
  BY <1>3, <1>4, <1>5 DEF IInv, TypeOK
<1>7. CallInv'
  BY <1>1, <1>3, <1>4 DEF IInv, CallInv, Writing, Collecting
<1>8. HeaderInv'
  BY <1>3, <1>4 DEF IInv, HeaderInv, BootFindsWork
<1>. QED BY <1>6, <1>7, <1>8 DEF IInv

LEMMA CacheJobType ==
  ASSUME IInv, job \in Jobs, job.at \in Offset, work \in Sector, CacheJob
  PROVE  cache' \in CacheType
<1>1. [sec |-> work, off |-> job.at] \in Address /\ job.tag \in Tags
  BY DEF Address, Jobs
<1>2. cache \in CacheType
  BY DEF IInv, TypeOK, CacheType
<1>. QED BY <1>1, <1>2, RememberType DEF CacheJob

LEMMA FinishInv ==
  IInv /\ MarkIsBlock /\ (CheckFails \/ ConfirmNew \/ ConfirmOver \/ StrikeMark \/ StrikeGone)
    => IInv'
<1>. SUFFICES ASSUME IInv, MarkIsBlock,
                     CheckFails \/ ConfirmNew \/ ConfirmOver \/ StrikeMark \/ StrikeGone
              PROVE  IInv'
  OBVIOUS
<1>1. /\ work \in Sector /\ job \in Jobs /\ job.at \in Offset
      /\ pc \in {"check", "wr_delete"}
  BY DEF IInv, TypeOK, CallInv, CheckFails, ConfirmNew, ConfirmOver, StrikeMark,
         StrikeGone, Writing
<1>2. UNCHANGED <<hdr, work, gcRead, gcWrite>>
  BY DEF CheckFails, ConfirmNew, ConfirmOver, StrikeMark, StrikeGone, flashVars, gcVars
<1>3. HeaderInv'
  BY <1>1, <1>2
  DEF IInv, HeaderInv, BootFindsWork, CheckFails, ConfirmNew, ConfirmOver, StrikeMark,
      StrikeGone, Return
<1>4. CASE CheckFails
  <2>1. TypeOK'
    BY <1>2, <1>4 DEF IInv, TypeOK, CheckFails, Return, flashVars
  <2>2. CallInv'
    BY <1>1, <1>2, <1>4 DEF IInv, CallInv, CheckFails, Return, Writing, Collecting
  <2>. QED BY <1>3, <2>1, <2>2 DEF IInv
<1>5. ASSUME Confirm PROVE flash' \in [Sector -> [Offset -> Cell]]
  <2>1. Meta(job.tag, Len[job.val], "verify") \in Cell
    BY <1>1, MetaAndData DEF Status
  <2>. QED BY <1>1, <1>5, <2>1 DEF IInv, TypeOK, Confirm
<1>6. CASE ConfirmNew
  <2>1. cache' \in CacheType
    BY <1>1, <1>6, CacheJobType DEF ConfirmNew
  <2>2. TypeOK'
    BY <1>2, <1>5, <1>6, <2>1 DEF IInv, TypeOK, ConfirmNew, Return, CacheType
  <2>3. CallInv'
    BY <1>1, <1>2, <1>6 DEF IInv, CallInv, ConfirmNew, Return, Writing, Collecting
  <2>. QED BY <1>3, <2>2, <2>3 DEF IInv
<1>7. CASE ConfirmOver
  <2>1. TypeOK'
    BY <1>2, <1>5, <1>7 DEF IInv, TypeOK, ConfirmOver, gcVars
  <2>2. CallInv'
    BY <1>1, <1>2, <1>7 DEF IInv, CallInv, ConfirmOver, Writing, Collecting
  <2>. QED BY <1>3, <2>1, <2>2 DEF IInv
<1>8. CASE StrikeMark
  <2>1. mark.sec \in Sector /\ mark.off \in Offset /\ flash[mark.sec][mark.off].kind = "meta"
    BY <1>8 DEF IInv, TypeOK, CallInv, StrikeMark, Address, MarkIsBlock
  <2>2. flash' \in [Sector -> [Offset -> Cell]]
    BY <1>8, <2>1, StruckType DEF IInv, TypeOK, StrikeMark
  <2>3. cache' \in CacheType
    BY <1>1, <1>8, CacheJobType DEF StrikeMark
  <2>4. TypeOK'
    BY <1>2, <1>8, <2>2, <2>3 DEF IInv, TypeOK, StrikeMark, Return, CacheType
  <2>5. CallInv'
    BY <1>1, <1>2, <1>8 DEF IInv, CallInv, StrikeMark, Return, Writing, Collecting
  <2>. QED BY <1>3, <2>4, <2>5 DEF IInv
<1>9. CASE StrikeGone
  <2>1. cache' \in CacheType
    BY <1>1, <1>9, CacheJobType DEF StrikeGone
  <2>2. TypeOK'
    BY <1>2, <1>9, <2>1 DEF IInv, TypeOK, StrikeGone, CacheType, flashVars
  <2>3. CallInv'
    BY <1>1, <1>2, <1>9 DEF IInv, CallInv, StrikeGone, Writing, Collecting
  <2>. QED BY <1>3, <2>2, <2>3 DEF IInv
<1>. QED BY <1>4, <1>6, <1>7, <1>8, <1>9

LEMMA PowerLossInv == IInv /\ PowerLoss => IInv'
<1>. SUFFICES ASSUME IInv, PowerLoss PROVE IInv'
  OBVIOUS
<1>1. flash' \in [Sector -> [Offset -> Cell]]
  <2>1. CASE TornMeta
    <3>1. work \in Sector /\ job.at \in Offset
      BY <2>1 DEF IInv, TypeOK, CallInv, TornMeta, Writing
    <3>2. [flash[work] EXCEPT ![job.at] = Bad] \in [Offset -> Cell]
      BY <3>1, CellTypes DEF IInv, TypeOK
    <3>3. flash' = [flash EXCEPT ![work] = [flash[work] EXCEPT ![job.at] = Bad]]
      BY <2>1, <3>1 DEF IInv, TypeOK, TornMeta
    <3>. QED BY <3>1, <3>2, <3>3 DEF IInv, TypeOK
  <2>2. CASE TornData
    <3>1. work \in Sector
      BY <2>2 DEF IInv, TypeOK, CallInv, TornData
    <3>2. PICK v \in Values :
            flash' = [flash EXCEPT ![work] = Filled(@, DataCells(job.at, v), Data(Junk))]
      BY <2>2 DEF TornData
    <3>3. Filled(flash[work], DataCells(job.at, v), Data(Junk)) \in [Offset -> Cell]
      BY <3>1, FilledType, CellTypes DEF IInv, TypeOK
    <3>. QED BY <3>1, <3>2, <3>3 DEF IInv, TypeOK
  <2>3. CASE UNCHANGED flash
    BY <2>3 DEF IInv, TypeOK
  <2>. QED BY <2>1, <2>2, <2>3 DEF PowerLoss, Interrupted, flashVars, TornHeader
<1>2. hdr' \in [Sector -> Header]
  <2>1. CASE pc = "format" /\ TornHeader("major", 0)
    <3>0. 0 \in 0..VersionMax /\ TornVersions(0) \subseteq 0..VersionMax
      BY VersionBounds
    <3>1. PICK x \in 0..VersionMax :
            hdr' = [hdr EXCEPT !["major"] = [valid |-> TRUE, version |-> x]]
      BY <2>1, <3>0 DEF TornHeader
    <3>2. [valid |-> TRUE, version |-> x] \in Header
      BY <3>1 DEF Header
    <3>. QED BY <3>1, <3>2 DEF IInv, TypeOK, Sector
  <2>2. CASE pc = "gc_copy" /\ TornHeader(Other(work), NextVersion(hdr[work].version))
    <3>1. work \in Sector
      BY <2>2 DEF IInv, TypeOK, CallInv
    <3>2. NextVersion(hdr[work].version) \in 0..VersionMax
      BY <3>1, NextVersionType DEF IInv, TypeOK, Header
    <3>3. PICK x \in 0..VersionMax :
            hdr' = [hdr EXCEPT ![Other(work)] = [valid |-> TRUE, version |-> x]]
      <4>1. TornVersions(NextVersion(hdr[work].version)) \subseteq 0..VersionMax
        BY <3>2, VersionBounds
      <4>. QED BY <2>2, <4>1 DEF TornHeader
    <3>4. [valid |-> TRUE, version |-> x] \in Header
      BY <3>3 DEF Header
    <3>. QED BY <3>1, <3>3, <3>4, OtherSector DEF IInv, TypeOK
  <2>3. CASE UNCHANGED hdr
    BY <2>3 DEF IInv, TypeOK
  <2>. QED BY <2>1, <2>2, <2>3 DEF PowerLoss, Interrupted, flashVars, TornMeta, TornData
<1>3. TypeOK'
  BY <1>1, <1>2, EmptyCacheType, CapacityAssumption DEF TypeOK, PowerLoss, CacheType
<1>4. CallInv'
  BY DEF CallInv, PowerLoss, Writing, Collecting
<1>5. HeaderInv'
  BY DEF HeaderInv, BootFindsWork, PowerLoss
<1>. QED BY <1>3, <1>4, <1>5 DEF IInv

(* The strike at mark_address is the one step that needs more than IInv.    *)
LEMMA NextInv == IInv /\ MarkIsBlock /\ [Next]_vars => IInv'
<1>. SUFFICES ASSUME IInv, MarkIsBlock, [Next]_vars PROVE IInv'
  OBVIOUS
<1>1. CASE UNCHANGED vars \/ Lost
  <2>1. TypeOK'
    BY <1>1 DEF IInv, TypeOK, Lost, vars
  <2>2. CallInv'
    BY <1>1 DEF IInv, CallInv, Lost, vars
  <2>3. HeaderInv'
    BY <1>1 DEF IInv, HeaderInv, BootFindsWork, Lost, vars
  <2>. QED BY <2>1, <2>2, <2>3 DEF IInv
<1>2. CASE Mount
  BY <1>2, MountInv
<1>3. ASSUME NEW t \in Tags, Query(t) \/ Delete(t) PROVE IInv'
  BY <1>3, QueryInv, DeleteInv
<1>4. ASSUME NEW t \in Tags, NEW v \in Values, Append(t, v) PROVE IInv'
  BY <1>4, AppendInv
<1>5. CASE Proceed
  BY <1>5, FormatInv, GcEraseInv, GcMoveInv, GcEndInv, WriteInv, FinishInv DEF Proceed
<1>6. CASE PowerLoss
  BY <1>6, PowerLossInv
<1>. QED BY <1>1, <1>2, <1>3, <1>4, <1>5, <1>6 DEF Next

-----------------------------------------------------------------------------
(***************************************************************************)
(* The log: what a scan of a sector finds, for every sector size, and that *)
(* a collection copies it.                                                 *)
(*                                                                         *)
(* Starts and Tail are recursive functions.  Induction is done once, with  *)
(* greatest and least elements of sets of numbers, to show that they are   *)
(* the only solution of Scan; after that nothing needs recursion.          *)
(***************************************************************************)

-----------------------------------------------------------------------------
(* Sets of numbers *)

LEMMA LeastNumber ==
  ASSUME NEW S, S \subseteq Nat, S # {}
  PROVE  \E n \in S : \A m \in S : n <= m
<1>. DEFINE R == OpToRel(<, Nat)
<1>1. IsWellFoundedOn(R, Nat)
  BY NatLessThanWellFounded
<1>2. \A m, n \in Nat : m < n => <<m, n>> \in R
  BY DEF OpToRel
<1>. HIDE DEF R
<1>3. PICK n \in S : \A m \in S : <<m, n>> \notin R
  BY <1>1, WFMin
<1>4. \A m, k \in Nat : ~(m < k) => k <= m
  OBVIOUS
<1>. QED BY <1>2, <1>3, <1>4

LEMMA GreatestNumber ==
  ASSUME NEW N \in Nat, NEW S, S \subseteq 0..N, S # {}
  PROVE  \E n \in S : \A m \in S : m <= n
<1>. DEFINE T == {N - n : n \in S}
<1>1. T \subseteq Nat /\ T # {}
  <2>1. \A n \in 0..N : N - n \in Nat
    OBVIOUS
  <2>. QED BY <2>1
<1>2. PICK k \in T : \A m \in T : k <= m
  BY <1>1, LeastNumber
<1>3. PICK n \in S : k = N - n
  OBVIOUS
<1>4. ASSUME NEW m \in S PROVE m <= n
  <2>1. N - n <= N - m
    BY <1>2, <1>3
  <2>2. m \in 0..N /\ n \in 0..N
    OBVIOUS
  <2>. QED BY <2>1, <2>2
<1>. QED BY <1>4

-----------------------------------------------------------------------------
(* Scans *)

(* The scan of b that begins at s passes the positions P and ends at e. *)
Scan(b, s, P, e) ==
  /\ P \subseteq s..(Capacity - 1) /\ e \in s..Capacity
  /\ s \in P \cup {e}
  /\ ~IsBlock(b, e)
  /\ \A p \in P : IsBlock(b, p) /\ p < e /\ p + Span(b, p) \in P \cup {e}
  /\ \A p \in P, k \in P \cup {e} : p < k => p + Span(b, p) <= k
  /\ \A k \in P \cup {e} : k # s => \E p \in P : p < k /\ k = p + Span(b, p)

Sectors == [Offset -> Cell]

LEMMA Positions == Offset = 0..(Capacity - 1) /\ Capacity \in Nat /\ Capacity >= 1
BY CapacityAssumption DEF Offset

LEMMA ScanEnds ==
  ASSUME NEW b \in Sectors, NEW s \in 0..Capacity, ~IsBlock(b, s)
  PROVE  Scan(b, s, {}, s)
BY Positions DEF Scan

LEMMA ScanGoesOn ==
  ASSUME NEW b \in Sectors, NEW s \in 0..Capacity, IsBlock(b, s),
         NEW P, NEW e, Scan(b, s + Span(b, s), P, e)
  PROVE  Scan(b, s, {s} \cup P, e)
<1>. DEFINE n == s + Span(b, s)
            Q == {s} \cup P
<1>1. s \in Offset
  BY Positions DEF IsBlock
<1>2. Span(b, s) \in Nat \ {0} /\ n <= Capacity
  BY <1>1, SpanBound DEF Sectors
<1>3. n \in Nat /\ s < n /\ s \in Nat
  BY <1>1, <1>2, Positions
<1>. HIDE DEF n
<1>4. /\ P \subseteq n..(Capacity - 1) /\ e \in n..Capacity
      /\ n \in P \cup {e}
      /\ ~IsBlock(b, e)
      /\ \A p \in P : IsBlock(b, p) /\ p < e /\ p + Span(b, p) \in P \cup {e}
      /\ \A p \in P, k \in P \cup {e} : p < k => p + Span(b, p) <= k
      /\ \A k \in P \cup {e} : k # n => \E p \in P : p < k /\ k = p + Span(b, p)
  BY DEF Scan, n
<1>5. \A k \in P \cup {e} : k \in Nat /\ n <= k
  BY <1>3, <1>4, Positions
<1>6. Q \subseteq s..(Capacity - 1) /\ e \in s..Capacity
  BY <1>1, <1>2, <1>3, <1>4, Positions
<1>7. \A p \in Q : IsBlock(b, p) /\ p < e /\ p + Span(b, p) \in Q \cup {e}
  <2>1. s < e
    BY <1>3, <1>4, <1>5
  <2>2. s + Span(b, s) \in Q \cup {e}
    BY <1>4 DEF n
  <2>. QED BY <1>4, <2>1, <2>2
<1>8. \A p \in Q, k \in Q \cup {e} : p < k => p + Span(b, p) <= k
  <2>. SUFFICES ASSUME NEW p \in Q, NEW k \in Q \cup {e}, p < k
                PROVE  p + Span(b, p) <= k
    OBVIOUS
  <2>1. k \in P \cup {e}
    <3>1. CASE k = s
      <4>1. p \in Nat /\ s <= p
        BY <1>3, <1>5
      <4>. QED BY <1>3, <3>1, <4>1
    <3>. QED BY <3>1
  <2>2. CASE p = s
    BY <1>5, <2>1, <2>2 DEF n
  <2>. QED BY <1>4, <2>1, <2>2
<1>9. \A k \in Q \cup {e} : k # s => \E p \in Q : p < k /\ k = p + Span(b, p)
  <2>. SUFFICES ASSUME NEW k \in P \cup {e}, k # s
                PROVE  \E p \in Q : p < k /\ k = p + Span(b, p)
    OBVIOUS
  <2>1. CASE k = n
    BY <1>3, <2>1 DEF n
  <2>. QED BY <1>4, <2>1
<1>. QED BY <1>4, <1>6, <1>7, <1>8, <1>9 DEF Scan

(* A scan has one outcome. *)
LEMMA ScanInside ==
  ASSUME NEW b \in Sectors, NEW s \in 0..Capacity, NEW P, NEW e, NEW Q, NEW f,
         Scan(b, s, P, e), Scan(b, s, Q, f)
  PROVE  P \cup {e} \subseteq Q \cup {f}
<1>. DEFINE S == (P \cup {e}) \ (Q \cup {f})
<1>1. SUFFICES ASSUME S # {} PROVE FALSE
  OBVIOUS
<1>2. S \subseteq Nat
  BY Positions DEF Scan
<1>3. PICK k \in S : \A m \in S : k <= m
  BY <1>1, <1>2, LeastNumber
<1>4. k # s
  BY DEF Scan
<1>5. PICK p \in P : p < k /\ k = p + Span(b, p)
  BY <1>4 DEF Scan
<1>6. p \in Nat /\ k \in Nat
  BY <1>2, Positions DEF Scan
<1>7. p \in Q \cup {f}
  <2>1. ~(k <= p)
    BY <1>5, <1>6
  <2>. QED BY <1>3, <2>1
<1>8. p \in Q
  BY <1>7 DEF Scan
<1>. QED BY <1>5, <1>8 DEF Scan

LEMMA ScanUnique ==
  ASSUME NEW b \in Sectors, NEW s \in 0..Capacity, NEW P, NEW e, NEW Q, NEW f,
         Scan(b, s, P, e), Scan(b, s, Q, f)
  PROVE  P = Q /\ e = f
<1>1. P \cup {e} = Q \cup {f}
  BY ScanInside
<1>. QED BY <1>1 DEF Scan

LEMMA ScanExists ==
  ASSUME NEW b \in Sectors, NEW s \in 0..Capacity
  PROVE  \E P \in SUBSET Nat, e \in Nat : Scan(b, s, P, e)
<1>. DEFINE S == {p \in 0..Capacity : ~ \E P \in SUBSET Nat, e \in Nat : Scan(b, p, P, e)}
<1>1. SUFFICES ASSUME S # {} PROVE FALSE
  OBVIOUS
<1>2. PICK p \in S : \A m \in S : m <= p
  BY <1>1, GreatestNumber, Positions
<1>3. IsBlock(b, p)
  BY ScanEnds
<1>4. p \in Offset
  BY <1>3, Positions DEF IsBlock
<1>5. Span(b, p) \in Nat \ {0} /\ p + Span(b, p) <= Capacity
  BY <1>4, SpanBound DEF Sectors
<1>6. p + Span(b, p) \in 0..Capacity /\ ~(p + Span(b, p) <= p)
  BY <1>4, <1>5, Positions
<1>7. PICK P \in SUBSET Nat, e \in Nat : Scan(b, p + Span(b, p), P, e)
  BY <1>2, <1>6
<1>8. Scan(b, p, {p} \cup P, e)
  BY <1>3, <1>7, ScanGoesOn
<1>. QED BY <1>7, <1>8

(* The functions behind Starts and Tail *)
From(b, g) == g = [p \in 0..Capacity |->
                     IF IsBlock(b, p) THEN {p} \cup g[p + Span(b, p)] ELSE {}]

End(b, g) == g = [p \in 0..Capacity |->
                    IF IsBlock(b, p) THEN g[p + Span(b, p)] ELSE p]

LEMMA NextInside ==
  ASSUME NEW b \in Sectors, NEW p \in 0..Capacity, IsBlock(b, p)
  PROVE  p + Span(b, p) \in 0..Capacity /\ p < p + Span(b, p)
<1>1. p \in Offset
  BY Positions DEF IsBlock
<1>2. Span(b, p) \in Nat \ {0} /\ p + Span(b, p) <= Capacity
  BY <1>1, SpanBound DEF Sectors
<1>. QED BY <1>1, <1>2, Positions

LEMMA FromExists ==
  ASSUME NEW b \in Sectors
  PROVE  /\ \E g : From(b, g)
         /\ \E g : End(b, g)
<1>. DEFINE Ps(p) == CHOOSE P \in SUBSET Nat : \E e \in Nat : Scan(b, p, P, e)
            Es(p) == CHOOSE e \in Nat : \E P \in SUBSET Nat : Scan(b, p, P, e)
            g == [p \in 0..Capacity |-> Ps(p)]
            h == [p \in 0..Capacity |-> Es(p)]
<1>1. ASSUME NEW p \in 0..Capacity PROVE Scan(b, p, Ps(p), Es(p))
  <2>1. PICK e \in Nat : Scan(b, p, Ps(p), e)
    BY ScanExists
  <2>2. PICK P \in SUBSET Nat : Scan(b, p, P, Es(p))
    BY ScanExists
  <2>3. P = Ps(p)
    BY <2>1, <2>2, ScanUnique
  <2>. QED BY <2>2, <2>3
<1>. HIDE DEF Ps, Es
<1>2. ASSUME NEW p \in 0..Capacity
      PROVE  /\ Ps(p) = IF IsBlock(b, p) THEN {p} \cup g[p + Span(b, p)] ELSE {}
             /\ Es(p) = IF IsBlock(b, p) THEN h[p + Span(b, p)] ELSE p
  <2>1. CASE IsBlock(b, p)
    <3>. DEFINE n == p + Span(b, p)
    <3>1. n \in 0..Capacity
      BY <2>1, NextInside
    <3>2. Scan(b, n, Ps(n), Es(n))
      BY <1>1, <3>1
    <3>3. Scan(b, p, {p} \cup Ps(n), Es(n))
      BY <2>1, <3>2, ScanGoesOn
    <3>4. Scan(b, p, Ps(p), Es(p))
      BY <1>1
    <3>5. Ps(p) = {p} \cup Ps(n) /\ Es(p) = Es(n)
      BY <3>3, <3>4, ScanUnique
    <3>. QED BY <2>1, <3>1, <3>5
  <2>2. CASE ~IsBlock(b, p)
    <3>1. Scan(b, p, {}, p)
      BY <2>2, ScanEnds
    <3>2. Scan(b, p, Ps(p), Es(p))
      BY <1>1
    <3>3. Ps(p) = {} /\ Es(p) = p
      BY <3>1, <3>2, ScanUnique
    <3>. QED BY <2>2, <3>3
  <2>. QED BY <2>1, <2>2
<1>3. From(b, g)
  BY <1>2 DEF From
<1>4. End(b, h)
  BY <1>2 DEF End
<1>. QED BY <1>3, <1>4

LEMMA FromScans ==
  ASSUME NEW b \in Sectors, NEW g, NEW h, From(b, g), End(b, h), NEW s \in 0..Capacity
  PROVE  Scan(b, s, g[s], h[s])
<1>. DEFINE S == {p \in 0..Capacity : ~Scan(b, p, g[p], h[p])}
<1>1. SUFFICES ASSUME S # {} PROVE FALSE
  OBVIOUS
<1>2. PICK p \in S : \A m \in S : m <= p
  BY <1>1, GreatestNumber, Positions
<1>3. CASE IsBlock(b, p)
  <2>. DEFINE n == p + Span(b, p)
  <2>1. n \in 0..Capacity /\ p < n
    BY <1>3, NextInside
  <2>2. ~(n <= p)
    <3>. HIDE DEF n
    <3>. QED BY <2>1
  <2>3. Scan(b, n, g[n], h[n])
    BY <1>2, <2>1, <2>2
  <2>4. Scan(b, p, {p} \cup g[n], h[n])
    BY <1>3, <2>3, ScanGoesOn
  <2>5. g[p] = {p} \cup g[n] /\ h[p] = h[n]
    BY <1>3 DEF From, End
  <2>. QED BY <2>4, <2>5
<1>4. CASE ~IsBlock(b, p)
  <2>1. Scan(b, p, {}, p)
    BY <1>4, ScanEnds
  <2>2. g[p] = {} /\ h[p] = p
    BY <1>4 DEF From, End
  <2>. QED BY <2>1, <2>2
<1>. QED BY <1>3, <1>4

LEMMA StartsScan ==
  ASSUME NEW b \in Sectors
  PROVE  Scan(b, 0, Starts(b), Tail(b))
<1>. DEFINE g == CHOOSE x : From(b, x)
            h == CHOOSE x : End(b, x)
<1>1. From(b, g) /\ End(b, h)
  BY FromExists
<1>2. Starts(b) = g[0]
  BY DEF Starts, From
<1>3. Tail(b) = h[0]
  BY DEF Tail, End
<1>4. 0 \in 0..Capacity
  BY Positions
<1>. HIDE DEF g, h
<1>. QED BY <1>1, <1>2, <1>3, <1>4, FromScans

LEMMA StartsAre ==
  ASSUME NEW b \in Sectors, NEW P, NEW e, Scan(b, 0, P, e)
  PROVE  Starts(b) = P /\ Tail(b) = e
<1>1. 0 \in 0..Capacity
  BY Positions
<1>. QED BY <1>1, StartsScan, ScanUnique

LEMMA ScanFacts ==
  ASSUME NEW b \in Sectors
  PROVE  /\ Starts(b) \subseteq Offset /\ Tail(b) \in 0..Capacity
         /\ 0 \in Starts(b) \cup {Tail(b)}
         /\ ~IsBlock(b, Tail(b))
         /\ \A p \in Starts(b) : /\ IsBlock(b, p) /\ p < Tail(b)
                                 /\ p + Span(b, p) \in Starts(b) \cup {Tail(b)}
         /\ \A p \in Starts(b), k \in Starts(b) \cup {Tail(b)} : p < k => p + Span(b, p) <= k
         /\ \A k \in Starts(b) \cup {Tail(b)} :
              k # 0 => \E p \in Starts(b) : p < k /\ k = p + Span(b, p)
BY StartsScan, Positions DEF Scan

(* A scan of c passes where a scan of b does, ... *)
Follows(b, c) == \A p \in Starts(b) : IsBlock(c, p) /\ Span(c, p) = Span(b, p)

LEMMA SameScan ==
  ASSUME NEW b \in Sectors, NEW c \in Sectors, Follows(b, c), ~IsBlock(c, Tail(b))
  PROVE  Starts(c) = Starts(b) /\ Tail(c) = Tail(b)
<1>1. Scan(b, 0, Starts(b), Tail(b))
  BY StartsScan
<1>2. Scan(c, 0, Starts(b), Tail(b))
  BY <1>1 DEF Scan, Follows
<1>. QED BY <1>2, StartsAre

(* ... and goes on by one block. *)
LEMMA LongerScan ==
  ASSUME NEW b \in Sectors, NEW c \in Sectors, Follows(b, c), IsBlock(c, Tail(b)),
         ~IsBlock(c, Tail(b) + Span(c, Tail(b)))
  PROVE  Starts(c) = Starts(b) \cup {Tail(b)} /\ Tail(c) = Tail(b) + Span(c, Tail(b))
<1>. DEFINE P == Starts(b)
            e == Tail(b)
            n == e + Span(c, e)
            Q == P \cup {e}
<1>1. Scan(b, 0, P, e)
  BY StartsScan
<1>2. e \in Nat /\ n \in 0..Capacity /\ e < n
  BY <1>1, NextInside, Positions DEF Scan
<1>3. n = e + Span(c, e)
  OBVIOUS
<1>. HIDE DEF P, e, n
<1>4. P \subseteq 0..(Capacity - 1) /\ e \in 0..(Capacity - 1)
  BY <1>1, Positions DEF Scan, IsBlock, e
<1>5. \A p \in P : p < e /\ p < n
  <2>1. \A p \in P : p < e /\ p \in Nat
    BY <1>1, <1>4, Positions DEF Scan
  <2>. QED BY <1>2, <2>1
<1>6. \A p \in Q : IsBlock(c, p) /\ p < n /\ p + Span(c, p) \in Q \cup {n}
  <2>1. \A p \in P : IsBlock(c, p) /\ p + Span(c, p) \in Q
    BY <1>1 DEF Scan, Follows, P
  <2>. QED BY <1>2, <1>3, <1>5, <2>1 DEF e
<1>7. \A p \in Q, k \in Q \cup {n} : p < k => p + Span(c, p) <= k
  <2>. SUFFICES ASSUME NEW p \in Q, NEW k \in Q \cup {n}, p < k
                PROVE  p + Span(c, p) <= k
    OBVIOUS
  <2>1. CASE p = e
    <3>1. \A x \in Nat : x < e => ~(e < x)
      BY <1>2
    <3>2. k = n
      BY <1>2, <1>4, <1>5, <2>1, <3>1, Positions
    <3>. QED BY <1>2, <1>3, <2>1, <3>2
  <2>2. CASE p \in P /\ k \in Q
    BY <1>1, <2>2 DEF Scan, Follows, P
  <2>3. CASE p \in P /\ k = n
    <3>1. p + Span(c, p) \in Q
      BY <1>1, <2>3 DEF Scan, Follows, P
    <3>2. \A x \in Q : x \in Nat /\ x <= n
      BY <1>2, <1>4, <1>5, Positions
    <3>. QED BY <2>3, <3>1, <3>2
  <2>. QED BY <2>1, <2>2, <2>3
<1>8. \A k \in Q \cup {n} : k # 0 => \E p \in Q : p < k /\ k = p + Span(c, p)
  <2>1. \A k \in Q : k # 0 => \E p \in P : p < k /\ k = p + Span(c, p)
    BY <1>1 DEF Scan, Follows, P
  <2>. QED BY <1>2, <1>3, <2>1
<1>9. ~IsBlock(c, n) /\ 0 \in Q \cup {n} /\ n \in 0..Capacity
  BY <1>1, <1>2, <1>3 DEF Scan, e
<1>10. Scan(c, 0, Q, n)
  BY <1>4, <1>6, <1>7, <1>8, <1>9 DEF Scan
<1>11. Starts(c) = Q /\ Tail(c) = n
  BY <1>10, StartsAre
<1>. QED BY <1>3, <1>11 DEF P, e, n

-----------------------------------------------------------------------------
(* Sectors that are tiled by their blocks *)

Empty == {"blank"}

(* LogTiled of one sector *)
Tiled(b) ==
  /\ \A i \in Starts(b) : b[i].kind \in {"meta", "bad"}
  /\ \A i \in Offset : i < Tail(b) /\ i \notin Starts(b) => b[i].kind \in Empty \cup {"data"}
  /\ \A i \in Offset : i >= Tail(b) => b[i].kind \in Empty

LEMMA EmptyScan ==
  ASSUME NEW b \in Sectors, \A i \in Offset : b[i].kind \in Empty
  PROVE  Starts(b) = {} /\ Tail(b) = 0 /\ Tiled(b)
<1>1. ~IsBlock(b, 0) /\ 0 \in 0..Capacity
  BY Positions DEF IsBlock, Empty
<1>2. Starts(b) = {} /\ Tail(b) = 0
  BY <1>1, ScanEnds, StartsAre
<1>. QED BY <1>2 DEF Tiled

(* What may happen to a cell that a scan does not notice *)
Retouched(b, c, i) ==
  \/ c[i].kind = b[i].kind /\ Span(c, i) = Span(b, i)
  \/ b[i].kind \in Empty /\ c[i].kind \in Empty
  \/ i < Tail(b) /\ i \notin Starts(b) /\ c[i].kind \in Empty \cup {"data"}

LEMMA RetouchedScan ==
  ASSUME NEW b \in Sectors, NEW c \in Sectors, Tiled(b),
         \A i \in Offset : Retouched(b, c, i)
  PROVE  Starts(c) = Starts(b) /\ Tail(c) = Tail(b) /\ Tiled(c)
<1>1. Follows(b, c)
  <2>. SUFFICES ASSUME NEW p \in Starts(b)
                PROVE  IsBlock(c, p) /\ Span(c, p) = Span(b, p)
    BY DEF Follows
  <2>1. p \in Offset /\ IsBlock(b, p)
    BY ScanFacts
  <2>2. c[p].kind = b[p].kind /\ Span(c, p) = Span(b, p)
    BY <2>1 DEF Retouched, IsBlock, Empty
  <2>. QED BY <2>1, <2>2 DEF IsBlock
<1>2. ~IsBlock(c, Tail(b))
  <2>1. ~IsBlock(b, Tail(b)) /\ Tail(b) \in 0..Capacity
    BY ScanFacts
  <2>2. SUFFICES ASSUME Tail(b) < Capacity PROVE c[Tail(b)].kind \in Empty
    BY DEF IsBlock, Empty
  <2>3. Tail(b) \in Offset /\ b[Tail(b)].kind \in Empty
    BY <2>1, <2>2, Positions DEF IsBlock, Empty
  <2>4. ~(Tail(b) < Tail(b))
    BY <2>1
  <2>. QED BY <2>3, <2>4 DEF Retouched
<1>3. Starts(c) = Starts(b) /\ Tail(c) = Tail(b)
  BY <1>1, <1>2, SameScan
<1>4. \A i \in Starts(b) : i \in Offset
  BY ScanFacts
<1>5. \A i \in Starts(b) : c[i].kind \in {"meta", "bad"}
  BY <1>4 DEF Retouched, Tiled, Empty
<1>6. \A i \in Offset : i < Tail(b) /\ i \notin Starts(b) => c[i].kind \in Empty \cup {"data"}
  BY DEF Retouched, Tiled
<1>7. \A i \in Offset : i >= Tail(b) => c[i].kind \in Empty
  <2>1. \A i \in Offset : i >= Tail(b) => ~(i < Tail(b))
    BY ScanFacts, Positions
  <2>. QED BY <2>1 DEF Retouched, Tiled
<1>. QED BY <1>3, <1>5, <1>6, <1>7 DEF Tiled

-----------------------------------------------------------------------------
(* What the steps of the store write *)

LEMMA StruckSector ==
  ASSUME NEW b \in Sectors, NEW k \in Offset, b[k].kind = "meta", Tiled(b)
  PROVE  LET c == [b EXCEPT ![k] = Strike(@)] IN
         /\ c \in Sectors
         /\ Starts(c) = Starts(b) /\ Tail(c) = Tail(b) /\ Tiled(c)
         /\ \A i \in Offset : GoodMeta(c, i) = GoodMeta(b, i) /\ Span(c, i) = Span(b, i)
<1>. DEFINE c == [b EXCEPT ![k] = Strike(@)]
<1>1. b[k] \in Cell
  BY DEF Sectors
<1>2. c \in Sectors
  BY <1>1, StrikeType DEF Sectors
<1>3. /\ c[k] = Strike(b[k])
      /\ \A i \in Offset : i # k => c[i] = b[i]
  BY DEF Sectors
<1>. HIDE DEF c
<1>4. c[k].kind = b[k].kind /\ c[k].len = b[k].len
  <2>1. b[k] \in [kind : {"meta"}, tag : Tags, len : Nat, status : Status]
    BY <1>1 DEF Cell
  <2>. QED BY <1>3, <2>1 DEF Strike
<1>5. ASSUME NEW i \in Offset
      PROVE  GoodMeta(c, i) = GoodMeta(b, i) /\ Span(c, i) = Span(b, i)
  BY <1>3, <1>4 DEF GoodMeta, Span
<1>6. \A i \in Offset : Retouched(b, c, i)
  BY <1>3, <1>4, <1>5 DEF Retouched, Empty
<1>. QED BY <1>2, <1>5, <1>6, RetouchedScan DEF c

LEMMA EmptyCell ==
  ASSUME NEW c \in Cell, c.kind \in Empty
  PROVE  c = Blank
BY DEF Cell, Empty, Blank

(* A meta field of n data cells in the free space: one more block. *)
LEMMA LongerSector ==
  ASSUME NEW b \in Sectors, NEW c \in Sectors, Tiled(b), Tail(b) < Capacity,
         c[Tail(b)].kind \in {"meta", "bad"},
         \A i \in Offset : i # Tail(b) => c[i] = b[i]
  PROVE  /\ Starts(c) = Starts(b) \cup {Tail(b)}
         /\ Tail(c) = Tail(b) + Span(c, Tail(b))
         /\ Tiled(c)
<1>. DEFINE e == Tail(b)
            n == e + Span(c, e)
<1>1. e \in Offset
  BY ScanFacts, Positions
<1>2. IsBlock(c, e)
  BY DEF IsBlock
<1>3. n \in 0..Capacity /\ e < n
  BY <1>1, <1>2, NextInside, Positions
<1>4. ~IsBlock(c, n)
  <2>. HIDE DEF n
  <2>1. SUFFICES ASSUME n < Capacity PROVE c[n].kind \in Empty
    BY DEF IsBlock, Empty
  <2>2. n \in Offset /\ n >= e /\ n # e
    BY <1>1, <1>3, <2>1, Positions
  <2>3. b[n].kind \in Empty
    BY <2>2 DEF Tiled
  <2>. QED BY <2>2, <2>3
<1>5. Follows(b, c)
  <2>. SUFFICES ASSUME NEW p \in Starts(b)
                PROVE  IsBlock(c, p) /\ Span(c, p) = Span(b, p)
    BY DEF Follows
  <2>1. p \in Offset /\ IsBlock(b, p) /\ p < e
    BY ScanFacts
  <2>2. p # e
    BY <1>1, <2>1, Positions
  <2>3. c[p] = b[p]
    BY <2>1, <2>2
  <2>. QED BY <2>1, <2>3 DEF IsBlock, Span, GoodMeta
<1>6. Starts(c) = Starts(b) \cup {e} /\ Tail(c) = n
  BY <1>2, <1>4, <1>5, LongerScan
<1>7. Tiled(c)
  <2>1. \A i \in Starts(b) : i \in Offset /\ i < e
    BY ScanFacts
  <2>2. \A i \in Starts(c) : c[i].kind \in {"meta", "bad"}
    BY <1>6, <2>1 DEF Tiled
  <2>3. ASSUME NEW i \in Offset, i < n, i \notin Starts(c)
        PROVE  c[i].kind \in Empty \cup {"data"}
    <3>1. i # e /\ i \notin Starts(b)
      BY <1>6, <2>3
    <3>2. i < e \/ i >= e
      BY <1>1, Positions
    <3>. QED BY <3>1, <3>2 DEF Tiled
  <2>4. ASSUME NEW i \in Offset, i >= n
        PROVE  c[i].kind \in Empty
    <3>. HIDE DEF n
    <3>1. i >= e /\ i # e
      BY <1>1, <1>3, <2>4, Positions
    <3>. QED BY <3>1 DEF Tiled
  <2>. QED BY <1>6, <2>2, <2>3, <2>4 DEF Tiled
<1>. QED BY <1>6, <1>7

(* Data cells behind the meta field at k, up to the next block *)
LEMMA FilledSector ==
  ASSUME NEW b \in Sectors, Tiled(b), NEW k \in Starts(b),
         NEW v \in Values, NEW x \in Values \cup {Junk},
         k + 1 + Len[v] <= k + Span(b, k)
  PROVE  LET c == Filled(b, DataCells(k, v), Data(x)) IN
         c \in Sectors /\ Starts(c) = Starts(b) /\ Tail(c) = Tail(b) /\ Tiled(c)
<1>. DEFINE c == Filled(b, DataCells(k, v), Data(x))
<1>1. c \in Sectors
  BY FilledType, CellTypes DEF Sectors
<1>2. k \in Offset /\ k + Span(b, k) \in Starts(b) \cup {Tail(b)}
  BY ScanFacts
<1>3. Span(b, k) \in Nat /\ Len[v] \in Nat
  BY <1>2, SpanBound, LenAssumption DEF Sectors
<1>4. ASSUME NEW i \in Offset PROVE Retouched(b, c, i)
  <2>1. CASE i \in DataCells(k, v)
    <3>1. k < i /\ i < k + Span(b, k)
      BY <1>2, <1>3, <2>1, Positions DEF DataCells
    <3>2. k + Span(b, k) <= Tail(b)
      BY <1>2, <1>3, ScanFacts, Positions
    <3>3. i < Tail(b)
      BY <1>2, <1>3, <3>1, <3>2, ScanFacts, Positions
    <3>4. i \notin Starts(b)
      <4>1. SUFFICES ASSUME i \in Starts(b) PROVE FALSE
        OBVIOUS
      <4>2. k + Span(b, k) <= i
        BY <3>1, <4>1, ScanFacts
      <4>. QED BY <1>2, <1>3, <3>1, <4>2, Positions
    <3>5. c[i].kind = "data"
      <4>1. c[i] = Program(b[i], Data(x)) /\ b[i] \in Cell
        BY <2>1 DEF Filled, Sectors
      <4>2. b[i].kind \in Empty \cup {"data"}
        BY <3>3, <3>4 DEF Tiled
      <4>. QED BY <4>1, <4>2 DEF Program, Data
    <3>. QED BY <3>3, <3>4, <3>5 DEF Retouched
  <2>2. CASE i \notin DataCells(k, v)
    <3>1. c[i] = b[i]
      BY <2>2 DEF Filled
    <3>2. Span(c, i) = Span(b, i)
      BY <3>1 DEF Span, GoodMeta
    <3>. QED BY <3>1, <3>2 DEF Retouched
  <2>. QED BY <2>1, <2>2
<1>. QED BY <1>1, <1>4, RetouchedScan

(* The meta field at k gets another status. *)
LEMMA ConfirmedSector ==
  ASSUME NEW b \in Sectors, Tiled(b), NEW k \in Offset, NEW t \in Tags, NEW n \in Nat,
         b[k].kind = "meta", b[k].len = n, NEW st \in Status
  PROVE  LET c == [b EXCEPT ![k] = Meta(t, n, st)] IN
         /\ c \in Sectors
         /\ Starts(c) = Starts(b) /\ Tail(c) = Tail(b) /\ Tiled(c)
         /\ \A i \in Offset : GoodMeta(c, i) = GoodMeta(b, i) /\ Span(c, i) = Span(b, i)
<1>. DEFINE c == [b EXCEPT ![k] = Meta(t, n, st)]
<1>1. c \in Sectors
  BY CellTypes DEF Sectors
<1>2. /\ c[k].kind = "meta" /\ c[k].len = n
      /\ \A i \in Offset : i # k => c[i] = b[i]
  BY DEF Sectors, Meta
<1>. HIDE DEF c
<1>3. ASSUME NEW i \in Offset
      PROVE  GoodMeta(c, i) = GoodMeta(b, i) /\ Span(c, i) = Span(b, i)
  BY <1>2 DEF GoodMeta, Span
<1>4. \A i \in Offset : Retouched(b, c, i)
  BY <1>2, <1>3 DEF Retouched
<1>. QED BY <1>1, <1>3, <1>4, RetouchedScan DEF c

-----------------------------------------------------------------------------
(* A collection *)

(* The sector b as far as it has been read *)
Cut(b, r) == [i \in Offset |-> IF i < r THEN b[i] ELSE Blank]

LEMMA CutScan ==
  ASSUME NEW b \in Sectors, NEW r \in Starts(b) \cup {Tail(b)}
  PROVE  /\ Cut(b, r) \in Sectors
         /\ Starts(Cut(b, r)) = {p \in Starts(b) : p < r}
         /\ Tail(Cut(b, r)) = r
         /\ \A i \in Offset : i < r => Cut(b, r)[i] = b[i]
<1>. DEFINE c == Cut(b, r)
            P == {p \in Starts(b) : p < r}
<1>1. c \in Sectors
  BY CellTypes DEF Cut, Sectors
<1>2. \A i \in Offset : c[i] = IF i < r THEN b[i] ELSE Blank
  BY DEF Cut
<1>. HIDE DEF c
<1>3. Starts(b) \subseteq Offset /\ r \in 0..Capacity
  BY ScanFacts, Positions
<1>4. \A p \in P : IsBlock(c, p) /\ Span(c, p) = Span(b, p)
  <2>. SUFFICES ASSUME NEW p \in P PROVE IsBlock(c, p) /\ Span(c, p) = Span(b, p)
    OBVIOUS
  <2>1. IsBlock(b, p) /\ c[p] = b[p]
    BY <1>2, <1>3, ScanFacts
  <2>. QED BY <2>1 DEF IsBlock, Span, GoodMeta
<1>5. ~IsBlock(c, r)
  <2>1. SUFFICES ASSUME r < Capacity PROVE c[r].kind = "blank"
    BY DEF IsBlock
  <2>2. r \in Offset /\ ~(r < r)
    BY <1>3, <2>1, Positions
  <2>. QED BY <1>2, <2>2 DEF Blank
<1>6. \A p \in P : p + Span(b, p) \in P \cup {r}
  <2>. SUFFICES ASSUME NEW p \in P PROVE p + Span(b, p) \in P \cup {r}
    OBVIOUS
  <2>1. p + Span(b, p) \in Starts(b) \cup {Tail(b)} /\ p + Span(b, p) <= r
    BY ScanFacts
  <2>2. p + Span(b, p) \in Nat
    BY <2>1, ScanFacts, Positions
  <2>3. \A x \in Nat : x <= r => x < r \/ x = r
    BY <1>3
  <2>4. CASE p + Span(b, p) = Tail(b)
    <3>1. r = Tail(b)
      <4>1. SUFFICES ASSUME r \in Starts(b) PROVE FALSE
        OBVIOUS
      <4>2. r < Tail(b)
        BY <4>1, ScanFacts
      <4>. QED BY <1>3, <2>1, <2>2, <2>4, <4>2
    <3>. QED BY <2>4, <3>1
  <2>. QED BY <2>1, <2>2, <2>3, <2>4
<1>7. \A p \in P, k \in P \cup {r} : p < k => p + Span(c, p) <= k
  BY <1>4, ScanFacts
<1>8. \A k \in P \cup {r} : k # 0 => \E p \in P : p < k /\ k = p + Span(c, p)
  <2>. SUFFICES ASSUME NEW k \in P \cup {r}, k # 0
                PROVE  \E p \in P : p < k /\ k = p + Span(c, p)
    OBVIOUS
  <2>1. PICK p \in Starts(b) : p < k /\ k = p + Span(b, p)
    BY ScanFacts
  <2>2. k \in Nat /\ k <= r /\ p \in Nat
    BY <1>3, Positions
  <2>3. p < r
    BY <1>3, <2>1, <2>2
  <2>. QED BY <1>4, <2>1, <2>3
<1>9. P \subseteq 0..(Capacity - 1) /\ \A p \in P : p < r
  BY <1>3, Positions
<1>10. 0 \in P \cup {r}
  <2>1. 0 < r \/ r = 0
    BY <1>3
  <2>2. CASE 0 = Tail(b)
    <3>1. Starts(b) = {}
      BY <1>3, <2>2, ScanFacts, Positions
    <3>. QED BY <2>2, <3>1
  <2>3. CASE 0 \in Starts(b)
    BY <2>1, <2>3
  <2>. QED BY <2>2, <2>3, ScanFacts
<1>11. Scan(c, 0, P, r)
  BY <1>3, <1>4, <1>5, <1>6, <1>7, <1>8, <1>9, <1>10 DEF Scan
<1>12. Starts(c) = P /\ Tail(c) = r
  BY <1>1, <1>11, StartsAre
<1>. QED BY <1>1, <1>2, <1>12 DEF c

(* gcRead and gcWrite of a collection that copies b to c *)
CopyAt(b, c, r, w) ==
  /\ r \in Starts(b) \cup {Tail(b)}
  /\ \A i \in Offset : i >= w => c[i] = Blank
  /\ Tail(c) = w
  /\ Dirty(c) = {}

(* What GcCopy makes of c *)
Copied(b, c, r, w) ==
  [i \in Offset |-> IF i \in w..(w + Span(b, r) - 1)
                    THEN Program(c[i], b[r + (i - w)]) ELSE c[i]]

LEMMA CopiedCells ==
  ASSUME NEW b \in Sectors, NEW c \in Sectors, NEW r \in Nat, NEW w \in Nat, w <= r,
         IsBlock(b, r), CopyAt(b, c, r, w)
  PROVE  LET d == Copied(b, c, r, w)
             n == Span(b, r) IN
         /\ r \in Starts(b) /\ r + n <= Capacity /\ n \in Nat \ {0}
         /\ d \in Sectors
         /\ \A i \in Offset : i < w => d[i] = c[i]
         /\ \A i \in Offset : i >= w + n => d[i] = Blank
         /\ \A k \in 0..(n - 1) : w + k \in Offset /\ r + k \in Offset /\ d[w + k] = b[r + k]
<1>. DEFINE d == Copied(b, c, r, w)
            n == Span(b, r)
<1>1. r \in Starts(b) /\ r \in Offset
  BY ScanFacts DEF CopyAt
<1>2. n \in Nat \ {0} /\ r + n <= Capacity
  BY <1>1, SpanBound DEF Sectors
<1>. HIDE DEF n
<1>3. ASSUME NEW k \in 0..(n - 1)
      PROVE  /\ w + k \in Offset /\ r + k \in Offset
             /\ r + ((w + k) - w) = r + k
             /\ w + k \in w..(w + n - 1) /\ w + k >= w
  BY <1>1, <1>2, Positions
<1>4. ASSUME NEW k \in 0..(n - 1)
      PROVE  d[w + k] = b[r + k]
  <2>1. c[w + k] = Blank
    BY <1>3 DEF CopyAt
  <2>2. d[w + k] = Program(c[w + k], b[r + ((w + k) - w)])
    BY <1>3 DEF Copied, n
  <2>3. d[w + k] = Program(Blank, b[r + k])
    BY <1>3, <2>1, <2>2
  <2>. QED BY <2>3 DEF Program
<1>5. ASSUME NEW i \in Offset, i < w \/ i >= w + n
      PROVE  d[i] = c[i]
  <2>1. i \notin w..(w + n - 1)
    BY <1>2, <1>5, Positions
  <2>. QED BY <2>1 DEF Copied, n
<1>6. ASSUME NEW i \in Offset, i >= w, i < w + n
      PROVE  i - w \in 0..(n - 1) /\ w + (i - w) = i
  BY <1>2, <1>6, Positions
<1>7. \A i \in Offset : i < w \/ i >= w + n \/ (i >= w /\ i < w + n)
  BY <1>2, Positions
<1>. HIDE DEF d
<1>8. ASSUME NEW i \in Offset PROVE d[i] \in Cell
  <2>1. CASE i < w \/ i >= w + n
    BY <1>5, <2>1 DEF Sectors
  <2>2. CASE i >= w /\ i < w + n
    <3>1. d[w + (i - w)] = b[r + (i - w)] /\ r + (i - w) \in Offset
      BY <1>3, <1>4, <1>6, <2>2
    <3>. QED BY <1>6, <2>2, <3>1 DEF Sectors
  <2>. QED BY <1>7, <2>1, <2>2
<1>9. d \in Sectors
  <2>1. d = [i \in Offset |-> d[i]]
    BY DEF d, Copied
  <2>. QED BY <1>8, <2>1 DEF Sectors
<1>10. ASSUME NEW i \in Offset, i >= w + n PROVE d[i] = Blank
  <2>1. i >= w
    BY <1>2, <1>10, Positions
  <2>. QED BY <1>5, <1>10, <2>1 DEF CopyAt
<1>. QED BY <1>1, <1>2, <1>3, <1>4, <1>5, <1>9, <1>10 DEF d, n

(* A committed block is copied: it is the new last block of c, and the     *)
(* next block of b is read.                                                *)
LEMMA CopiedSector ==
  ASSUME NEW b \in Sectors, NEW c \in Sectors, NEW r \in Nat, NEW w \in Nat, w <= r,
         Tiled(b), Tiled(c), IsBlock(b, r), Committed(b, r), CopyAt(b, c, r, w)
  PROVE  LET d == Copied(b, c, r, w)
             n == Span(b, r) IN
         /\ Tiled(d) /\ CopyAt(b, d, r + n, w + n)
         /\ Starts(d) = Starts(c) \cup {w}
         /\ GoodMeta(d, w) /\ Span(d, w) = n
<1>. DEFINE d == Copied(b, c, r, w)
            n == Span(b, r)
<1>1. /\ r \in Starts(b) /\ r \in Offset /\ r + n <= Capacity /\ n \in Nat \ {0}
      /\ d \in Sectors
      /\ \A i \in Offset : i < w => d[i] = c[i]
      /\ \A i \in Offset : i >= w + n => d[i] = Blank
      /\ \A k \in 0..(n - 1) : w + k \in Offset /\ r + k \in Offset /\ d[w + k] = b[r + k]
  BY CopiedCells, ScanFacts
<1>2. r + n \in Starts(b) \cup {Tail(b)}
  BY <1>1, ScanFacts
<1>3. b[r].kind = "meta" /\ b[r].status = "verify" /\ b[r].len <= Capacity - r - 1
  BY DEF Committed, GoodMeta
<1>4. b[r].len \in Nat /\ n = 1 + b[r].len
  BY <1>1, <1>3 DEF Sectors, Cell, Span, GoodMeta
<1>. HIDE DEF d, n
<1>5. w + 0 \in Offset /\ d[w + 0] = b[r + 0] /\ w + 0 = w /\ r + 0 = r
  BY <1>1
<1>6. w \in Offset /\ d[w] = b[r]
  BY <1>5
<1>7. GoodMeta(d, w) /\ Span(d, w) = n
  BY <1>1, <1>3, <1>4, <1>6, Positions DEF GoodMeta, Span
<1>8. Tail(c) = w
  BY DEF CopyAt
<1>9. IsBlock(d, w)
  BY <1>3, <1>6, Positions DEF IsBlock
<1>10. ~IsBlock(d, w + n)
  <2>1. SUFFICES ASSUME w + n < Capacity PROVE d[w + n].kind = "blank"
    BY DEF IsBlock
  <2>2. w + n \in Offset /\ w + n >= w + n
    BY <1>1, <2>1, Positions
  <2>. QED BY <1>1, <2>2 DEF Blank
<1>11. Follows(c, d)
  <2>. SUFFICES ASSUME NEW p \in Starts(c)
                PROVE  IsBlock(d, p) /\ Span(d, p) = Span(c, p)
    BY DEF Follows
  <2>1. p \in Offset /\ p < w /\ IsBlock(c, p)
    BY <1>8, ScanFacts
  <2>2. d[p] = c[p]
    BY <1>1, <2>1
  <2>. QED BY <2>1, <2>2 DEF IsBlock, Span, GoodMeta
<1>12. Starts(d) = Starts(c) \cup {w} /\ Tail(d) = w + n
  BY <1>1, <1>7, <1>8, <1>9, <1>10, <1>11, LongerScan
<1>13. \A p \in Starts(c) : p \in Offset /\ p < w /\ d[p] = c[p]
  BY <1>1, <1>8, ScanFacts
<1>14. Dirty(d) = {}
  <2>. SUFFICES ASSUME NEW p \in Starts(d) PROVE GoodMeta(d, p) /\ d[p].status = "verify"
    BY DEF Dirty
  <2>1. CASE p = w
    BY <1>3, <1>6, <1>7, <2>1
  <2>2. CASE p \in Starts(c)
    <3>1. GoodMeta(c, p) /\ c[p].status = "verify"
      BY <2>2 DEF CopyAt, Dirty
    <3>. QED BY <1>13, <2>2, <3>1 DEF GoodMeta
  <2>. QED BY <1>12, <2>1, <2>2
<1>15. CopyAt(b, d, r + n, w + n)
  BY <1>1, <1>2, <1>12, <1>14 DEF CopyAt
<1>16. \A i \in Starts(d) : d[i].kind \in {"meta", "bad"}
  BY <1>3, <1>6, <1>12, <1>13 DEF Tiled
<1>17. ASSUME NEW i \in Offset, i < w + n, i \notin Starts(d)
       PROVE  d[i].kind \in Empty \cup {"data"}
  <2>1. CASE i < w
    <3>1. c[i].kind \in Empty \cup {"data"}
      BY <1>8, <1>12, <1>17, <2>1 DEF Tiled
    <3>. QED BY <1>1, <2>1, <3>1
  <2>2. CASE ~(i < w)
    <3>. DEFINE k == i - w
    <3>1. k \in 1..(n - 1) /\ w + k = i
      BY <1>1, <1>12, <1>17, <2>2, Positions
    <3>2. d[i] = b[r + k] /\ r + k \in Offset
      <4>. HIDE DEF k
      <4>1. k \in 0..(n - 1)
        BY <1>1, <3>1
      <4>2. r + k \in Offset /\ d[w + k] = b[r + k]
        BY <1>1, <4>1
      <4>. QED BY <3>1, <4>2
    <3>3. r + k < r + n /\ r < r + k
      <4>. HIDE DEF k
      <4>1. n \in Nat \ {0} /\ k \in 1..(n - 1)
        BY <1>1, <3>1
      <4>. QED BY <4>1
    <3>4. r + k < Tail(b)
      <4>. HIDE DEF k
      <4>1. r + n <= Tail(b)
        BY <1>2, ScanFacts, Positions
      <4>. QED BY <1>1, <3>2, <3>3, <4>1, ScanFacts, Positions
    <3>5. r + k \notin Starts(b)
      <4>. HIDE DEF k
      <4>1. SUFFICES ASSUME r + k \in Starts(b) PROVE FALSE
        OBVIOUS
      <4>2. r + n <= r + k
        BY <1>1, <3>3, <4>1, ScanFacts DEF n
      <4>. QED BY <1>1, <3>2, <3>3, <4>2, Positions
    <3>6. b[r + k].kind \in Empty \cup {"data"}
      <4>. HIDE DEF k
      <4>. QED BY <3>2, <3>4, <3>5 DEF Tiled
    <3>. QED BY <3>2, <3>6
  <2>. QED BY <2>1, <2>2
<1>18. \A i \in Offset : i >= w + n => d[i].kind \in Empty
  BY <1>1 DEF Blank, Empty
<1>19. Tiled(d)
  BY <1>12, <1>16, <1>17, <1>18 DEF Tiled
<1>. QED BY <1>7, <1>12, <1>15, <1>19 DEF d, n

LEMMA ErasedCopy ==
  ASSUME NEW b \in Sectors
  PROVE  Erased \in Sectors /\ Tiled(Erased) /\ CopyAt(b, Erased, 0, 0)
<1>1. Erased \in Sectors /\ \A i \in Offset : Erased[i] = Blank
  BY ErasedType DEF Sectors, Erased
<1>2. Starts(Erased) = {} /\ Tail(Erased) = 0 /\ Tiled(Erased)
  BY <1>1, EmptyScan DEF Blank, Empty
<1>. QED BY <1>1, <1>2, ScanFacts DEF CopyAt, Dirty

LEMMA SkippedBlock ==
  ASSUME NEW b \in Sectors, NEW c, NEW r \in Nat, NEW w, IsBlock(b, r), CopyAt(b, c, r, w)
  PROVE  /\ r \in Starts(b)
         /\ CopyAt(b, c, r + Span(b, r), w)
BY ScanFacts DEF CopyAt

-----------------------------------------------------------------------------
(* What a search finds *)

LEMMA FirstOf ==
  ASSUME NEW S, S \subseteq Nat, S # {}
  PROVE  /\ IsFirst(S, CHOOSE i \in S : IsFirst(S, i))
         /\ \A i, j : IsFirst(S, i) /\ IsFirst(S, j) => i = j
<1>1. \E i \in S : IsFirst(S, i)
  BY LeastNumber DEF IsFirst
<1>2. \A i, j \in Nat : i <= j /\ j <= i => i = j
  OBVIOUS
<1>. QED BY <1>1, <1>2 DEF IsFirst

LEMMA FoundFirst ==
  ASSUME NEW b \in Sectors, NEW t \in Tags
  PROVE  /\ Verified(b, t) \subseteq Offset
         /\ Verified(b, t) = {i \in Starts(b) : Committed(b, i) /\ b[i].tag = t}
         /\ Found(b, t) \in Values \cup {NoValue, Junk}
         /\ Found(b, t) = NoValue <=> Verified(b, t) = {}
         /\ \A i : IsFirst(Verified(b, t), i) => Found(b, t) = ValueAt(b, i)
<1>. DEFINE S == Verified(b, t)
            f == CHOOSE i \in S : IsFirst(S, i)
<1>1. S \subseteq Offset
  BY DEF Verified, Blocks
<1>2. S = {i \in Starts(b) : Committed(b, i) /\ b[i].tag = t}
  BY ScanFacts DEF Verified, Blocks, Committed
<1>3. \A i : ValueAt(b, i) \in Values \cup {Junk}
  BY DEF ValueAt
<1>4. NoValue \notin Values \cup {Junk}
  BY NilAssumption
<1>5. Found(b, t) = IF S = {} THEN NoValue ELSE ValueAt(b, f)
  BY DEF Found
<1>6. \A i : IsFirst(S, i) => i = f
  <2>. SUFFICES ASSUME NEW i, IsFirst(S, i) PROVE i = f
    OBVIOUS
  <2>1. S # {} /\ S \subseteq Nat
    BY <1>1, Positions DEF IsFirst
  <2>2. IsFirst(S, f)
    BY <2>1, FirstOf
  <2>. QED BY <2>1, <2>2, FirstOf
<1>7. \A i : IsFirst(S, i) => S # {}
  BY DEF IsFirst
<1>. HIDE DEF S, f
<1>8. Found(b, t) \in Values \cup {NoValue, Junk} /\ (Found(b, t) = NoValue <=> S = {})
  BY <1>3, <1>4, <1>5
<1>9. \A i : IsFirst(S, i) => Found(b, t) = ValueAt(b, i)
  BY <1>5, <1>6, <1>7
<1>. QED BY <1>1, <1>2, <1>8, <1>9 DEF S

(* The same cells give the same value, wherever they are. *)
LEMMA SameValue ==
  ASSUME NEW b, NEW c, NEW i \in Offset, NEW j \in Offset, NEW n \in Nat,
         b[i].len = n, c[j].len = n, i + n < Capacity, j + n < Capacity,
         \A k \in 1..n : c[j + k] = b[i + k]
  PROVE  ValueAt(c, j) = ValueAt(b, i)
<1>1. ASSUME NEW v \in Values, Len[v] = n
      PROVE  (\A k \in DataCells(j, v) : c[k] = Data(v))
               <=> (\A k \in DataCells(i, v) : b[k] = Data(v))
  <2>1. ASSUME NEW p \in Offset, p + n < Capacity, NEW k \in 1..n
        PROVE  p + k \in DataCells(p, v)
    BY <1>1, <2>1, Positions DEF DataCells
  <2>2. ASSUME NEW p \in Offset, NEW k \in DataCells(p, v)
        PROVE  k - p \in 1..n /\ p + (k - p) = k
    BY <1>1, <2>2, Positions DEF DataCells
  <2>3. ASSUME \A k \in DataCells(j, v) : c[k] = Data(v), NEW k \in DataCells(i, v)
        PROVE  b[k] = Data(v)
    <3>. DEFINE m == k - i
    <3>1. m \in 1..n /\ i + m = k
      BY <2>2
    <3>. HIDE DEF m
    <3>2. j + m \in DataCells(j, v) /\ c[j + m] = b[i + m]
      BY <2>1, <3>1
    <3>. QED BY <2>3, <3>1, <3>2
  <2>4. ASSUME \A k \in DataCells(i, v) : b[k] = Data(v), NEW k \in DataCells(j, v)
        PROVE  c[k] = Data(v)
    <3>. DEFINE m == k - j
    <3>1. m \in 1..n /\ j + m = k
      BY <2>2
    <3>. HIDE DEF m
    <3>2. i + m \in DataCells(i, v) /\ c[j + m] = b[i + m]
      BY <2>1, <3>1
    <3>. QED BY <2>4, <3>1, <3>2
  <2>. QED BY <2>3, <2>4
<1>. DEFINE B == {v \in Values : b[i].len = Len[v] /\ \A k \in DataCells(i, v) : b[k] = Data(v)}
            C == {v \in Values : c[j].len = Len[v] /\ \A k \in DataCells(j, v) : c[k] = Data(v)}
<1>2. B = C
  BY <1>1
<1>3. ValueAt(b, i) = IF B = {} THEN Junk ELSE CHOOSE v \in B : TRUE
  BY Zenon DEF ValueAt
<1>4. ValueAt(c, j) = IF C = {} THEN Junk ELSE CHOOSE v \in C : TRUE
  BY Zenon DEF ValueAt
<1>. HIDE DEF B, C
<1>. QED BY <1>2, <1>3, <1>4

LEMMA GoodLength ==
  ASSUME NEW b \in Sectors, NEW i \in Offset, GoodMeta(b, i)
  PROVE  b[i].len \in Nat /\ i + b[i].len < Capacity /\ Span(b, i) = 1 + b[i].len
<1>1. b[i].len \in Nat
  BY DEF Sectors, Cell, GoodMeta
<1>. QED BY <1>1, Positions DEF GoodMeta, Span

(* d is b with something behind its last block: what b answers, d answers. *)
Prolongs(b, d) ==
  /\ \A i \in Offset : i < Tail(b) => d[i] = b[i]
  /\ Starts(b) = {p \in Starts(d) : p < Tail(b)}

LEMMA ProlongedFound ==
  ASSUME NEW b \in Sectors, NEW d \in Sectors, NEW t \in Tags, Prolongs(b, d)
  PROVE  /\ Verified(b, t) = {i \in Verified(d, t) : i < Tail(b)}
         /\ Found(b, t) # NoValue => Found(d, t) = Found(b, t)
<1>. DEFINE e == Tail(b)
<1>1. \A i \in Starts(b) : i \in Offset /\ i < e /\ d[i] = b[i]
  BY ScanFacts DEF Prolongs
<1>2. Verified(b, t) = {i \in Verified(d, t) : i < e}
  <2>1. \A i \in Starts(b) : /\ Committed(d, i) = Committed(b, i)
                             /\ d[i].tag = b[i].tag
    BY <1>1 DEF Committed, GoodMeta
  <2>2. Verified(d, t) = {i \in Starts(d) : Committed(d, i) /\ d[i].tag = t}
    BY FoundFirst
  <2>3. Verified(b, t) = {i \in Starts(b) : Committed(b, i) /\ b[i].tag = t}
    BY FoundFirst
  <2>. QED BY <2>1, <2>2, <2>3 DEF Prolongs
<1>3. ASSUME Found(b, t) # NoValue PROVE Found(d, t) = Found(b, t)
  <2>1. Verified(b, t) # {} /\ Verified(b, t) \subseteq Nat
    BY <1>3, FoundFirst, Positions
  <2>2. PICK i \in Verified(b, t) : IsFirst(Verified(b, t), i)
    BY <2>1, FirstOf DEF IsFirst
  <2>3. i \in Starts(b) /\ GoodMeta(b, i) /\ i \in Offset
    BY <1>1, FoundFirst DEF Committed
  <2>4. IsFirst(Verified(d, t), i)
    <3>. SUFFICES ASSUME NEW j \in Verified(d, t) PROVE i <= j
      BY <1>2 DEF IsFirst
    <3>1. CASE j < e
      BY <1>2, <2>2, <3>1 DEF IsFirst
    <3>2. CASE ~(j < e)
      <4>1. i < e /\ e \in Nat /\ j \in Nat /\ i \in Nat
        BY <1>1, <2>3, FoundFirst, ScanFacts, Positions
      <4>. HIDE DEF e
      <4>. QED BY <3>2, <4>1
    <3>. QED BY <3>1, <3>2
  <2>5. Found(b, t) = ValueAt(b, i) /\ Found(d, t) = ValueAt(d, i)
    BY <2>2, <2>4, FoundFirst
  <2>. DEFINE n == b[i].len
  <2>6. n \in Nat /\ i + n < Capacity /\ Span(b, i) = 1 + n
    BY <2>3, GoodLength
  <2>7. i + Span(b, i) <= e
    <3>1. i + Span(b, i) \in Starts(b) \cup {e}
      BY <2>3, ScanFacts
    <3>2. e \in Nat
      BY ScanFacts, Positions
    <3>. QED BY <1>1, <3>1, <3>2, Positions
  <2>8. ASSUME NEW k \in 1..n PROVE d[i + k] = b[i + k]
    <3>. HIDE DEF n, e
    <3>1. i + k \in Offset /\ i + k < e
      <4>1. e \in Nat
        BY ScanFacts, Positions DEF e
      <4>. QED BY <2>3, <2>6, <2>7, <4>1, Positions
    <3>. QED BY <3>1 DEF Prolongs, e
  <2>9. d[i].len = n /\ b[i].len = n
    BY <1>1, <2>3
  <2>. HIDE DEF n
  <2>10. ValueAt(d, i) = ValueAt(b, i)
    BY <2>3, <2>6, <2>8, <2>9, SameValue
  <2>. QED BY <2>5, <2>10
<1>. QED BY <1>2, <1>3

(* The next block of b is read. *)
LEMMA CutProlonged ==
  ASSUME NEW b \in Sectors, NEW r \in Starts(b)
  PROVE  LET n == Span(b, r) IN
         /\ r + n \in Starts(b) \cup {Tail(b)} /\ r \in Offset /\ n \in Nat \ {0}
         /\ Starts(Cut(b, r + n)) = Starts(Cut(b, r)) \cup {r}
         /\ Prolongs(Cut(b, r), Cut(b, r + n))
         /\ \A k \in 0..(n - 1) : r + k \in Offset /\ Cut(b, r + n)[r + k] = b[r + k]
<1>. DEFINE n == Span(b, r)
            s == r + n
<1>1. s \in Starts(b) \cup {Tail(b)} /\ r \in Offset
  BY ScanFacts
<1>2. n \in Nat \ {0} /\ s <= Capacity
  BY <1>1, SpanBound DEF Sectors
<1>3. s \in Nat /\ r < s /\ \A p \in Nat : p < r => p < s
  BY <1>1, <1>2, Positions
<1>4. \A k \in 0..(n - 1) : r + k \in Offset /\ r + k < s
  BY <1>1, <1>2, Positions
<1>5. /\ Starts(Cut(b, r)) = {p \in Starts(b) : p < r} /\ Tail(Cut(b, r)) = r
      /\ \A i \in Offset : i < r => Cut(b, r)[i] = b[i]
  BY CutScan
<1>6. \A p \in Starts(b) : p \in Nat /\ (r < p => s <= p)
  BY ScanFacts, Positions
<1>. HIDE DEF s
<1>7. /\ Starts(Cut(b, s)) = {p \in Starts(b) : p < s}
      /\ \A i \in Offset : i < s => Cut(b, s)[i] = b[i]
  BY <1>1, CutScan
<1>8. \A p \in Starts(b) : p < s <=> p < r \/ p = r
  <2>1. \A p \in Nat : p < s /\ s <= p => FALSE
    BY <1>3
  <2>2. \A p \in Nat : p < r \/ p = r \/ r < p
    BY <1>1, Positions
  <2>. QED BY <1>3, <1>6, <2>1, <2>2
<1>9. \A i \in Offset : i < r => i < s
  BY <1>3, Positions
<1>10. Starts(Cut(b, s)) = Starts(Cut(b, r)) \cup {r}
  BY <1>5, <1>7, <1>8
<1>11. Prolongs(Cut(b, r), Cut(b, s))
  BY <1>5, <1>7, <1>8, <1>9 DEF Prolongs
<1>. HIDE DEF n
<1>12. \A k \in 0..(n - 1) : r + k \in Offset /\ Cut(b, s)[r + k] = b[r + k]
  BY <1>4, <1>7
<1>. QED BY <1>1, <1>2, <1>10, <1>11, <1>12 DEF s, n

LEMMA SkippedFound ==
  ASSUME NEW b \in Sectors, NEW r \in Starts(b), ~Committed(b, r), NEW t \in Tags
  PROVE  Found(Cut(b, r + Span(b, r)), t) = Found(Cut(b, r), t)
<1>. DEFINE n == Span(b, r)
            c == Cut(b, r)
            d == Cut(b, r + n)
<1>1. /\ r + n \in Starts(b) \cup {Tail(b)} /\ r \in Offset /\ n \in Nat \ {0}
      /\ Starts(d) = Starts(c) \cup {r} /\ Prolongs(c, d)
      /\ \A k \in 0..(n - 1) : r + k \in Offset /\ d[r + k] = b[r + k]
  BY CutProlonged
<1>2. c \in Sectors /\ d \in Sectors
  BY <1>1, CutScan
<1>3. d[r] = b[r]
  <2>. HIDE DEF n, d
  <2>1. 0 \in 0..(n - 1) /\ r + 0 = r
    BY <1>1, Positions
  <2>. QED BY <1>1, <2>1
<1>4. ~Committed(d, r)
  BY <1>3 DEF Committed, GoodMeta
<1>. HIDE DEF c, d
<1>5. Verified(d, t) \subseteq Starts(c)
  BY <1>1, <1>2, <1>4, FoundFirst
<1>6. Verified(c, t) = {i \in Verified(d, t) : i < Tail(c)}
  BY <1>1, <1>2, ProlongedFound
<1>7. Verified(c, t) = Verified(d, t)
  BY <1>2, <1>5, <1>6, ScanFacts
<1>8. CASE Found(c, t) = NoValue
  BY <1>2, <1>7, <1>8, FoundFirst DEF c, d
<1>9. CASE Found(c, t) # NoValue
  BY <1>1, <1>2, <1>9, ProlongedFound DEF c, d
<1>. QED BY <1>8, <1>9

LEMMA CopiedFound ==
  ASSUME NEW b \in Sectors, NEW c \in Sectors, NEW r \in Nat, NEW w \in Nat, w <= r,
         Tiled(b), Tiled(c), IsBlock(b, r), Committed(b, r), CopyAt(b, c, r, w),
         NEW t \in Tags, Found(c, t) = Found(Cut(b, r), t)
  PROVE  Found(Copied(b, c, r, w), t) = Found(Cut(b, r + Span(b, r)), t)
<1>. DEFINE n == Span(b, r)
            d == Copied(b, c, r, w)
            p == Cut(b, r)
            q == Cut(b, r + n)
<1>1. /\ r \in Starts(b) /\ r + n <= Capacity /\ d \in Sectors
      /\ \A i \in Offset : i < w => d[i] = c[i]
      /\ \A k \in 0..(n - 1) : w + k \in Offset /\ r + k \in Offset /\ d[w + k] = b[r + k]
  BY CopiedCells
<1>2. Starts(d) = Starts(c) \cup {w} /\ GoodMeta(d, w)
  BY CopiedSector
<1>3. /\ r + n \in Starts(b) \cup {Tail(b)} /\ r \in Offset /\ n \in Nat \ {0}
      /\ Starts(q) = Starts(p) \cup {r}
      /\ Prolongs(p, q)
      /\ \A k \in 0..(n - 1) : r + k \in Offset /\ q[r + k] = b[r + k]
  BY <1>1, CutProlonged
<1>4. p \in Sectors /\ q \in Sectors /\ Tail(p) = r
  BY <1>1, <1>3, CutScan
<1>5. Tail(c) = w /\ \A i \in Starts(c) : i < w /\ i \in Nat
  BY ScanFacts, Positions DEF CopyAt
<1>6. Prolongs(c, d)
  <2>1. ~(w < w)
    OBVIOUS
  <2>. QED BY <1>1, <1>2, <1>5, <2>1 DEF Prolongs
<1>7. b[r].len \in Nat /\ n = 1 + b[r].len
  BY <1>3, GoodLength DEF Committed
<1>. HIDE DEF d, p, q, n
<1>8. CASE Found(c, t) # NoValue
  <2>1. Found(d, t) = Found(c, t)
    BY <1>1, <1>6, <1>8, ProlongedFound
  <2>2. Found(q, t) = Found(p, t)
    BY <1>3, <1>4, <1>8, ProlongedFound DEF p
  <2>. QED BY <2>1, <2>2 DEF d, p, q, n
<1>9. CASE Found(c, t) = NoValue
  <2>1. Verified(c, t) = {} /\ Verified(p, t) = {}
    BY <1>4, <1>9, FoundFirst DEF p
  <2>2. Verified(c, t) = {i \in Verified(d, t) : i < w}
    BY <1>1, <1>5, <1>6, ProlongedFound
  <2>3. Verified(p, t) = {i \in Verified(q, t) : i < r}
    BY <1>3, <1>4, ProlongedFound
  <2>4. Verified(d, t) \subseteq {w}
    BY <1>1, <1>2, <1>5, <2>1, <2>2, FoundFirst
  <2>5. Verified(q, t) \subseteq {r}
    <3>1. \A i \in Starts(p) : i < r
      BY <1>4, ScanFacts
    <3>. QED BY <1>3, <1>4, <2>1, <2>3, <3>1, FoundFirst
  <2>6. d[w] = b[r] /\ q[r] = b[r] /\ w \in Offset
    <3>1. 0 \in 0..(n - 1) /\ r + 0 = r /\ w + 0 = w
      BY <1>3
    <3>. QED BY <1>1, <1>3, <3>1
  <2>7. Committed(d, w) /\ Committed(q, r)
    BY <1>2, <2>6 DEF Committed, GoodMeta
  <2>8. CASE b[r].tag # t
    <3>1. Verified(d, t) = {} /\ Verified(q, t) = {}
      BY <1>1, <1>4, <2>4, <2>5, <2>6, <2>8, FoundFirst
    <3>. QED BY <1>1, <1>4, <3>1, FoundFirst DEF d, q, n
  <2>9. CASE b[r].tag = t
    <3>1. w \in Verified(d, t) /\ r \in Verified(q, t)
      BY <1>1, <1>2, <1>3, <1>4, <2>6, <2>7, <2>9, FoundFirst
    <3>2. IsFirst(Verified(d, t), w) /\ IsFirst(Verified(q, t), r)
      BY <2>4, <2>5, <3>1 DEF IsFirst
    <3>3. Found(d, t) = ValueAt(d, w) /\ Found(q, t) = ValueAt(q, r)
      BY <1>1, <1>4, <3>2, FoundFirst
    <3>. DEFINE m == b[r].len
    <3>4. m \in Nat /\ n = 1 + m /\ d[w].len = m /\ q[r].len = m
      BY <1>7, <2>6
    <3>. HIDE DEF m
    <3>5. r + m < Capacity /\ w + m < Capacity
      BY <1>1, <1>3, <3>4, Positions
    <3>6. ASSUME NEW k \in 1..m PROVE d[w + k] = q[r + k]
      <4>1. k \in 0..(n - 1)
        BY <3>4
      <4>. QED BY <1>1, <1>3, <4>1
    <3>7. ValueAt(d, w) = ValueAt(q, r)
      <4>1. r \in Offset /\ w \in Offset
        BY <1>3, <2>6
      <4>2. \A k \in 1..m : d[w + k] = q[r + k]
        BY <3>6
      <4>. QED BY <3>4, <3>5, <4>1, <4>2, SameValue
    <3>. QED BY <3>3, <3>7 DEF d, q, n
  <2>. QED BY <2>8, <2>9
<1>. QED BY <1>8, <1>9

-----------------------------------------------------------------------------
(* The room that committed blocks take *)

LEMMA CellsOf ==
  ASSUME NEW b \in Sectors
  PROVE  /\ \A x : x \in CommittedCells(b) <=>
                     \E i \in Starts(b) : Committed(b, i) /\ x \in i..(i + Span(b, i) - 1)
         /\ CommittedCells(b) \subseteq 0..(Tail(b) - 1)
         /\ IsFiniteSet(CommittedCells(b)) /\ Cardinality(CommittedCells(b)) \in Nat
<1>1. \A x : x \in CommittedCells(b) <=>
               \E i \in Starts(b) : Committed(b, i) /\ x \in i..(i + Span(b, i) - 1)
  BY DEF CommittedCells
<1>2. Tail(b) \in Nat
  BY ScanFacts, Positions
<1>3. CommittedCells(b) \subseteq 0..(Tail(b) - 1)
  <2>. SUFFICES ASSUME NEW i \in Starts(b), NEW x \in i..(i + Span(b, i) - 1)
                PROVE  x \in 0..(Tail(b) - 1)
    BY <1>1
  <2>1. i \in Nat /\ Span(b, i) \in Nat
    BY ScanFacts, SpanBound, Positions DEF Sectors
  <2>2. i + Span(b, i) <= Tail(b)
    BY <1>2, ScanFacts, Positions
  <2>. QED BY <1>2, <2>1, <2>2
<1>4. IsFiniteSet(0..(Tail(b) - 1))
  BY <1>2, FS_Interval
<1>5. IsFiniteSet(CommittedCells(b)) /\ Cardinality(CommittedCells(b)) \in Nat
  BY <1>3, <1>4, FS_Subset, FS_CardinalityType
<1>. QED BY <1>1, <1>3, <1>5

LEMMA CutCells ==
  ASSUME NEW b \in Sectors, NEW r \in Starts(b)
  PROVE  Cardinality(CommittedCells(Cut(b, r + Span(b, r)))) =
           Cardinality(CommittedCells(Cut(b, r)))
             + (IF Committed(b, r) THEN Span(b, r) ELSE 0)
<1>. DEFINE n == Span(b, r)
            p == Cut(b, r)
            q == Cut(b, r + n)
            new == IF Committed(b, r) THEN r..(r + n - 1) ELSE {}
<1>1. /\ r + n \in Starts(b) \cup {Tail(b)} /\ r \in Offset /\ n \in Nat \ {0}
      /\ Starts(q) = Starts(p) \cup {r} /\ Prolongs(p, q)
      /\ \A k \in 0..(n - 1) : r + k \in Offset /\ q[r + k] = b[r + k]
  BY CutProlonged
<1>2. p \in Sectors /\ q \in Sectors /\ Tail(p) = r
  BY <1>1, CutScan
<1>. HIDE DEF p, q
<1>3. r \in Nat /\ n \in Nat \ {0}
  BY <1>1, Positions
<1>4. q[r] = b[r]
  <2>. HIDE DEF n
  <2>1. 0 \in 0..(n - 1) /\ r + 0 = r
    BY <1>3
  <2>. QED BY <1>1, <2>1
<1>5. Committed(q, r) = Committed(b, r) /\ Span(q, r) = n
  BY <1>4 DEF Committed, GoodMeta, Span
<1>6. \A i \in Starts(p) : q[i] = p[i]
  BY <1>1, <1>2, ScanFacts DEF Prolongs
<1>7. \A i \in Starts(p) : Committed(q, i) = Committed(p, i) /\ Span(q, i) = Span(p, i)
  BY <1>6 DEF Committed, GoodMeta, Span
<1>. HIDE DEF n
<1>8. CommittedCells(q) = CommittedCells(p) \cup new
  <2>1. ASSUME NEW x PROVE x \in CommittedCells(q) <=> x \in CommittedCells(p) \cup new
    <3>1. x \in CommittedCells(q) <=>
            \/ \E i \in Starts(p) : Committed(q, i) /\ x \in i..(i + Span(q, i) - 1)
            \/ Committed(q, r) /\ x \in r..(r + Span(q, r) - 1)
      BY <1>1, <1>2, CellsOf
    <3>2. x \in CommittedCells(p) <=>
            \E i \in Starts(p) : Committed(p, i) /\ x \in i..(i + Span(p, i) - 1)
      BY <1>2, CellsOf
    <3>. QED BY <1>5, <1>7, <3>1, <3>2
  <2>. QED BY <2>1
<1>9. /\ CommittedCells(p) \subseteq 0..(r - 1)
      /\ IsFiniteSet(CommittedCells(p)) /\ Cardinality(CommittedCells(p)) \in Nat
  BY <1>2, CellsOf
<1>10. IsFiniteSet(new) /\ Cardinality(new) = IF Committed(b, r) THEN n ELSE 0
  <2>1. CASE Committed(b, r)
    <3>1. new = r..(r + n - 1)
      BY <2>1
    <3>2. r \in Int /\ r + n - 1 \in Int /\ ~(r > r + n - 1) /\ (r + n - 1) - r + 1 = n
      BY <1>3
    <3>. QED BY <2>1, <3>1, <3>2, FS_Interval
  <2>2. CASE ~Committed(b, r)
    BY <2>2, FS_EmptySet
  <2>. QED BY <2>1, <2>2
<1>11. CommittedCells(p) \cap new = {}
  <2>1. \A x \in 0..(r - 1) : x \notin r..(r + n - 1)
    BY <1>3
  <2>. QED BY <1>9, <2>1
<1>. HIDE DEF new
<1>12. Cardinality(CommittedCells(q)) =
         Cardinality(CommittedCells(p)) + Cardinality(new) - Cardinality({})
  BY <1>8, <1>9, <1>10, <1>11, FS_Union
<1>13. Cardinality(CommittedCells(q)) = Cardinality(CommittedCells(p)) + Cardinality(new)
  BY <1>3, <1>9, <1>10, <1>12, FS_EmptySet
<1>. QED BY <1>10, <1>13 DEF p, q, n

(* The blocks of a sector cover it up to its end. *)
LEMMA Covered ==
  ASSUME NEW b \in Sectors, NEW x \in 0..(Tail(b) - 1)
  PROVE  \E i \in Starts(b) : x \in i..(i + Span(b, i) - 1)
<1>. DEFINE S == {p \in Starts(b) \cup {Tail(b)} : p <= x}
<1>1. Tail(b) \in 0..Capacity /\ Starts(b) \subseteq 0..Capacity /\ x \in Nat
  BY ScanFacts, Positions
<1>2. S \subseteq 0..Capacity /\ S # {}
  <2>1. 0 \in S
    BY <1>1, ScanFacts
  <2>. QED BY <1>1, <2>1
<1>3. PICK i \in S : \A p \in S : p <= i
  BY <1>2, GreatestNumber, Positions
<1>4. i \in Starts(b) /\ i <= x
  BY <1>1, <1>3
<1>5. Span(b, i) \in Nat \ {0} /\ i + Span(b, i) \in Starts(b) \cup {Tail(b)}
  BY <1>4, ScanFacts, SpanBound DEF Sectors
<1>6. ~(i + Span(b, i) <= i)
  BY <1>1, <1>4, <1>5
<1>7. ~(i + Span(b, i) <= x)
  BY <1>3, <1>5, <1>6
<1>. QED BY <1>1, <1>4, <1>5, <1>7

LEMMA FullCells ==
  ASSUME NEW b \in Sectors, Dirty(b) = {}
  PROVE  Cardinality(CommittedCells(b)) = Tail(b)
<1>1. CommittedCells(b) \subseteq 0..(Tail(b) - 1)
  BY CellsOf
<1>2. \A i \in Starts(b) : Committed(b, i)
  BY DEF Dirty, Committed
<1>3. 0..(Tail(b) - 1) \subseteq CommittedCells(b)
  BY <1>2, Covered, CellsOf
<1>4. CommittedCells(b) = 0..(Tail(b) - 1)
  BY <1>1, <1>3
<1>5. Tail(b) \in Nat
  BY ScanFacts, Positions
<1>6. Cardinality(0..(Tail(b) - 1)) = IF 0 > Tail(b) - 1 THEN 0 ELSE Tail(b) - 1 - 0 + 1
  BY <1>5, FS_Interval
<1>. QED BY <1>4, <1>5, <1>6

LEMMA WholeCells ==
  ASSUME NEW b \in Sectors
  PROVE  CommittedCells(Cut(b, Tail(b))) = CommittedCells(b)
<1>. DEFINE c == Cut(b, Tail(b))
<1>1. c \in Sectors /\ Starts(c) = {p \in Starts(b) : p < Tail(b)}
  BY CutScan
<1>2. Starts(c) = Starts(b)
  BY <1>1, ScanFacts
<1>3. \A i \in Starts(b) : c[i] = b[i]
  BY CutScan, ScanFacts
<1>4. \A i \in Starts(b) : Committed(c, i) = Committed(b, i) /\ Span(c, i) = Span(b, i)
  BY <1>3 DEF Committed, GoodMeta, Span
<1>. HIDE DEF c
<1>5. ASSUME NEW x PROVE x \in CommittedCells(c) <=> x \in CommittedCells(b)
  BY <1>1, <1>2, <1>4, CellsOf
<1>. QED BY <1>5 DEF c

LEMMA NothingRead ==
  ASSUME NEW b \in Sectors
  PROVE  /\ Cut(b, 0) = Erased
         /\ Cardinality(CommittedCells(Erased)) = 0
<1>1. Cut(b, 0) = Erased
  <2>1. \A i \in Offset : ~(i < 0)
    BY Positions
  <2>. QED BY <2>1 DEF Cut, Erased
<1>2. Starts(Erased) = {}
  <2>1. Erased \in Sectors /\ \A i \in Offset : Erased[i] = Blank
    BY ErasedType DEF Sectors, Erased
  <2>. QED BY <2>1, EmptyScan DEF Blank, Empty
<1>3. CommittedCells(Erased) = {}
  BY <1>2 DEF CommittedCells
<1>. QED BY <1>1, <1>3, FS_EmptySet

-----------------------------------------------------------------------------
(* The inductive invariant: both sectors are tiled by their blocks, a new  *)
(* block goes where the scan ends, its data cells are the last ones, and   *)
(* the sector that is copied to holds what was read.  And MarkInv: where   *)
(* mark_address points to.                                                 *)

Copying ==
  LET b == flash[work]
      c == flash[Other(work)]
  IN  /\ CopyAt(b, c, gcRead, gcWrite)
      /\ \A t \in Tags : Found(c, t) = Found(Cut(b, gcRead), t)
      /\ Cardinality(CommittedCells(Cut(b, gcRead))) = gcWrite

LogInv ==
  /\ \A s \in Sector : Tiled(flash[s])
  /\ pc = "wr_meta" => job.at = Tail(flash[work]) /\ Fits(job.at, job.val)
  /\ pc = "wr_data" => /\ job.at \in Starts(flash[work])
                       /\ Span(flash[work], job.at) = 1 + Len[job.val]
  /\ pc = "gc_copy" => Copying

MarkInv ==
  /\ MarkIsBlock
  /\ pc = "gc_copy" /\ mark \in Address => mark.sec = work
  /\ pc \in {"boot", "format"} => mark = Nil

LInv == IInv /\ LogInv /\ MarkInv

LEMMA InUse ==
  ASSUME IInv
  PROVE  /\ flash \in [Sector -> Sectors]
         /\ gcRead \in Nat /\ gcWrite \in Nat
         /\ mark \in Address => mark.sec \in Sector /\ mark.off \in Offset
         /\ pc \notin {"boot", "format"} =>
              /\ work \in Sector /\ Other(work) \in Sector /\ Other(work) # work
              /\ flash[work] \in Sectors /\ flash[Other(work)] \in Sectors
         /\ pc \in Writing \cup Collecting => job \in Jobs
         /\ pc \in Writing => job.at \in Offset
         /\ pc = "gc_copy" => gcWrite <= gcRead
         /\ pc = "wr_delete" => mark \in Address \cup {Gone}
<1>1. flash \in [Sector -> Sectors]
  BY DEF IInv, TypeOK, Sectors
<1>2. gcRead \in Nat /\ gcWrite \in Nat
  BY Positions DEF IInv, TypeOK
<1>3. mark \in Address => mark.sec \in Sector /\ mark.off \in Offset
  BY DEF IInv, TypeOK, Address
<1>4. /\ pc \notin {"boot", "format"} => work \in Sector
      /\ pc \in Writing \cup Collecting => job \in Jobs
      /\ pc \in Writing => job.at \in Offset
      /\ pc = "gc_copy" => gcWrite <= gcRead
      /\ pc = "wr_delete" => mark \in Address \cup {Gone}
  BY DEF IInv, TypeOK, CallInv
<1>. QED BY <1>1, <1>2, <1>3, <1>4, OtherSector

(* A step that leaves flash alone, or retouches one sector *)
LEMMA QuietStep ==
  LogInv /\ UNCHANGED flash /\ pc' \notin {"wr_meta", "wr_data", "gc_copy"} => LogInv'
BY DEF LogInv

LEMMA SectorWritten ==
  ASSUME IInv, LogInv, NEW s \in Sector, NEW c, Tiled(c),
         flash' = [flash EXCEPT ![s] = c]
  PROVE  /\ \A x \in Sector : Tiled(flash'[x])
         /\ flash'[s] = c
         /\ \A x \in Sector : x # s => flash'[x] = flash[x]
BY InUse DEF LogInv

LEMMA CellWritten ==
  ASSUME IInv, NEW s \in Sector, NEW i \in Offset, NEW c
  PROVE  [flash EXCEPT ![s][i] = c] = [flash EXCEPT ![s] = [flash[s] EXCEPT ![i] = c]]
BY DEF IInv, TypeOK

LEMMA StruckLog ==
  ASSUME IInv, LogInv, NEW s \in Sector, NEW i \in Offset, flash[s][i].kind = "meta",
         flash' = [flash EXCEPT ![s][i] = Strike(@)],
         pc' \notin {"wr_meta", "wr_data", "gc_copy"}
  PROVE  LogInv'
<1>. DEFINE c == [flash[s] EXCEPT ![i] = Strike(flash[s][i])]
<1>1. flash[s] \in Sectors /\ Tiled(flash[s])
  BY InUse DEF LogInv
<1>2. Tiled(c)
  BY <1>1, StruckSector
<1>3. flash' = [flash EXCEPT ![s] = c]
  BY InUse
<1>. HIDE DEF c
<1>4. \A x \in Sector : Tiled(flash'[x])
  BY <1>2, <1>3, SectorWritten
<1>. QED BY <1>4 DEF LogInv

LEMMA LogInit == Init => LogInv
<1>. SUFFICES ASSUME Init PROVE LogInv
  OBVIOUS
<1>1. Tiled(Erased)
  BY ErasedCopy, ErasedType DEF Sectors
<1>2. \A s \in Sector : flash[s] = Erased
  BY DEF Init
<1>. QED BY <1>1, <1>2 DEF Init, LogInv

LEMMA FormatLog == IInv /\ LogInv /\ (FormatErase \/ FormatHeader) => LogInv'
<1>1. ASSUME LogInv, FormatErase PROVE LogInv'
  <2>1. Tiled(Erased)
    BY ErasedCopy, ErasedType DEF Sectors
  <2>2. pc' = "format" /\ \A s \in Sector : flash'[s] = Erased
    BY <1>1 DEF FormatErase
  <2>. QED BY <2>1, <2>2 DEF LogInv
<1>2. ASSUME LogInv, FormatHeader PROVE LogInv'
  BY <1>2, QuietStep DEF FormatHeader
<1>. QED BY <1>1, <1>2

LEMMA DeleteLog ==
  ASSUME NEW t \in Tags, IInv, LogInv, Delete(t)
  PROVE  LogInv'
<1>1. pc = "idle" /\ pc' = "idle"
  BY DEF Delete
<1>2. CASE DeleteFirst(t)
  <2>1. PICK i \in Offset : /\ IsFirst(Live(flash[work], t), i)
                           /\ flash' = [flash EXCEPT ![work][i] = Strike(@)]
    BY <1>2 DEF DeleteFirst
  <2>2. flash[work][i].kind = "meta"
    BY <2>1 DEF IsFirst, Live, Blocks, GoodMeta
  <2>. QED BY <1>1, <2>1, <2>2, InUse, StruckLog
<1>3. CASE DeleteNothing(t)
  BY <1>1, <1>3, QuietStep DEF DeleteNothing
<1>. QED BY <1>2, <1>3 DEF Delete

LEMMA AppendLog ==
  ASSUME NEW t \in Tags, NEW v \in Values, IInv, LogInv, Append(t, v)
  PROVE  LogInv'
<1>1. CASE AppendInPlace(t, v)
  <2>1. /\ UNCHANGED <<flash, work>> /\ pc' = "wr_meta"
        /\ job' = [tag |-> t, val |-> v, at |-> Tail(flash[work])]
        /\ Fits(Tail(flash[work]), v)
    BY <1>1 DEF AppendInPlace, Place, flashVars
  <2>. QED BY <2>1 DEF LogInv, Fits
<1>2. CASE AppendCollect(t, v) \/ AppendFull(t, v)
  BY <1>2, QuietStep DEF AppendCollect, AppendFull, Return, flashVars
<1>. QED BY <1>1, <1>2 DEF Append

LEMMA GcEraseLog == IInv /\ LogInv /\ GcErase => LogInv'
<1>. SUFFICES ASSUME IInv, LogInv, GcErase PROVE LogInv'
  OBVIOUS
<1>. DEFINE b == flash[work]
<1>1. /\ work \in Sector /\ Other(work) \in Sector /\ Other(work) # work
      /\ b \in Sectors
  BY InUse DEF GcErase
<1>2. Tiled(Erased) /\ CopyAt(b, Erased, 0, 0)
  BY <1>1, ErasedCopy
<1>3. flash' = [flash EXCEPT ![Other(work)] = Erased]
  BY DEF GcErase
<1>4. /\ \A s \in Sector : Tiled(flash'[s])
      /\ flash'[Other(work)] = Erased /\ flash'[work] = b
  BY <1>1, <1>2, <1>3, SectorWritten
<1>5. Cut(b, 0) = Erased /\ Cardinality(CommittedCells(Erased)) = 0
  BY <1>1, NothingRead
<1>6. work' = work /\ gcRead' = 0 /\ gcWrite' = 0 /\ pc' = "gc_copy"
  BY DEF GcErase
<1>7. Copying'
  BY <1>2, <1>4, <1>5, <1>6 DEF Copying
<1>. QED BY <1>4, <1>6, <1>7 DEF LogInv

LEMMA GcCopyLog == IInv /\ LogInv /\ GcCopy => LogInv'
<1>. SUFFICES ASSUME IInv, LogInv, GcCopy PROVE LogInv'
  OBVIOUS
<1>. DEFINE b == flash[work]
            c == flash[Other(work)]
            r == gcRead
            w == gcWrite
            n == Span(b, r)
            d == Copied(b, c, r, w)
<1>1. pc = "gc_copy" /\ IsBlock(b, r) /\ Committed(b, r)
  BY DEF GcCopy
<1>2. /\ work \in Sector /\ Other(work) \in Sector /\ Other(work) # work
      /\ b \in Sectors /\ c \in Sectors /\ r \in Nat /\ w \in Nat /\ w <= r
  BY <1>1, InUse
<1>3. Tiled(b) /\ Tiled(c) /\ Copying
  BY <1>1, <1>2 DEF LogInv
<1>4. flash' = [flash EXCEPT ![Other(work)] = d]
  BY DEF GcCopy, Copied
<1>5. work' = work /\ gcRead' = r + n /\ gcWrite' = w + n /\ pc' = "gc_copy"
  BY <1>1 DEF GcCopy
<1>6. /\ CopyAt(b, c, r, w)
      /\ \A t \in Tags : Found(c, t) = Found(Cut(b, r), t)
      /\ Cardinality(CommittedCells(Cut(b, r))) = w
  BY <1>3 DEF Copying
<1>. HIDE DEF b, c, r, w
<1>7. Tiled(d) /\ CopyAt(b, d, r + n, w + n)
  BY <1>1, <1>2, <1>3, <1>6, CopiedSector
<1>8. \A t \in Tags : Found(d, t) = Found(Cut(b, r + n), t)
  BY <1>1, <1>2, <1>3, <1>6, CopiedFound
<1>9. Cardinality(CommittedCells(Cut(b, r + n))) = w + n
  <2>1. r \in Starts(b)
    BY <1>1, <1>2, <1>6, ScanFacts DEF CopyAt
  <2>. QED BY <1>1, <1>2, <1>6, <2>1, CutCells
<1>. HIDE DEF n, d
<1>10. /\ \A s \in Sector : Tiled(flash'[s])
       /\ flash'[Other(work)] = d /\ flash'[work] = b
  BY <1>2, <1>4, <1>7, SectorWritten DEF b
<1>11. Copying'
  BY <1>5, <1>7, <1>8, <1>9, <1>10 DEF Copying
<1>. QED BY <1>5, <1>10, <1>11 DEF LogInv

LEMMA GcSkipLog == IInv /\ LogInv /\ GcSkip => LogInv'
<1>. SUFFICES ASSUME IInv, LogInv, GcSkip PROVE LogInv'
  OBVIOUS
<1>. DEFINE b == flash[work]
            c == flash[Other(work)]
            r == gcRead
            n == Span(b, r)
<1>1. pc = "gc_copy" /\ IsBlock(b, r) /\ ~Committed(b, r)
  BY DEF GcSkip
<1>2. b \in Sectors /\ c \in Sectors /\ r \in Nat /\ gcWrite \in Nat
  BY <1>1, InUse
<1>3. /\ CopyAt(b, c, r, gcWrite)
      /\ \A t \in Tags : Found(c, t) = Found(Cut(b, r), t)
      /\ Cardinality(CommittedCells(Cut(b, r))) = gcWrite
  BY <1>1 DEF LogInv, Copying
<1>4. UNCHANGED <<flash, work, gcWrite>> /\ gcRead' = r + n /\ pc' = "gc_copy"
  BY <1>1 DEF GcSkip, flashVars
<1>5. \A s \in Sector : Tiled(flash[s])
  BY DEF LogInv
<1>. HIDE DEF b, c, r
<1>6. r \in Starts(b) /\ CopyAt(b, c, r + n, gcWrite)
  BY <1>1, <1>2, <1>3, SkippedBlock
<1>7. \A t \in Tags : Found(c, t) = Found(Cut(b, r + n), t)
  BY <1>1, <1>2, <1>3, <1>6, SkippedFound
<1>8. Cardinality(CommittedCells(Cut(b, r + n))) = gcWrite
  BY <1>1, <1>2, <1>3, <1>6, CutCells
<1>. HIDE DEF n
<1>9. Copying'
  BY <1>4, <1>6, <1>7, <1>8 DEF Copying, b, c
<1>. QED BY <1>4, <1>5, <1>9 DEF LogInv

LEMMA GcEndLog == IInv /\ LogInv /\ (GcPlace \/ GcFull) => LogInv'
<1>. SUFFICES ASSUME IInv, LogInv, GcPlace \/ GcFull PROVE LogInv'
  OBVIOUS
<1>1. pc = "gc_copy" /\ UNCHANGED flash /\ work' = Other(work)
  BY DEF GcPlace, GcFull, GcCommit
<1>2. CASE GcPlace
  <2>1. /\ pc' = "wr_meta" /\ Fits(gcWrite, job.val)
        /\ job' = [tag |-> job.tag, val |-> job.val, at |-> Tail(flash[Other(work)])]
    BY <1>2 DEF GcPlace, Place
  <2>2. Tail(flash[Other(work)]) = gcWrite
    BY <1>1 DEF LogInv, Copying, CopyAt
  <2>. QED BY <1>1, <2>1, <2>2 DEF LogInv, Fits
<1>3. CASE GcFull
  BY <1>1, <1>3, QuietStep DEF GcFull, Return
<1>. QED BY <1>2, <1>3

LEMMA WriteMetaLog == IInv /\ LogInv /\ WriteMeta => LogInv'
<1>. SUFFICES ASSUME IInv, LogInv, WriteMeta PROVE LogInv'
  OBVIOUS
<1>. DEFINE b == flash[work]
            e == job.at
            m == Meta(job.tag, Len[job.val], "write")
            c == [b EXCEPT ![e] = Program(b[e], m)]
<1>1. pc = "wr_meta" /\ pc' = "wr_data" /\ UNCHANGED <<work, job>>
  BY DEF WriteMeta
<1>2. work \in Sector /\ b \in Sectors /\ job \in Jobs /\ e \in Offset
  BY <1>1, InUse DEF Writing
<1>3. Tiled(b) /\ e = Tail(b) /\ Fits(e, job.val)
  BY <1>1, <1>2 DEF LogInv
<1>4. flash' = [flash EXCEPT ![work] = c]
  BY <1>2, InUse DEF WriteMeta
<1>5. Len[job.val] \in Nat /\ m \in Cell
  BY <1>2, LenAssumption, MetaAndData DEF Jobs, Status
<1>6. b[e] \in Cell /\ b[e].kind \in Empty
  <2>1. e >= Tail(b)
    BY <1>2, <1>3, Positions
  <2>. QED BY <1>2, <1>3, <2>1 DEF Tiled, Sectors
<1>7. /\ Program(b[e], m) \in Cell
      /\ Program(b[e], m).kind = "meta" /\ Program(b[e], m).len = Len[job.val]
  <2>1. b[e] = Blank
    BY <1>6, EmptyCell
  <2>2. m.kind = "meta" /\ m.len = Len[job.val]
    BY DEF Meta
  <2>. QED BY <1>5, <2>1, <2>2 DEF Program
<1>8. /\ c \in Sectors
      /\ c[e].kind = "meta" /\ c[e].len = Len[job.val]
      /\ \A i \in Offset : i # e => c[i] = b[i]
  BY <1>2, <1>7 DEF Sectors
<1>. HIDE DEF b, c, e
<1>9. Tail(b) < Capacity /\ c[Tail(b)].kind \in {"meta", "bad"}
  BY <1>2, <1>3, <1>8, Positions
<1>10. Starts(c) = Starts(b) \cup {e} /\ Tiled(c)
  BY <1>2, <1>3, <1>8, <1>9, LongerSector
<1>11. Span(c, e) = 1 + Len[job.val]
  BY <1>2, <1>3, <1>5, <1>8, Positions DEF Span, GoodMeta, Fits
<1>12. (\A s \in Sector : Tiled(flash'[s])) /\ flash'[work] = c
  BY <1>2, <1>4, <1>10, SectorWritten
<1>. QED BY <1>1, <1>10, <1>11, <1>12 DEF LogInv, e

(* The data cells of the new block, written to the end or not *)
LEMMA FilledLog ==
  ASSUME IInv, LogInv, pc = "wr_data", NEW v \in Values, Len[v] <= Len[job.val],
         NEW x \in Values \cup {Junk},
         flash' = [flash EXCEPT ![work] = Filled(@, DataCells(job.at, v), Data(x))],
         pc' \notin {"wr_meta", "wr_data", "gc_copy"}
  PROVE  LogInv'
<1>. DEFINE b == flash[work]
            c == Filled(b, DataCells(job.at, v), Data(x))
<1>1. work \in Sector /\ b \in Sectors /\ job \in Jobs /\ job.at \in Offset
  BY InUse DEF Writing
<1>2. Tiled(b) /\ job.at \in Starts(b) /\ Span(b, job.at) = 1 + Len[job.val]
  BY <1>1 DEF LogInv
<1>3. Len[v] \in Nat /\ Len[job.val] \in Nat /\ job.at \in Nat
  BY <1>1, LenAssumption, Positions DEF Jobs
<1>4. job.at + 1 + Len[v] <= job.at + Span(b, job.at)
  BY <1>2, <1>3
<1>5. Tiled(c)
  BY <1>1, <1>2, <1>4, FilledSector
<1>6. flash' = [flash EXCEPT ![work] = c]
  OBVIOUS
<1>. HIDE DEF c
<1>7. \A s \in Sector : Tiled(flash'[s])
  BY <1>1, <1>5, <1>6, SectorWritten
<1>. QED BY <1>7 DEF LogInv

LEMMA WriteDataLog == IInv /\ LogInv /\ WriteData => LogInv'
<1>. SUFFICES ASSUME IInv, LogInv, WriteData PROVE LogInv'
  OBVIOUS
<1>1. pc = "wr_data" /\ pc' = "check"
  BY DEF WriteData
<1>2. job.val \in Values /\ Len[job.val] <= Len[job.val]
  BY <1>1, InUse, LenAssumption DEF Writing, Jobs
<1>3. PICK x \in Values \cup {Junk} :
        flash' = [flash EXCEPT ![work] = Filled(@, DataCells(job.at, job.val), Data(x))]
  BY <1>2 DEF WriteData
<1>. QED BY <1>1, <1>2, <1>3, FilledLog

LEMMA ConfirmLog ==
  ASSUME IInv, LogInv, pc = "check", ReadBackOk, Confirm,
         pc' \notin {"wr_meta", "wr_data", "gc_copy"}
  PROVE  LogInv'
<1>. DEFINE b == flash[work]
            k == job.at
            n == Len[job.val]
            c == [b EXCEPT ![k] = Meta(job.tag, n, "verify")]
<1>1. work \in Sector /\ b \in Sectors /\ job \in Jobs /\ k \in Offset
  BY InUse DEF Writing
<1>2. Tiled(b) /\ b[k] = Meta(job.tag, n, "write")
  BY <1>1 DEF LogInv, ReadBackOk
<1>3. b[k].kind = "meta" /\ b[k].len = n /\ n \in Nat /\ job.tag \in Tags /\ "verify" \in Status
  BY <1>1, <1>2, LenAssumption DEF Meta, Jobs, Status
<1>4. flash' = [flash EXCEPT ![work] = c]
  BY <1>1, InUse DEF Confirm
<1>5. Tiled(c)
  <2>. HIDE DEF b, k, n
  <2>. QED BY <1>1, <1>2, <1>3, ConfirmedSector
<1>. HIDE DEF c
<1>6. \A s \in Sector : Tiled(flash'[s])
  BY <1>1, <1>4, <1>5, SectorWritten
<1>. QED BY <1>6 DEF LogInv

LEMMA FinishLog ==
  /\ IInv /\ LogInv /\ MarkIsBlock
  /\ CheckFails \/ ConfirmNew \/ ConfirmOver \/ StrikeMark \/ StrikeGone
  => LogInv'
<1>1. ASSUME LogInv, CheckFails PROVE LogInv'
  BY <1>1, QuietStep DEF CheckFails, Return, flashVars
<1>2. ASSUME IInv, LogInv, ConfirmNew PROVE LogInv'
  <2>1. pc = "check" /\ ReadBackOk /\ Confirm /\ pc' = "idle"
    BY <1>2 DEF ConfirmNew, Return
  <2>. QED BY <1>2, <2>1, ConfirmLog
<1>3. ASSUME IInv, LogInv, ConfirmOver PROVE LogInv'
  <2>1. pc = "check" /\ ReadBackOk /\ Confirm /\ pc' = "wr_delete"
    BY <1>3 DEF ConfirmOver
  <2>. QED BY <1>3, <2>1, ConfirmLog
<1>4. ASSUME IInv, LogInv, MarkIsBlock, StrikeMark PROVE LogInv'
  <2>1. pc = "wr_delete" /\ pc' = "idle"
    BY <1>4 DEF StrikeMark, Return
  <2>2. mark.sec \in Sector /\ mark.off \in Offset /\ flash[mark.sec][mark.off].kind = "meta"
    BY <1>4, <2>1, InUse DEF MarkIsBlock, StrikeMark
  <2>3. flash' = [flash EXCEPT ![mark.sec][mark.off] = Strike(@)]
    BY <1>4 DEF StrikeMark
  <2>. QED BY <1>4, <2>1, <2>2, <2>3, StruckLog
<1>5. ASSUME LogInv, StrikeGone PROVE LogInv'
  BY <1>5, QuietStep DEF StrikeGone, flashVars
<1>. QED BY <1>1, <1>2, <1>3, <1>4, <1>5

LEMMA TornMetaLog ==
  ASSUME IInv, LogInv, TornMeta, pc' = "boot"
  PROVE  LogInv'
<1>. DEFINE b == flash[work]
            e == job.at
            c == [b EXCEPT ![e] = Bad]
<1>1. pc = "wr_meta"
  BY DEF TornMeta
<1>2. work \in Sector /\ b \in Sectors /\ e \in Offset
  BY <1>1, InUse DEF Writing
<1>3. Tiled(b) /\ e = Tail(b)
  BY <1>1, <1>2 DEF LogInv
<1>4. flash' = [flash EXCEPT ![work] = c]
  BY <1>2, InUse DEF TornMeta
<1>5. c \in Sectors /\ c[e].kind = "bad" /\ \A i \in Offset : i # e => c[i] = b[i]
  BY <1>2, CellTypes DEF Sectors, Bad
<1>. HIDE DEF b, c, e
<1>6. Tail(b) < Capacity /\ c[Tail(b)].kind \in {"meta", "bad"}
  BY <1>2, <1>3, <1>5, Positions
<1>7. Tiled(c)
  BY <1>2, <1>3, <1>5, <1>6, LongerSector
<1>8. \A s \in Sector : Tiled(flash'[s])
  BY <1>2, <1>4, <1>7, SectorWritten
<1>. QED BY <1>8 DEF LogInv

LEMMA PowerLossLog == IInv /\ LogInv /\ PowerLoss => LogInv'
<1>. SUFFICES ASSUME IInv, LogInv, PowerLoss PROVE LogInv'
  OBVIOUS
<1>1. pc' = "boot"
  BY DEF PowerLoss
<1>2. CASE TornMeta
  BY <1>1, <1>2, TornMetaLog
<1>3. CASE TornData
  <2>1. PICK v \in Values :
          /\ Len[v] <= Len[job.val]
          /\ flash' = [flash EXCEPT ![work] = Filled(@, DataCells(job.at, v), Data(Junk))]
    BY <1>3 DEF TornData
  <2>2. pc = "wr_data" /\ Junk \in Values \cup {Junk}
    BY <1>3 DEF TornData
  <2>. QED BY <1>1, <2>1, <2>2, FilledLog
<1>4. CASE UNCHANGED flash
  BY <1>1, <1>4, QuietStep
<1>. QED BY <1>2, <1>3, <1>4 DEF PowerLoss, Interrupted, TornHeader, flashVars

LEMMA LogNext == IInv /\ LogInv /\ MarkIsBlock /\ [Next]_vars => LogInv'
<1>. SUFFICES ASSUME IInv, LogInv, MarkIsBlock, [Next]_vars PROVE LogInv'
  OBVIOUS
<1>1. CASE UNCHANGED vars \/ Lost
  BY <1>1 DEF LogInv, Copying, Lost, vars
<1>2. CASE Mount
  BY <1>2, QuietStep DEF Mount, flashVars
<1>3. ASSUME NEW t \in Tags, Query(t) PROVE LogInv'
  BY <1>3, QuietStep DEF Query, flashVars
<1>4. ASSUME NEW t \in Tags, Delete(t) PROVE LogInv'
  BY <1>4, DeleteLog
<1>5. ASSUME NEW t \in Tags, NEW v \in Values, Append(t, v) PROVE LogInv'
  BY <1>5, AppendLog
<1>6. CASE Proceed
  BY <1>6, FormatLog, GcEraseLog, GcCopyLog, GcSkipLog, GcEndLog, WriteMetaLog,
     WriteDataLog, FinishLog DEF Proceed
<1>7. CASE PowerLoss
  BY <1>7, PowerLossLog
<1>. QED BY <1>1, <1>2, <1>3, <1>4, <1>5, <1>6, <1>7 DEF Next

-----------------------------------------------------------------------------
(* Where mark_address points to *)

LEMMA MarksMark ==
  ASSUME NEW s \in Sector, NEW t \in Tags, Marks(s, t), UNCHANGED flash, MarkIsBlock
  PROVE  MarkIsBlock'
<1>1. CASE mark' = mark
  BY <1>1 DEF MarkIsBlock
<1>2. ASSUME NEW i \in Offset, IsLast(Live(flash[s], t), i), mark' = [sec |-> s, off |-> i]
      PROVE  MarkIsBlock'
  BY <1>2 DEF IsLast, Live, Blocks, GoodMeta, MarkIsBlock
<1>. QED BY <1>1, <1>2 DEF Marks

(* Writing a cell keeps the blocks elsewhere; this one stays or becomes a  *)
(* meta cell, or was none.                                                 *)
LEMMA WriteMark ==
  ASSUME IInv, MarkIsBlock, UNCHANGED mark, NEW s \in Sector, NEW b,
         flash' = [flash EXCEPT ![s] = b],
         \A i \in Offset : flash[s][i].kind = "meta" => b[i].kind = "meta"
  PROVE  MarkIsBlock'
<1>. SUFFICES ASSUME mark \in Address PROVE flash'[mark.sec][mark.off].kind = "meta"
  BY DEF MarkIsBlock
<1>1. mark.sec \in Sector /\ mark.off \in Offset /\ flash \in [Sector -> Sectors]
  BY InUse
<1>2. flash[mark.sec][mark.off].kind = "meta"
  BY DEF MarkIsBlock
<1>. QED BY <1>1, <1>2

LEMMA GcMark == IInv /\ MarkInv /\ (GcErase \/ GcCopy \/ GcSkip) => MarkInv'
<1>. SUFFICES ASSUME IInv, MarkInv, GcErase \/ GcCopy \/ GcSkip PROVE MarkInv'
  OBVIOUS
<1>1. /\ work \in Sector /\ Other(work) \in Sector /\ Other(work) # work
      /\ work' = work /\ pc' = "gc_copy"
      /\ \A s \in Sector : s = work \/ s = Other(work)
      /\ flash \in [Sector -> Sectors]
  BY InUse, OtherSector DEF GcErase, GcCopy, GcSkip, Sector
<1>2. mark' \in Address => mark' = mark /\ mark.sec = work
  <2>1. CASE GcErase
    BY <1>1, <2>1, InUse, NilAssumption DEF GcErase, Address, Sector, Offset
  <2>2. CASE GcCopy \/ GcSkip
    BY <2>2 DEF GcCopy, GcSkip, MarkInv
  <2>. QED BY <2>1, <2>2
<1>3. flash'[work] = flash[work]
  BY <1>1 DEF GcErase, GcCopy, GcSkip, flashVars
<1>4. MarkIsBlock'
  BY <1>2, <1>3 DEF MarkInv, MarkIsBlock
<1>. QED BY <1>1, <1>2, <1>4 DEF MarkInv

LEMMA WriteMetaMark == IInv /\ LogInv /\ MarkInv /\ WriteMeta => MarkInv'
<1>. SUFFICES ASSUME IInv, LogInv, MarkInv, WriteMeta PROVE MarkInv'
  OBVIOUS
<1>. DEFINE b == flash[work]
            c == [b EXCEPT ![job.at] = Program(b[job.at], Meta(job.tag, Len[job.val], "write"))]
<1>1. pc = "wr_meta" /\ pc' = "wr_data" /\ UNCHANGED <<work, mark>>
  BY DEF WriteMeta
<1>2. work \in Sector /\ b \in Sectors /\ job.at \in Offset
  BY <1>1, InUse DEF Writing
<1>3. b[job.at].kind # "meta"
  <2>1. Tiled(b) /\ job.at >= Tail(b)
    BY <1>1, <1>2, Positions DEF LogInv
  <2>. QED BY <1>2, <2>1 DEF Tiled, Empty
<1>4. \A i \in Offset : b[i].kind = "meta" => c[i].kind = "meta"
  BY <1>2, <1>3 DEF Sectors
<1>5. flash' = [flash EXCEPT ![work] = c]
  BY <1>2, InUse DEF WriteMeta
<1>. HIDE DEF c
<1>6. MarkIsBlock'
  BY <1>1, <1>2, <1>4, <1>5, WriteMark DEF MarkInv
<1>. QED BY <1>1, <1>6 DEF MarkInv

LEMMA WriteDataMark == IInv /\ LogInv /\ MarkInv /\ WriteData => MarkInv'
<1>. SUFFICES ASSUME IInv, LogInv, MarkInv, WriteData PROVE MarkInv'
  OBVIOUS
<1>. DEFINE b == flash[work]
            S == DataCells(job.at, job.val)
<1>1. pc = "wr_data" /\ pc' = "check" /\ UNCHANGED <<work, mark>>
  BY DEF WriteData
<1>2. work \in Sector /\ b \in Sectors /\ job.at \in Offset /\ job \in Jobs
  BY <1>1, InUse DEF Writing
<1>3. PICK x : flash' = [flash EXCEPT ![work] = Filled(b, S, Data(x))]
  BY DEF WriteData
<1>4. Tiled(b) /\ job.at \in Starts(b) /\ Span(b, job.at) = 1 + Len[job.val]
  BY <1>1, <1>2 DEF LogInv
<1>5. ASSUME NEW i \in Offset, i \in S PROVE b[i].kind # "meta"
  <2>1. Len[job.val] \in Nat /\ i \in Nat /\ job.at \in Nat
    BY <1>2, LenAssumption, Positions DEF Jobs
  <2>2. job.at < i /\ i < job.at + Span(b, job.at)
    BY <1>4, <1>5, <2>1 DEF DataCells
  <2>3. i \notin Starts(b)
    <3>1. SUFFICES ASSUME i \in Starts(b) PROVE FALSE
      OBVIOUS
    <3>2. job.at + Span(b, job.at) <= i
      BY <1>2, <1>4, <2>2, <3>1, ScanFacts
    <3>. QED BY <1>4, <2>1, <2>2, <3>2
  <2>4. i < Tail(b) \/ i >= Tail(b)
    BY <1>2, <2>1, Positions, ScanFacts
  <2>. QED BY <1>4, <2>3, <2>4 DEF Tiled, Empty
<1>6. \A i \in Offset : b[i].kind = "meta" => Filled(b, S, Data(x))[i].kind = "meta"
  BY <1>5 DEF Filled
<1>. HIDE DEF b, S
<1>7. MarkIsBlock'
  BY <1>1, <1>2, <1>3, <1>6, WriteMark DEF MarkInv, b
<1>. QED BY <1>1, <1>7 DEF MarkInv

LEMMA ConfirmMark ==
  ASSUME IInv, MarkInv, pc = "check", Confirm, UNCHANGED mark
  PROVE  MarkIsBlock'
<1>. DEFINE b == flash[work]
            c == [b EXCEPT ![job.at] = Meta(job.tag, Len[job.val], "verify")]
<1>1. work \in Sector /\ b \in Sectors /\ job.at \in Offset
  BY InUse DEF Writing
<1>2. \A i \in Offset : b[i].kind = "meta" => c[i].kind = "meta"
  BY <1>1 DEF Sectors, Meta
<1>3. flash' = [flash EXCEPT ![work] = c]
  BY <1>1, InUse DEF Confirm
<1>. HIDE DEF c
<1>. QED BY <1>1, <1>2, <1>3, WriteMark DEF MarkInv

LEMMA DeleteMark ==
  ASSUME NEW t \in Tags, IInv, MarkInv, Delete(t)
  PROVE  MarkInv'
<1>1. pc = "idle" /\ pc' = "idle" /\ UNCHANGED mark
  BY DEF Delete
<1>2. CASE DeleteFirst(t)
  <2>. DEFINE b == flash[work]
  <2>1. work \in Sector /\ b \in Sectors
    BY <1>1, InUse
  <2>2. PICK i \in Offset : flash' = [flash EXCEPT ![work] = [b EXCEPT ![i] = Strike(b[i])]]
    BY <1>2, <2>1, InUse DEF DeleteFirst
  <2>3. Strike(b[i]).kind = b[i].kind
    BY <2>1 DEF Sectors, Strike, Cell
  <2>4. \A k \in Offset : b[k].kind = "meta" => [b EXCEPT ![i] = Strike(b[i])][k].kind = "meta"
    BY <2>1, <2>3 DEF Sectors
  <2>. HIDE DEF b
  <2>. QED BY <1>1, <2>1, <2>2, <2>4, WriteMark DEF MarkInv, b
<1>3. CASE DeleteNothing(t)
  BY <1>1, <1>3 DEF DeleteNothing, MarkInv, MarkIsBlock
<1>. QED BY <1>2, <1>3 DEF Delete

LEMMA AppendMark ==
  ASSUME NEW t \in Tags, NEW v \in Values, IInv, MarkInv, Append(t, v)
  PROVE  MarkInv'
<1>1. /\ pc = "idle" /\ pc' \in {"wr_meta", "gc_erase", "idle"}
      /\ Marks(work, t) /\ UNCHANGED flash
  BY DEF Append, AppendInPlace, AppendCollect, AppendFull, Place, Return, flashVars
<1>. QED BY <1>1, InUse, MarksMark DEF MarkInv

LEMMA GcEndMark == IInv /\ MarkInv /\ (GcPlace \/ GcFull) => MarkInv'
<1>. SUFFICES ASSUME IInv, MarkInv, GcPlace \/ GcFull PROVE MarkInv'
  OBVIOUS
<1>1. /\ pc = "gc_copy" /\ UNCHANGED flash /\ pc' \in {"wr_meta", "idle"}
      /\ Other(work) \in Sector /\ job.tag \in Tags
  BY InUse DEF GcPlace, GcFull, GcCommit, Place, Return, Collecting, Jobs
<1>2. CASE GcPlace
  BY <1>1, <1>2, MarksMark DEF GcPlace, MarkInv
<1>3. CASE GcFull
  BY <1>1, <1>3 DEF GcFull, MarkInv, MarkIsBlock
<1>. QED BY <1>2, <1>3

LEMMA FinishMark ==
  /\ IInv /\ MarkInv
  /\ CheckFails \/ ConfirmNew \/ ConfirmOver \/ StrikeMark \/ StrikeGone
  => MarkInv'
<1>1. ASSUME MarkInv, CheckFails PROVE MarkInv'
  BY <1>1 DEF CheckFails, Return, flashVars, MarkInv, MarkIsBlock
<1>2. ASSUME IInv, MarkInv, ConfirmNew \/ ConfirmOver PROVE MarkInv'
  <2>1. /\ pc = "check" /\ Confirm /\ UNCHANGED mark
        /\ pc' \in {"idle", "wr_delete"}
    BY <1>2 DEF ConfirmNew, ConfirmOver, Return
  <2>. QED BY <1>2, <2>1, ConfirmMark DEF MarkInv
<1>3. ASSUME StrikeMark \/ StrikeGone PROVE MarkInv'
  BY <1>3, NilAssumption
  DEF StrikeMark, StrikeGone, Return, MarkInv, MarkIsBlock, Address, Sector, Offset
<1>. QED BY <1>1, <1>2, <1>3

LEMMA MarkNext == IInv /\ LogInv /\ MarkInv /\ [Next]_vars => MarkInv'
<1>. SUFFICES ASSUME IInv, LogInv, MarkInv, [Next]_vars PROVE MarkInv'
  OBVIOUS
<1>1. CASE UNCHANGED vars \/ Lost
  BY <1>1 DEF MarkInv, MarkIsBlock, Lost, vars
<1>2. CASE Mount \/ FormatErase \/ FormatHeader \/ PowerLoss
  <2>1. mark' = Nil /\ pc' \in {"idle", "format", "boot"}
    BY <1>2 DEF Mount, FormatErase, FormatHeader, PowerLoss, MarkInv
  <2>. QED BY <2>1, NilAssumption DEF MarkInv, MarkIsBlock, Address, Sector, Offset
<1>3. ASSUME NEW t \in Tags, Query(t) PROVE MarkInv'
  BY <1>3 DEF Query, flashVars, MarkInv, MarkIsBlock
<1>4. ASSUME NEW t \in Tags, Delete(t) PROVE MarkInv'
  BY <1>4, DeleteMark
<1>5. ASSUME NEW t \in Tags, NEW v \in Values, Append(t, v) PROVE MarkInv'
  BY <1>5, AppendMark
<1>6. CASE Proceed
  BY <1>2, <1>6, GcMark, GcEndMark, WriteMetaMark, WriteDataMark, FinishMark DEF Proceed
<1>. QED BY <1>1, <1>2, <1>3, <1>4, <1>5, <1>6 DEF Next

-----------------------------------------------------------------------------
(* The inductive invariant holds in every behaviour of the store. *)
THEOREM LogInvariance == Spec => []LInv
<1>1. Init => LInv
  BY InitInv, LogInit, NilAssumption
  DEF LInv, MarkInv, MarkIsBlock, Init, Address, Sector, Offset
<1>2. LInv /\ [Next]_vars => LInv'
  BY NextInv, LogNext, MarkNext DEF LInv, MarkInv
<1>. QED BY <1>1, <1>2, PTL DEF Spec

(* Every step of the store, a torn write included, leaves   *)
(* flash cells, headers and RAM of the kinds the code can interpret: a     *)
(* block ends inside its sector, and no collection writes past the end of  *)
(* the other sector.                                                       *)
THEOREM TypeCorrect == Spec => []TypeOK
<1>1. LInv => TypeOK
  BY DEF LInv, IInv
<1>. QED BY <1>1, LogInvariance, PTL

(* Whatever the version, wrapped or not, and whichever of the two sectors  *)
(* is in use: find_valid_sector() would come back to it.                   *)
THEOREM WorkIsFound == Spec => []BootFindsWork
<1>1. LInv => BootFindsWork
  BY DEF LInv, IInv, HeaderInv
<1>. QED BY <1>1, LogInvariance, PTL

(* Until its sector is erased, the address that an append strikes is the   *)
(* one of a block, however long ago a refused append left it behind: the   *)
(* strike deletes that block and damages no other.                         *)
THEOREM MarkIsAlwaysBlock == Spec => []MarkIsBlock
<1>1. LInv => MarkIsBlock
  BY DEF LInv, MarkInv
<1>. QED BY <1>1, LogInvariance, PTL

(* The blocks of the sector in use tile it, for every sector size, as long *)
(* as no mark_address is struck in a sector that was erased: no scan takes *)
(* data for a meta field, and everything behind the last block is free.    *)
THEOREM LogAlwaysTiled == Spec => []LogTiled
<1>1. LInv => LogTiled
  <2>. SUFFICES ASSUME LInv, work # Nil, pc # "lost" PROVE Tiled(flash[work])
    BY DEF LogTiled, Tiled, Empty
  <2>1. work \in Sector
    BY DEF LInv, IInv, TypeOK
  <2>. QED BY <2>1 DEF LInv, LogInv
<1>. QED BY <1>1, LogInvariance, PTL

(* A collection writes behind its own reading, a scan of the new sector    *)
(* ends where it stopped, and nothing in the new sector is dirty.          *)
THEOREM CompactionAlwaysAdvances == Spec => []CompactionAdvances
<1>1. LInv => CompactionAdvances
  BY InUse DEF LInv, LogInv, Copying, CopyAt, CompactionAdvances
<1>. QED BY <1>1, LogInvariance, PTL

(* At each step of a collection the new sector answers for every tag what  *)
(* the blocks read so far answer.                                          *)
THEOREM CopyAlwaysFaithful == Spec => []CopyFaithful
<1>1. LInv => CopyFaithful
  BY DEF LInv, LogInv, Copying, CopyFaithful, Cut
<1>. QED BY <1>1, LogInvariance, PTL

(* An append is refused for want of room only if the committed records     *)
(* leave too little of the sector: every other cell is free, or a          *)
(* collection frees it.                                                    *)
THEOREM RefusedOnlyEverWhenFull == Spec => RefusedOnlyWhenFull
<1>1. ASSUME LInv, NEW t \in Tags, NEW v \in Values,
             AppendFull(t, v) \/ (GcFull /\ job.val = v)
      PROVE  Cardinality(CommittedCells(flash[work])) + 1 + Len[v] > Capacity
  <2>. DEFINE b == flash[work]
  <2>1. IInv /\ LogInv /\ pc \in {"idle", "gc_copy"}
    BY <1>1 DEF LInv, AppendFull, GcFull, GcCommit
  <2>2. b \in Sectors /\ gcWrite \in Nat
    BY <2>1, InUse
  <2>3. Len[v] \in Nat /\ Capacity \in Nat
    BY LenAssumption, Positions
  <2>4. CASE AppendFull(t, v)
    <3>1. ~(Tail(b) + 1 + Len[v] <= Capacity) /\ Dirty(b) = {}
      BY <2>4 DEF AppendFull, Fits
    <3>2. Cardinality(CommittedCells(b)) = Tail(b) /\ Tail(b) \in Nat
      BY <2>2, <3>1, FullCells, ScanFacts, Positions
    <3>. QED BY <2>3, <3>1, <3>2
  <2>5. CASE GcFull /\ job.val = v
    <3>1. pc = "gc_copy" /\ ~IsBlock(b, gcRead) /\ ~(gcWrite + 1 + Len[v] <= Capacity)
      BY <2>5 DEF GcFull, GcCommit, Fits
    <3>2. /\ gcRead \in Starts(b) \cup {Tail(b)}
          /\ Cardinality(CommittedCells(Cut(b, gcRead))) = gcWrite
      BY <2>1, <3>1 DEF LogInv, Copying, CopyAt
    <3>3. gcRead = Tail(b)
      BY <2>2, <3>1, <3>2, ScanFacts
    <3>4. Cardinality(CommittedCells(b)) = gcWrite
      BY <2>2, <3>2, <3>3, WholeCells
    <3>. QED BY <2>2, <2>3, <3>1, <3>4
  <2>. QED BY <1>1, <2>4, <2>5
<1>2. LInv /\ [Next]_vars =>
        [\A t \in Tags, v \in Values :
           AppendFull(t, v) \/ (GcFull /\ job.val = v) =>
             Cardinality(CommittedCells(flash[work])) + 1 + Len[v] > Capacity]_vars
  BY <1>1
<1>. QED BY <1>2, LogInvariance, PTL DEF Spec, RefusedOnlyWhenFull
=============================================================================
