---------------------------- MODULE FlashTlvCache ----------------------------
(***************************************************************************)
(* kvdb/flash_tlv_cache.c: the array of slots behind the cache that        *)
(* FlashTlv uses through TagCache.  A slot is handed out once and never    *)
(* taken back; an entry's age counts its uses, and the first slot of the   *)
(* least age is the victim, whether its entry is valid or not.             *)
(*                                                                         *)
(* The block that get_cache() reads back from flash is FlashTlv's          *)
(* CacheRead; here a hit only counts the use.                              *)
(***************************************************************************)
EXTENDS Integers

CONSTANTS
  Tags,
  Addresses,  \* the block addresses a client may store
  CacheMax,   \* TLV_CACHE_MAX
  AgeMax,     \* CACHE_AGE_MAX
  Nil

ASSUME SlotAssumption == CacheMax \in Nat \ {0} /\ AgeMax \in Nat \ {0}
ASSUME AddressAssumption == Nil \notin Addresses /\ Nil \notin Tags

VARIABLES
  slots,   \* obj->cache
  cursor   \* obj->cursor

vars == <<slots, cursor>>

Slot == 0..(CacheMax - 1)
Item == [valid : BOOLEAN, age : 0..AgeMax, tag : Tags \cup {Nil},
         entity : Addresses \cup {Nil}]

Zeroed == [valid |-> FALSE, age |-> 0, tag |-> Nil, entity |-> Nil]

Used == {i \in Slot : i < cursor}

(* Mutant of Hits: the loop ends one slot early. *)
BugHits(t) == {i \in Used : i + 1 < cursor /\ slots[i].valid /\ slots[i].tag = t}

(* The slot a loop over the used ones stops at for tag t *)
Hits(t) == {i \in Used : slots[i].valid /\ slots[i].tag = t}
FirstHit(t, i) == i \in Hits(t) /\ \A j \in Hits(t) : i <= j

Older(age) == IF age < AgeMax THEN age + 1 ELSE age

(* min_position: the first of the slots with the least age *)
Victim(i) ==
  /\ i \in Used
  /\ \A j \in Used : slots[i].age <= slots[j].age
  /\ \A j \in Used : slots[j].age = slots[i].age => i <= j

(* Mutant of Fresh: a new entry is as old as entries get. *)
BugFresh(t, p) == [valid |-> TRUE, age |-> AgeMax + 1, tag |-> t, entity |-> p]

Fresh(t, p) == [valid |-> TRUE, age |-> 1, tag |-> t, entity |-> p]

Init == slots = [i \in Slot |-> Zeroed] /\ cursor = 0

Invalidate == slots' = [i \in Slot |-> Zeroed] /\ cursor' = 0

GetCache(t) ==
  /\ \E i \in Slot : FirstHit(t, i) /\ slots' = [slots EXCEPT ![i].age = Older(@)]
  /\ UNCHANGED cursor

(* set_cache(): the entry is there, ... *)
SetHit(t, p) ==
  /\ \E i \in Slot :
       /\ FirstHit(t, i)
       /\ slots' = [slots EXCEPT ![i].age = Older(@), ![i].entity = p]
  /\ UNCHANGED cursor

(* ... a slot was never handed out, ... *)
SetNew(t, p) ==
  /\ Hits(t) = {}
  /\ cursor < CacheMax
  /\ slots' = [slots EXCEPT ![cursor] = Fresh(t, p)]
  /\ cursor' = cursor + 1

(* ... or a victim makes place. *)
SetEvict(t, p) ==
  /\ Hits(t) = {}
  /\ cursor >= CacheMax
  /\ \E i \in Slot : Victim(i) /\ slots' = [slots EXCEPT ![i] = Fresh(t, p)]
  /\ UNCHANGED cursor

(* Mutant of RemoveCache: a slot is given back, but it is the last one. *)
BugRemoveCache(t) ==
  \E i \in Slot : /\ FirstHit(t, i)
                  /\ slots' = [slots EXCEPT ![i].valid = FALSE]
                  /\ cursor' = cursor - 1

RemoveCache(t) ==
  /\ \E i \in Slot : FirstHit(t, i) /\ slots' = [slots EXCEPT ![i].valid = FALSE]
  /\ UNCHANGED cursor

Next ==
  \/ Invalidate
  \/ \E t \in Tags : GetCache(t) \/ RemoveCache(t)
  \/ \E t \in Tags, p \in Addresses : SetHit(t, p) \/ SetNew(t, p) \/ SetEvict(t, p)

Spec == Init /\ [][Next]_vars

-----------------------------------------------------------------------------
(* Type invariant. *)
TypeOK ==
  /\ slots \in [Slot -> Item]
  /\ cursor \in 0..CacheMax

(* No tag has two valid slots, however slots are evicted, invalidated and  *)
(* reused: the one that set_cache() updates and remove_cache() invalidates *)
(* is the one that get_cache() answers from.                               *)
OneSlotPerTag ==
  \A i, j \in Slot : slots[i].valid /\ slots[j].valid /\ slots[i].tag = slots[j].tag => i = j

EntryOf(t) ==
  IF Hits(t) = {} THEN Nil ELSE slots[CHOOSE i \in Slot : FirstHit(t, i)].entity

Map == INSTANCE TagCacheSpec WITH
  map <- [used |-> cursor, at |-> [t \in Tags |-> EntryOf(t)]]

(* The slots are the bounded map FlashTlv takes them for (TagCache): an    *)
(* eviction throws out at most one entry, a removal forgets the tag.       *)
ImplementsTagCache == Map!MapSpec
=============================================================================
