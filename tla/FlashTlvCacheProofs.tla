------------------------- MODULE FlashTlvCacheProofs -------------------------
(***************************************************************************)
(* The slot array implements the bounded map of TagCache, for every number *)
(* of slots, tags and addresses.                                           *)
(***************************************************************************)
EXTENDS FlashTlvCache, FiniteSetTheorems, TLAPS

(* What is in a valid slot, and where valid slots are *)
EntriesInv ==
  /\ \A i \in Slot : slots[i].valid => slots[i].tag \in Tags /\ slots[i].entity \in Addresses
  /\ \A i \in Slot : i >= cursor => ~slots[i].valid

SInv == TypeOK /\ OneSlotPerTag /\ EntriesInv

LEMMA SlotFacts ==
  /\ Slot \subseteq Nat
  /\ CacheMax \in Nat /\ CacheMax > 0
  /\ 1 \in 0..AgeMax /\ 0 \in 0..AgeMax
BY SlotAssumption DEF Slot

LEMMA OlderType ==
  ASSUME NEW a \in 0..AgeMax
  PROVE  Older(a) \in 0..AgeMax
BY SlotAssumption DEF Older

LEMMA SInit == Init => SInv
<1>. SUFFICES ASSUME Init PROVE SInv
  OBVIOUS
<1>1. TypeOK
  BY SlotFacts DEF Init, TypeOK, Zeroed, Item
<1>2. OneSlotPerTag /\ EntriesInv
  BY DEF Init, OneSlotPerTag, EntriesInv, Zeroed
<1>. QED BY <1>1, <1>2 DEF SInv

(* The slot that is hit is the only valid one of its tag *)
LEMMA HitFacts ==
  ASSUME SInv, NEW t \in Tags
  PROVE  /\ \A i \in Slot : FirstHit(t, i) => slots[i].valid /\ slots[i].tag = t
         /\ \A i \in Slot : slots[i].valid /\ slots[i].tag = t => FirstHit(t, i)
         /\ Hits(t) = {} => \A i \in Slot : ~(slots[i].valid /\ slots[i].tag = t)
<1>1. \A i \in Slot : slots[i].valid => i < cursor
  BY SlotFacts DEF SInv, TypeOK, EntriesInv
<1>2. \A i \in Slot : i \in Hits(t) <=> slots[i].valid /\ slots[i].tag = t
  BY <1>1 DEF Hits, Used
<1>3. Hits(t) \subseteq Slot
  BY DEF Hits, Used
<1>4. \A i, j \in Hits(t) : i = j
  BY <1>2, <1>3 DEF SInv, OneSlotPerTag
<1>5. ASSUME NEW i \in Hits(t) PROVE FirstHit(t, i)
  <2>1. i \in Nat
    BY <1>3, SlotFacts
  <2>2. ASSUME NEW j \in Hits(t) PROVE i <= j
    BY <1>4, <2>1
  <2>. QED BY <2>2 DEF FirstHit
<1>. QED BY <1>2, <1>3, <1>5 DEF FirstHit

LEMMA SNext == SInv /\ [Next]_vars => SInv'
<1>. SUFFICES ASSUME SInv, [Next]_vars PROVE SInv'
  OBVIOUS
<1>1. CASE UNCHANGED vars
  BY <1>1 DEF vars, SInv, TypeOK, OneSlotPerTag, EntriesInv, Slot
<1>2. CASE Invalidate
  <2>1. TypeOK'
    BY <1>2, SlotFacts DEF Invalidate, TypeOK, Zeroed, Item
  <2>2. OneSlotPerTag' /\ EntriesInv'
    BY <1>2 DEF Invalidate, OneSlotPerTag, EntriesInv, Zeroed
  <2>. QED BY <2>1, <2>2 DEF SInv
<1>3. ASSUME NEW t \in Tags, GetCache(t) PROVE SInv'
  <2>1. PICK i \in Slot : slots' = [slots EXCEPT ![i].age = Older(@)]
    BY <1>3 DEF GetCache
  <2>2. slots[i] \in Item /\ Older(slots[i].age) \in 0..AgeMax
    BY OlderType DEF SInv, TypeOK, Item
  <2>3. TypeOK'
    BY <1>3, <2>1, <2>2 DEF SInv, TypeOK, GetCache, Item
  <2>4. \A j \in Slot : /\ slots'[j].valid = slots[j].valid
                        /\ slots'[j].tag = slots[j].tag
                        /\ slots'[j].entity = slots[j].entity
    BY <2>1 DEF SInv, TypeOK, Item
  <2>. QED BY <1>3, <2>3, <2>4 DEF SInv, OneSlotPerTag, EntriesInv, GetCache
<1>4. ASSUME NEW t \in Tags, RemoveCache(t) PROVE SInv'
  <2>1. PICK i \in Slot : slots' = [slots EXCEPT ![i].valid = FALSE]
    BY <1>4 DEF RemoveCache
  <2>2. TypeOK'
    BY <1>4, <2>1 DEF SInv, TypeOK, RemoveCache, Item
  <2>3. \A j \in Slot : /\ slots'[j].valid => slots[j].valid
                        /\ slots'[j].tag = slots[j].tag
                        /\ slots'[j].entity = slots[j].entity
    BY <2>1 DEF SInv, TypeOK, Item
  <2>. QED BY <1>4, <2>2, <2>3 DEF SInv, OneSlotPerTag, EntriesInv, RemoveCache
<1>5. ASSUME NEW t \in Tags, NEW p \in Addresses, SetHit(t, p) PROVE SInv'
  <2>1. PICK i \in Slot : slots' = [slots EXCEPT ![i].age = Older(@), ![i].entity = p]
    BY <1>5 DEF SetHit
  <2>2. slots[i] \in Item /\ Older(slots[i].age) \in 0..AgeMax
    BY OlderType DEF SInv, TypeOK, Item
  <2>3. TypeOK'
    BY <1>5, <2>1, <2>2 DEF SInv, TypeOK, SetHit, Item
  <2>4. \A j \in Slot : /\ slots'[j].valid = slots[j].valid
                        /\ slots'[j].tag = slots[j].tag
                        /\ slots'[j].entity \in {slots[j].entity, p}
    BY <2>1 DEF SInv, TypeOK, Item
  <2>. QED BY <1>5, <2>3, <2>4 DEF SInv, OneSlotPerTag, EntriesInv, SetHit
<1>6. ASSUME NEW t \in Tags, NEW p \in Addresses, SetNew(t, p) \/ SetEvict(t, p)
      PROVE  SInv'
  <2>1. PICK i \in Slot : /\ slots' = [slots EXCEPT ![i] = Fresh(t, p)]
                          /\ i < cursor'
    <3>1. CASE SetNew(t, p)
      <4>1. cursor \in Slot /\ cursor < cursor'
        BY <3>1, SlotFacts DEF SInv, TypeOK, SetNew, Slot
      <4>. QED BY <3>1, <4>1 DEF SetNew
    <3>2. CASE SetEvict(t, p)
      BY <3>2 DEF SetEvict, Victim, Used
    <3>. QED BY <1>6, <3>1, <3>2
  <2>2. cursor' \in 0..CacheMax /\ cursor <= cursor'
    BY <1>6, SlotFacts DEF SInv, TypeOK, SetNew, SetEvict
  <2>3. Fresh(t, p) \in Item
    BY SlotFacts DEF Fresh, Item
  <2>4. TypeOK'
    BY <2>1, <2>2, <2>3 DEF SInv, TypeOK
  <2>5. \A j \in Slot : ~(slots[j].valid /\ slots[j].tag = t)
    BY <1>6, HitFacts DEF SetNew, SetEvict
  <2>6. slots'[i] = Fresh(t, p) /\ \A j \in Slot \ {i} : slots'[j] = slots[j]
    BY <2>1 DEF SInv, TypeOK
  <2>7. OneSlotPerTag'
    BY <2>5, <2>6 DEF SInv, OneSlotPerTag, Fresh
  <2>8. EntriesInv'
    BY <2>1, <2>2, <2>6, SlotFacts DEF SInv, TypeOK, EntriesInv, Fresh
  <2>. QED BY <2>4, <2>7, <2>8 DEF SInv
<1>. QED BY <1>1, <1>2, <1>3, <1>4, <1>5, <1>6 DEF Next

THEOREM SlotInvariance == Spec => []SInv
BY SInit, SNext, PTL DEF Spec

(* A slot is zero or holds a tag, an address and an age that does not      *)
(* overflow, and the cursor stays within the array.                        *)
THEOREM SlotsTyped == Spec => []TypeOK
<1>1. SInv => TypeOK
  BY DEF SInv
<1>. QED BY <1>1, SlotInvariance, PTL

(* However slots are taken, evicted, invalidated and reused, at most one   *)
(* valid slot holds a tag.                                                 *)
THEOREM OneSlotPerTagAlways == Spec => []OneSlotPerTag
<1>1. SInv => OneSlotPerTag
  BY DEF SInv
<1>. QED BY <1>1, SlotInvariance, PTL

-----------------------------------------------------------------------------
(* The refinement: what a tag is mapped to, ... *)

EntriesMapped ==
  \A t \in Tags :
    /\ \A i \in Slot : slots[i].valid /\ slots[i].tag = t => EntryOf(t) = slots[i].entity
    /\ (\A i \in Slot : ~(slots[i].valid /\ slots[i].tag = t)) => EntryOf(t) = Nil

LEMMA EntryFacts == SInv => EntriesMapped
<1>. SUFFICES ASSUME SInv, NEW t \in Tags
              PROVE  /\ \A i \in Slot : slots[i].valid /\ slots[i].tag = t =>
                                          EntryOf(t) = slots[i].entity
                     /\ (\A i \in Slot : ~(slots[i].valid /\ slots[i].tag = t)) =>
                          EntryOf(t) = Nil
  BY DEF EntriesMapped
<1>1. ASSUME NEW i \in Slot, slots[i].valid, slots[i].tag = t
      PROVE  EntryOf(t) = slots[i].entity
  <2>1. FirstHit(t, i)
    BY <1>1, HitFacts
  <2>2. \A j \in Slot : FirstHit(t, j) => j = i
    BY <1>1, HitFacts DEF SInv, OneSlotPerTag
  <2>3. (CHOOSE j \in Slot : FirstHit(t, j)) = i
    BY <2>1, <2>2
  <2>. QED BY <2>1, <2>3 DEF EntryOf, FirstHit
<1>2. ASSUME \A i \in Slot : ~(slots[i].valid /\ slots[i].tag = t)
      PROVE  EntryOf(t) = Nil
  BY <1>2 DEF EntryOf, Hits, Used
<1>. QED BY <1>1, <1>2

(* ... before and after a step. *)
LEMMA EntryFactsNext == SInv' => EntriesMapped'
BY EntryFacts, PTL

TheMap == [used |-> cursor, at |-> [t \in Tags |-> EntryOf(t)]]

(* One entry of the map changes. *)
LEMMA EntrySet ==
  ASSUME NEW t \in Tags, NEW p, EntryOf(t)' = p, cursor' = cursor,
         \A u \in Tags \ {t} : EntryOf(u)' = EntryOf(u)
  PROVE  TheMap' = [TheMap EXCEPT !.at[t] = p]
<1>. DEFINE f == [u \in Tags |-> EntryOf(u)]
            g == [f EXCEPT ![t] = p]
<1>1. [u \in Tags |-> EntryOf(u)'] = g
  OBVIOUS
<1>2. TheMap' = [used |-> cursor, at |-> g]
  BY <1>1 DEF TheMap
<1>3. TheMap = [used |-> cursor, at |-> f]
  BY DEF TheMap
<1>. HIDE DEF f
<1>4. [TheMap EXCEPT !.at[t] = p] = [used |-> cursor, at |-> g]
  BY <1>3
<1>. QED BY <1>2, <1>4

(* One entry of the map makes way for another. *)
LEMMA EntryReplaced ==
  ASSUME NEW t \in Tags, NEW u \in Tags \ {t}, NEW p,
         EntryOf(t)' = p, EntryOf(u)' = Nil, cursor' = cursor,
         \A w \in Tags \ {t, u} : EntryOf(w)' = EntryOf(w)
  PROVE  TheMap' = [TheMap EXCEPT !.at = [@ EXCEPT ![u] = Nil, ![t] = p]]
<1>. DEFINE f == [w \in Tags |-> EntryOf(w)]
            g == [f EXCEPT ![u] = Nil, ![t] = p]
<1>1. [w \in Tags |-> EntryOf(w)'] = g
  OBVIOUS
<1>2. TheMap' = [used |-> cursor, at |-> g]
  BY <1>1 DEF TheMap
<1>3. TheMap = [used |-> cursor, at |-> f]
  BY DEF TheMap
<1>. HIDE DEF f
<1>4. [TheMap EXCEPT !.at = [@ EXCEPT ![u] = Nil, ![t] = p]] =
        [used |-> cursor, at |-> g]
  BY <1>3
<1>. QED BY <1>2, <1>4

(* An entry that no slot but one could hold changes with that slot only.   *)
LEMMA EntryUnchanged ==
  ASSUME SInv, SInv', NEW u \in Tags,
         \A i \in Slot : slots'[i].valid /\ slots'[i].tag = u <=>
                         slots[i].valid /\ slots[i].tag = u,
         \A i \in Slot : slots[i].valid /\ slots[i].tag = u =>
                         slots'[i].entity = slots[i].entity
  PROVE  EntryOf(u)' = EntryOf(u)
<1>1. CASE \E i \in Slot : slots[i].valid /\ slots[i].tag = u
  BY <1>1, EntryFacts, EntryFactsNext DEF EntriesMapped
<1>2. CASE \A i \in Slot : ~(slots[i].valid /\ slots[i].tag = u)
  BY <1>2, EntryFacts, EntryFactsNext DEF EntriesMapped
<1>. QED BY <1>1, <1>2

(* A slot whose entry is not valid: fewer tags are mapped than slots exist *)
LEMMA InvalidSlotLeavesRoom ==
  ASSUME SInv, NEW i \in Slot, ~slots[i].valid
  PROVE  Map!Cardinality(Map!ValidEntries(TheMap)) < CacheMax
<1>. DEFINE S == Map!ValidEntries(TheMap)
            at == [t \in S |-> CHOOSE j \in Slot : slots[j].valid /\ slots[j].tag = t]
<1>1. ASSUME NEW t \in S PROVE \E j \in Slot : slots[j].valid /\ slots[j].tag = t
  BY EntryFacts DEF EntriesMapped, Map!ValidEntries, Map!Cached, TheMap
<1>2. ASSUME NEW t \in S PROVE at[t] \in Slot \ {i} /\ slots[at[t]].tag = t
  BY <1>1
<1>3. at \in Injection(S, Slot \ {i})
  BY <1>2 DEF Injection, IsInjective
<1>4. IsFiniteSet(Slot) /\ Cardinality(Slot) = CacheMax
  BY FS_Interval, SlotFacts DEF Slot
<1>5. IsFiniteSet(Slot \ {i}) /\ Cardinality(Slot \ {i}) = CacheMax - 1
  BY <1>4, FS_RemoveElement
<1>6. IsFiniteSet(S) /\ Cardinality(S) <= CacheMax - 1
  BY <1>3, <1>5, FS_Injection DEF ExistsInjection
<1>7. Cardinality(S) \in Nat
  BY <1>6, FS_CardinalityType
<1>8. Map!Cardinality(S) = Cardinality(S)
  BY DEF Map!Cardinality, Cardinality, Map!IsFiniteSet, IsFiniteSet
<1>. QED BY <1>6, <1>7, <1>8, SlotFacts

LEMMA MapInitially == Init => TheMap = Map!EmptyCache
<1>. SUFFICES ASSUME Init PROVE TheMap = Map!EmptyCache
  OBVIOUS
<1>1. \A t \in Tags : EntryOf(t) = Nil
  BY SInit, EntryFacts DEF EntriesMapped, Init, Zeroed
<1>. QED BY <1>1 DEF TheMap, Map!EmptyCache, Init

(* set_cache(): one of the four cases of Remember. *)
LEMMA SetIsRemember ==
  ASSUME SInv, SInv', NEW t \in Tags, NEW p \in Addresses,
         SetHit(t, p) \/ SetNew(t, p) \/ SetEvict(t, p)
  PROVE  Map!Remember(TheMap, t, p, TheMap')
<1>. USE DEF TheMap, Map!Cached
<1>1. CASE SetHit(t, p)
  <2>1. PICK i \in Slot : /\ FirstHit(t, i)
                          /\ slots' = [slots EXCEPT ![i].age = Older(@), ![i].entity = p]
    BY <1>1 DEF SetHit
  <2>2. slots[i].valid /\ slots[i].tag = t
    BY <2>1, HitFacts
  <2>3. \A j \in Slot : /\ slots'[j].valid = slots[j].valid
                        /\ slots'[j].tag = slots[j].tag
                        /\ slots'[j].entity = IF j = i THEN p ELSE slots[j].entity
    BY <2>1 DEF SInv, TypeOK, Item
  <2>4. EntryOf(t)' = p
    BY <2>2, <2>3, EntryFactsNext DEF EntriesMapped
  <2>5. EntryOf(t) # Nil
    BY <2>2, EntryFacts, AddressAssumption DEF EntriesMapped, SInv, EntriesInv
  <2>6. \A u \in Tags \ {t} : EntryOf(u)' = EntryOf(u)
    BY <2>2, <2>3, EntryUnchanged
  <2>7. cursor' = cursor
    BY <1>1 DEF SetHit
  <2>8. Map!UpdateEntry(TheMap, t, p, TheMap')
    BY <2>4, <2>5, <2>6, <2>7, EntrySet DEF Map!UpdateEntry
  <2>. QED BY <2>8 DEF Map!Remember
<1>2. CASE SetNew(t, p)
  <2>1. cursor \in Slot /\ ~slots[cursor].valid /\ cursor < CacheMax
    BY <1>2, SlotFacts DEF SetNew, SInv, TypeOK, EntriesInv, Slot
  <2>2. /\ slots'[cursor] = Fresh(t, p)
        /\ \A j \in Slot \ {cursor} : slots'[j] = slots[j]
        /\ cursor' = cursor + 1
    BY <1>2, <2>1 DEF SetNew, SInv, TypeOK
  <2>3. EntryOf(t)' = p
    BY <2>1, <2>2, EntryFactsNext DEF EntriesMapped, Fresh
  <2>4. EntryOf(t) = Nil
    BY <1>2, HitFacts, EntryFacts DEF SetNew, EntriesMapped
  <2>5. \A u \in Tags \ {t} : EntryOf(u)' = EntryOf(u)
    BY <2>1, <2>2, EntryUnchanged DEF Fresh
  <2>6. Map!TakeSlot(TheMap, t, p, TheMap')
    BY <2>1, <2>2, <2>3, <2>4, <2>5 DEF Map!TakeSlot
  <2>. QED BY <2>6 DEF Map!Remember
<1>3. CASE SetEvict(t, p)
  <2>1. PICK i \in Slot : slots' = [slots EXCEPT ![i] = Fresh(t, p)]
    BY <1>3 DEF SetEvict
  <2>2. /\ slots'[i] = Fresh(t, p)
        /\ \A j \in Slot \ {i} : slots'[j] = slots[j]
        /\ cursor' = cursor /\ cursor >= CacheMax
    BY <1>3, <2>1 DEF SetEvict, SInv, TypeOK
  <2>3. EntryOf(t)' = p
    BY <2>2, EntryFactsNext DEF EntriesMapped, Fresh
  <2>4. EntryOf(t) = Nil
    BY <1>3, HitFacts, EntryFacts DEF SetEvict, EntriesMapped
  <2>5. CASE slots[i].valid
    <3>0. PICK u \in Tags : u = slots[i].tag
      BY <2>5 DEF SInv, EntriesInv
    <3>1. u \in Tags /\ u # t /\ EntryOf(u) # Nil
      BY <1>3, <2>5, <3>0, HitFacts, EntryFacts, AddressAssumption
      DEF SetEvict, EntriesMapped, SInv, EntriesInv
    <3>2. \A j \in Slot : ~(slots'[j].valid /\ slots'[j].tag = u)
      BY <2>2, <2>5, <3>0, <3>1 DEF SInv, OneSlotPerTag, Fresh
    <3>3. EntryOf(u)' = Nil
      BY <3>1, <3>2, EntryFactsNext DEF EntriesMapped
    <3>4. \A w \in Tags \ {t, u} : EntryOf(w)' = EntryOf(w)
      BY <2>2, <3>0, EntryUnchanged DEF Fresh
    <3>5. u \in Map!ValidEntries(TheMap)
      BY <3>1 DEF Map!ValidEntries
    <3>6. TheMap' = [TheMap EXCEPT !.at = [@ EXCEPT ![u] = Nil, ![t] = p]]
      BY <2>2, <2>3, <3>1, <3>3, <3>4, EntryReplaced
    <3>7. Map!EvictEntry(TheMap, t, p, TheMap')
      BY <2>2, <2>4, <3>5, <3>6 DEF Map!EvictEntry
    <3>. QED BY <3>7 DEF Map!Remember
  <2>6. CASE ~slots[i].valid
    <3>1. \A w \in Tags \ {t} : EntryOf(w)' = EntryOf(w)
      BY <2>2, <2>6, EntryUnchanged DEF Fresh
    <3>2. Map!Cardinality(Map!ValidEntries(TheMap)) < CacheMax
      BY <2>6, InvalidSlotLeavesRoom
    <3>3. TheMap' = [TheMap EXCEPT !.at[t] = p]
      BY <2>2, <2>3, <3>1, EntrySet
    <3>4. Map!ReuseInvalidSlot(TheMap, t, p, TheMap')
      BY <2>2, <2>4, <3>2, <3>3 DEF Map!ReuseInvalidSlot
    <3>. QED BY <3>4 DEF Map!Remember
  <2>. QED BY <2>5, <2>6
<1>. QED BY <1>1, <1>2, <1>3

LEMMA StepIsMapStep ==
  SInv /\ SInv' /\ [Next]_vars => [Map!MapNext]_TheMap
<1>. SUFFICES ASSUME SInv, SInv', [Next]_vars PROVE Map!MapNext \/ UNCHANGED TheMap
  OBVIOUS
<1>1. CASE UNCHANGED vars
  <2>1. \A t \in Tags : EntryOf(t)' = EntryOf(t)
    BY <1>1, EntryUnchanged DEF vars
  <2>. QED BY <1>1, <2>1 DEF vars, TheMap
<1>2. CASE Invalidate
  <2>1. \A t \in Tags : EntryOf(t)' = Nil
    BY <1>2, EntryFactsNext DEF EntriesMapped, Invalidate, Zeroed
  <2>2. TheMap' = Map!EmptyCache
    BY <1>2, <2>1 DEF TheMap, Invalidate, Map!EmptyCache
  <2>. QED BY <2>2 DEF TheMap, Map!MapNext, Map!MapInvalidate
<1>3. ASSUME NEW t \in Tags, GetCache(t) PROVE UNCHANGED TheMap
  <2>1. PICK i \in Slot : slots' = [slots EXCEPT ![i].age = Older(@)]
    BY <1>3 DEF GetCache
  <2>2. \A j \in Slot : /\ slots'[j].valid = slots[j].valid
                        /\ slots'[j].tag = slots[j].tag
                        /\ slots'[j].entity = slots[j].entity
    BY <2>1 DEF SInv, TypeOK, Item
  <2>3. \A u \in Tags : EntryOf(u)' = EntryOf(u)
    BY <2>2, EntryUnchanged
  <2>. QED BY <1>3, <2>3 DEF TheMap, GetCache
<1>4. ASSUME NEW t \in Tags, RemoveCache(t) PROVE Map!MapNext
  <2>1. PICK i \in Slot : FirstHit(t, i) /\ slots' = [slots EXCEPT ![i].valid = FALSE]
    BY <1>4 DEF RemoveCache
  <2>2. slots[i].valid /\ slots[i].tag = t
    BY <2>1, HitFacts
  <2>3. \A j \in Slot : /\ slots'[j].valid <=> slots[j].valid /\ j # i
                        /\ slots'[j].tag = slots[j].tag
                        /\ slots'[j].entity = slots[j].entity
    BY <2>1 DEF SInv, TypeOK, Item
  <2>4. EntryOf(t)' = Nil
    BY <2>2, <2>3, EntryFactsNext DEF EntriesMapped, SInv, OneSlotPerTag
  <2>5. \A u \in Tags \ {t} : EntryOf(u)' = EntryOf(u)
    BY <2>2, <2>3, EntryUnchanged
  <2>6. TheMap' = Map!Forget(TheMap, t)
    BY <1>4, <2>4, <2>5, EntrySet DEF Map!Forget, RemoveCache
  <2>. QED BY <2>6 DEF TheMap, Map!MapNext, Map!MapForget
<1>5. ASSUME NEW t \in Tags, NEW p \in Addresses,
             SetHit(t, p) \/ SetNew(t, p) \/ SetEvict(t, p)
      PROVE  Map!MapNext
  BY <1>5, SetIsRemember DEF TheMap, Map!MapNext, Map!MapRemember
<1>. QED BY <1>1, <1>2, <1>3, <1>4, <1>5 DEF Next

(* The slot array, with its ages and its cursor, is the bounded map that   *)
(* the record store takes it for.                                          *)
THEOREM CacheRefinement == Spec => ImplementsTagCache
<1>1. Init => Map!MapInit
  BY MapInitially DEF TheMap, Map!MapInit
<1>2. SInv /\ SInv' /\ [Next]_vars => [Map!MapNext]_TheMap
  BY StepIsMapStep
<1>. QED BY <1>1, <1>2, SlotInvariance, PTL DEF Spec, ImplementsTagCache, Map!MapSpec, TheMap
=============================================================================
