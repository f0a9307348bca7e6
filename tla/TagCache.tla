------------------------------ MODULE TagCache ------------------------------
(***************************************************************************)
(* What the RAM cache of kvdb/flash_tlv_cache.c is to the record store     *)
(* that uses it: a bounded map from tags to the flash address of a block.  *)
(*                                                                         *)
(* The ages of the entries, which only decide who is evicted, are left     *)
(* out: any entry may be the victim.  The slots handed out so far          *)
(* ("cursor" in the code) are counted, because remove_cache() does not     *)
(* give a slot back: evictions start when the slots are used up, however   *)
(* few of them still hold a valid entry.                                   *)
(*                                                                         *)
(* FlashTlv uses these operators; TagCacheSpec makes a state machine of    *)
(* them, which FlashTlvCache, the slot array with its ages, implements.    *)
(***************************************************************************)
EXTENDS Integers, FiniteSets

CONSTANTS
  Tags,      \* the record tags
  CacheMax,  \* TLV_CACHE_MAX, the number of slots
  Nil        \* no address (in the modules that extend this one: nothing)

ASSUME CacheMaxAssumption == CacheMax \in Nat \ {0}

Cached(c, t) == c.at[t] # Nil

ValidEntries(c) == {t \in Tags : Cached(c, t)}

(* invalidate_cache() *)
EmptyCache == [used |-> 0, at |-> [t \in Tags |-> Nil]]

(* set_cache(t, p): an entry that exists is updated, else the next slot is *)
(* taken, else the slot of a victim, valid or not, is reused.              *)
UpdateEntry(c, t, p, d) ==
  Cached(c, t) /\ d = [c EXCEPT !.at[t] = p]

TakeSlot(c, t, p, d) ==
  /\ ~Cached(c, t)
  /\ c.used < CacheMax
  /\ d = [used |-> c.used + 1, at |-> [c.at EXCEPT ![t] = p]]

EvictEntry(c, t, p, d) ==
  /\ ~Cached(c, t)
  /\ c.used >= CacheMax
  /\ \E u \in ValidEntries(c) : d = [c EXCEPT !.at = [@ EXCEPT ![u] = Nil, ![t] = p]]

ReuseInvalidSlot(c, t, p, d) ==
  /\ ~Cached(c, t)
  /\ c.used >= CacheMax
  /\ Cardinality(ValidEntries(c)) < CacheMax
  /\ d = [c EXCEPT !.at[t] = p]

Remember(c, t, p, d) ==
  \/ UpdateEntry(c, t, p, d)
  \/ TakeSlot(c, t, p, d)
  \/ EvictEntry(c, t, p, d)
  \/ ReuseInvalidSlot(c, t, p, d)

(* remove_cache(t) *)
Forget(c, t) == [c EXCEPT !.at[t] = Nil]
=============================================================================
