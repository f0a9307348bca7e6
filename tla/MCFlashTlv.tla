----------------------------- MODULE MCFlashTlv -----------------------------
(* Small instances of FlashTlv for TLC. *)
EXTENDS FlashTlv, TLC

CONSTANTS v1, v2

(* One value of one cell, one of two. *)
MCLen == (v1 :> 1) @@ (v2 :> 2)

(* One value of one cell. *)
MCLenOne == v1 :> 1

(* An empty value and one of one cell: small blocks, so that there is room  *)
(* for several blocks of a tag.                                             *)
MCLenEmpty == (v1 :> 0) @@ (v2 :> 1)

(* Nothing reads the cells of the sector not in use but a collection, which *)
(* erases them first, the cache, where a cached block is, and a strike at   *)
(* mark_address: states that differ in other cells only are one state.      *)
InUse(s, i) ==
  \/ pc = "gc_copy"
  \/ s = Home
  \/ mark = [sec |-> s, off |-> i]
  \/ \E t \in Tags, v \in Values :
       /\ Cached(cache, t)
       /\ cache.at[t].sec = s
       /\ i \in cache.at[t].off..(cache.at[t].off + Len[v])

CellsInUse ==
  <<[c \in {x \in Sector \X Offset : InUse(x[1], x[2])} |-> flash[c[1]][c[2]]],
    hdr, work, mark, cache, job, pc, gcRead, gcWrite, ret>>

(* The tags are interchangeable. *)
TagSymmetry == Permutations(Tags)
=============================================================================
