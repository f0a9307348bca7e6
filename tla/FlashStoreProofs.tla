-------------------------- MODULE FlashStoreProofs --------------------------
(***************************************************************************)
(* The theorem that the record store implements TagStore, for every set of *)
(* tags and values and every sector size: each step of FlashTlv is a step  *)
(* of the abstract store or changes nothing that is visible outside.  From *)
(* the same facts about sectors: when a cached record stops being the      *)
(* record that a search would find.                                        *)
(***************************************************************************)
EXTENDS FlashTlvProofs

-----------------------------------------------------------------------------
(* The blocks of a tag in a sector *)

LEMMA LiveFacts ==
  ASSUME NEW b \in Sectors, NEW t \in Tags
  PROVE  /\ Live(b, t) \subseteq Offset /\ Live(b, t) \subseteq Starts(b)
         /\ IsFiniteSet(Live(b, t)) /\ Cardinality(Live(b, t)) \in Nat
         /\ \A i : i \in Live(b, t) <=>
                     i \in Starts(b) /\ GoodMeta(b, i) /\ b[i].tag = t /\ b[i].status # "delete"
         /\ \A i : i \in Verified(b, t) <=> i \in Live(b, t) /\ b[i].status = "verify"
<1>1. Starts(b) \subseteq Offset
  BY ScanFacts
<1>2. IsFiniteSet(Offset)
  BY Positions, FS_Interval
<1>3. Live(b, t) \subseteq Offset /\ Live(b, t) \subseteq Starts(b)
  BY DEF Live, Blocks
<1>4. IsFiniteSet(Live(b, t)) /\ Cardinality(Live(b, t)) \in Nat
  BY <1>2, <1>3, FS_Subset, FS_CardinalityType
<1>5. \A i : i \in Live(b, t) <=>
               i \in Starts(b) /\ GoodMeta(b, i) /\ b[i].tag = t /\ b[i].status # "delete"
  BY <1>1 DEF Live, Blocks
<1>6. \A i : i \in Verified(b, t) <=> i \in Live(b, t) /\ b[i].status = "verify"
  BY DEF Live, Verified
<1>. QED BY <1>3, <1>4, <1>5, <1>6

(* Fewer live blocks do not make a tag vague. *)
LEMMA FewerLive ==
  ASSUME NEW S, IsFiniteSet(S), NEW T, T \subseteq S
  PROVE  Cardinality(T) > 1 => Cardinality(S) > 1
<1>1. Cardinality(T) \in Nat /\ Cardinality(S) \in Nat /\ Cardinality(T) <= Cardinality(S)
  BY FS_Subset, FS_CardinalityType
<1>. QED BY <1>1

LEMMA OneLive ==
  ASSUME NEW S, NEW x, S \subseteq {x}
  PROVE  ~(Cardinality(S) > 1)
<1>1. Cardinality({x}) = 1 /\ IsFiniteSet({x})
  BY FS_Singleton
<1>2. ~(Cardinality({x}) > 1)
  BY <1>1
<1>. QED BY <1>1, <1>2, FewerLive

LEMMA TwoLive ==
  ASSUME NEW S, IsFiniteSet(S), NEW x \in S, NEW y \in S, x # y
  PROVE  Cardinality(S) > 1
<1>1. IsFiniteSet({x}) /\ Cardinality({x}) = 1 /\ y \notin {x}
  BY FS_Singleton
<1>2. Cardinality({x} \cup {y}) = 2
  BY <1>1, FS_AddElement
<1>3. Cardinality({x} \cup {y}) > 1
  BY <1>2
<1>4. {x} \cup {y} \subseteq S
  OBVIOUS
<1>. QED BY <1>3, <1>4, FewerLive

(* The data cells of a block belong to no other. *)
LEMMA OwnCells ==
  ASSUME NEW b \in Sectors, NEW i \in Starts(b), GoodMeta(b, i),
         NEW k \in Offset, i < k, k <= i + b[i].len
  PROVE  /\ k \notin Starts(b) /\ k < Tail(b)
         /\ \A j \in Starts(b) : j # i => ~(j <= k /\ k < j + Span(b, j))
<1>1. i \in Offset /\ Starts(b) \subseteq Offset /\ Tail(b) \in Nat /\ i < Tail(b)
  BY ScanFacts, Positions
<1>2. Span(b, i) = 1 + b[i].len /\ b[i].len \in Nat
  BY <1>1, GoodLength
<1>3. i \in Nat /\ k \in Nat /\ ~(i + Span(b, i) <= k)
  BY <1>1, <1>2, Positions
<1>4. \A j \in Starts(b) \cup {Tail(b)} : i < j => i + Span(b, i) <= j
  BY ScanFacts
<1>5. k \notin Starts(b)
  BY <1>3, <1>4
<1>6. k < Tail(b)
  <2>. DEFINE m == i + Span(b, i)
           e == Tail(b)
  <2>1. m \in Nat /\ e \in Nat /\ m <= e /\ ~(m <= k)
    BY <1>1, <1>2, <1>3, <1>4
  <2>. HIDE DEF m, e
  <2>2. k < e
    BY <1>3, <2>1
  <2>. QED BY <2>2 DEF e
<1>7. ASSUME NEW j \in Starts(b), j # i PROVE ~(j <= k /\ k < j + Span(b, j))
  <2>0. j \in Nat /\ Span(b, j) \in Nat
    BY <1>1, SpanBound, Positions DEF Sectors
  <2>1. CASE i < j
    <3>. DEFINE m == i + Span(b, i)
    <3>1. m \in Nat /\ m <= j /\ ~(m <= k)
      BY <1>1, <1>2, <1>3, <1>4, <2>1
    <3>. HIDE DEF m
    <3>. QED BY <1>3, <2>0, <3>1
  <2>2. CASE j < i
    <3>1. j + Span(b, j) <= i
      BY <2>2, ScanFacts
    <3>. DEFINE m == j + Span(b, j)
    <3>2. m \in Nat /\ m <= i
      BY <2>0, <3>1
    <3>. HIDE DEF m
    <3>3. ~(k < m)
      BY <1>3, <3>2
    <3>. QED BY <3>3 DEF m
  <2>. QED BY <1>3, <1>7, <2>0, <2>1, <2>2
<1>. QED BY <1>5, <1>6, <1>7

-----------------------------------------------------------------------------
(* What a search finds *)

LEMMA ValueKept ==
  ASSUME NEW b, NEW c, NEW i, c[i].len = b[i].len,
         \A v \in Values : b[i].len = Len[v] => \A k \in DataCells(i, v) : c[k] = b[k]
  PROVE  ValueAt(c, i) = ValueAt(b, i)
<1>. DEFINE B == {v \in Values : b[i].len = Len[v] /\ \A k \in DataCells(i, v) : b[k] = Data(v)}
            C == {v \in Values : c[i].len = Len[v] /\ \A k \in DataCells(i, v) : c[k] = Data(v)}
<1>1. B = C
  OBVIOUS
<1>2. ValueAt(b, i) = IF B = {} THEN Junk ELSE CHOOSE v \in B : TRUE
  BY Zenon DEF ValueAt
<1>3. ValueAt(c, i) = IF C = {} THEN Junk ELSE CHOOSE v \in C : TRUE
  BY Zenon DEF ValueAt
<1>. HIDE DEF B, C
<1>. QED BY <1>1, <1>2, <1>3

(* The value of a block whose data cells were all written *)
LEMMA ValueWritten ==
  ASSUME NEW b, NEW i \in Offset, NEW v \in Values, b[i].len = Len[v], Fits(i, v),
         \A k \in DataCells(i, v) : b[k] = Data(v)
  PROVE  ValueAt(b, i) = v
<1>. DEFINE B == {w \in Values : b[i].len = Len[w] /\ \A k \in DataCells(i, w) : b[k] = Data(w)}
<1>1. v \in B
  OBVIOUS
<1>2. ASSUME NEW w \in B PROVE w = v
  <2>1. Len[w] = Len[v] /\ Len[v] \in Nat /\ w \in Values
    BY LenAssumption
  <2>2. CASE Len[v] = 0
    BY <2>1, <2>2, EmptyAssumption
  <2>3. CASE Len[v] # 0
    <3>1. i + 1 \in DataCells(i, v) /\ i + 1 \in DataCells(i, w)
      BY <2>1, <2>3, Positions DEF DataCells, Fits
    <3>2. Data(v) = Data(w)
      BY <3>1
    <3>3. Data(v).val = v /\ Data(w).val = w
      BY DEF Data
    <3>. QED BY <3>2, <3>3
  <2>. QED BY <2>2, <2>3
<1>3. ValueAt(b, i) = IF B = {} THEN Junk ELSE CHOOSE w \in B : TRUE
  BY Zenon DEF ValueAt
<1>. HIDE DEF B
<1>. QED BY <1>1, <1>2, <1>3

LEMMA FoundKept ==
  ASSUME NEW b \in Sectors, NEW c \in Sectors, NEW t \in Tags,
         Verified(c, t) = Verified(b, t),
         \A i \in Verified(b, t) : ValueAt(c, i) = ValueAt(b, i)
  PROVE  Found(c, t) = Found(b, t)
<1>1. CASE Verified(b, t) = {}
  BY <1>1, FoundFirst
<1>2. CASE Verified(b, t) # {}
  <2>1. Verified(b, t) \subseteq Nat
    BY FoundFirst, Positions
  <2>2. PICK i : IsFirst(Verified(b, t), i)
    BY <1>2, <2>1, FirstOf
  <2>3. Found(b, t) = ValueAt(b, i) /\ Found(c, t) = ValueAt(c, i) /\ i \in Verified(b, t)
    BY <2>2, FoundFirst DEF IsFirst
  <2>. QED BY <2>3
<1>. QED BY <1>1, <1>2

(* A cell outside the data of a block does not matter to it. *)
LEMMA Outside ==
  ASSUME NEW b \in Sectors, NEW c, NEW i \in Starts(b), GoodMeta(b, i),
         c[i].len = b[i].len,
         \A k \in Offset : i < k /\ k <= i + b[i].len => c[k] = b[k]
  PROVE  ValueAt(c, i) = ValueAt(b, i)
<1>1. \A v \in Values : b[i].len = Len[v] => \A k \in DataCells(i, v) : c[k] = b[k]
  BY DEF DataCells
<1>. QED BY <1>1, ValueKept

-----------------------------------------------------------------------------
(* What the steps of the store do to it *)

Struck(b, k) == [b EXCEPT ![k] = Strike(@)]

LEMMA StruckLive ==
  ASSUME NEW b \in Sectors, NEW k \in Offset, Tiled(b), b[k].kind = "meta", NEW t \in Tags
  PROVE  /\ Live(Struck(b, k), t) = Live(b, t) \ {k}
         /\ Verified(Struck(b, k), t) = Verified(b, t) \ {k}
<1>. DEFINE c == Struck(b, k)
<1>1. /\ c \in Sectors /\ Starts(c) = Starts(b)
      /\ \A i \in Offset : GoodMeta(c, i) = GoodMeta(b, i)
  BY StruckSector DEF Struck
<1>2. \A i \in Offset : i # k => c[i] = b[i]
  BY DEF Struck, Sectors
<1>3. c[k] = Strike(b[k])
  BY DEF Struck, Sectors
<1>4. b[k].kind = "meta" => c[k].status = "delete"
  <2>1. b[k] \in Cell
    BY DEF Sectors
  <2>2. ASSUME b[k].kind = "meta" PROVE [b[k] EXCEPT !.status = "delete"].status = "delete"
    BY <2>1, <2>2 DEF Cell
  <2>. QED BY <1>3, <2>2 DEF Strike
<1>5. Starts(b) \subseteq Offset
  BY ScanFacts
<1>. HIDE DEF c
<1>6. \A i : i \in Live(c, t) <=> i \in Live(b, t) /\ i # k
  BY <1>1, <1>2, <1>4, <1>5, LiveFacts DEF GoodMeta
<1>7. \A i : i \in Verified(c, t) <=> i \in Verified(b, t) /\ i # k
  BY <1>1, <1>2, <1>5, <1>6, LiveFacts
<1>. QED BY <1>6, <1>7 DEF c

(* A struck meta field concerns its own tag only, ... *)
LEMMA StruckMeta ==
  ASSUME NEW b \in Sectors, NEW k \in Starts(b), Tiled(b), b[k].kind = "meta", NEW t \in Tags
  PROVE  /\ \A i \in Verified(b, t) : i # k => ValueAt(Struck(b, k), i) = ValueAt(b, i)
         /\ k \notin Live(b, t) => Found(Struck(b, k), t) = Found(b, t)
<1>. DEFINE c == Struck(b, k)
<1>1. k \in Offset
  BY ScanFacts
<1>2. c \in Sectors
  BY <1>1, StruckSector DEF Struck
<1>3. \A i \in Offset : i # k => c[i] = b[i]
  BY DEF Struck, Sectors
<1>4. Verified(c, t) = Verified(b, t) \ {k}
  BY <1>1, StruckLive
<1>. HIDE DEF c
<1>5. ASSUME NEW i \in Verified(b, t), i # k PROVE ValueAt(c, i) = ValueAt(b, i)
  <2>1. i \in Starts(b) /\ i \in Offset /\ GoodMeta(b, i)
    BY LiveFacts
  <2>2. \A j \in Offset : i < j /\ j <= i + b[i].len => j # k
    BY <2>1, OwnCells
  <2>. QED BY <1>3, <1>5, <2>1, <2>2, Outside
<1>6. ASSUME k \notin Live(b, t) PROVE Found(c, t) = Found(b, t)
  <2>1. k \notin Verified(b, t)
    BY <1>6, LiveFacts
  <2>2. Verified(c, t) = Verified(b, t)
    BY <1>4, <2>1
  <2>3. \A i \in Verified(b, t) : ValueAt(c, i) = ValueAt(b, i)
    BY <1>5, <2>1
  <2>. QED BY <1>2, <2>2, <2>3, FoundKept
<1>. QED BY <1>5, <1>6 DEF c

(* The scan stops over at every meta field. *)
LEMMA MetaStarts ==
  ASSUME NEW b \in Sectors, Tiled(b), NEW m \in Offset, b[m].kind = "meta"
  PROVE  m \in Starts(b)
<1>1. m \in Nat /\ Tail(b) \in Nat
  BY ScanFacts, Positions
<1>2. CASE m < Tail(b)
  BY <1>2 DEF Tiled, Empty
<1>3. CASE ~(m < Tail(b))
  <2>1. m >= Tail(b)
    BY <1>1, <1>3
  <2>. QED BY <2>1 DEF Tiled, Empty
<1>. QED BY <1>2, <1>3

(* A meta field stands at the start of a block: its tag loses the record   *)
(* when no other block of it is live.                                      *)
LEMMA StruckFound ==
  ASSUME NEW b \in Sectors, NEW k \in Offset, Tiled(b), b[k].kind = "meta"
  PROVE  /\ k \in Starts(b)
         /\ \A t \in Tags \ {b[k].tag} : Found(Struck(b, k), t) = Found(b, t)
         /\ \A t \in Tags : Cardinality(Live(b, t)) > 1
                            \/ Found(Struck(b, k), t) \in {Found(b, t), NoValue}
<1>. DEFINE c == Struck(b, k)
<1>1. k \in Starts(b)
  BY MetaStarts
<1>2. c \in Sectors
  BY StruckSector DEF Struck
<1>3. ASSUME NEW t \in Tags, k \notin Live(b, t) PROVE Found(c, t) = Found(b, t)
  BY <1>1, <1>3, StruckMeta
<1>4. \A t \in Tags \ {b[k].tag} : k \notin Live(b, t)
  BY LiveFacts
<1>5. ASSUME NEW t \in Tags, k \in Live(b, t), ~(Cardinality(Live(b, t)) > 1)
      PROVE  Found(c, t) = NoValue
  <2>1. Live(b, t) \subseteq {k}
    BY <1>5, LiveFacts, TwoLive
  <2>2. Verified(b, t) \subseteq {k} /\ Verified(c, t) = Verified(b, t) \ {k}
    BY <2>1, LiveFacts, StruckLive
  <2>3. Verified(c, t) = {}
    BY <2>2
  <2>. HIDE DEF c
  <2>. QED BY <1>2, <2>3, FoundFirst
<1>. HIDE DEF c
<1>. QED BY <1>1, <1>3, <1>4, <1>5 DEF c

(* c has no committed block that b has not, or another value in one. *)
NoNews(b, c, t) ==
  \A i \in Verified(c, t) : i \in Verified(b, t) /\ ValueAt(c, i) = ValueAt(b, i)

(* One more block that is not committed *)
LEMMA GrownFound ==
  ASSUME NEW b \in Sectors, NEW c \in Sectors, Tiled(b), Tail(b) < Capacity,
         c[Tail(b)].kind \in {"meta", "bad"},
         c[Tail(b)].kind = "meta" => c[Tail(b)].status # "verify",
         \A i \in Offset : i # Tail(b) => c[i] = b[i],
         NEW t \in Tags
  PROVE  /\ Live(c, t) \ {Tail(b)} = Live(b, t) /\ Tail(b) \notin Live(b, t)
         /\ c[Tail(b)].kind = "bad" => Live(c, t) = Live(b, t)
         /\ Verified(c, t) = Verified(b, t) /\ Found(c, t) = Found(b, t)
         /\ NoNews(b, c, t)
<1>. DEFINE e == Tail(b)
<1>1. Starts(c) = Starts(b) \cup {e}
  BY LongerSector
<1>2. e \notin Starts(b) /\ Starts(b) \subseteq Offset
  BY ScanFacts
<1>. HIDE DEF e
<1>3. \A i \in Starts(b) : c[i] = b[i] /\ i # e
  BY <1>2 DEF e
<1>4. \A i : i \in Live(c, t) /\ i # e <=> i \in Live(b, t)
  BY <1>1, <1>3, LiveFacts DEF GoodMeta
<1>5. e \notin Verified(c, t)
  BY LiveFacts DEF e, GoodMeta
<1>6. Verified(c, t) = Verified(b, t)
  <2>1. /\ \A i : i \in Verified(b, t) <=> i \in Live(b, t) /\ b[i].status = "verify"
        /\ \A i : i \in Verified(c, t) <=> i \in Live(c, t) /\ c[i].status = "verify"
        /\ Live(b, t) \subseteq Starts(b)
    BY LiveFacts
  <2>2. \A i : i \in Verified(c, t) <=> i \in Verified(b, t)
    BY <1>3, <1>4, <1>5, <2>1
  <2>. QED BY <2>2
<1>7. ASSUME c[e].kind = "bad" PROVE Live(c, t) = Live(b, t)
  <2>1. ~GoodMeta(c, e)
    BY <1>7 DEF GoodMeta
  <2>2. e \notin Live(c, t)
    BY <2>1, LiveFacts
  <2>3. \A i : i \in Live(c, t) <=> i \in Live(b, t)
    BY <1>4, <2>2
  <2>. QED BY <2>3
<1>8. ASSUME NEW i \in Verified(b, t) PROVE ValueAt(c, i) = ValueAt(b, i)
  <2>1. i \in Starts(b) /\ GoodMeta(b, i)
    BY LiveFacts
  <2>2. e \in Nat
    BY ScanFacts, Positions DEF e
  <2>3. \A k \in Offset : i < k /\ k <= i + b[i].len => k # e
    <3>1. \A k \in Offset : k < e => k # e
      BY <2>2, Positions
    <3>. QED BY <2>1, <3>1, OwnCells DEF e
  <2>. QED BY <1>3, <2>1, <2>3, Outside DEF e
<1>9. Found(c, t) = Found(b, t)
  BY <1>6, <1>8, FoundKept
<1>10. NoNews(b, c, t)
  BY <1>6, <1>8 DEF NoNews
<1>. QED BY <1>2, <1>4, <1>6, <1>7, <1>9, <1>10, LiveFacts DEF e

(* The data of a block that is not committed *)
LEMMA FilledFound ==
  ASSUME NEW b \in Sectors, Tiled(b), NEW k \in Starts(b), GoodMeta(b, k),
         b[k].status # "verify",
         NEW v \in Values, NEW x \in Values \cup {Junk}, Len[v] <= b[k].len
  PROVE  LET c == Filled(b, DataCells(k, v), Data(x)) IN
         /\ c \in Sectors /\ Starts(c) = Starts(b)
         /\ \A i \in Starts(b) : c[i] = b[i]
         /\ \A i \in Offset : c[i].kind = "meta" \/ b[i].kind = "meta" => c[i] = b[i]
         /\ \A t \in Tags : /\ Live(c, t) = Live(b, t) /\ Verified(c, t) = Verified(b, t)
                            /\ Found(c, t) = Found(b, t) /\ NoNews(b, c, t)
<1>. DEFINE c == Filled(b, DataCells(k, v), Data(x))
<1>1. k \in Offset /\ k \in Nat /\ Starts(b) \subseteq Offset
  BY ScanFacts, Positions
<1>2. b[k].len \in Nat /\ Span(b, k) = 1 + b[k].len /\ Len[v] \in Nat
  BY <1>1, GoodLength, LenAssumption
<1>3. k + 1 + Len[v] <= k + Span(b, k)
  BY <1>1, <1>2
<1>4. c \in Sectors /\ Starts(c) = Starts(b)
  BY <1>3, FilledSector
<1>5. \A i \in DataCells(k, v) : i \in Offset /\ k < i /\ i <= k + b[k].len
  BY <1>1, <1>2, Positions DEF DataCells
<1>6. \A i \in DataCells(k, v) : i \notin Starts(b) /\ i < Tail(b)
  BY <1>5, OwnCells
<1>7. /\ \A i \in Offset : i \notin DataCells(k, v) => c[i] = b[i]
      /\ \A i \in DataCells(k, v) : c[i] = Program(b[i], Data(x))
  BY <1>5 DEF Filled
<1>8. \A i \in Starts(b) : c[i] = b[i]
  BY <1>1, <1>6, <1>7
<1>9. \A i \in DataCells(k, v) : c[i].kind # "meta" /\ b[i].kind # "meta"
  <2>1. \A i \in DataCells(k, v) : b[i].kind # "meta"
    BY <1>5, <1>6 DEF Tiled, Empty
  <2>2. \A i \in DataCells(k, v) : Program(b[i], Data(x)).kind # "meta"
    BY DEF Program, Data
  <2>. QED BY <1>7, <2>1, <2>2
<1>10. ASSUME NEW t \in Tags
       PROVE  /\ Live(c, t) = Live(b, t) /\ Verified(c, t) = Verified(b, t)
              /\ Found(c, t) = Found(b, t) /\ NoNews(b, c, t)
  <2>. HIDE DEF c
  <2>1. \A i : i \in Live(c, t) <=> i \in Live(b, t)
    BY <1>4, <1>8, LiveFacts DEF GoodMeta
  <2>2. \A i : i \in Verified(c, t) <=> i \in Verified(b, t)
    BY <1>4, <1>8, <2>1, LiveFacts
  <2>3. ASSUME NEW i \in Verified(b, t) PROVE ValueAt(c, i) = ValueAt(b, i)
    <3>1. i \in Starts(b) /\ GoodMeta(b, i) /\ i # k
      BY LiveFacts
    <3>2. ASSUME NEW j \in Offset, i < j, j <= i + b[i].len PROVE c[j] = b[j]
      <4>1. ~(k <= j /\ j < k + Span(b, k))
        BY <3>1, <3>2, OwnCells
      <4>2. ~(k < j /\ j <= k + b[k].len)
        BY <1>1, <1>2, <4>1, Positions
      <4>. QED BY <1>5, <1>7, <4>2
    <3>. QED BY <1>8, <3>1, <3>2, Outside
  <2>4. Live(c, t) = Live(b, t) /\ Verified(c, t) = Verified(b, t)
    BY <2>1, <2>2
  <2>5. Found(c, t) = Found(b, t)
    BY <1>4, <2>3, <2>4, FoundKept
  <2>6. NoNews(b, c, t)
    BY <2>3, <2>4 DEF NoNews
  <2>. QED BY <2>4, <2>5, <2>6
<1>11. \A i \in Offset : c[i].kind = "meta" \/ b[i].kind = "meta" => c[i] = b[i]
  BY <1>7, <1>9
<1>. QED BY <1>4, <1>8, <1>10, <1>11

(* The status of the block at k is set. *)
LEMMA ConfirmedFound ==
  ASSUME NEW b \in Sectors, Tiled(b), NEW k \in Starts(b), GoodMeta(b, k),
         NEW u \in Tags, NEW n \in Nat, b[k] = Meta(u, n, "write")
  PROVE  LET c == [b EXCEPT ![k] = Meta(u, n, "verify")] IN
         /\ c \in Sectors /\ Starts(c) = Starts(b)
         /\ \A i \in Offset : i # k => c[i] = b[i]
         /\ c[k] = Meta(u, n, "verify")
         /\ \A t \in Tags :
              /\ Live(c, t) = Live(b, t)
              /\ Verified(c, t) = Verified(b, t) \cup (IF t = u THEN {k} ELSE {})
              /\ \A i \in Verified(c, t) : ValueAt(c, i) = ValueAt(b, i)
              /\ t # u => Found(c, t) = Found(b, t)
<1>. DEFINE c == [b EXCEPT ![k] = Meta(u, n, "verify")]
<1>1. k \in Offset /\ Starts(b) \subseteq Offset
  BY ScanFacts
<1>2. /\ b[k].kind = "meta" /\ b[k].len = n /\ b[k].tag = u /\ b[k].status = "write"
      /\ "verify" \in Status
  BY DEF Meta, Status
<1>3. /\ c \in Sectors /\ Starts(c) = Starts(b)
      /\ \A i \in Offset : GoodMeta(c, i) = GoodMeta(b, i)
  <2>1. k \in Offset /\ b[k].kind = "meta" /\ b[k].len = n /\ "verify" \in Status
    BY <1>1, <1>2
  <2>2. c \in Sectors
    BY <2>1, ConfirmedSector
  <2>3. Starts(c) = Starts(b)
    BY <2>1, ConfirmedSector
  <2>4. \A i \in Offset : GoodMeta(c, i) = GoodMeta(b, i)
    BY <2>1, ConfirmedSector
  <2>. QED BY <2>2, <2>3, <2>4
<1>4. (\A i \in Offset : i # k => c[i] = b[i]) /\ c[k] = Meta(u, n, "verify")
  BY <1>1 DEF Sectors
<1>5. c[k].len = n /\ c[k].tag = u /\ c[k].status = "verify"
  BY <1>4 DEF Meta
<1>. HIDE DEF c
<1>6. ASSUME NEW t \in Tags
      PROVE  /\ Live(c, t) = Live(b, t)
             /\ Verified(c, t) = Verified(b, t) \cup (IF t = u THEN {k} ELSE {})
             /\ \A i \in Verified(c, t) : ValueAt(c, i) = ValueAt(b, i)
             /\ t # u => Found(c, t) = Found(b, t)
  <2>1. \A i : i \in Live(c, t) <=> i \in Live(b, t)
    BY <1>1, <1>2, <1>3, <1>4, <1>5, LiveFacts
  <2>2. k \in Live(b, t) <=> t = u
    BY <1>2, LiveFacts
  <2>3. \A i : i \in Verified(c, t) <=> i \in Verified(b, t) \/ (i = k /\ t = u)
    <3>0. /\ \A i : i \in Verified(b, t) <=> i \in Live(b, t) /\ b[i].status = "verify"
          /\ \A i : i \in Verified(c, t) <=> i \in Live(c, t) /\ c[i].status = "verify"
      BY <1>3, LiveFacts
    <3>1. k \in Verified(c, t) <=> t = u
      BY <1>5, <2>1, <2>2, <3>0
    <3>2. \A i \in Offset : i # k => (i \in Verified(c, t) <=> i \in Verified(b, t))
      BY <1>4, <2>1, <3>0
    <3>3. k \notin Verified(b, t)
      BY <1>2, LiveFacts
    <3>. QED BY <1>3, <3>1, <3>2, <3>3, LiveFacts
  <2>4. ASSUME NEW i \in Verified(c, t) PROVE ValueAt(c, i) = ValueAt(b, i)
    <3>1. i \in Starts(b) /\ GoodMeta(b, i) /\ i \in Offset
      BY <1>3, LiveFacts
    <3>2. c[i].len = b[i].len
      BY <1>2, <1>4, <1>5, <3>1
    <3>3. \A j \in Offset : i < j /\ j <= i + b[i].len => j # k
      BY <3>1, OwnCells
    <3>. QED BY <1>4, <3>1, <3>2, <3>3, Outside
  <2>5. t # u => Found(c, t) = Found(b, t)
    BY <1>3, <2>3, <2>4, FoundKept
  <2>. QED BY <2>1, <2>3, <2>4, <2>5
<1>. QED BY <1>3, <1>4, <1>6 DEF c

-----------------------------------------------------------------------------
(* Collections *)

LEMMA NothingFound ==
  ASSUME NEW t \in Tags
  PROVE  /\ Erased \in Sectors
         /\ Live(Erased, t) = {} /\ Verified(Erased, t) = {} /\ Found(Erased, t) = NoValue
<1>1. Erased \in Sectors /\ \A i \in Offset : Erased[i] = Blank
  BY ErasedType DEF Sectors, Erased
<1>2. Starts(Erased) = {}
  BY <1>1, EmptyScan DEF Blank, Empty
<1>3. Live(Erased, t) = {} /\ Verified(Erased, t) = {}
  BY <1>2 DEF Live, Verified, Blocks
<1>. QED BY <1>1, <1>3, FoundFirst

LEMMA WholeFound ==
  ASSUME NEW b \in Sectors, NEW t \in Tags
  PROVE  /\ Verified(Cut(b, Tail(b)), t) = Verified(b, t)
         /\ Found(Cut(b, Tail(b)), t) = Found(b, t)
<1>. DEFINE c == Cut(b, Tail(b))
<1>1. /\ c \in Sectors /\ Starts(c) = {p \in Starts(b) : p < Tail(b)} /\ Tail(c) = Tail(b)
      /\ \A i \in Offset : i < Tail(b) => c[i] = b[i]
  BY CutScan
<1>2. \A p \in Starts(b) : p < Tail(b)
  BY ScanFacts
<1>. HIDE DEF c
<1>3. Prolongs(c, b)
  BY <1>1, <1>2 DEF Prolongs
<1>4. \A i \in Verified(b, t) : i < Tail(c)
  BY <1>1, <1>2, LiveFacts
<1>5. Verified(c, t) = Verified(b, t)
  BY <1>1, <1>3, <1>4, ProlongedFound
<1>6. Found(c, t) = Found(b, t)
  BY <1>1, <1>3, <1>5, ProlongedFound, FoundFirst
<1>. QED BY <1>5, <1>6 DEF c

(* A sector without dirty blocks: the copy *)
LEMMA CleanLive ==
  ASSUME NEW c \in Sectors, Dirty(c) = {}, NEW t \in Tags
  PROVE  Live(c, t) = Verified(c, t)
<1>1. \A i \in Starts(c) : c[i].status = "verify"
  BY DEF Dirty
<1>2. /\ Live(c, t) \subseteq Starts(c)
      /\ \A i : i \in Verified(c, t) <=> i \in Live(c, t) /\ c[i].status = "verify"
  BY LiveFacts
<1>3. \A i : i \in Verified(c, t) <=> i \in Live(c, t)
  BY <1>1, <1>2
<1>. QED BY <1>3

(* The next block of b is read. *)
LEMMA CutVerified ==
  ASSUME NEW b \in Sectors, NEW r \in Starts(b), NEW t \in Tags
  PROVE  LET more == Cut(b, r + Span(b, r)) IN
         /\ Cut(b, r) \in Sectors
         /\ r \notin Verified(Cut(b, r), t)
         /\ Verified(more, t) = Verified(Cut(b, r), t)
              \cup (IF Committed(b, r) /\ b[r].tag = t THEN {r} ELSE {})
<1>. DEFINE n == Span(b, r)
            c == Cut(b, r)
            d == Cut(b, r + n)
<1>1. /\ r + n \in Starts(b) \cup {Tail(b)} /\ r \in Offset /\ n \in Nat \ {0}
      /\ Starts(d) = Starts(c) \cup {r}
      /\ Prolongs(c, d)
      /\ \A k \in 0..(n - 1) : r + k \in Offset /\ d[r + k] = b[r + k]
  BY CutProlonged
<1>2. c \in Sectors /\ Tail(c) = r /\ d \in Sectors
  BY <1>1, CutScan
<1>3. d[r] = b[r]
  <2>1. 0 \in 0..(n - 1) /\ r + 0 = r
    BY <1>1, Positions
  <2>. QED BY <1>1, <2>1
<1>. HIDE DEF c, d, n
<1>4. Verified(c, t) = {i \in Verified(d, t) : i < r}
  BY <1>1, <1>2, ProlongedFound
<1>5. Verified(d, t) = {i \in Starts(d) : Committed(d, i) /\ d[i].tag = t}
  BY <1>2, FoundFirst
<1>6. \A i \in Starts(c) : i < r
  BY <1>2, ScanFacts
<1>7. ~(r < r)
  BY <1>1, Positions
<1>8. Committed(d, r) <=> Committed(b, r)
  BY <1>3 DEF Committed, GoodMeta
<1>9. r \in Verified(d, t) <=> Committed(b, r) /\ b[r].tag = t
  BY <1>1, <1>3, <1>5, <1>8
<1>10. \A i : i \in Verified(d, t) <=> i \in Verified(c, t) \/ (i = r /\ Committed(b, r) /\ b[r].tag = t)
  BY <1>1, <1>4, <1>5, <1>6, <1>9
<1>11. Verified(d, t) = Verified(c, t) \cup (IF Committed(b, r) /\ b[r].tag = t THEN {r} ELSE {})
  BY <1>10
<1>. QED BY <1>2, <1>4, <1>7, <1>11 DEF c, d, n

(* ... and copied to c: the copy has as many blocks of a tag as were read. *)
LEMMA CopiedVerified ==
  ASSUME NEW b \in Sectors, NEW c \in Sectors, NEW r \in Nat, NEW w \in Nat, w <= r,
         Tiled(b), Tiled(c), IsBlock(b, r), Committed(b, r), CopyAt(b, c, r, w),
         NEW t \in Tags
  PROVE  LET d == Copied(b, c, r, w) IN
         /\ d \in Sectors /\ r \in Starts(b)
         /\ w \notin Verified(c, t)
         /\ Verified(d, t) = Verified(c, t) \cup (IF b[r].tag = t THEN {w} ELSE {})
<1>. DEFINE n == Span(b, r)
            d == Copied(b, c, r, w)
<1>1. /\ r \in Starts(b) /\ d \in Sectors /\ n \in Nat \ {0}
      /\ \A i \in Offset : i < w => d[i] = c[i]
      /\ \A k \in 0..(n - 1) : w + k \in Offset /\ r + k \in Offset /\ d[w + k] = b[r + k]
  BY CopiedCells
<1>2. Starts(d) = Starts(c) \cup {w} /\ GoodMeta(d, w)
  BY CopiedSector
<1>3. Tail(c) = w /\ \A i \in Starts(c) : i < w /\ i \in Offset
  BY ScanFacts DEF CopyAt
<1>4. ~(w < w) /\ Starts(c) \subseteq Offset
  BY <1>3
<1>5. d[w] = b[r]
  <2>1. 0 \in 0..(n - 1) /\ w + 0 = w /\ r + 0 = r
    BY <1>1
  <2>. QED BY <1>1, <2>1
<1>6. b[r].status = "verify"
  BY DEF Committed
<1>. HIDE DEF d, n
<1>7. Verified(d, t) = {i \in Starts(d) : Committed(d, i) /\ d[i].tag = t}
  BY <1>1, FoundFirst
<1>8. Verified(c, t) = {i \in Starts(c) : Committed(c, i) /\ c[i].tag = t}
  BY FoundFirst
<1>9. Committed(d, w)
  BY <1>2, <1>5, <1>6 DEF Committed
<1>10. \A i \in Starts(c) : d[i] = c[i]
  BY <1>1, <1>3
<1>11. \A i \in Starts(c) : Committed(d, i) <=> Committed(c, i)
  BY <1>10 DEF Committed, GoodMeta
<1>12. \A i : i \in Verified(d, t) <=> i \in Verified(c, t) \/ (i = w /\ b[r].tag = t)
  BY <1>2, <1>5, <1>7, <1>8, <1>9, <1>10, <1>11
<1>13. Verified(d, t) = Verified(c, t) \cup (IF b[r].tag = t THEN {w} ELSE {})
  BY <1>12
<1>. QED BY <1>1, <1>3, <1>4, <1>8, <1>13 DEF d

(* One more in each of two sets *)
LEMMA OneMore ==
  ASSUME NEW S, IsFiniteSet(S), NEW T, IsFiniteSet(T), Cardinality(S) = Cardinality(T),
         NEW x, x \notin S, NEW y, y \notin T
  PROVE  Cardinality(S \cup {x}) = Cardinality(T \cup {y})
BY FS_AddElement
-----------------------------------------------------------------------------
(* The state of the abstract store *)

Store == [t \in Tags |-> Shows(t)]

Req ==
  IF job = Nil THEN Nil
  ELSE [tag |-> job.tag, val |-> job.val,
        done |-> pc = "wr_delete" /\ IsFirst(Verified(flash[work], job.tag), job.at)]

VagueTags == {t \in Tags : Vague(t)}

Armed == CASE mark = Gone -> "wild"
           [] mark \in Address /\ ~OwnMark -> "stale"
           [] OTHER -> "no"

IsLost == pc = "lost"

LEMMA ArmedIs ==
  /\ Armed = IF mark = Gone THEN "wild"
             ELSE IF mark \in Address /\ ~OwnMark THEN "stale" ELSE "no"
  /\ Armed' = IF mark' = Gone THEN "wild"
              ELSE IF mark' \in Address /\ ~OwnMark' THEN "stale" ELSE "no"
<1>1. Gone \notin Address
  BY NilAssumption DEF Address, Offset, Sector
<1>. QED BY <1>1 DEF Armed

(* One step of it or none *)
Kept == [Promise!SNext]_(Promise!svars)

LEMMA NothingSeen ==
  ASSUME Store' = Store, Req' = Req, ret' = ret, VagueTags' = VagueTags, Armed' = Armed,
         IsLost' = IsLost
  PROVE  Kept
BY DEF Kept, Promise!svars, Store, Req, VagueTags, Armed, IsLost

(* A request whose value shows *)
LEMMA NamedDone ==
  ASSUME NEW x, NEW y, NEW r, r = [tag |-> x, val |-> y, done |-> FALSE],
         NEW z, z = [r EXCEPT !.done = TRUE]
  PROVE  z = [tag |-> x, val |-> y, done |-> TRUE]
BY Zenon

LEMMA SetDone ==
  ASSUME NEW x, NEW y, NEW r, r = [tag |-> x, val |-> y, done |-> FALSE]
  PROVE  [r EXCEPT !.done = TRUE] = [tag |-> x, val |-> y, done |-> TRUE]
<1>. DEFINE z == [r EXCEPT !.done = TRUE]
<1>1. z = [r EXCEPT !.done = TRUE]
  OBVIOUS
<1>. HIDE DEF z
<1>2. z = [tag |-> x, val |-> y, done |-> TRUE]
  BY <1>1, NamedDone
<1>. QED BY <1>2 DEF z

LEMMA BeginSeen ==
  ASSUME NEW t \in Tags, NEW v \in Values, Req = Nil,
         Req' = [tag |-> t, val |-> v, done |-> FALSE], ret' = "none",
         Armed' \in {Armed, "no"}, Store' = Store, VagueTags' = VagueTags,
         ~IsLost, ~IsLost'
  PROVE  Kept
BY DEF Kept, Promise!SNext, Promise!Begin, Store, Req, VagueTags, Armed, IsLost

LEMMA CollectSeen ==
  ASSUME Req # Nil, ~Req.done, Req' = Req, ret' = ret,
         Armed' \in {Armed, "no"} \/ (Armed = "stale" /\ Armed' = "wild"),
         VagueTags' \subseteq VagueTags, Store' = Store,
         ~IsLost, ~IsLost'
  PROVE  Kept
BY DEF Kept, Promise!SNext, Promise!Collect, Store, Req, VagueTags, Armed, IsLost

LEMMA CommitSeen ==
  ASSUME Req # Nil, ~Req.done, Req' = [Req EXCEPT !.done = TRUE],
         Store' = [Store EXCEPT ![Req.tag] = Req.val],
         ret' = ret, VagueTags' = VagueTags, Armed' = Armed,
         ~IsLost, ~IsLost'
  PROVE  Kept
BY DEF Kept, Promise!SNext, Promise!Commit, Store, Req, VagueTags, Armed, IsLost

LEMMA RejectSeen ==
  ASSUME Req # Nil, ~Req.done, ret' = "fail", Req' = Nil,
         VagueTags' \subseteq VagueTags \cup {Req.tag},
         Armed' \in {Armed, "no", "stale"}, Store' = Store,
         ~IsLost, ~IsLost'
  PROVE  Kept
BY DEF Kept, Promise!SNext, Promise!Reject, Store, Req, VagueTags, Armed, IsLost

LEMMA RejectAtOnceSeen ==
  ASSUME Req = Nil, Req' = Nil, ret' = "fail", Armed' \in {Armed, "stale"},
         Store' = Store, VagueTags' = VagueTags,
         ~IsLost, ~IsLost'
  PROVE  Kept
BY DEF Kept, Promise!SNext, Promise!RejectAtOnce, Store, Req, VagueTags, Armed, IsLost

LEMMA AcceptSeen ==
  ASSUME Req # Nil, ret' = "ok", Req' = Nil, Armed # "wild", Armed' = "no",
         VagueTags' \subseteq VagueTags,
         Armed # "stale" =>
                   /\ \A t \in Tags \ {Req.tag} : Store'[t] = Store[t]
                   /\ \/ Store'[Req.tag] = Req.val
                      \/ Req.tag \in VagueTags /\ Store'[Req.tag] = Store[Req.tag],
         Armed = "stale" =>
           \E u \in Tags : /\ \A t \in Tags \ {u, Req.tag} : Store'[t] = Store[t]
                          /\ \/ u \in VagueTags \cup {Req.tag}
                             \/ Store'[u] \in {Store[u], NoValue},
         ~IsLost, ~IsLost'
  PROVE  Kept
BY DEF Kept, Promise!SNext, Promise!Accept, Promise!OnlyChanged, Store, Req, VagueTags, Armed, IsLost

LEMMA AcceptWildSeen ==
  ASSUME Req # Nil, Armed = "wild", IsLost'
  PROVE  Kept
BY DEF Kept, Promise!SNext, Promise!AcceptWild, Req, Armed, IsLost

LEMMA DeleteSeen ==
  ASSUME NEW u \in Tags, Req = Nil, Req' = Nil, ret' = "ok",
         \A t \in Tags \ {u} : Store'[t] = Store[t],
         u \notin VagueTags => Store'[u] = NoValue,
         VagueTags' \subseteq VagueTags, Armed' = Armed,
         ~IsLost, ~IsLost'
  PROVE  Kept
BY DEF Kept, Promise!SNext, Promise!Delete, Promise!OnlyChanged, Store, Req, VagueTags, Armed, IsLost

LEMMA DeleteNothingSeen ==
  ASSUME NEW u \in Tags, Req = Nil, Req' = Nil, ret' = "fail", Store[u] = NoValue,
         Store' = Store, VagueTags' = VagueTags, Armed' = Armed,
         ~IsLost, ~IsLost'
  PROVE  Kept
BY DEF Kept, Promise!SNext, Promise!DeleteNothing, Store, Req, VagueTags, Armed, IsLost

LEMMA PowerLossSeen ==
  ASSUME Req' = Nil, ret' = "none", Armed' = "no", Store' = Store,
         \A t \in VagueTags' \ VagueTags : Req # Nil /\ t = Req.tag,
         ~IsLost, ~IsLost'
  PROVE  Kept
BY DEF Kept, Promise!SNext, Promise!PowerLoss, Store, Req, VagueTags, Armed, IsLost
-----------------------------------------------------------------------------
(* The inductive invariant: what the block being written is, which mark an *)
(* append over an old record holds, how many blocks a collection copied.   *)

(* The block at job.at of the work sector b *)
BlockWritten(b) ==
  /\ job.at \in Starts(b) /\ GoodMeta(b, job.at)
  /\ b[job.at].tag = job.tag /\ b[job.at].len = Len[job.val]
  /\ b[job.at].status = "verify" <=> pc = "wr_delete"
  /\ pc = "wr_delete" => \A k \in DataCells(job.at, job.val) : b[k] = Data(job.val)

MarksOld ==
  Old(job.tag) # {} => mark \in Address /\ mark.sec = work /\ IsLast(Old(job.tag), mark.off)

SameCounts(b, c) ==
  \A t \in Tags : Cardinality(Verified(c, t)) = Cardinality(Verified(Cut(b, gcRead), t))

StoreInv ==
  /\ pc = "format" => \A s \in Sector : flash[s] = Erased
  /\ job # Nil => ret = "none"
  /\ pc \in Collecting => job.at = Capacity
  /\ pc \in {"wr_data", "check", "wr_delete"} => BlockWritten(flash[work])
  /\ pc \in Writing => MarksOld
  /\ pc = "gc_copy" => SameCounts(flash[work], flash[Other(work)])

RInv == LInv /\ StoreInv

Using == pc \notin {"boot", "format"}

LEMMA AtWork ==
  ASSUME IInv, Using
  PROVE  /\ work \in Sector /\ Home = work
         /\ \A t : Shows(t) = Found(flash[work], t)
         /\ \A t : Old(t) = {i \in Live(flash[work], t) : ~(job # Nil /\ job.at = i)}
<1>1. work \in Sector /\ Home = work /\ work # Nil
  BY NilAssumption DEF IInv, TypeOK, CallInv, Using, Home, Sector
<1>. QED BY <1>1 DEF Shows, Old

LEMMA AtWorkNext ==
  ASSUME IInv', Using'
  PROVE  /\ work' \in Sector /\ Home' = work'
         /\ \A t : Shows(t)' = Found(flash'[work'], t)
         /\ \A t : Old(t)' = {i \in Live(flash'[work'], t) : ~(job' # Nil /\ job'.at = i)}
<1>1. work' \in Sector /\ Home' = work' /\ work' # Nil
  BY NilAssumption DEF IInv, TypeOK, CallInv, Using, Home, Sector
<1>. QED BY <1>1 DEF Shows, Old

(* The store without a sector in use: after a reboot, before the format *)
LEMMA AtRest ==
  ASSUME IInv, ~Using
  PROVE  /\ work = Nil /\ job = Nil /\ Home = FindValid(hdr)
         /\ Home \in Sector \cup {Nil}
         /\ \A t : Shows(t) = IF Home = Nil THEN NoValue ELSE Found(flash[Home], t)
         /\ \A t : Old(t) = IF Home = Nil THEN {} ELSE Live(flash[Home], t)
<1>1. work = Nil /\ job = Nil /\ hdr \in [Sector -> Header]
  BY DEF IInv, TypeOK, CallInv, Using, Writing, Collecting
<1>2. Home = FindValid(hdr)
  BY <1>1 DEF Home
<1>3. Home \in Sector \cup {Nil}
  BY <1>1, <1>2, FindValidIsValid
<1>. QED BY <1>1, <1>2, <1>3 DEF Shows, Old

LEMMA AtRestNext ==
  ASSUME IInv', ~Using'
  PROVE  /\ work' = Nil /\ job' = Nil /\ Home' = FindValid(hdr')
         /\ Home' \in Sector \cup {Nil}
         /\ \A t : Shows(t)' = IF Home' = Nil THEN NoValue ELSE Found(flash'[Home'], t)
         /\ \A t : Old(t)' = IF Home' = Nil THEN {} ELSE Live(flash'[Home'], t)
<1>1. work' = Nil /\ job' = Nil /\ hdr' \in [Sector -> Header]
  BY DEF IInv, TypeOK, CallInv, Using, Writing, Collecting
<1>2. Home' = FindValid(hdr')
  BY <1>1 DEF Home
<1>3. Home' \in Sector \cup {Nil}
  BY <1>1, <1>2, FindValidIsValid
<1>. QED BY <1>1, <1>2, <1>3 DEF Shows, Old

(* The sector in use, for the steps that follow *)
LEMMA Sound ==
  ASSUME LInv
  PROVE  /\ IInv /\ LogInv
         /\ \A s \in Sector : flash[s] \in Sectors /\ Tiled(flash[s])
         /\ job = Nil <=> pc \notin Writing \cup Collecting
         /\ job # Nil => job \in Jobs /\ job.tag \in Tags /\ job.val \in Values
         /\ Using => Other(work) \in Sector /\ Other(work) # work
BY InUse, OtherSector DEF LInv, LogInv, Jobs, IInv, CallInv, TypeOK, Using

LEMMA SameStore ==
  ASSUME \A t \in Tags : Shows(t)' = Shows(t)
  PROVE  Store' = Store
BY DEF Store

LEMMA SameVague ==
  ASSUME \A t \in Tags : Old(t)' = Old(t)
  PROVE  VagueTags' = VagueTags
BY DEF VagueTags, Vague

LEMMA LessVague ==
  ASSUME NEW T, \A t \in Tags \ T : Cardinality(Old(t)') > 1 => Cardinality(Old(t)) > 1
  PROVE  VagueTags' \subseteq VagueTags \cup T
BY DEF VagueTags, Vague

(* The append in progress is one the abstract store knows. *)
LEMMA Requested ==
  ASSUME LInv, job # Nil
  PROVE  /\ Req # Nil /\ Req.tag = job.tag /\ Req.val = job.val
         /\ Req.done = (pc = "wr_delete" /\ IsFirst(Verified(flash[work], job.tag), job.at))
<1>. DEFINE d == pc = "wr_delete" /\ IsFirst(Verified(flash[work], job.tag), job.at)
<1>1. d \in BOOLEAN
  BY Zenon DEF IsFirst
<1>2. job.tag \in Tags /\ job.val \in Values
  BY Sound
<1>3. Req = [tag |-> job.tag, val |-> job.val, done |-> d]
  BY DEF Req
<1>. HIDE DEF d
<1>4. [tag |-> job.tag, val |-> job.val, done |-> d] \in [tag : Tags, val : Values, done : BOOLEAN]
  BY <1>1, <1>2
<1>5. Req # Nil
  BY <1>3, <1>4, NilAssumption
<1>. QED BY <1>3, <1>5 DEF d
-----------------------------------------------------------------------------
(* Steps outside calls *)

LEMMA StoreInitially == Init => StoreInv /\ Promise!SInit
<1>. SUFFICES ASSUME Init PROVE StoreInv /\ Promise!SInit
  OBVIOUS
<1>1. StoreInv
  BY DEF Init, StoreInv, Collecting, Writing
<1>2. Home = Nil
  BY DEF Init, Home, FindValid, NoHeader, Sector
<1>3. (\A t \in Tags : Shows(t) = NoValue /\ Old(t) = {}) /\ job = Nil /\ mark = Nil /\ ret = "none"
  BY <1>2 DEF Init, Shows, Old
<1>4. \A t \in Tags : ~Vague(t)
  BY <1>3, FS_EmptySet DEF Vague
<1>5. Promise!SInit
  <2>1. Armed = "no"
    <3>1. Nil \notin Address /\ Nil # Gone
      BY NilAssumption DEF Address, Sector, Offset
    <3>. QED BY <1>3, <3>1, ArmedIs
  <2>2. pc # "lost"
    BY DEF Init
  <2>. QED BY <1>3, <1>4, <2>1, <2>2 DEF Promise!SInit, Armed
<1>. QED BY <1>1, <1>5

LEMMA QuietStore ==
  ASSUME StoreInv, UNCHANGED <<flash, hdr, work, mark, job, pc, gcRead, ret>>
  PROVE  StoreInv' /\ Kept
<1>1. \A t \in Tags : Shows(t)' = Shows(t) /\ Old(t)' = Old(t)
  BY DEF Shows, Old, Home
<1>2. Store' = Store /\ VagueTags' = VagueTags
  BY <1>1, SameStore, SameVague
<1>3. Req' = Req /\ Armed' = Armed /\ IsLost' = IsLost
  <2>1. Req' = Req /\ IsLost' = IsLost
    BY DEF Req, IsLost
  <2>2. OwnMark' = OwnMark
    BY DEF OwnMark
  <2>. QED BY <2>1, <2>2, ArmedIs
<1>4. StoreInv'
  BY DEF StoreInv, BlockWritten, MarksOld, Old, Home, SameCounts
<1>. QED BY <1>2, <1>3, <1>4, NothingSeen

LEMMA Unmarked ==
  /\ job = Nil => /\ Req = Nil
                 /\ Armed = IF mark = Gone THEN "wild" ELSE IF mark \in Address THEN "stale" ELSE "no"
  /\ job' = Nil => /\ Req' = Nil
                  /\ Armed' = IF mark' = Gone THEN "wild"
                              ELSE IF mark' \in Address THEN "stale" ELSE "no"
<1>1. job = Nil => ~OwnMark
  BY DEF OwnMark
<1>2. job' = Nil => ~OwnMark'
  BY DEF OwnMark
<1>3. (job = Nil => Req = Nil) /\ (job' = Nil => Req' = Nil)
  BY DEF Req
<1>. QED BY <1>1, <1>2, <1>3, ArmedIs

LEMMA MountStore ==
  ASSUME RInv, LInv', Mount
  PROVE  StoreInv' /\ Kept
<1>1. /\ pc = "boot" /\ pc' = "idle" /\ work' = FindValid(hdr)
      /\ UNCHANGED <<flash, hdr, mark, job, ret>>
  BY DEF Mount, flashVars
<1>2. ~Using /\ Using' /\ IInv /\ IInv'
  BY <1>1 DEF Using, RInv, LInv
<1>3. job = Nil /\ work' \in Sector /\ work' # Nil /\ Home = work'
  BY <1>1, <1>2, AtRest, AtWorkNext, NilAssumption DEF Sector
<1>4. \A t \in Tags : Shows(t)' = Shows(t) /\ Old(t)' = Old(t)
  BY <1>1, <1>2, <1>3, AtRest, AtWorkNext
<1>5. Store' = Store /\ VagueTags' = VagueTags
  BY <1>4, SameStore, SameVague
<1>6. Kept
  BY <1>1, <1>3, <1>5, Unmarked, NothingSeen DEF IsLost
<1>7. StoreInv'
  BY <1>1, <1>3 DEF StoreInv, Collecting, Writing
<1>. QED BY <1>6, <1>7

LEMMA FormatStore ==
  ASSUME RInv, LInv', FormatErase \/ FormatHeader
  PROVE  StoreInv' /\ Kept
<1>1. IInv /\ IInv' /\ StoreInv
  BY DEF RInv, LInv
<1>2. pc \in {"boot", "format"} /\ pc' \in {"format", "idle"} /\ ~Using /\ UNCHANGED <<mark, job, ret>> /\ job = Nil
  BY <1>1, AtRest DEF FormatErase, FormatHeader, Using
<1>3. FindValid(hdr) = Nil
  <2>1. CASE FormatErase
    BY <2>1 DEF FormatErase
  <2>2. CASE FormatHeader
    <3>1. hdr \in [Sector -> Header] /\ \A s \in Sector : ~hdr[s].valid
      BY <1>1, <2>2 DEF FormatHeader, IInv, TypeOK, HeaderInv
    <3>. QED BY <3>1, FindValidIsValid
  <2>. QED BY <2>1, <2>2
<1>4. \A t \in Tags : Shows(t) = NoValue /\ Old(t) = {}
  BY <1>1, <1>2, <1>3, AtRest
<1>5. /\ \A t \in Tags : Shows(t)' = NoValue /\ Old(t)' = {}
      /\ StoreInv'
  <2>1. CASE FormatErase
    <3>1. ~Using' /\ pc' = "format" /\ \A s \in Sector : hdr'[s] = NoHeader /\ flash'[s] = Erased
      BY <2>1 DEF FormatErase, Using
    <3>2. hdr' \in [Sector -> Header]
      BY <1>1 DEF IInv, TypeOK
    <3>3. FindValid(hdr') = Nil
      BY <3>1, <3>2, FindValidIsValid DEF NoHeader
    <3>4. StoreInv'
      BY <1>2, <3>1 DEF StoreInv, Collecting, Writing
    <3>. QED BY <1>1, <3>1, <3>3, <3>4, AtRestNext
  <2>2. CASE FormatHeader
    <3>1. Using' /\ pc = "format" /\ pc' = "idle" /\ work' = "major" /\ flash' = flash
      BY <2>2 DEF FormatHeader, Using
    <3>2. flash'[work'] = Erased
      BY <1>1, <3>1 DEF StoreInv, Sector
    <3>3. StoreInv'
      BY <1>2, <3>1 DEF StoreInv, Collecting, Writing
    <3>4. \A t \in Tags : Shows(t)' = Found(Erased, t) /\ Old(t)' = Live(Erased, t)
      BY <1>1, <1>2, <3>1, <3>2, AtWorkNext
    <3>. QED BY <3>3, <3>4, NothingFound
  <2>. QED BY <2>1, <2>2
<1>6. Store' = Store /\ VagueTags' = VagueTags
  BY <1>4, <1>5, SameStore, SameVague
<1>. QED BY <1>2, <1>5, <1>6, Unmarked, NothingSeen DEF IsLost
-----------------------------------------------------------------------------
(* Steps inside an append *)

(* Nothing is seen of a step that leaves alone what the work sector shows  *)
(* and its live blocks, but for the block being written.                   *)
LEMMA UnseenStep ==
  ASSUME LInv, LInv', Using, Using', job # Nil, UNCHANGED <<work, job, ret>>,
         pc # "wr_delete", pc' # "wr_delete", ~IsLost, ~IsLost',
         \A t \in Tags : Found(flash'[work], t) = Found(flash[work], t),
         \A t \in Tags : Live(flash'[work], t) \ {job.at} = Live(flash[work], t) \ {job.at},
         Armed' \in {Armed, "no"} \/ (Armed = "stale" /\ Armed' = "wild")
  PROVE  Kept /\ \A t \in Tags : Old(t)' = Old(t)
<1>1. IInv /\ IInv'
  BY DEF LInv
<1>2. \A t \in Tags : Shows(t)' = Shows(t)
  BY <1>1, AtWork, AtWorkNext
<1>3. \A t \in Tags : Old(t) = Live(flash[work], t) \ {job.at}
  BY <1>1, AtWork
<1>4. \A t \in Tags : Old(t)' = Live(flash'[work], t) \ {job.at}
  BY <1>1, AtWorkNext
<1>5. \A t \in Tags : Old(t)' = Old(t)
  BY <1>3, <1>4
<1>6. Req' = Req
  BY DEF Req
<1>7. Req # Nil /\ ~Req.done
  BY Requested
<1>. QED BY <1>2, <1>5, <1>6, <1>7, SameStore, SameVague, CollectSeen

(* A collection writes to the other sector. *)
LEMMA CollectUnseen ==
  ASSUME LInv, LInv', pc \in Collecting, pc' \in Collecting,
         UNCHANGED <<work, job, ret>>, flash'[work] = flash[work],
         \/ mark' = mark
         \/ mark \in Address /\ mark.sec # work /\ mark' = Gone
  PROVE  Kept
<1>1. Using /\ Using' /\ job # Nil /\ pc # "wr_delete" /\ pc' # "wr_delete" /\ ~IsLost /\ ~IsLost'
  BY Sound DEF Using, Collecting, IsLost
<1>2. Armed' = Armed \/ (Armed = "stale" /\ Armed' = "wild")
  <2>1. CASE mark' = mark
    <3>1. OwnMark' = OwnMark
      BY <2>1 DEF OwnMark, Collecting
    <3>. QED BY <2>1, <3>1, ArmedIs
  <2>2. CASE mark \in Address /\ mark.sec # work /\ mark' = Gone
    <3>1. ~OwnMark /\ mark # Gone
      BY <2>2, NilAssumption DEF OwnMark, Collecting, Address, Sector, Offset
    <3>. QED BY <2>2, <3>1, ArmedIs
  <2>. QED BY <2>1, <2>2
<1>. QED BY <1>1, <1>2, UnseenStep

LEMMA CollectInv ==
  ASSUME StoreInv, pc \in Collecting, pc' = "gc_copy", UNCHANGED <<job, ret>>,
         SameCounts(flash[work], flash[Other(work)])'
  PROVE  StoreInv'
BY DEF StoreInv, Collecting, Writing

LEMMA GcEraseStore ==
  ASSUME RInv, LInv', GcErase
  PROVE  StoreInv' /\ Kept
<1>1. /\ pc = "gc_erase" /\ pc' = "gc_copy" /\ gcRead' = 0
      /\ UNCHANGED <<work, job, ret>>
      /\ mark' = IF mark \in Address /\ mark.sec = Other(work) THEN Gone ELSE mark
      /\ flash' = [flash EXCEPT ![Other(work)] = Erased]
  BY DEF GcErase
<1>2. LInv /\ StoreInv /\ Using /\ pc \in Collecting /\ pc' \in Collecting
  BY <1>1 DEF RInv, Using, Collecting
<1>3. /\ Other(work) \in Sector /\ Other(work) # work /\ work \in Sector
      /\ flash[work] \in Sectors /\ flash \in [Sector -> Sectors]
  BY <1>2, Sound, AtWork, InUse
<1>4. flash'[work] = flash[work] /\ flash'[Other(work)] = Erased
  BY <1>1, <1>3
<1>5. Cut(flash[work], 0) = Erased
  BY <1>3, NothingRead
<1>6. SameCounts(flash[work], flash[Other(work)])'
  BY <1>1, <1>4, <1>5 DEF SameCounts
<1>7. mark' = mark \/ (mark \in Address /\ mark.sec # work /\ mark' = Gone)
  BY <1>1, <1>3
<1>. QED BY <1>1, <1>2, <1>4, <1>6, <1>7, CollectInv, CollectUnseen

LEMMA GcCopyStore ==
  ASSUME RInv, LInv', GcCopy
  PROVE  StoreInv' /\ Kept
<1>. DEFINE b == flash[work]
            c == flash[Other(work)]
            r == gcRead
            w == gcWrite
            d == Copied(b, c, r, w)
<1>1. /\ pc = "gc_copy" /\ IsBlock(b, r) /\ Committed(b, r)
      /\ pc' = "gc_copy" /\ gcRead' = r + Span(b, r)
      /\ UNCHANGED <<work, mark, job, ret>>
      /\ flash' = [flash EXCEPT ![Other(work)] = d]
  BY DEF GcCopy, Copied
<1>2. LInv /\ StoreInv /\ Using /\ pc \in Collecting /\ pc' \in Collecting /\ IInv /\ LogInv
  BY <1>1 DEF RInv, LInv, Using, Collecting
<1>3. /\ Other(work) \in Sector /\ Other(work) # work /\ work \in Sector
      /\ b \in Sectors /\ c \in Sectors /\ flash \in [Sector -> Sectors]
      /\ Tiled(b) /\ Tiled(c) /\ r \in Nat /\ w \in Nat /\ w <= r
  BY <1>1, <1>2, Sound, AtWork, InUse
<1>4. flash'[work] = b /\ flash'[Other(work)] = d
  BY <1>1, <1>3
<1>5. CopyAt(b, c, r, w)
  BY <1>1, <1>2 DEF LogInv, Copying
<1>6. \A t \in Tags : Cardinality(Verified(c, t)) = Cardinality(Verified(Cut(b, r), t))
  BY <1>1, <1>2 DEF StoreInv, SameCounts
<1>. HIDE DEF b, c, r, w
<1>7. ASSUME NEW t \in Tags
      PROVE  Cardinality(Verified(d, t)) = Cardinality(Verified(Cut(b, r + Span(b, r)), t))
  <2>1. /\ d \in Sectors /\ r \in Starts(b) /\ w \notin Verified(c, t)
        /\ Verified(d, t) = Verified(c, t) \cup (IF b[r].tag = t THEN {w} ELSE {})
    BY <1>1, <1>3, <1>5, CopiedVerified
  <2>2. /\ Cut(b, r) \in Sectors /\ r \notin Verified(Cut(b, r), t)
        /\ Verified(Cut(b, r + Span(b, r)), t) = Verified(Cut(b, r), t)
              \cup (IF Committed(b, r) /\ b[r].tag = t THEN {r} ELSE {})
    BY <1>3, <2>1, CutVerified
  <2>3. IsFiniteSet(Verified(c, t)) /\ IsFiniteSet(Verified(Cut(b, r), t))
    <3>1. \A x \in Sectors : Verified(x, t) \subseteq Live(x, t) /\ IsFiniteSet(Live(x, t))
      BY LiveFacts
    <3>. QED BY <1>3, <2>2, <3>1, FS_Subset
  <2>4. CASE b[r].tag = t
    BY <1>1, <1>6, <2>1, <2>2, <2>3, <2>4, OneMore
  <2>5. CASE b[r].tag # t
    BY <1>6, <2>1, <2>2, <2>5
  <2>. QED BY <2>4, <2>5
<1>. HIDE DEF d
<1>8. SameCounts(flash[work], flash[Other(work)])'
  BY <1>1, <1>4, <1>7 DEF SameCounts
<1>. QED BY <1>1, <1>2, <1>4, <1>8, CollectInv, CollectUnseen DEF b

LEMMA GcSkipStore ==
  ASSUME RInv, LInv', GcSkip
  PROVE  StoreInv' /\ Kept
<1>. DEFINE b == flash[work]
            c == flash[Other(work)]
            r == gcRead
<1>1. /\ pc = "gc_copy" /\ IsBlock(b, r) /\ ~Committed(b, r)
      /\ pc' = "gc_copy" /\ gcRead' = r + Span(b, r)
      /\ UNCHANGED <<flash, work, mark, job, ret>>
  BY DEF GcSkip, flashVars
<1>2. LInv /\ StoreInv /\ Using /\ pc \in Collecting /\ pc' \in Collecting /\ IInv /\ LogInv
  BY <1>1 DEF RInv, LInv, Using, Collecting
<1>3. b \in Sectors /\ r \in Nat
  BY <1>1, <1>2, AtWork, InUse
<1>4. CopyAt(b, c, r, gcWrite)
  BY <1>1, <1>2 DEF LogInv, Copying
<1>5. \A t \in Tags : Cardinality(Verified(c, t)) = Cardinality(Verified(Cut(b, r), t))
  BY <1>1, <1>2 DEF StoreInv, SameCounts
<1>. HIDE DEF b, c, r
<1>6. r \in Starts(b)
  BY <1>1, <1>3, <1>4, SkippedBlock
<1>7. \A t \in Tags : Verified(Cut(b, r + Span(b, r)), t) = Verified(Cut(b, r), t)
  BY <1>1, <1>3, <1>6, CutVerified
<1>8. SameCounts(flash[work], flash[Other(work)])'
  BY <1>1, <1>5, <1>7 DEF SameCounts, b, c
<1>. QED BY <1>1, <1>2, <1>8, CollectInv, CollectUnseen
-----------------------------------------------------------------------------
(* Calls *)

LEMMA DeleteStore ==
  ASSUME RInv, LInv', NEW u \in Tags, Delete(u)
  PROVE  StoreInv' /\ Kept
<1>. DEFINE b == flash[work]
<1>1. /\ pc = "idle" /\ pc' = "idle" /\ UNCHANGED <<hdr, work, mark, job>>
      /\ ~IsLost /\ ~IsLost'
  BY DEF Delete, IsLost
<1>2. LInv /\ IInv /\ IInv' /\ Using /\ Using' /\ job = Nil /\ job' = Nil
  BY <1>1, Sound DEF RInv, LInv, Using, Writing, Collecting
<1>3. work \in Sector /\ b \in Sectors /\ Tiled(b) /\ flash \in [Sector -> Sectors]
  BY <1>2, Sound, AtWork, InUse
<1>4. /\ \A t : Shows(t) = Found(b, t) /\ Old(t) = Live(b, t)
      /\ \A t : Shows(t)' = Found(flash'[work], t) /\ Old(t)' = Live(flash'[work], t)
  BY <1>1, <1>2, AtWork, AtWorkNext
<1>5. StoreInv'
  BY <1>1, <1>2 DEF StoreInv, Collecting, Writing
<1>6. Req = Nil /\ Req' = Nil /\ Armed' = Armed
  BY <1>1, <1>2, Unmarked
<1>. HIDE DEF b
<1>7. CASE DeleteFirst(u)
  <2>1. PICK i \in Offset :
          /\ IsFirst(Live(b, u), i)
          /\ flash' = [flash EXCEPT ![work][i] = Strike(@)]
          /\ ret' = "ok"
    BY <1>7 DEF DeleteFirst, b
  <2>2. flash'[work] = Struck(b, i)
    BY <1>3, <2>1 DEF Struck, b
  <2>3. i \in Live(b, u) /\ i \in Starts(b) /\ b[i].kind = "meta"
    BY <1>3, <2>1, LiveFacts DEF IsFirst, GoodMeta
  <2>4. ASSUME NEW t \in Tags \ {u} PROVE Shows(t)' = Shows(t)
    <3>1. i \notin Live(b, t)
      BY <1>3, <2>3, LiveFacts
    <3>. QED BY <1>3, <1>4, <2>2, <2>3, <3>1, StruckMeta
  <2>5. ASSUME NEW t \in Tags
        PROVE  Old(t)' \subseteq Old(t) /\ (Cardinality(Old(t)') > 1 => Cardinality(Old(t)) > 1)
    <3>1. Old(t)' \subseteq Old(t)
      BY <1>3, <1>4, <2>2, <2>3, StruckLive
    <3>. QED BY <1>3, <1>4, <3>1, LiveFacts, FewerLive
  <2>6. ASSUME ~Vague(u) PROVE Shows(u)' = NoValue
    <3>1. Live(b, u) \subseteq {i}
      BY <1>3, <1>4, <2>3, <2>6, LiveFacts, TwoLive DEF Vague
    <3>2. Verified(b, u) \subseteq {i} /\ Verified(Struck(b, i), u) = Verified(b, u) \ {i}
      BY <1>3, <2>3, <3>1, LiveFacts, StruckLive
    <3>3. Struck(b, i) \in Sectors
      BY <1>3, <2>3, StruckSector DEF Struck
    <3>. QED BY <1>4, <2>2, <3>2, <3>3, FoundFirst
  <2>7. VagueTags' \subseteq VagueTags
    BY <2>5 DEF VagueTags, Vague
  <2>8. /\ \A t \in Tags \ {u} : Store'[t] = Store[t]
        /\ u \notin VagueTags => Store'[u] = NoValue
    BY <2>4, <2>6 DEF Store, VagueTags
  <2>. QED BY <1>1, <1>5, <1>6, <2>1, <2>7, <2>8, DeleteSeen
<1>8. CASE DeleteNothing(u)
  <2>1. Live(b, u) = {} /\ ret' = "fail" /\ flash' = flash
    BY <1>8 DEF DeleteNothing, b
  <2>2. Verified(b, u) = {}
    BY <1>3, <2>1, LiveFacts
  <2>3. Store[u] = NoValue
    BY <1>3, <1>4, <2>2, FoundFirst DEF Store
  <2>4. \A t \in Tags : Shows(t)' = Shows(t) /\ Old(t)' = Old(t)
    BY <1>4, <2>1 DEF b
  <2>. QED BY <1>1, <1>5, <1>6, <2>1, <2>3, <2>4, SameStore, SameVague, DeleteNothingSeen
<1>. QED BY <1>7, <1>8 DEF Delete

(* A search that passes live blocks leaves the append its own mark. *)
LEMMA MarkedOwn ==
  ASSUME LInv, NEW s \in Sector, NEW t \in Tags, Marks(s, t), Live(flash[s], t) # {},
         flash' = flash, work' = s, job' # Nil, job'.tag = t,
         job'.at \notin Live(flash[s], t)
  PROVE  /\ Armed' = "no"
         /\ mark' \in Address /\ mark'.sec = s /\ IsLast(Live(flash[s], t), mark'.off)
<1>1. PICK i \in Offset : IsLast(Live(flash[s], t), i) /\ mark' = [sec |-> s, off |-> i]
  BY DEF Marks
<1>2. mark' \in Address /\ mark'.sec = s /\ mark'.off = i /\ mark' # Gone
  BY <1>1, NilAssumption DEF Address, Offset, Sector
<1>3. i \in Live(flash[s], t) /\ flash[s][i].kind = "meta" /\ flash[s][i].tag = t
  BY <1>1, Sound, LiveFacts DEF IsLast, GoodMeta
<1>4. mark' # [sec |-> work', off |-> job'.at]
  BY <1>2, <1>3
<1>5. OwnMark'
  BY <1>2, <1>3, <1>4 DEF OwnMark
<1>. QED BY <1>1, <1>2, <1>5, ArmedIs

LEMMA BeginStore ==
  ASSUME RInv, LInv', NEW t \in Tags, NEW v \in Values, NEW i \in 0..Capacity,
         pc = "idle", Marks(work, t), UNCHANGED <<flash, hdr, work>>,
         job' = [tag |-> t, val |-> v, at |-> i], ret' = "none",
         \A u \in Tags : i \notin Live(flash[work], u),
         pc' = "wr_meta" \/ (pc' = "gc_erase" /\ i = Capacity)
  PROVE  StoreInv' /\ Kept
<1>1. LInv /\ IInv /\ IInv' /\ Using /\ Using' /\ job = Nil
  BY Sound DEF RInv, LInv, Using, Writing, Collecting
<1>2. work \in Sector /\ job' # Nil /\ job'.tag = t /\ job'.val = v /\ job'.at = i
  BY <1>1, AtWork, JobType
<1>3. ASSUME NEW u \in Tags
      PROVE  Shows(u)' = Shows(u) /\ Old(u)' = Old(u) /\ Old(u)' = Live(flash[work], u)
  BY <1>1, <1>2, AtWork, AtWorkNext
<1>4. Req = Nil /\ Req' = [tag |-> t, val |-> v, done |-> FALSE]
  BY <1>1, <1>2 DEF Req
<1>5. Armed' \in {Armed, "no"}
  <2>1. CASE Live(flash[work], t) = {}
    <3>1. mark' = mark
      BY <2>1 DEF Marks, IsLast
    <3>. QED BY <1>1, <3>1, Unmarked, ArmedIs
  <2>2. CASE Live(flash[work], t) # {}
    <3>1. Armed' = "no"
      BY <1>1, <1>2, <2>2, MarkedOwn
    <3>. QED BY <3>1
  <2>. QED BY <2>1, <2>2
<1>6. StoreInv'
  <2>1. MarksOld'
    <3>1. (Old(job.tag))' = Live(flash[work], t)
      BY <1>2, <1>3
    <3>2. Live(flash[work], t) # {} =>
            mark' \in Address /\ mark'.sec = work /\ IsLast(Live(flash[work], t), mark'.off)
      BY <1>1, <1>2, MarkedOwn
    <3>. QED BY <3>1, <3>2 DEF MarksOld
  <2>. QED BY <1>2, <2>1 DEF StoreInv, Collecting, Writing
<1>. QED BY <1>3, <1>4, <1>5, <1>6, SameStore, SameVague, BeginSeen DEF IsLost

LEMMA AppendStore ==
  ASSUME RInv, LInv', NEW t \in Tags, NEW v \in Values, Append(t, v)
  PROVE  StoreInv' /\ Kept
<1>1. /\ pc = "idle" /\ Marks(work, t) /\ UNCHANGED <<flash, hdr, work>>
  BY DEF Append, AppendInPlace, AppendCollect, AppendFull, flashVars
<1>2. LInv /\ IInv /\ IInv' /\ Using /\ job = Nil
  BY <1>1, Sound DEF RInv, LInv, Using, Writing, Collecting
<1>3. work \in Sector /\ flash[work] \in Sectors
  BY <1>2, Sound, AtWork
<1>4. CASE AppendInPlace(t, v)
  <2>. DEFINE i == Tail(flash[work])
  <2>1. pc' = "wr_meta" /\ ret' = "none" /\ job' = [tag |-> t, val |-> v, at |-> i]
    BY <1>4 DEF AppendInPlace, Place
  <2>2. i \in 0..Capacity /\ \A u \in Tags : i \notin Live(flash[work], u)
    <3>1. i \notin Starts(flash[work]) /\ i \in 0..Capacity
      BY <1>3, ScanFacts
    <3>. QED BY <1>3, <3>1, LiveFacts
  <2>. HIDE DEF i
  <2>. QED BY <1>1, <2>1, <2>2, BeginStore
<1>5. CASE AppendCollect(t, v)
  <2>1. pc' = "gc_erase" /\ ret' = "none" /\ job' = [tag |-> t, val |-> v, at |-> Capacity]
    BY <1>5 DEF AppendCollect
  <2>2. Capacity \in 0..Capacity /\ \A u \in Tags : Capacity \notin Live(flash[work], u)
    <3>1. Capacity \notin Offset
      BY Positions
    <3>. QED BY <1>3, <3>1, LiveFacts, Positions
  <2>. QED BY <1>1, <2>1, <2>2, BeginStore
<1>6. CASE AppendFull(t, v)
  <2>1. ret' = "fail" /\ job' = Nil /\ pc' = "idle"
    BY <1>6 DEF AppendFull, Return
  <2>2. Using'
    BY <2>1 DEF Using
  <2>3. \A u \in Tags : Shows(u)' = Shows(u) /\ Old(u)' = Old(u)
    BY <1>1, <1>2, <2>1, <2>2, AtWork, AtWorkNext
  <2>4. StoreInv'
    BY <2>1 DEF StoreInv, Collecting, Writing
  <2>5. mark' = mark \/ mark' \in Address
    <3>1. \A i \in Offset : [sec |-> work, off |-> i] \in Address
      BY <1>3 DEF Address
    <3>. QED BY <1>1, <3>1 DEF Marks
  <2>6. Armed' \in {Armed, "stale"}
    <3>1. Gone \notin Address
      BY NilAssumption DEF Address, Offset, Sector
    <3>. QED BY <1>2, <2>1, <2>5, <3>1, Unmarked
  <2>. QED BY <1>1, <1>2, <2>1, <2>3, <2>4, <2>6, SameStore, SameVague, Unmarked, RejectAtOnceSeen
           DEF IsLost
<1>. QED BY <1>4, <1>5, <1>6 DEF Append
-----------------------------------------------------------------------------
(* The end of a collection *)

LEMMA CopyComplete ==
  ASSUME RInv, pc = "gc_copy", ~IsBlock(flash[work], gcRead), NEW t \in Tags
  PROVE  /\ Found(flash[Other(work)], t) = Found(flash[work], t)
         /\ Cardinality(Live(flash[Other(work)], t)) > 1 => Cardinality(Live(flash[work], t)) > 1
<1>. DEFINE b == flash[work]
            c == flash[Other(work)]
<1>1. IInv /\ LogInv /\ StoreInv
  BY DEF RInv, LInv
<1>2. b \in Sectors /\ c \in Sectors
  BY <1>1, InUse
<1>3. /\ CopyAt(b, c, gcRead, gcWrite) /\ Found(c, t) = Found(Cut(b, gcRead), t)
      /\ Cardinality(Verified(c, t)) = Cardinality(Verified(Cut(b, gcRead), t))
  BY <1>1 DEF LogInv, Copying, StoreInv, SameCounts
<1>. HIDE DEF b, c
<1>4. gcRead = Tail(b) /\ Dirty(c) = {}
  <2>1. gcRead \in Starts(b) \cup {Tail(b)} /\ Dirty(c) = {}
    BY <1>3 DEF CopyAt
  <2>. QED BY <1>2, <2>1, ScanFacts DEF b
<1>5. Found(c, t) = Found(b, t) /\ Cardinality(Verified(c, t)) = Cardinality(Verified(b, t))
  BY <1>2, <1>3, <1>4, WholeFound
<1>6. Live(c, t) = Verified(c, t)
  BY <1>2, <1>4, CleanLive
<1>7. Verified(b, t) \subseteq Live(b, t) /\ IsFiniteSet(Live(b, t))
  BY <1>2, LiveFacts
<1>8. Cardinality(Verified(b, t)) > 1 => Cardinality(Live(b, t)) > 1
  BY <1>7, FewerLive
<1>. QED BY <1>5, <1>6, <1>8 DEF b, c

LEMMA GcEndFacts ==
  ASSUME RInv, LInv', GcCommit, Using', NEW t \in Tags,
         job' # Nil => job'.at \notin Live(flash[Other(work)], t)
  PROVE  /\ Shows(t)' = Shows(t)
         /\ Old(t)' = Live(flash[Other(work)], t)
         /\ Cardinality(Old(t)') > 1 => Cardinality(Old(t)) > 1
<1>1. /\ pc = "gc_copy" /\ ~IsBlock(flash[work], gcRead)
      /\ work' = Other(work) /\ flash' = flash
  BY DEF GcCommit
<1>2. LInv /\ IInv /\ IInv' /\ Using /\ job.at = Capacity
  BY <1>1 DEF RInv, LInv, StoreInv, Using, Collecting
<1>3. flash[work] \in Sectors /\ Capacity \notin Offset
  BY <1>2, Sound, AtWork, Positions
<1>4. Old(t) = Live(flash[work], t)
  <2>1. Capacity \notin Live(flash[work], t)
    BY <1>3, LiveFacts
  <2>. QED BY <1>2, <2>1, AtWork
<1>5. Old(t)' = Live(flash[Other(work)], t)
  BY <1>1, <1>2, AtWorkNext
<1>6. Shows(t) = Found(flash[work], t) /\ Shows(t)' = Found(flash[Other(work)], t)
  BY <1>1, <1>2, AtWork, AtWorkNext
<1>. QED BY <1>1, <1>4, <1>5, <1>6, CopyComplete

LEMMA GcPlaceStore ==
  ASSUME RInv, LInv', GcPlace
  PROVE  StoreInv' /\ Kept
<1>. DEFINE c == flash[Other(work)]
            u == job.tag
            i == Tail(c)
<1>1. /\ pc = "gc_copy" /\ GcCommit /\ Marks(Other(work), u) /\ pc' = "wr_meta"
      /\ work' = Other(work) /\ flash' = flash /\ ret' = "none"
      /\ job' = [tag |-> u, val |-> job.val, at |-> i]
  BY DEF GcPlace, GcCommit, Place
<1>2. LInv /\ IInv /\ IInv' /\ StoreInv /\ Using /\ Using' /\ job # Nil /\ u \in Tags
  BY <1>1, Sound DEF RInv, LInv, Using, Collecting
<1>3. /\ Other(work) \in Sector /\ Other(work) # work /\ c \in Sectors
      /\ job' # Nil /\ job'.tag = u /\ job'.at = i /\ job'.val = job.val
  <2>1. Other(work) \in Sector /\ Other(work) # work /\ c \in Sectors /\ job.val \in Values
    BY <1>2, Sound
  <2>2. i \in 0..Capacity
    BY <2>1, ScanFacts
  <2>. QED BY <1>1, <1>2, <2>1, <2>2, JobType
<1>4. \A t \in Tags : i \notin Live(c, t)
  <2>1. i \notin Starts(c)
    BY <1>3, ScanFacts
  <2>. QED BY <1>3, <2>1, LiveFacts
<1>5. ASSUME NEW t \in Tags
      PROVE  /\ Shows(t)' = Shows(t) /\ Old(t)' = Live(c, t)
             /\ Cardinality(Old(t)') > 1 => Cardinality(Old(t)) > 1
  BY <1>1, <1>2, <1>3, <1>4, GcEndFacts
<1>6. ret = "none"
  BY <1>2 DEF StoreInv
<1>7. Req' = Req /\ Req # Nil /\ ~Req.done
  <2>1. Req' = Req
    BY <1>1, <1>2, <1>3 DEF Req
  <2>. QED BY <1>1, <1>2, <2>1, Requested
<1>. HIDE DEF c, u, i
<1>8. Live(c, u) # {} =>
        Armed' = "no" /\ mark' \in Address /\ mark'.sec = work' /\ IsLast(Live(c, u), mark'.off)
  BY <1>1, <1>2, <1>3, <1>4, MarkedOwn DEF c
<1>9. Armed' \in {Armed, "no"}
  <2>1. CASE Live(c, u) = {}
    <3>1. mark' = mark
      BY <1>1, <2>1 DEF Marks, IsLast, c
    <3>2. CASE OwnMark
      <4>1. mark.sec = work /\ mark \in Address /\ flash[mark.sec][mark.off].tag = job.tag
        BY <1>1, <3>2 DEF OwnMark
      <4>2. mark' # [sec |-> work', off |-> job'.at]
        BY <1>1, <1>3, <3>1, <4>1
      <4>3. OwnMark'
        BY <1>1, <1>3, <3>1, <4>1, <4>2 DEF OwnMark, u
      <4>. QED BY <3>1, <3>2, <4>3, ArmedIs
    <3>3. CASE ~OwnMark
      BY <3>1, <3>3, ArmedIs
    <3>. QED BY <3>2, <3>3
  <2>2. CASE Live(c, u) # {}
    BY <1>8, <2>2
  <2>. QED BY <2>1, <2>2
<1>10. StoreInv'
  <2>1. (Old(job.tag))' = Live(c, u)
    BY <1>2, <1>3, <1>5
  <2>2. MarksOld'
    BY <1>8, <2>1 DEF MarksOld
  <2>. QED BY <1>1, <2>2 DEF StoreInv, Collecting, Writing
<1>11. VagueTags' \subseteq VagueTags
  BY <1>5 DEF VagueTags, Vague
<1>. QED BY <1>1, <1>5, <1>6, <1>7, <1>9, <1>10, <1>11, SameStore, CollectSeen
         DEF IsLost

LEMMA GcFullStore ==
  ASSUME RInv, LInv', GcFull
  PROVE  StoreInv' /\ Kept
<1>1. pc = "gc_copy" /\ GcCommit /\ pc' = "idle" /\ job' = Nil /\ ret' = "fail" /\ mark' = mark
  BY DEF GcFull, GcCommit, Return
<1>2. LInv /\ Using' /\ job # Nil
  BY <1>1, Sound DEF RInv, Using, Collecting
<1>3. ASSUME NEW t \in Tags
      PROVE  Shows(t)' = Shows(t) /\ (Cardinality(Old(t)') > 1 => Cardinality(Old(t)) > 1)
  BY <1>1, <1>2, GcEndFacts
<1>4. VagueTags' \subseteq VagueTags
  BY <1>3 DEF VagueTags, Vague
<1>5. StoreInv'
  BY <1>1 DEF StoreInv, Collecting, Writing
<1>6. Armed' \in {Armed, "no", "stale"}
  BY <1>1, Unmarked, ArmedIs
<1>. QED BY <1>1, <1>2, <1>3, <1>4, <1>5, <1>6, Requested, SameStore, Unmarked, RejectSeen DEF IsLost
-----------------------------------------------------------------------------
(* A block is written. *)

(* Writing elsewhere than at mark_address, or over no meta field, leaves   *)
(* it what it was: a block.                                                *)
LEMMA SameMark ==
  ASSUME LInv, pc \in Writing, pc' \in Writing, UNCHANGED <<work, mark, job>>,
         \A s \in Sector : s # work => flash'[s] = flash[s],
         \A k \in Offset : k # job.at =>
           \/ flash'[work][k] = flash[work][k]
           \/ flash'[work][k].kind # "meta" /\ flash[work][k].kind # "meta"
  PROVE  Armed' = Armed
<1>1. mark \in Address => flash[mark.sec][mark.off].kind = "meta"
  BY DEF LInv, MarkInv, MarkIsBlock
<1>2. OwnMark' = OwnMark
  <2>1. CASE mark \notin Address \/ mark = [sec |-> work, off |-> job.at]
    BY <2>1 DEF OwnMark
  <2>2. CASE mark \in Address /\ mark # [sec |-> work, off |-> job.at]
    <3>1. mark.sec \in Sector /\ mark.off \in Offset /\ (mark.sec # work \/ mark.off # job.at)
      BY <2>2 DEF Address
    <3>2. flash'[mark.sec][mark.off] = flash[mark.sec][mark.off]
      BY <1>1, <2>2, <3>1
    <3>. QED BY <2>2, <3>2 DEF OwnMark, Writing
  <2>. QED BY <2>1, <2>2
<1>. QED BY <1>2, ArmedIs

(* The meta field is programmed: one more block, behind the others. *)
LEMMA WriteMetaFacts ==
  ASSUME RInv, LInv', WriteMeta
  PROVE  LET b == flash[work]
             c == flash'[work]
             e == job.at IN
         /\ b \in Sectors /\ c \in Sectors /\ Tiled(b) /\ e = Tail(b) /\ e < Capacity
         /\ e \in Offset
         /\ \A s \in Sector : s # work => flash'[s] = flash[s]
         /\ \A i \in Offset : i # e => c[i] = b[i]
         /\ Starts(c) = Starts(b) \cup {e}
         /\ GoodMeta(c, e) /\ c[e].kind = "meta" /\ c[e].tag = job.tag
         /\ c[e].len = Len[job.val] /\ c[e].status # "verify"
         /\ \A t \in Tags : Live(c, t) \ {e} = Live(b, t) \ {e} /\ Found(c, t) = Found(b, t)
         /\ \A t \in Tags : NoNews(b, c, t)
<1>. DEFINE b == flash[work]
            e == job.at
            n == Len[job.val]
            m == Meta(job.tag, n, "write")
            c == [b EXCEPT ![e] = Program(b[e], m)]
<1>1. /\ pc = "wr_meta" /\ pc' = "wr_data" /\ UNCHANGED <<work, mark, job, ret>>
  BY DEF WriteMeta
<1>2. /\ LInv /\ IInv /\ LogInv /\ StoreInv /\ Using /\ Using' /\ job # Nil
      /\ job \in Jobs /\ job.val \in Values /\ e \in Offset
  BY <1>1, Sound, InUse DEF RInv, LInv, Using, Writing
<1>3. /\ work \in Sector /\ b \in Sectors /\ Tiled(b) /\ flash \in [Sector -> Sectors]
      /\ e = Tail(b) /\ Fits(e, job.val) /\ n \in Nat
  BY <1>1, <1>2, Sound, AtWork, InUse, LenAssumption DEF LogInv
<1>4. flash' = [flash EXCEPT ![work] = c]
  BY <1>2, <1>3, InUse DEF WriteMeta
<1>5. b[e] = Blank
  <2>1. e >= Tail(b)
    BY <1>2, <1>3, Positions
  <2>2. b[e] \in Cell /\ b[e].kind \in Empty
    BY <1>2, <1>3, <2>1 DEF Tiled, Sectors
  <2>. QED BY <2>2, EmptyCell
<1>6. c[e] = Program(b[e], m) /\ \A i \in Offset : i # e => c[i] = b[i]
  BY <1>2, <1>3 DEF Sectors
<1>7. c[e].kind = "meta" /\ c[e].tag = job.tag /\ c[e].len = n /\ c[e].status # "verify"
  <2>1. m.kind = "meta" /\ m.tag = job.tag /\ m.len = n /\ m.status = "write"
    BY DEF Meta
  <2>2. c[e] = m
    BY <1>5, <1>6, <2>1 DEF Program
  <2>. QED BY <2>1, <2>2
<1>8. \A s \in Sector : flash'[s] = IF s = work THEN c ELSE flash[s]
  BY <1>3, <1>4
<1>9. c \in Sectors
  <2>1. flash' \in [Sector -> Sectors]
    BY DEF LInv, IInv, TypeOK, Sectors
  <2>. QED BY <1>3, <1>8, <2>1
<1>. HIDE DEF b, c, e, n, m
<1>10. Tail(b) < Capacity
  BY <1>2, <1>3, Positions
<1>11. Starts(c) = Starts(b) \cup {e}
  BY <1>3, <1>6, <1>7, <1>9, <1>10, LongerSector
<1>12. ASSUME NEW t \in Tags
       PROVE  /\ Live(c, t) \ {e} = Live(b, t) \ {e} /\ Found(c, t) = Found(b, t)
              /\ NoNews(b, c, t)
  <2>1. /\ Live(c, t) \ {e} = Live(b, t) /\ e \notin Live(b, t)
        /\ Found(c, t) = Found(b, t) /\ NoNews(b, c, t)
    BY <1>3, <1>6, <1>7, <1>9, <1>10, GrownFound
  <2>. QED BY <2>1
<1>13. GoodMeta(c, e)
  BY <1>2, <1>3, <1>7, Positions DEF GoodMeta, Fits, n
<1>14. flash'[work] = c /\ \A s \in Sector : s # work => flash'[s] = flash[s]
  BY <1>3, <1>8
<1>. QED BY <1>2, <1>3, <1>6, <1>7, <1>9, <1>10, <1>11, <1>12, <1>13, <1>14 DEF b, e, n

LEMMA WriteMetaStore ==
  ASSUME RInv, LInv', WriteMeta
  PROVE  StoreInv' /\ Kept
<1>. DEFINE b == flash[work]
            c == flash'[work]
            e == job.at
<1>1. /\ pc = "wr_meta" /\ pc' = "wr_data" /\ UNCHANGED <<work, mark, job, ret>>
  BY DEF WriteMeta
<1>2. LInv /\ StoreInv /\ Using /\ Using' /\ job # Nil
  BY <1>1, Sound DEF RInv, Using, Writing
<1>3. /\ \A s \in Sector : s # work => flash'[s] = flash[s]
      /\ \A i \in Offset : i # e => c[i] = b[i]
      /\ Starts(c) = Starts(b) \cup {e}
      /\ GoodMeta(c, e) /\ c[e].tag = job.tag
      /\ c[e].len = Len[job.val] /\ c[e].status # "verify"
      /\ \A t \in Tags : Live(c, t) \ {e} = Live(b, t) \ {e} /\ Found(c, t) = Found(b, t)
  BY WriteMetaFacts
<1>4. Armed' = Armed /\ ~IsLost /\ ~IsLost'
  BY <1>1, <1>2, <1>3, SameMark DEF Writing, IsLost
<1>5. Kept /\ \A t \in Tags : Old(t)' = Old(t)
  BY <1>1, <1>2, <1>3, <1>4, UnseenStep
<1>6. StoreInv'
  <2>1. flash'[work'] = c /\ job' = job
    BY <1>1
  <2>. HIDE DEF c
  <2>2. BlockWritten(flash[work])'
    BY <1>1, <1>3, <2>1 DEF BlockWritten, e
  <2>3. MarksOld'
    BY <1>1, <1>2, <1>5, Sound DEF StoreInv, MarksOld, Writing
  <2>. QED BY <1>1, <1>2, <2>2, <2>3 DEF StoreInv, Collecting
<1>. QED BY <1>5, <1>6

(* The data cells of the block are programmed, to the end or not. *)
LEMMA FilledBlock ==
  ASSUME RInv, pc = "wr_data", NEW v \in Values, Len[v] <= Len[job.val],
         NEW x \in Values \cup {Junk},
         flash' = [flash EXCEPT ![work] = Filled(@, DataCells(job.at, v), Data(x))]
  PROVE  LET b == flash[work]
             c == flash'[work] IN
         /\ \A s \in Sector : s # work => flash'[s] = flash[s]
         /\ Starts(c) = Starts(b) /\ job.at \in Starts(c) /\ c[job.at] = b[job.at]
         /\ \A i \in Offset : c[i] = b[i] \/ (c[i].kind # "meta" /\ b[i].kind # "meta")
         /\ \A t \in Tags : /\ Live(c, t) = Live(b, t) /\ Found(c, t) = Found(b, t)
                            /\ NoNews(b, c, t)
<1>. DEFINE b == flash[work]
            k == job.at
            c == Filled(b, DataCells(k, v), Data(x))
<1>1. LInv /\ IInv /\ StoreInv /\ Using
  BY DEF RInv, LInv, Using
<1>2. work \in Sector /\ b \in Sectors /\ Tiled(b) /\ flash \in [Sector -> Sectors]
  BY <1>1, Sound, AtWork, InUse
<1>3. /\ k \in Starts(b) /\ GoodMeta(b, k) /\ b[k].status # "verify" /\ b[k].len = Len[job.val]
  BY <1>1 DEF StoreInv, BlockWritten
<1>4. flash' = [flash EXCEPT ![work] = c]
  OBVIOUS
<1>. HIDE DEF b, k
<1>5. /\ c \in Sectors /\ Starts(c) = Starts(b)
      /\ \A i \in Starts(b) : c[i] = b[i]
      /\ \A i \in Offset : c[i].kind = "meta" \/ b[i].kind = "meta" => c[i] = b[i]
      /\ \A t \in Tags : /\ Live(c, t) = Live(b, t) /\ Verified(c, t) = Verified(b, t)
                         /\ Found(c, t) = Found(b, t) /\ NoNews(b, c, t)
  BY <1>2, <1>3, FilledFound
<1>. HIDE DEF c
<1>6. flash'[work] = c /\ \A s \in Sector : s # work => flash'[s] = flash[s]
  BY <1>2, <1>4
<1>. QED BY <1>3, <1>5, <1>6 DEF b, k

LEMMA WriteDataStore ==
  ASSUME RInv, LInv', WriteData
  PROVE  StoreInv' /\ Kept
<1>. DEFINE b == flash[work]
            c == flash'[work]
<1>1. /\ pc = "wr_data" /\ pc' = "check" /\ UNCHANGED <<work, mark, job, ret>>
  BY DEF WriteData
<1>2. /\ LInv /\ IInv /\ StoreInv /\ Using /\ Using' /\ job # Nil
      /\ job.val \in Values /\ Len[job.val] <= Len[job.val]
  BY <1>1, Sound, LenAssumption DEF RInv, LInv, Using, Writing
<1>3. PICK x \in Values \cup {Junk} :
        flash' = [flash EXCEPT ![work] = Filled(@, DataCells(job.at, job.val), Data(x))]
  BY <1>2 DEF WriteData
<1>4. /\ \A s \in Sector : s # work => flash'[s] = flash[s]
      /\ job.at \in Starts(c) /\ c[job.at] = b[job.at]
      /\ \A i \in Offset : c[i] = b[i] \/ (c[i].kind # "meta" /\ b[i].kind # "meta")
      /\ \A t \in Tags : Live(c, t) = Live(b, t) /\ Found(c, t) = Found(b, t)
  BY <1>1, <1>2, <1>3, FilledBlock
<1>5. Armed' = Armed /\ ~IsLost /\ ~IsLost'
  BY <1>1, <1>2, <1>4, SameMark DEF Writing, IsLost
<1>6. Kept /\ \A t \in Tags : Old(t)' = Old(t)
  BY <1>1, <1>2, <1>4, <1>5, UnseenStep
<1>7. StoreInv'
  <2>1. BlockWritten(b)
    BY <1>1, <1>2 DEF StoreInv
  <2>2. flash'[work'] = c /\ job' = job
    BY <1>1
  <2>. HIDE DEF b, c
  <2>3. BlockWritten(flash[work])'
    BY <1>1, <1>4, <2>1, <2>2 DEF BlockWritten, GoodMeta
  <2>4. MarksOld'
    BY <1>1, <1>2, <1>6, Sound DEF StoreInv, MarksOld, Writing
  <2>. QED BY <1>1, <1>2, <2>3, <2>4 DEF StoreInv, Collecting
<1>. QED BY <1>6, <1>7

(* The block the append has written, among the live ones of its tag *)
LEMMA BlockLive ==
  ASSUME RInv, pc \in {"wr_data", "check", "wr_delete"}
  PROVE  LET b == flash[work] IN
         /\ b \in Sectors /\ Tiled(b) /\ job.at \in Starts(b) /\ job.at \in Offset
         /\ GoodMeta(b, job.at) /\ Fits(job.at, job.val)
         /\ \A t \in Tags \ {job.tag} : Old(t) = Live(b, t) /\ job.at \notin Live(b, t)
         /\ Old(job.tag) = Live(b, job.tag) \ {job.at}
         /\ IsFiniteSet(Old(job.tag))
<1>. DEFINE b == flash[work]
<1>1. LInv /\ IInv /\ StoreInv /\ Using /\ job # Nil /\ job.tag \in Tags /\ job.val \in Values
  BY Sound DEF RInv, LInv, Using, Writing
<1>2. b \in Sectors /\ Tiled(b)
  BY <1>1, Sound, AtWork
<1>3. /\ job.at \in Starts(b) /\ GoodMeta(b, job.at)
      /\ b[job.at].tag = job.tag /\ b[job.at].len = Len[job.val]
  BY <1>1 DEF StoreInv, BlockWritten
<1>4. job.at \in Offset
  BY <1>2, <1>3, ScanFacts
<1>5. Fits(job.at, job.val)
  <2>1. Len[job.val] <= Capacity - job.at - 1 /\ Len[job.val] \in Nat
    BY <1>1, <1>3, LenAssumption DEF GoodMeta
  <2>. QED BY <1>4, <2>1, Positions DEF Fits
<1>6. \A t \in Tags : Old(t) = Live(b, t) \ {job.at}
  BY <1>1, AtWork
<1>7. \A t \in Tags \ {job.tag} : job.at \notin Live(b, t)
  BY <1>2, <1>3, LiveFacts
<1>8. IsFiniteSet(Old(job.tag))
  BY <1>1, <1>2, <1>6, LiveFacts, FS_Subset
<1>. QED BY <1>1, <1>2, <1>3, <1>4, <1>5, <1>6, <1>7, <1>8

LEMMA CheckFailsStore ==
  ASSUME RInv, LInv', CheckFails
  PROVE  StoreInv' /\ Kept
<1>1. /\ pc = "check" /\ pc' = "idle" /\ job' = Nil /\ ret' = "fail"
      /\ UNCHANGED <<flash, work, mark>>
  BY DEF CheckFails, Return, flashVars
<1>2. LInv /\ IInv /\ IInv' /\ Using /\ Using' /\ job # Nil
  BY <1>1, Sound DEF RInv, LInv, Using, Writing
<1>3. \A t \in Tags : Shows(t)' = Shows(t) /\ Old(t)' = Live(flash[work], t)
  BY <1>1, <1>2, AtWork, AtWorkNext
<1>4. \A t \in Tags \ {job.tag} : Old(t)' = Old(t)
  BY <1>1, <1>3, BlockLive
<1>5. VagueTags' \subseteq VagueTags \cup {job.tag}
  BY <1>4, LessVague
<1>6. StoreInv'
  BY <1>1 DEF StoreInv, Collecting, Writing
<1>7. Armed' \in {Armed, "no", "stale"}
  BY <1>1, Unmarked, ArmedIs
<1>. QED BY <1>1, <1>2, <1>3, <1>5, <1>6, <1>7, Requested, SameStore, Unmarked, RejectSeen DEF IsLost
(* The block is confirmed: it shows, or an older one before it does. *)
LEMMA ConfirmedBlock ==
  ASSUME RInv, pc = "check", ReadBackOk, Confirm
  PROVE  LET b == flash[work]
             c == flash'[work]
             k == job.at
             u == job.tag IN
         /\ \A s \in Sector : s # work => flash'[s] = flash[s]
         /\ \A i \in Offset : i # k => c[i] = b[i]
         /\ c \in Sectors /\ Starts(c) = Starts(b) /\ k \in Starts(c) /\ GoodMeta(c, k)
         /\ c[k].tag = u /\ c[k].len = Len[job.val] /\ c[k].status = "verify"
         /\ \A j \in DataCells(k, job.val) : c[j] = Data(job.val)
         /\ ValueAt(c, k) = job.val
         /\ \A t \in Tags : Live(c, t) = Live(b, t)
         /\ \A t \in Tags \ {u} : Found(c, t) = Found(b, t) /\ NoNews(b, c, t)
         /\ Verified(c, u) = Verified(b, u) \cup {k}
         /\ \A i \in Verified(c, u) : ValueAt(c, i) = ValueAt(b, i)
<1>. DEFINE b == flash[work]
            k == job.at
            u == job.tag
            n == Len[job.val]
            c == [b EXCEPT ![k] = Meta(u, n, "verify")]
<1>1. /\ LInv /\ IInv /\ Using /\ u \in Tags /\ job.val \in Values /\ n \in Nat
      /\ work \in Sector /\ flash \in [Sector -> Sectors]
  BY Sound, AtWork, InUse, LenAssumption DEF RInv, LInv, Using, Writing
<1>2. /\ b \in Sectors /\ Tiled(b) /\ k \in Starts(b) /\ k \in Offset /\ GoodMeta(b, k)
      /\ Fits(k, job.val)
  BY BlockLive
<1>3. b[k] = Meta(u, n, "write") /\ \A j \in DataCells(k, job.val) : b[j] = Data(job.val)
  BY DEF ReadBackOk
<1>4. flash' = [flash EXCEPT ![work] = c]
  BY <1>1, <1>2 DEF Confirm
<1>5. flash'[work] = c /\ \A s \in Sector : s # work => flash'[s] = flash[s]
  BY <1>1, <1>4
<1>. HIDE DEF b, k, u, n
<1>6. /\ Starts(c) = Starts(b) /\ c \in Sectors
      /\ c[k] = Meta(u, n, "verify")
      /\ \A i \in Offset : i # k => c[i] = b[i]
      /\ \A t \in Tags : Live(c, t) = Live(b, t)
      /\ \A t \in Tags : t # u => Found(c, t) = Found(b, t)
      /\ \A t \in Tags : Verified(c, t) = Verified(b, t) \cup (IF t = u THEN {k} ELSE {})
      /\ \A t \in Tags : \A i \in Verified(c, t) : ValueAt(c, i) = ValueAt(b, i)
  <2>1. /\ b \in Sectors /\ Tiled(b) /\ k \in Starts(b) /\ GoodMeta(b, k)
        /\ u \in Tags /\ n \in Nat /\ b[k] = Meta(u, n, "write")
    BY <1>1, <1>2, <1>3
  <2>2. Starts(c) = Starts(b)
    BY <2>1, ConfirmedFound
  <2>3. c \in Sectors
    BY <2>1, ConfirmedFound
  <2>4. c[k] = Meta(u, n, "verify")
    BY <1>2 DEF Sectors
  <2>5. \A i \in Offset : i # k => c[i] = b[i]
    BY <2>1, ConfirmedFound
  <2>6. \A t \in Tags : Live(c, t) = Live(b, t)
    BY <2>1, ConfirmedFound
  <2>7. \A t \in Tags : t # u => Found(c, t) = Found(b, t)
    BY <2>1, ConfirmedFound
  <2>8. \A t \in Tags : Verified(c, t) = Verified(b, t) \cup (IF t = u THEN {k} ELSE {})
    BY <2>1, ConfirmedFound
  <2>9. \A t \in Tags : \A i \in Verified(c, t) : ValueAt(c, i) = ValueAt(b, i)
    BY <2>1, ConfirmedFound
  <2>. QED BY <2>2, <2>3, <2>4, <2>5, <2>6, <2>7, <2>8, <2>9
<1>. HIDE DEF c
<1>7. c[k].kind = "meta" /\ c[k].tag = u /\ c[k].len = n /\ c[k].status = "verify"
  BY <1>6 DEF Meta
<1>8. GoodMeta(c, k)
  <2>1. b[k].len = n
    BY <1>3 DEF Meta
  <2>. QED BY <1>2, <1>7, <2>1 DEF GoodMeta
<1>9. \A j \in DataCells(k, job.val) : c[j] = Data(job.val)
  <2>1. \A j \in DataCells(k, job.val) : j \in Offset /\ j # k
    BY <1>2, Positions DEF DataCells
  <2>. QED BY <1>3, <1>6, <2>1
<1>10. ValueAt(c, k) = job.val
  BY <1>1, <1>2, <1>7, <1>9, ValueWritten DEF n
<1>11. /\ Verified(c, u) = Verified(b, u) \cup {k}
       /\ \A i \in Verified(c, u) : ValueAt(c, i) = ValueAt(b, i)
  BY <1>1, <1>6
<1>12. \A t \in Tags \ {u} : NoNews(b, c, t)
  <2>1. ASSUME NEW t \in Tags \ {u} PROVE Verified(c, t) = Verified(b, t)
    BY <1>6
  <2>. QED BY <1>6, <2>1 DEF NoNews
<1>. QED BY <1>2, <1>5, <1>6, <1>7, <1>8, <1>9, <1>10, <1>11, <1>12 DEF b, k, u, n

(* The one verified block of a tag is the one found. *)
LEMMA OnlyBlock ==
  ASSUME NEW c \in Sectors, NEW t \in Tags, NEW k, k \in Verified(c, t), Verified(c, t) \subseteq {k}
  PROVE  Found(c, t) = ValueAt(c, k)
<1>1. k \in Nat
  BY FoundFirst, Positions
<1>2. IsFirst(Verified(c, t), k)
  BY <1>1 DEF IsFirst
<1>. QED BY <1>2, FoundFirst

LEMMA ConfirmNewStore ==
  ASSUME RInv, LInv', ConfirmNew
  PROVE  StoreInv' /\ Kept
<1>. DEFINE b == flash[work]
            c == flash'[work]
            k == job.at
            u == job.tag
<1>1. /\ pc = "check" /\ pc' = "idle" /\ ReadBackOk /\ Confirm /\ mark = Nil
      /\ job' = Nil /\ ret' = "ok" /\ UNCHANGED <<work, mark>>
  BY DEF ConfirmNew, Return
<1>2. /\ LInv /\ IInv /\ IInv' /\ StoreInv /\ Using /\ Using' /\ job # Nil /\ u \in Tags
  BY <1>1, Sound DEF RInv, LInv, Using, Writing
<1>3. \A t \in Tags : /\ Shows(t) = Found(b, t) /\ Shows(t)' = Found(c, t)
                     /\ Old(t)' = Live(c, t)
  BY <1>1, <1>2, AtWork, AtWorkNext
<1>4. /\ c \in Sectors /\ ValueAt(c, k) = job.val
      /\ \A t \in Tags : Live(c, t) = Live(b, t)
      /\ \A t \in Tags \ {u} : Found(c, t) = Found(b, t)
      /\ Verified(c, u) = Verified(b, u) \cup {k}
  BY <1>1, ConfirmedBlock
<1>5. /\ \A t \in Tags \ {u} : Old(t) = Live(b, t)
      /\ Old(u) = Live(b, u) \ {k}
  BY <1>1, BlockLive
<1>6. Live(c, u) \subseteq {k}
  <2>1. Nil \notin Address
    BY NilAssumption DEF Address, Sector, Offset
  <2>. QED BY <2>1, <1>1, <1>2, <1>4, <1>5 DEF StoreInv, MarksOld, Writing
<1>. HIDE DEF b, c, k, u
<1>7. Found(c, u) = job.val
  <2>1. Verified(c, u) \subseteq {k} /\ k \in Verified(c, u)
    BY <1>2, <1>4, <1>6, LiveFacts
  <2>. QED BY <1>2, <1>4, <2>1, OnlyBlock
<1>8. ASSUME NEW t \in Tags PROVE Cardinality(Old(t)') > 1 => Cardinality(Old(t)) > 1
  <2>1. CASE t = u
    BY <1>2, <1>3, <1>6, <2>1, OneLive
  <2>2. CASE t # u
    BY <1>3, <1>4, <1>5, <2>2
  <2>. QED BY <2>1, <2>2
<1>9. VagueTags' \subseteq VagueTags
  BY <1>8 DEF VagueTags, Vague
<1>10. Armed = "no" /\ Armed' = "no"
  BY <1>1, ArmedIs, NilAssumption DEF Address, Sector, Offset
<1>11. Store'[u] = job.val /\ \A t \in Tags \ {u} : Store'[t] = Store[t]
  <2>1. \A t \in Tags : Shows(t)' = IF t = u THEN job.val ELSE Shows(t)
    BY <1>3, <1>4, <1>7
  <2>. QED BY <1>2, <2>1 DEF Store
<1>12. StoreInv'
  BY <1>1 DEF StoreInv, Collecting, Writing
<1>13. Req # Nil /\ Req.tag = u /\ Req.val = job.val /\ Req' = Nil
  BY <1>1, <1>2, Requested, Unmarked DEF u
<1>. QED BY <1>1, <1>9, <1>10, <1>11, <1>12, <1>13, AcceptSeen DEF IsLost

LEMMA ConfirmOverStore ==
  ASSUME RInv, LInv', ConfirmOver
  PROVE  StoreInv' /\ Kept
<1>. DEFINE b == flash[work]
            c == flash'[work]
            k == job.at
            u == job.tag
<1>1. /\ pc = "check" /\ pc' = "wr_delete" /\ ReadBackOk /\ Confirm
      /\ UNCHANGED <<work, mark, job, ret>>
  BY DEF ConfirmOver
<1>2. /\ LInv /\ IInv /\ IInv' /\ StoreInv /\ Using /\ Using' /\ job # Nil /\ u \in Tags
  BY <1>1, Sound DEF RInv, LInv, Using, Writing
<1>3. /\ \A s \in Sector : s # work => flash'[s] = flash[s]
      /\ \A i \in Offset : i # k => c[i] = b[i]
      /\ c \in Sectors /\ k \in Starts(c) /\ GoodMeta(c, k)
      /\ c[k].tag = u /\ c[k].len = Len[job.val] /\ c[k].status = "verify"
      /\ \A j \in DataCells(k, job.val) : c[j] = Data(job.val)
      /\ ValueAt(c, k) = job.val
      /\ \A t \in Tags : Live(c, t) = Live(b, t)
      /\ \A t \in Tags \ {u} : Found(c, t) = Found(b, t)
      /\ Verified(c, u) = Verified(b, u) \cup {k}
      /\ \A i \in Verified(c, u) : ValueAt(c, i) = ValueAt(b, i)
  BY <1>1, ConfirmedBlock
<1>4. \A t \in Tags : Old(t)' = Old(t)
  <2>1. \A t \in Tags : Old(t) = Live(b, t) \ {k}
    BY <1>2, AtWork
  <2>2. \A t \in Tags : Old(t)' = Live(c, t) \ {k}
    BY <1>1, <1>2, AtWorkNext
  <2>. QED BY <1>3, <2>1, <2>2
<1>5. \A t \in Tags : Shows(t) = Found(b, t) /\ Shows(t)' = Found(c, t)
  BY <1>1, <1>2, AtWork, AtWorkNext
<1>7. Armed' = Armed /\ ~IsLost /\ ~IsLost'
  BY <1>1, <1>2, <1>3, SameMark DEF Writing, IsLost
<1>8. VagueTags' = VagueTags
  BY <1>4, SameVague
<1>9. StoreInv'
  <2>1. flash'[work'] = c /\ job' = job /\ pc' = "wr_delete"
    BY <1>1
  <2>. HIDE DEF c
  <2>2. BlockWritten(flash[work])'
    BY <1>3, <2>1 DEF BlockWritten
  <2>3. MarksOld'
    BY <1>1, <1>2, <1>4, Sound DEF StoreInv, MarksOld, Writing
  <2>. QED BY <1>1, <1>2, <2>2, <2>3 DEF StoreInv, Collecting
<1>10. /\ Req # Nil /\ Req.tag = u /\ Req.val = job.val /\ ~Req.done
       /\ Req = [tag |-> u, val |-> job.val, done |-> FALSE]
  BY <1>1, <1>2, Requested DEF Req
<1>11. Req' = [tag |-> u, val |-> job.val, done |-> IsFirst(Verified(c, u), k)]
  <2>1. IsFirst(Verified(c, u), k) \in BOOLEAN
    BY Zenon DEF IsFirst
  <2>. QED BY <1>1, <1>2, <2>1 DEF Req
<1>. HIDE DEF b, c, k, u
<1>12. CASE IsFirst(Verified(c, u), k)
  <2>1. Found(c, u) = job.val
    BY <1>2, <1>3, <1>12, FoundFirst
  <2>2. \A t \in Tags : Shows(t)' = IF t = u THEN job.val ELSE Shows(t)
    BY <1>3, <1>5, <2>1
  <2>3. Store' = [Store EXCEPT ![u] = job.val]
    BY <2>2 DEF Store
  <2>4. Req' = [Req EXCEPT !.done = TRUE]
    <3>1. IsFirst(Verified(c, u), k) = TRUE
      BY <1>12 DEF IsFirst
    <3>2. [Req EXCEPT !.done = TRUE] = [tag |-> u, val |-> job.val, done |-> TRUE]
      BY <1>10, SetDone
    <3>3. Req' = [tag |-> u, val |-> job.val, done |-> TRUE]
      BY <1>11, <3>1
    <3>. QED BY <3>2, <3>3
  <2>. QED BY <1>1, <1>7, <1>8, <1>9, <1>10, <2>3, <2>4, CommitSeen
<1>13. CASE ~IsFirst(Verified(c, u), k)
  <2>1. Verified(c, u) \subseteq Nat /\ k \in Verified(c, u)
    BY <1>2, <1>3, FoundFirst, Positions
  <2>2. PICK i : IsFirst(Verified(c, u), i)
    BY <2>1, FirstOf
  <2>3. i \in Verified(b, u) /\ i \in Verified(c, u) /\ IsFirst(Verified(b, u), i)
    BY <1>3, <1>13, <2>2 DEF IsFirst
  <2>4. Found(c, u) = Found(b, u)
    <3>1. b \in Sectors
      BY <1>2, Sound, AtWork DEF b
    <3>2. Found(c, u) = ValueAt(c, i) /\ Found(b, u) = ValueAt(b, i)
      BY <1>2, <1>3, <2>2, <2>3, <3>1, FoundFirst
    <3>. QED BY <1>3, <2>3, <3>2
  <2>5. \A t \in Tags : Shows(t)' = Shows(t)
    BY <1>3, <1>5, <2>4
  <2>6. Req' = Req
    <3>1. IsFirst(Verified(c, u), k) = FALSE
      BY <1>13 DEF IsFirst
    <3>. QED BY <1>10, <1>11, <3>1
  <2>7. IsLost' = IsLost
    BY <1>1 DEF IsLost, Writing
  <2>. QED BY <1>1, <1>7, <1>8, <1>9, <2>5, <2>6, <2>7, SameStore, NothingSeen
<1>. QED BY <1>12, <1>13
-----------------------------------------------------------------------------
(* The old record is struck. *)

LEMMA StrikeFacts ==
  ASSUME RInv, LInv', StrikeMark
  PROVE  LET b == flash[work]
             c == flash'[work]
             k == job.at
             u == job.tag IN
         /\ pc = "wr_delete" /\ pc' = "idle" /\ job' = Nil /\ ret' = "ok"
         /\ Armed' = "no" /\ job # Nil /\ u \in Tags
         /\ work \in Sector /\ b \in Sectors /\ c \in Sectors /\ Tiled(b)
         /\ mark \in Address /\ mark.sec \in Sector /\ mark.off \in Offset
         /\ flash[mark.sec][mark.off].kind = "meta"
         /\ c = IF mark.sec = work THEN Struck(b, mark.off) ELSE b
         /\ k \in Verified(b, u) /\ k \in Live(b, u) /\ ValueAt(b, k) = job.val
         /\ Old(u) = Live(b, u) \ {k} /\ IsFiniteSet(Old(u))
         /\ \A t \in Tags \ {u} : Old(t) = Live(b, t)
         /\ \A t \in Tags : Shows(t) = Found(b, t) /\ Shows(t)' = Found(c, t)
         /\ \A t \in Tags : Old(t)' = Live(c, t)
         /\ Old(u) # {} => mark.sec = work /\ IsLast(Old(u), mark.off)
<1>. DEFINE b == flash[work]
            c == flash'[work]
            k == job.at
            u == job.tag
<1>1. /\ pc = "wr_delete" /\ pc' = "idle" /\ job' = Nil /\ ret' = "ok" /\ mark' = Nil
      /\ work' = work
      /\ flash' = [flash EXCEPT ![mark.sec][mark.off] = Strike(@)]
  BY DEF StrikeMark, Return
<1>2. /\ LInv /\ IInv /\ IInv' /\ StoreInv /\ Using /\ Using' /\ job # Nil /\ u \in Tags
      /\ job.val \in Values
  BY <1>1, Sound DEF RInv, LInv, Using, Writing
<1>3. /\ work \in Sector /\ b \in Sectors /\ Tiled(b) /\ flash \in [Sector -> Sectors]
      /\ mark \in Address /\ mark.sec \in Sector /\ mark.off \in Offset
         /\ flash[mark.sec][mark.off].kind = "meta"
  <2>1. mark \in Address \cup {Gone} /\ mark # Gone
    BY <1>1, <1>2, InUse DEF StrikeMark
  <2>2. mark \in Address /\ flash[mark.sec][mark.off].kind = "meta"
    BY <1>2, <2>1 DEF LInv, MarkInv, MarkIsBlock
  <2>. QED BY <1>1, <1>2, <2>2, Sound, AtWork, InUse DEF Address
<1>4. c = IF mark.sec = work THEN Struck(b, mark.off) ELSE b
  BY <1>1, <1>3 DEF Struck
<1>5. c \in Sectors
  <2>1. flash' \in [Sector -> Sectors]
    BY <1>2 DEF IInv, TypeOK, Sectors
  <2>. QED BY <1>3, <2>1
<1>6. Armed' = "no"
  BY <1>1, ArmedIs, NilAssumption DEF Address, Sector, Offset
<1>7. /\ k \in Starts(b) /\ GoodMeta(b, k) /\ k \in Offset /\ Fits(k, job.val)
      /\ \A t \in Tags \ {u} : Old(t) = Live(b, t)
      /\ Old(u) = Live(b, u) \ {k} /\ IsFiniteSet(Old(u))
  BY <1>1, BlockLive
<1>8. /\ b[k].tag = u /\ b[k].len = Len[job.val] /\ b[k].status = "verify"
      /\ \A j \in DataCells(k, job.val) : b[j] = Data(job.val)
  BY <1>1, <1>2 DEF StoreInv, BlockWritten
<1>9. k \in Live(b, u) /\ k \in Verified(b, u)
  BY <1>2, <1>3, <1>7, <1>8, LiveFacts
<1>10. ValueAt(b, k) = job.val
  BY <1>2, <1>7, <1>8, ValueWritten
<1>11. /\ \A t \in Tags : Shows(t) = Found(b, t) /\ Shows(t)' = Found(c, t)
       /\ \A t \in Tags : Old(t)' = Live(c, t)
  BY <1>1, <1>2, AtWork, AtWorkNext
<1>12. Old(u) # {} => mark.sec = work /\ IsLast(Old(u), mark.off)
  BY <1>1, <1>2 DEF StoreInv, MarksOld, Writing
<1>. QED BY <1>1, <1>2, <1>3, <1>4, <1>5, <1>6, <1>7, <1>9, <1>10, <1>11, <1>12

(* The address is that of an old block of the tag: after the strike the    *)
(* new value is found, or what was found before and is not the last of     *)
(* several old blocks.                                                     *)
LEMMA StruckOld ==
  ASSUME NEW b \in Sectors, Tiled(b), NEW u \in Tags, NEW k \in Verified(b, u),
         NEW m \in Offset, m # k, b[m].kind = "meta",
         Live(b, u) \ {k} # {} => IsLast(Live(b, u) \ {k}, m)
  PROVE  \/ Found(Struck(b, m), u) = ValueAt(b, k)
         \/ /\ Found(Struck(b, m), u) = Found(b, u)
            /\ Cardinality(Live(b, u) \ {k}) > 1
<1>. DEFINE c == Struck(b, m)
            S == Live(b, u) \ {k}
<1>1. m \in Starts(b)
  BY MetaStarts
<1>2. c \in Sectors
  BY StruckSector DEF Struck
<1>3. /\ Verified(c, u) = Verified(b, u) \ {m}
      /\ \A i \in Verified(b, u) : i # m => ValueAt(c, i) = ValueAt(b, i)
  BY <1>1, StruckLive, StruckMeta
<1>4. k \in Verified(c, u) /\ ValueAt(c, k) = ValueAt(b, k)
  BY <1>3
<1>5. /\ Verified(b, u) \subseteq Live(b, u) /\ Live(b, u) \subseteq Nat
      /\ IsFiniteSet(Live(b, u)) /\ m \in Nat
  BY LiveFacts, Positions
<1>. HIDE DEF c
<1>6. PICK f : IsFirst(Verified(b, u), f)
  BY <1>5, FirstOf
<1>7. f \in Verified(b, u) /\ \A j \in Verified(b, u) : f <= j
  BY <1>6 DEF IsFirst
<1>8. CASE f = k
  <2>1. IsFirst(Verified(c, u), k)
    BY <1>3, <1>4, <1>7, <1>8 DEF IsFirst
  <2>2. Found(c, u) = ValueAt(c, k)
    BY <1>2, <2>1, FoundFirst
  <2>. QED BY <1>4, <2>2 DEF c
<1>9. CASE f # k /\ f # m
  <2>1. f \in S /\ m \in S
    BY <1>5, <1>7, <1>9 DEF IsLast
  <2>2. IsFiniteSet(S)
    BY <1>5, FS_Subset
  <2>3. Cardinality(S) > 1
    <3>. HIDE DEF S
    <3>. QED BY <1>9, <2>1, <2>2, TwoLive
  <2>4. IsFirst(Verified(c, u), f)
    BY <1>3, <1>7, <1>9 DEF IsFirst
  <2>5. Found(c, u) = ValueAt(c, f) /\ Found(b, u) = ValueAt(b, f)
    BY <1>2, <1>6, <2>4, FoundFirst
  <2>6. Found(c, u) = Found(b, u)
    BY <1>3, <1>7, <1>9, <2>5
  <2>. QED BY <2>3, <2>6 DEF c
<1>10. CASE f # k /\ f = m
  <2>1. ASSUME NEW j \in Verified(c, u), j # k PROVE FALSE
    <3>1. j \in Verified(b, u) /\ j \in S /\ j # m /\ j \in Nat
      BY <1>3, <1>5, <2>1
    <3>2. j <= m
      BY <3>1 DEF IsLast
    <3>3. m <= j
      BY <1>7, <1>10, <3>1
    <3>. QED BY <1>5, <3>1, <3>2, <3>3
  <2>2. Found(c, u) = ValueAt(c, k)
    BY <1>2, <1>4, <2>1, OnlyBlock
  <2>. QED BY <1>4, <2>2 DEF c
<1>. QED BY <1>8, <1>9, <1>10

LEMMA StrikeMarkStore ==
  ASSUME RInv, LInv', StrikeMark
  PROVE  StoreInv' /\ Kept
<1>. DEFINE b == flash[work]
            c == flash'[work]
            k == job.at
            u == job.tag
            m == mark.off
<1>1. /\ pc = "wr_delete" /\ pc' = "idle" /\ job' = Nil /\ ret' = "ok"
      /\ Armed' = "no" /\ job # Nil /\ u \in Tags
      /\ work \in Sector /\ b \in Sectors /\ c \in Sectors /\ Tiled(b)
      /\ mark \in Address /\ mark.sec \in Sector /\ m \in Offset
      /\ flash[mark.sec][m].kind = "meta"
      /\ c = IF mark.sec = work THEN Struck(b, m) ELSE b
      /\ k \in Verified(b, u) /\ k \in Live(b, u) /\ ValueAt(b, k) = job.val
      /\ Old(u) = Live(b, u) \ {k} /\ IsFiniteSet(Old(u))
      /\ \A t \in Tags \ {u} : Old(t) = Live(b, t)
      /\ \A t \in Tags : Shows(t) = Found(b, t) /\ Shows(t)' = Found(c, t)
      /\ \A t \in Tags : Old(t)' = Live(c, t)
      /\ Old(u) # {} => mark.sec = work /\ IsLast(Old(u), m)
  BY StrikeFacts
<1>2. StoreInv'
  BY <1>1 DEF StoreInv, Collecting, Writing
<1>3. Req # Nil /\ Req.tag = u /\ Req.val = job.val /\ Req' = Nil
  BY <1>1, Requested, Unmarked DEF RInv
<1>4. OwnMark => m # k \/ mark.sec # work
  BY <1>1 DEF OwnMark, LInv, RInv, IInv, TypeOK, Address
<1>5. mark.sec = work => (OwnMark <=> m # k /\ b[m].tag = u)
  <2>1. ASSUME mark.sec = work, m # k PROVE mark # [sec |-> work, off |-> job.at]
    BY <2>1
  <2>. QED BY <1>1, <1>4, <2>1 DEF OwnMark
<1>6. mark.sec = work => c = Struck(b, m) /\ b[m].kind = "meta"
  BY <1>1
<1>61. Armed # "wild" /\ Armed = (IF OwnMark THEN "no" ELSE "stale") /\ ~IsLost /\ ~IsLost'
  BY <1>1, ArmedIs, NilAssumption DEF IsLost, Address, Sector, Offset
<1>. HIDE DEF b, c, k, u, m
<1>7. \A t \in Tags : Live(c, t) \subseteq Live(b, t)
  BY <1>1, <1>6, StruckLive
<1>8. ASSUME NEW t \in Tags PROVE Cardinality(Live(c, t)) > 1 => Cardinality(Old(t)) > 1
  <2>1. CASE t # u
    <3>1. IsFiniteSet(Live(b, t))
      BY <1>1, LiveFacts
    <3>. QED BY <1>1, <1>7, <2>1, <3>1, FewerLive
  <2>2. CASE t = u /\ Old(u) = {}
    <3>1. Live(c, t) \subseteq {k}
      BY <1>1, <1>7, <2>2
    <3>. QED BY <3>1, OneLive
  <2>3. CASE t = u /\ Old(u) # {} /\ ~(Cardinality(Old(u)) > 1)
    <3>1. m \in Old(u) /\ c = Struck(b, m) /\ b[m].kind = "meta"
      BY <1>1, <1>6, <2>3 DEF IsLast
    <3>2. Old(u) \subseteq {m}
      BY <1>1, <2>3, <3>1, TwoLive
    <3>3. Live(c, u) \subseteq {k}
      BY <1>1, <3>1, <3>2, StruckLive
    <3>. QED BY <2>3, <3>3, OneLive
  <2>. QED BY <2>1, <2>2, <2>3
<1>9. VagueTags' \subseteq VagueTags
  BY <1>1, <1>8 DEF VagueTags, Vague
<1>10. CASE mark.sec # work
  <2>1. c = b /\ Live(b, u) \subseteq {k}
    BY <1>1, <1>10
  <2>2. Verified(b, u) \subseteq {k}
    BY <1>1, <2>1, LiveFacts
  <2>3. Found(c, u) = job.val
    BY <1>1, <2>1, <2>2, OnlyBlock
  <2>4. \A t \in Tags : Store'[t] = IF t = u THEN job.val ELSE Store[t]
    BY <1>1, <2>1, <2>3 DEF Store
  <2>5. \A t \in Tags \ {u} : Store'[t] = Store[t] /\ Store'[t] \in {Store[t], NoValue}
    BY <2>4
  <2>6. Store'[u] = job.val
    BY <1>1, <2>4
  <2>. QED BY <1>1, <1>2, <1>3, <1>9, <1>61, <2>5, <2>6, AcceptSeen
<1>11. CASE mark.sec = work /\ ~OwnMark
  <2>. DEFINE x == b[m].tag
  <2>1. x \in Tags
    <3>1. b[m] \in Cell /\ b[m].kind = "meta"
      BY <1>1, <1>6, <1>11 DEF Sectors
    <3>. QED BY <3>1 DEF Cell
  <2>2. /\ \A t \in Tags \ {x} : Found(c, t) = Found(b, t)
        /\ Cardinality(Live(b, x)) > 1 \/ Found(c, x) \in {Found(b, x), NoValue}
    BY <1>1, <1>6, <1>11, <2>1, StruckFound
  <2>. HIDE DEF x
  <2>3. \A t \in Tags : Store'[t] = Found(c, t) /\ Store[t] = Found(b, t)
    BY <1>1 DEF Store
  <2>4. \A t \in Tags \ {x, u} : Store'[t] = Store[t]
    BY <2>2, <2>3
  <2>5. x \in VagueTags \cup {u} \/ Store'[x] \in {Store[x], NoValue}
    BY <1>1, <2>1, <2>2, <2>3 DEF VagueTags, Vague
  <2>6. Armed = "stale"
    BY <1>61, <1>11
  <2>. QED BY <1>1, <1>2, <1>3, <1>9, <1>61, <2>1, <2>4, <2>5, <2>6, AcceptSeen
<1>12. CASE mark.sec = work /\ OwnMark
  <2>1. m # k /\ b[m].kind = "meta" /\ b[m].tag = u /\ c = Struck(b, m) /\ Armed = "no"
    BY <1>5, <1>6, <1>61, <1>12
  <2>2. m \in Starts(b)
    BY <1>1, <2>1, MetaStarts
  <2>3. ASSUME NEW t \in Tags \ {u} PROVE Found(c, t) = Found(b, t)
    <3>1. m \notin Live(b, t)
      BY <1>1, <2>1, LiveFacts
    <3>. QED BY <1>1, <2>1, <2>2, <3>1, StruckMeta
  <2>4. Found(c, u) = job.val \/ (Found(c, u) = Found(b, u) /\ Cardinality(Old(u)) > 1)
    BY <1>1, <2>1, StruckOld
  <2>5. \A t \in Tags \ {u} : Store'[t] = Store[t]
    BY <1>1, <2>3 DEF Store
  <2>6. Store'[u] = job.val \/ (u \in VagueTags /\ Store'[u] = Store[u])
    <3>1. \A t \in Tags : Store'[t] = Found(c, t) /\ Store[t] = Found(b, t)
      BY <1>1 DEF Store
    <3>. QED BY <1>1, <2>4, <3>1 DEF VagueTags, Vague
  <2>. QED BY <1>1, <1>2, <1>3, <1>9, <1>61, <2>1, <2>5, <2>6, AcceptSeen
<1>. QED BY <1>10, <1>11, <1>12
(* A strike in an erased sector is the end of all promises. *)
LEMMA StrikeGoneStore ==
  ASSUME RInv, LInv', StrikeGone
  PROVE  StoreInv' /\ Kept
<1>1. pc = "wr_delete" /\ pc' = "lost" /\ job' = Nil /\ mark = Gone
  BY DEF StrikeGone
<1>2. StoreInv'
  BY <1>1 DEF StoreInv, Collecting, Writing
<1>3. Req # Nil
  BY <1>1, Sound, Requested DEF RInv, Writing
<1>4. Armed = "wild" /\ IsLost'
  BY <1>1, ArmedIs DEF IsLost
<1>. QED BY <1>2, <1>3, <1>4, AcceptWildSeen
-----------------------------------------------------------------------------
(* Power losses *)

(* The live blocks of a tag that is not being written *)
LEMMA OthersOld ==
  ASSUME RInv, Using, NEW t \in Tags, job # Nil => t # job.tag
  PROVE  Old(t) = Live(flash[work], t)
<1>. DEFINE b == flash[work]
<1>1. LInv /\ IInv /\ LogInv /\ StoreInv
  BY DEF RInv, LInv
<1>2. b \in Sectors /\ Old(t) = {i \in Live(b, t) : ~(job # Nil /\ job.at = i)}
  BY <1>1, AtWork, InUse DEF Using
<1>3. job = Nil \/ pc \in Collecting \/ pc = "wr_meta" \/ pc \in {"wr_data", "check", "wr_delete"}
  BY <1>1, Sound DEF Writing
<1>4. CASE job = Nil
  BY <1>2, <1>4
<1>5. CASE job # Nil /\ pc \in Collecting
  <2>1. job.at = Capacity /\ Capacity \notin Offset
    BY <1>1, <1>5, Positions DEF StoreInv
  <2>2. Live(b, t) \subseteq Offset
    BY <1>2, LiveFacts
  <2>. QED BY <1>2, <2>1, <2>2
<1>6. CASE job # Nil /\ pc = "wr_meta"
  <2>1. job.at = Tail(b) /\ job.at \notin Starts(b)
    BY <1>1, <1>2, <1>6, ScanFacts DEF LogInv
  <2>2. Live(b, t) \subseteq Starts(b)
    BY <1>2, LiveFacts
  <2>. QED BY <1>2, <2>1, <2>2
<1>7. CASE job # Nil /\ pc \in {"wr_data", "check", "wr_delete"}
  BY <1>7, BlockLive
<1>. QED BY <1>3, <1>4, <1>5, <1>6, <1>7

(* What is found after the reboot, of what was written when power was lost *)
LossUnseen ==
  \A t \in Tags :
    /\ Shows(t)' = Shows(t)
    /\ (job # Nil => t # job.tag) => (Cardinality(Old(t)') > 1 => Cardinality(Old(t)) > 1)

LEMMA LostInUse ==
  ASSUME RInv, LInv', Using, ~Using', NEW s \in Sector, FindValid(hdr') = s,
         \A t \in Tags : /\ Found(flash'[s], t) = Found(flash[work], t)
                         /\ Cardinality(Live(flash'[s], t)) > 1 =>
                              Cardinality(Live(flash[work], t)) > 1
  PROVE  LossUnseen
<1>1. IInv /\ IInv' /\ s # Nil
  BY NilAssumption DEF RInv, LInv, Sector
<1>2. \A t \in Tags : Shows(t) = Found(flash[work], t)
  BY <1>1, AtWork
<1>3. \A t \in Tags : Shows(t)' = Found(flash'[s], t) /\ Old(t)' = Live(flash'[s], t)
  BY <1>1, AtRestNext
<1>4. \A t \in Tags : (job # Nil => t # job.tag) => Old(t) = Live(flash[work], t)
  BY OthersOld
<1>. QED BY <1>2, <1>3, <1>4 DEF LossUnseen

LEMMA LostTornMeta ==
  ASSUME RInv, LInv', TornMeta, ~Using'
  PROVE  LossUnseen
<1>. DEFINE b == flash[work]
            c == flash'[work]
<1>1. /\ pc = "wr_meta" /\ hdr' = hdr
      /\ flash' = [flash EXCEPT ![work][job.at] = Bad]
  BY DEF TornMeta
<1>2. LInv /\ IInv /\ IInv' /\ LogInv /\ Using
  BY <1>1 DEF RInv, LInv, Using
<1>3. /\ work \in Sector /\ work # Nil /\ job.at \in Offset /\ b \in Sectors /\ c \in Sectors
      /\ flash \in [Sector -> Sectors] /\ Tiled(b) /\ job.at = Tail(b)
  <2>1. c \in Sectors
    BY <1>2, AtWork DEF IInv, TypeOK, Sectors
  <2>. QED BY <1>1, <1>2, <2>1, AtWork, InUse, Sound, NilAssumption DEF Writing, LogInv, Sector
<1>4. c[job.at] = Bad /\ \A i \in Offset : i # job.at => c[i] = b[i]
  BY <1>1, <1>3 DEF Sectors
<1>5. FindValid(hdr') = work
  BY <1>1, <1>2, <1>3 DEF IInv, HeaderInv, BootFindsWork
<1>. HIDE DEF b, c
<1>6. c[Tail(b)].kind = "bad" /\ Tail(b) < Capacity
  BY <1>3, <1>4, Positions DEF Bad
<1>7. \A t \in Tags : Live(c, t) = Live(b, t) /\ Found(c, t) = Found(b, t)
  BY <1>3, <1>4, <1>6, GrownFound
<1>. QED BY <1>2, <1>3, <1>5, <1>7, LostInUse DEF b, c

LEMMA LostTornData ==
  ASSUME RInv, LInv', TornData, ~Using'
  PROVE  LossUnseen
<1>1. pc = "wr_data" /\ hdr' = hdr
  BY DEF TornData
<1>2. PICK v \in Values :
        /\ Len[v] <= Len[job.val]
        /\ flash' = [flash EXCEPT ![work] = Filled(@, DataCells(job.at, v), Data(Junk))]
  BY DEF TornData
<1>3. LInv /\ IInv /\ IInv' /\ Using
  BY <1>1 DEF RInv, LInv, Using
<1>4. work \in Sector /\ work # Nil
  BY <1>3, AtWork, NilAssumption DEF Sector
<1>5. FindValid(hdr') = work
  BY <1>1, <1>3, <1>4 DEF IInv, HeaderInv, BootFindsWork
<1>6. Junk \in Values \cup {Junk}
  OBVIOUS
<1>7. \A t \in Tags : /\ Live(flash'[work], t) = Live(flash[work], t)
                      /\ Found(flash'[work], t) = Found(flash[work], t)
  BY <1>1, <1>2, <1>6, FilledBlock
<1>. QED BY <1>3, <1>4, <1>5, <1>7, LostInUse

(* The header of the copy is cut short: it may be the one that is found,   *)
(* and it holds what the old sector does.                                  *)
LEMMA LostAtSwitch ==
  ASSUME RInv, LInv', pc = "gc_copy", ~IsBlock(flash[work], gcRead),
         TornHeader(Other(work), NextVersion(hdr[work].version)), ~Using'
  PROVE  LossUnseen
<1>1. LInv /\ IInv /\ IInv' /\ Using
  BY DEF RInv, LInv, Using
<1>2. work \in Sector /\ Other(work) \in Sector /\ hdr' \in [Sector -> Header] /\ flash' = flash
  BY <1>1, AtWork, Sound DEF IInv, TypeOK, TornHeader
<1>3. hdr'[Other(work)].valid
  BY <1>1, <1>2 DEF TornHeader, IInv, TypeOK
<1>4. PICK s \in Sector : FindValid(hdr') = s
  BY <1>2, <1>3, FindValidIsValid
<1>5. s = work \/ s = Other(work)
  BY <1>1, <1>2, Sound DEF Sector
<1>6. CASE s = work
  BY <1>1, <1>2, <1>4, <1>6, LostInUse
<1>7. CASE s = Other(work)
  <2>1. \A t \in Tags :
          /\ Found(flash[Other(work)], t) = Found(flash[work], t)
          /\ Cardinality(Live(flash[Other(work)], t)) > 1 =>
               Cardinality(Live(flash[work], t)) > 1
    BY CopyComplete
  <2>. QED BY <1>1, <1>2, <1>4, <1>7, <2>1, LostInUse
<1>. QED BY <1>5, <1>6, <1>7

LEMMA LostInFormat ==
  ASSUME RInv, LInv', pc = "format", UNCHANGED flash, ~Using'
  PROVE  LossUnseen
<1>1. IInv /\ IInv' /\ ~Using /\ StoreInv
  BY DEF RInv, LInv, Using
<1>2. \A s \in Sector : flash[s] = Erased /\ flash'[s] = Erased
  BY <1>1 DEF StoreInv
<1>3. \A t \in Tags : Shows(t) = NoValue
  BY <1>1, <1>2, AtRest, NothingFound
<1>4. \A t \in Tags : Shows(t)' = NoValue /\ Old(t)' = {}
  BY <1>1, <1>2, AtRestNext, NothingFound
<1>5. ~(Cardinality({}) > 1)
  BY FS_EmptySet
<1>. QED BY <1>3, <1>4, <1>5 DEF LossUnseen

LEMMA LostBetween ==
  ASSUME RInv, LInv', pc # "boot", UNCHANGED flashVars, ~Using'
  PROVE  LossUnseen
<1>1. LInv /\ IInv /\ flash' = flash /\ hdr' = hdr
  BY DEF RInv, LInv, flashVars
<1>2. CASE pc = "format"
  BY <1>1, <1>2, LostInFormat
<1>3. CASE pc # "format"
  <2>1. Using
    BY <1>3 DEF Using
  <2>2. work \in Sector /\ work # Nil
    BY <1>1, <2>1, AtWork, NilAssumption DEF Sector
  <2>3. FindValid(hdr') = work
    BY <1>1, <2>2 DEF IInv, HeaderInv, BootFindsWork
  <2>. QED BY <1>1, <2>1, <2>2, <2>3, LostInUse
<1>. QED BY <1>2, <1>3

LEMMA PowerLossStore ==
  ASSUME RInv, LInv', PowerLoss
  PROVE  StoreInv' /\ Kept
<1>1. /\ pc # "boot" /\ pc # "lost" /\ pc' = "boot" /\ job' = Nil /\ mark' = Nil /\ ret' = "none" /\ ~Using'
      /\ Interrupted /\ LInv
  BY DEF PowerLoss, Using, RInv
<1>2. StoreInv'
  BY <1>1 DEF StoreInv, Collecting, Writing
<1>3. LossUnseen
  <2>1. CASE UNCHANGED flashVars
    BY <1>1, <2>1, LostBetween
  <2>2. CASE TornMeta
    BY <1>1, <2>2, LostTornMeta
  <2>3. CASE TornData
    BY <1>1, <2>3, LostTornData
  <2>4. CASE pc = "format" /\ TornHeader("major", 0)
    BY <1>1, <2>4, LostInFormat DEF TornHeader
  <2>5. CASE /\ pc = "gc_copy"
             /\ ~IsBlock(flash[work], gcRead)
             /\ TornHeader(Other(work), NextVersion(hdr[work].version))
    BY <1>1, <2>5, LostAtSwitch
  <2>. QED BY <1>1, <2>1, <2>2, <2>3, <2>4, <2>5 DEF Interrupted
<1>4. Store' = Store
  BY <1>3, SameStore DEF LossUnseen
<1>5. \A t \in VagueTags' \ VagueTags : Req # Nil /\ t = Req.tag
  <2>1. \A t \in VagueTags' \ VagueTags : job # Nil /\ t = job.tag
    BY <1>3 DEF LossUnseen, VagueTags, Vague
  <2>2. job # Nil => Req # Nil /\ Req.tag = job.tag
    BY <1>1, Requested
  <2>. QED BY <2>1, <2>2
<1>6. Armed' = "no" /\ ~IsLost /\ ~IsLost'
  BY <1>1, ArmedIs, NilAssumption DEF IsLost, Address, Sector, Offset
<1>. QED BY <1>1, <1>2, <1>4, <1>5, <1>6, Unmarked, PowerLossSeen
-----------------------------------------------------------------------------
(* All steps *)

LEMMA StoreNext ==
  ASSUME RInv, LInv', [Next]_vars
  PROVE  StoreInv' /\ Kept
<1>0. StoreInv
  BY DEF RInv
<1>1. CASE UNCHANGED vars
  BY <1>0, <1>1, QuietStore DEF vars
<1>2. CASE Mount
  BY <1>2, MountStore
<1>3. ASSUME NEW t \in Tags, Query(t) PROVE StoreInv' /\ Kept
  BY <1>0, <1>3, QuietStore DEF Query, flashVars, gcVars
<1>4. ASSUME NEW t \in Tags, Delete(t) PROVE StoreInv' /\ Kept
  BY <1>4, DeleteStore
<1>5. ASSUME NEW t \in Tags, NEW v \in Values, Append(t, v) PROVE StoreInv' /\ Kept
  BY <1>5, AppendStore
<1>6. CASE Proceed
  <2>1. CASE FormatErase \/ FormatHeader
    BY <2>1, FormatStore
  <2>2. CASE GcErase \/ GcCopy \/ GcSkip
    BY <2>2, GcEraseStore, GcCopyStore, GcSkipStore
  <2>3. CASE GcPlace \/ GcFull
    BY <2>3, GcPlaceStore, GcFullStore
  <2>4. CASE WriteMeta \/ WriteData
    BY <2>4, WriteMetaStore, WriteDataStore
  <2>5. CASE CheckFails \/ ConfirmNew \/ ConfirmOver \/ StrikeMark \/ StrikeGone
    BY <2>5, CheckFailsStore, ConfirmNewStore, ConfirmOverStore, StrikeMarkStore, StrikeGoneStore
  <2>. QED BY <1>6, <2>1, <2>2, <2>3, <2>4, <2>5 DEF Proceed
<1>7. CASE PowerLoss
  BY <1>7, PowerLossStore
<1>8. CASE Lost
  BY <1>0, <1>8, QuietStore DEF Lost, vars
<1>. QED BY <1>1, <1>2, <1>3, <1>4, <1>5, <1>6, <1>7, <1>8 DEF Next

-----------------------------------------------------------------------------
(* The inductive invariant of the refinement holds in every behaviour. *)
THEOREM StoreInvariance == Spec => []RInv
<1>1. Init => StoreInv
  BY StoreInitially
<1>2. RInv /\ LInv' /\ [Next]_vars => StoreInv'
  BY StoreNext
<1>3. LInv /\ StoreInv <=> RInv
  BY DEF RInv
<1>. QED BY <1>1, <1>2, <1>3, LogInvariance, PTL DEF Spec

(* Whatever the records, the sector size and the version range, and        *)
(* wherever power is lost: an append shows at once or not at all, a        *)
(* rejected one and a collection change nothing that is found, and a       *)
(* record is lost or comes back only where TagStore says so, for a tag     *)
(* with two live blocks or a stale mark_address.                           *)
THEOREM StoreRefinement == Spec => ImplementsTagStore
<1>1. Init => Promise!SInit
  BY StoreInitially
<1>2. RInv /\ RInv' /\ [Next]_vars => [Promise!SNext]_(Promise!svars)
  BY StoreNext DEF RInv, Kept
<1>. QED BY <1>1, <1>2, StoreInvariance, PTL DEF Spec, ImplementsTagStore, Promise!SSpec
-----------------------------------------------------------------------------
(* The cache: what is read at the address of an entry *)

Read(b, i, t) == IF GoodMeta(b, i) /\ b[i].tag = t THEN ValueAt(b, i) ELSE Junk

LEMMA ReadStruck ==
  ASSUME NEW b \in Sectors, Tiled(b), NEW m \in Offset, b[m].kind = "meta",
         NEW i \in Offset, NEW t \in Tags, b[m].tag # t
  PROVE  Read(Struck(b, m), i, t) = Read(b, i, t)
<1>. DEFINE c == Struck(b, m)
<1>1. \A j \in Offset : j # m => c[j] = b[j]
  BY DEF Struck, Sectors
<1>2. c[m].tag = b[m].tag
  <2>1. c[m] = [b[m] EXCEPT !.status = "delete"]
    BY DEF Struck, Sectors, Strike
  <2>. QED BY <2>1
<1>. HIDE DEF c
<1>3. CASE i = m
  BY <1>2, <1>3 DEF Read, c
<1>4. CASE i # m /\ GoodMeta(b, i)
  <2>1. i \in Starts(b) /\ m \in Starts(b)
    BY <1>4, MetaStarts DEF GoodMeta
  <2>2. \A j \in Offset : i < j /\ j <= i + b[i].len => j # m
    BY <1>4, <2>1, OwnCells
  <2>3. ValueAt(c, i) = ValueAt(b, i)
    BY <1>1, <1>4, <2>1, <2>2, Outside
  <2>. QED BY <1>1, <1>4, <2>3 DEF Read, GoodMeta, c
<1>5. CASE i # m /\ ~GoodMeta(b, i)
  BY <1>1, <1>5 DEF Read, GoodMeta, c
<1>. QED BY <1>3, <1>4, <1>5

(* A cell behind the last block is not the beginning of one. *)
LEMMA ReadGrown ==
  ASSUME NEW b \in Sectors, Tiled(b), NEW c \in Sectors, Tail(b) < Capacity,
         \A i \in Offset : i # Tail(b) => c[i] = b[i],
         NEW i \in Offset, NEW t \in Tags, Read(b, i, t) # Junk
  PROVE  Read(c, i, t) = Read(b, i, t)
<1>1. GoodMeta(b, i) /\ i \in Starts(b)
  BY MetaStarts DEF Read, GoodMeta
<1>2. i # Tail(b) /\ \A j \in Offset : i < j /\ j <= i + b[i].len => j # Tail(b)
  <2>1. i < Tail(b) /\ Tail(b) \in Nat
    BY <1>1, ScanFacts, Positions
  <2>2. \A j \in Offset : i < j /\ j <= i + b[i].len => j < Tail(b)
    BY <1>1, OwnCells
  <2>. QED BY <2>1, <2>2, Positions
<1>3. ValueAt(c, i) = ValueAt(b, i)
  BY <1>1, <1>2, Outside
<1>. QED BY <1>1, <1>2, <1>3 DEF Read, GoodMeta

(* A block of which a cell is not written has no value. *)
LEMMA NotWritten ==
  ASSUME NEW b, NEW i \in Offset, NEW j \in Offset, i < j, j <= i + b[i].len,
         b[j].kind # "data"
  PROVE  ValueAt(b, i) = Junk
<1>. DEFINE B == {w \in Values : b[i].len = Len[w] /\ \A k \in DataCells(i, w) : b[k] = Data(w)}
<1>1. B = {}
  <2>1. SUFFICES ASSUME NEW w \in B PROVE FALSE
    OBVIOUS
  <2>2. j \in DataCells(i, w)
    BY <2>1 DEF DataCells
  <2>3. b[j] = Data(w)
    BY <2>1, <2>2
  <2>. QED BY <2>3 DEF Data
<1>2. ValueAt(b, i) = IF B = {} THEN Junk ELSE CHOOSE w \in B : TRUE
  BY Zenon DEF ValueAt
<1>. HIDE DEF B
<1>. QED BY <1>1, <1>2

(* Writing the free data cells of a block leaves all that can be read. *)
LEMMA ReadFilled ==
  ASSUME NEW b \in Sectors, Tiled(b), NEW k \in Starts(b), GoodMeta(b, k),
         b[k].status # "verify",
         NEW v \in Values, NEW x \in Values \cup {Junk}, Len[v] = b[k].len,
         \A j \in DataCells(k, v) : b[j].kind \in Empty,
         NEW i \in Offset, NEW t \in Tags, Read(b, i, t) # Junk
  PROVE  Read(Filled(b, DataCells(k, v), Data(x)), i, t) = Read(b, i, t)
<1>. DEFINE c == Filled(b, DataCells(k, v), Data(x))
<1>1. k \in Offset /\ b[k].len \in Nat /\ Span(b, k) = 1 + b[k].len
  BY ScanFacts, GoodLength
<1>2. GoodMeta(b, i) /\ i \in Starts(b) /\ b[i].tag = t /\ ValueAt(b, i) # Junk
  BY MetaStarts DEF Read, GoodMeta
<1>3. \A j \in Starts(b) : c[j] = b[j]
  <2>1. Len[v] <= b[k].len
    BY <1>1
  <2>. QED BY <2>1, FilledFound
<1>4. \A j \in Offset : j \notin DataCells(k, v) => c[j] = b[j]
  BY DEF Filled
<1>. HIDE DEF c
<1>5. CASE i = k
  <2>1. \A j \in DataCells(k, v) : b[j].kind # "data"
    BY DEF Empty
  <2>2. \A j \in Offset : k < j /\ j <= k + b[k].len => j \notin DataCells(k, v)
    BY <1>2, <1>5, <2>1, NotWritten
  <2>3. ValueAt(c, i) = ValueAt(b, i)
    BY <1>2, <1>3, <1>4, <1>5, <2>2, Outside
  <2>. QED BY <1>2, <1>3, <2>3 DEF Read, GoodMeta, c
<1>6. CASE i # k
  <2>1. b[i].len \in Nat /\ Span(b, i) = 1 + b[i].len
    BY <1>2, GoodLength
  <2>2. ASSUME NEW j \in Offset, i < j, j <= i + b[i].len, j \in DataCells(k, v) PROVE FALSE
    <3>1. k < j /\ j <= k + b[k].len
      BY <2>2 DEF DataCells
    <3>2. ~(i <= j /\ j < i + Span(b, i))
      BY <1>2, <1>6, <3>1, OwnCells
    <3>. QED BY <2>1, <2>2, <3>2, Positions
  <2>3. \A j \in Offset : i < j /\ j <= i + b[i].len => c[j] = b[j]
    BY <1>4, <2>2
  <2>4. ValueAt(c, i) = ValueAt(b, i)
    BY <1>2, <1>3, <2>3, Outside
  <2>. QED BY <1>2, <1>3, <2>4 DEF Read, GoodMeta, c
<1>. QED BY <1>5, <1>6

(* A status does not matter to what is read. *)
LEMMA ReadConfirmed ==
  ASSUME NEW b \in Sectors, Tiled(b), NEW c, NEW k \in Starts(b),
         c[k].kind = b[k].kind, c[k].tag = b[k].tag, c[k].len = b[k].len,
         \A i \in Offset : i # k => c[i] = b[i],
         NEW i \in Offset, NEW t \in Tags
  PROVE  Read(c, i, t) = Read(b, i, t)
<1>1. /\ c[i].kind = b[i].kind /\ c[i].tag = b[i].tag /\ c[i].len = b[i].len
  BY DEF GoodMeta
<1>2. GoodMeta(c, i) = GoodMeta(b, i)
  BY <1>1 DEF GoodMeta
<1>3. ASSUME GoodMeta(b, i) PROVE ValueAt(c, i) = ValueAt(b, i)
  <2>1. i \in Starts(b)
    BY <1>3, MetaStarts DEF GoodMeta
  <2>2. \A j \in Offset : i < j /\ j <= i + b[i].len => j # k
    BY <1>3, <2>1, OwnCells
  <2>. QED BY <1>1, <1>3, <2>1, <2>2, Outside
<1>. QED BY <1>1, <1>2, <1>3 DEF Read

(* The inductive invariant: what is cached is cached by a store in use;    *)
(* the block being written is the last one, and its data cells are free    *)
(* until they are programmed; committed blocks are whole.                  *)

LastBlock ==
  /\ pc \in {"wr_data", "check", "wr_delete"} => IsLast(Starts(flash[work]), job.at)
  /\ pc = "wr_data" => \A i \in DataCells(job.at, job.val) : flash[work][i].kind \in Empty

(* Every committed block has all its data. *)
Whole(b) == \A t \in Tags : \A i \in Verified(b, t) : ValueAt(b, i) # Junk

CacheInv ==
  /\ ~Using \/ ~UseCache => \A t \in Tags : ~Cached(cache, t)
  /\ LastBlock
  /\ \A s \in Sector : Whole(flash[s])

CInv == RInv /\ CacheInv

LEMMA Remembered ==
  ASSUME NEW c \in CacheType, NEW u \in Tags, NEW p \in Address, NEW d, Remember(c, u, p, d)
  PROVE  d.at[u] = p /\ \A t \in Tags \ {u} : Cached(d, t) => d.at[t] = c.at[t]
<1>. USE DEF CacheType, Cached
<1>1. CASE UpdateEntry(c, u, p, d)
  BY <1>1 DEF UpdateEntry
<1>2. CASE TakeSlot(c, u, p, d)
  BY <1>2 DEF TakeSlot
<1>3. CASE EvictEntry(c, u, p, d)
  BY <1>3 DEF EvictEntry, ValidEntries
<1>4. CASE ReuseInvalidSlot(c, u, p, d)
  BY <1>4 DEF ReuseInvalidSlot
<1>. QED BY <1>1, <1>2, <1>3, <1>4 DEF Remember

LEMMA Forgotten ==
  ASSUME NEW c \in CacheType, NEW u \in Tags
  PROVE  /\ ~Cached(Forget(c, u), u)
         /\ \A t \in Tags \ {u} : Forget(c, u).at[t] = c.at[t]
<1>. DEFINE at == [c.at EXCEPT ![u] = Nil]
<1>1. at[u] = Nil /\ \A t \in Tags \ {u} : at[t] = c.at[t]
  BY DEF CacheType
<1>2. Forget(c, u).at = at
  BY DEF Forget, CacheType
<1>. HIDE DEF at
<1>. QED BY <1>1, <1>2 DEF Cached

LEMMA NothingCached ==
  cache' = EmptyCache => \A t \in Tags : ~Cached(cache', t)
BY DEF EmptyCache, Cached

LEMMA CacheTyped ==
  ASSUME IInv
  PROVE  /\ cache \in CacheType
         /\ \A t \in Tags : Cached(cache, t) => cache.at[t].sec \in Sector /\ cache.at[t].off \in Offset
BY DEF IInv, TypeOK, CacheType, Cached, Address

(* What is appended is cached, if anything is. *)
LEMMA JobCached ==
  ASSUME IInv, CacheInv, Using, job \in Jobs, job.at \in Offset, work \in Sector, CacheJob,
         NEW t \in Tags, Cached(cache', t)
  PROVE  cache'.at[t] = IF t = job.tag THEN [sec |-> work, off |-> job.at] ELSE cache.at[t]
<1>1. [sec |-> work, off |-> job.at] \in Address /\ job.tag \in Tags /\ cache \in CacheType
  BY CacheTyped DEF Address, Jobs
<1>2. UseCache
  BY DEF CacheInv, CacheJob
<1>3. Remember(cache, job.tag, [sec |-> work, off |-> job.at], cache')
  BY <1>2 DEF CacheJob
<1>. QED BY <1>1, <1>3, Remembered

LEMMA LastBlockNext ==
  ASSUME CInv, RInv', [Next]_vars
  PROVE  LastBlock'
<1>. DEFINE Late == {"wr_data", "check", "wr_delete"}
<1>1. RInv /\ LInv /\ LInv' /\ LastBlock
  BY DEF CInv, CacheInv, RInv
<1>2. CASE UNCHANGED <<flash, work, job, pc>>
  BY <1>1, <1>2 DEF LastBlock
<1>3. CASE pc' \notin Late
  BY <1>3 DEF LastBlock
<1>4. CASE WriteMeta
  <2>. DEFINE b == flash[work]
              c == flash'[work]
              e == job.at
  <2>1. /\ b \in Sectors /\ c \in Sectors /\ Tiled(b) /\ e = Tail(b) /\ e \in Offset
        /\ \A i \in Offset : i # e => c[i] = b[i]
        /\ Starts(c) = Starts(b) \cup {e}
    BY <1>1, <1>4, WriteMetaFacts
  <2>2. UNCHANGED <<work, job>> /\ pc' = "wr_data"
    BY <1>4 DEF WriteMeta
  <2>. HIDE DEF b, c, e
  <2>3. IsLast(Starts(c), e)
    <3>1. \A p \in Starts(b) : p < e /\ p \in Nat
      BY <2>1, ScanFacts, Positions
    <3>2. e \in Nat
      BY <2>1, Positions
    <3>. QED BY <2>1, <3>1, <3>2 DEF IsLast
  <2>4. \A i \in DataCells(e, job.val) : c[i].kind \in Empty
    <3>1. \A i \in DataCells(e, job.val) : i \in Offset /\ i > e
      BY <2>1, Positions DEF DataCells
    <3>2. \A i \in DataCells(e, job.val) : i # e /\ i >= Tail(b)
      BY <2>1, <3>1, Positions
    <3>. QED BY <2>1, <3>1, <3>2 DEF Tiled
  <2>. QED BY <2>2, <2>3, <2>4 DEF LastBlock, c, e
<1>5. CASE WriteData
  <2>1. pc = "wr_data" /\ pc' = "check" /\ UNCHANGED <<work, job>>
    BY <1>5 DEF WriteData
  <2>2. PICK x \in Values \cup {Junk} :
          flash' = [flash EXCEPT ![work] = Filled(@, DataCells(job.at, job.val), Data(x))]
    BY <1>1, <1>5, Sound DEF WriteData, Writing
  <2>3. Starts(flash'[work]) = Starts(flash[work])
    <3>1. job.val \in Values
      BY <1>1, <2>1, Sound DEF Writing
    <3>2. Len[job.val] <= Len[job.val]
      BY <3>1, LenAssumption
    <3>. QED BY <1>1, <2>1, <2>2, <3>1, <3>2, FilledBlock
  <2>. QED BY <1>1, <2>1, <2>3 DEF LastBlock
<1>6. CASE ConfirmOver
  <2>1. pc = "check" /\ pc' = "wr_delete" /\ ReadBackOk /\ Confirm /\ UNCHANGED <<work, job>>
    BY <1>6 DEF ConfirmOver
  <2>2. Starts(flash'[work]) = Starts(flash[work])
    BY <1>1, <2>1, ConfirmedBlock
  <2>. QED BY <1>1, <2>1, <2>2 DEF LastBlock
<1>7. CASE Mount \/ PowerLoss \/ StrikeGone \/ Lost
  BY <1>2, <1>3, <1>7 DEF Mount, PowerLoss, StrikeGone, Lost, vars
<1>8. ASSUME NEW t \in Tags, Query(t) \/ Delete(t) PROVE LastBlock'
  BY <1>3, <1>8 DEF Query, Delete
<1>9. ASSUME NEW t \in Tags, NEW v \in Values, Append(t, v) PROVE LastBlock'
  BY <1>3, <1>9 DEF Append, AppendInPlace, AppendCollect, AppendFull, Place, Return
<1>10. CASE FormatErase \/ FormatHeader \/ GcErase \/ GcCopy \/ GcSkip
  BY <1>3, <1>10 DEF FormatErase, FormatHeader, GcErase, GcCopy, GcSkip
<1>11. CASE GcPlace \/ GcFull \/ CheckFails \/ ConfirmNew \/ StrikeMark
  BY <1>3, <1>11 DEF GcPlace, GcFull, CheckFails, ConfirmNew, StrikeMark, Place, Return
<1>. QED BY <1>2, <1>4, <1>5, <1>6, <1>7, <1>8, <1>9, <1>10, <1>11 DEF Next, Proceed, vars

(* Committed blocks are whole. *)

LEMMA StillWhole ==
  ASSUME NEW b, NEW c, Whole(b), \A t \in Tags : NoNews(b, c, t)
  PROVE  Whole(c)
BY DEF Whole, NoNews

LEMMA StruckWhole ==
  ASSUME NEW b \in Sectors, NEW k \in Offset, Tiled(b), b[k].kind = "meta", Whole(b)
  PROVE  Whole(Struck(b, k))
<1>1. ASSUME NEW t \in Tags PROVE NoNews(b, Struck(b, k), t)
  <2>1. k \in Starts(b)
    BY MetaStarts
  <2>. QED BY <2>1, StruckLive, StruckMeta DEF NoNews
<1>. QED BY <1>1, StillWhole

LEMMA CopiedWhole ==
  ASSUME NEW b \in Sectors, NEW c \in Sectors, NEW r \in Nat, NEW w \in Nat, w <= r,
         Tiled(b), Tiled(c), IsBlock(b, r), Committed(b, r), CopyAt(b, c, r, w),
         Whole(b), Whole(c)
  PROVE  Whole(Copied(b, c, r, w))
<1>. DEFINE n == Span(b, r)
            d == Copied(b, c, r, w)
            m == b[r].len
            u == b[r].tag
<1>1. /\ r \in Starts(b) /\ r + n <= Capacity /\ n \in Nat \ {0} /\ d \in Sectors
      /\ \A i \in Offset : i < w => d[i] = c[i]
      /\ \A k \in 0..(n - 1) : w + k \in Offset /\ r + k \in Offset /\ d[w + k] = b[r + k]
  BY CopiedCells
<1>2. r \in Offset /\ w \in Offset /\ d[w] = b[r]
  <2>1. 0 \in 0..(n - 1) /\ r + 0 = r /\ w + 0 = w
    BY <1>1
  <2>. QED BY <1>1, <2>1
<1>3. m \in Nat /\ r + m < Capacity /\ n = 1 + m
  BY <1>2, GoodLength DEF Committed
<1>4. u \in Tags /\ r \in Verified(b, u)
  <2>1. b[r] \in Cell /\ b[r].kind = "meta"
    BY <1>2 DEF Sectors, Committed, GoodMeta
  <2>2. u \in Tags
    BY <2>1 DEF Cell
  <2>. QED BY <1>1, <2>2, FoundFirst
<1>5. Tail(c) = w
  BY DEF CopyAt
<1>. HIDE DEF n, d, m, u
<1>6. ValueAt(d, w) # Junk
  <2>1. w + m < Capacity
    BY <1>1, <1>3, Positions
  <2>2. \A k \in 1..m : d[w + k] = b[r + k]
    <3>1. \A k \in 1..m : k \in 0..(n - 1)
      BY <1>3
    <3>. QED BY <1>1, <3>1
  <2>3. b[r].len = m /\ d[w].len = m
    BY <1>2 DEF m
  <2>4. ValueAt(d, w) = ValueAt(b, r)
    BY <1>2, <1>3, <2>1, <2>2, <2>3, SameValue
  <2>. QED BY <1>4, <2>4 DEF Whole
<1>7. ASSUME NEW t \in Tags, NEW i \in Verified(c, t) PROVE ValueAt(d, i) # Junk
  <2>1. i \in Starts(c) /\ GoodMeta(c, i) /\ i \in Offset /\ i < w
    BY <1>5, LiveFacts, ScanFacts
  <2>2. \A k \in Offset : i < k /\ k <= i + c[i].len => k < w
    BY <1>5, <2>1, OwnCells
  <2>3. ValueAt(d, i) = ValueAt(c, i)
    BY <1>1, <2>1, <2>2, Outside
  <2>. QED BY <2>3 DEF Whole
<1>8. ASSUME NEW t \in Tags PROVE Verified(d, t) \subseteq Verified(c, t) \cup {w}
  <2>1. Verified(d, t) = Verified(c, t) \cup (IF b[r].tag = t THEN {w} ELSE {})
    BY CopiedVerified DEF d
  <2>. QED BY <2>1
<1>9. Whole(d)
  BY <1>6, <1>7, <1>8 DEF Whole
<1>. QED BY <1>9 DEF d

(* Programming flash leaves committed blocks whole, in both sectors. *)
LEMMA WrittenWhole ==
  ASSUME RInv, LInv', NEW s \in Sector, \A x \in Sector : Whole(flash[x]),
         \A x \in Sector : x # s => flash'[x] = flash[x],
         Whole(flash'[s])
  PROVE  \A x \in Sector : Whole(flash'[x])
<1>. SUFFICES ASSUME NEW x \in Sector PROVE Whole(flash'[x])
  OBVIOUS
<1>1. CASE x = s
  BY <1>1
<1>2. CASE x # s
  BY <1>2
<1>. QED BY <1>1, <1>2

LEMMA WholeConfirmed ==
  ASSUME RInv, LInv', pc = "check", ReadBackOk, Confirm, \A x \in Sector : Whole(flash[x])
  PROVE  \A x \in Sector : Whole(flash'[x])
<1>. DEFINE b == flash[work]
            c == flash'[work]
            k == job.at
            u == job.tag
<1>1. /\ \A s \in Sector : s # work => flash'[s] = flash[s]
      /\ ValueAt(c, k) = job.val
      /\ \A t \in Tags \ {u} : NoNews(b, c, t)
      /\ Verified(c, u) = Verified(b, u) \cup {k}
      /\ \A i \in Verified(c, u) : ValueAt(c, i) = ValueAt(b, i)
  BY ConfirmedBlock
<1>2. work \in Sector /\ job.val \in Values /\ job.val # Junk
  BY Sound, AtWork, NilAssumption DEF RInv, LInv, Using, Writing
<1>3. Whole(b)
  BY <1>2
<1>. HIDE DEF b, c, k, u
<1>4. ASSUME NEW t \in Tags, NEW i \in Verified(c, t) PROVE ValueAt(c, i) # Junk
  <2>1. CASE t # u
    BY <1>1, <1>3, <2>1 DEF NoNews, Whole
  <2>2. CASE t = u /\ i # k
    BY <1>1, <1>3, <2>2 DEF Whole
  <2>3. CASE i = k
    BY <1>1, <1>2, <2>3
  <2>. QED BY <2>1, <2>2, <2>3
<1>5. Whole(c)
  BY <1>4 DEF Whole
<1>. QED BY <1>1, <1>2, <1>5, WrittenWhole DEF c

LEMMA WholeStruck ==
  ASSUME RInv, LInv', NEW s \in Sector, NEW k \in Offset, flash[s][k].kind = "meta",
         flash' = [flash EXCEPT ![s][k] = Strike(@)], \A x \in Sector : Whole(flash[x])
  PROVE  \A x \in Sector : Whole(flash'[x])
<1>1. flash \in [Sector -> Sectors] /\ Tiled(flash[s])
  BY Sound, InUse DEF RInv, LInv
<1>2. flash'[s] = Struck(flash[s], k) /\ \A x \in Sector : x # s => flash'[x] = flash[x]
  BY <1>1 DEF Struck
<1>3. flash[s] \in Sectors /\ Whole(flash[s])
  BY <1>1
<1>4. Whole(Struck(flash[s], k))
  BY <1>1, <1>3, StruckWhole
<1>. QED BY <1>2, <1>4, WrittenWhole

LEMMA WholeLost ==
  ASSUME RInv, LInv', PowerLoss, \A x \in Sector : Whole(flash[x])
  PROVE  \A x \in Sector : Whole(flash'[x])
<1>1. LInv /\ IInv /\ LogInv /\ flash \in [Sector -> Sectors]
  BY InUse DEF RInv, LInv
<1>2. CASE flash' = flash
  BY <1>2
<1>3. CASE TornMeta
  <2>. DEFINE b == flash[work]
              c == flash'[work]
  <2>1. pc = "wr_meta" /\ flash' = [flash EXCEPT ![work][job.at] = Bad] /\ Using
    BY <1>3 DEF TornMeta, Using
  <2>2. /\ work \in Sector /\ job.at \in Offset /\ b \in Sectors /\ Tiled(b)
        /\ job.at = Tail(b)
    BY <1>1, <2>1, AtWork, InUse, Sound DEF Writing, LogInv
  <2>3. c \in Sectors
    <3>1. flash' \in [Sector -> Sectors]
      BY DEF LInv, IInv, TypeOK, Sectors
    <3>. QED BY <2>2, <3>1
  <2>4. /\ c[job.at] = Bad /\ \A i \in Offset : i # job.at => c[i] = b[i]
        /\ \A x \in Sector : x # work => flash'[x] = flash[x]
    BY <1>1, <2>1, <2>2 DEF Sectors
  <2>5. Whole(b)
    BY <2>2
  <2>. HIDE DEF b, c
  <2>6. c[Tail(b)].kind = "bad" /\ Tail(b) < Capacity
    BY <2>2, <2>4, Positions DEF Bad
  <2>7. \A t \in Tags : NoNews(b, c, t)
    BY <2>2, <2>3, <2>4, <2>6, GrownFound
  <2>8. Whole(c)
    BY <2>5, <2>7, StillWhole
  <2>. QED BY <2>2, <2>4, <2>8, WrittenWhole DEF c
<1>4. CASE TornData
  <2>1. pc = "wr_data" /\ Using
    BY <1>4 DEF TornData, Using
  <2>2. PICK v \in Values :
          /\ Len[v] <= Len[job.val]
          /\ flash' = [flash EXCEPT ![work] = Filled(@, DataCells(job.at, v), Data(Junk))]
    BY <1>4 DEF TornData
  <2>3. Junk \in Values \cup {Junk} /\ work \in Sector
    BY <1>1, <2>1, AtWork
  <2>4. /\ \A x \in Sector : x # work => flash'[x] = flash[x]
        /\ \A t \in Tags : NoNews(flash[work], flash'[work], t)
    BY <2>1, <2>2, <2>3, FilledBlock
  <2>5. Whole(flash'[work])
    BY <2>3, <2>4, StillWhole
  <2>. QED BY <2>3, <2>4, <2>5, WrittenWhole
<1>. QED BY <1>2, <1>3, <1>4 DEF PowerLoss, Interrupted, TornHeader, flashVars

LEMMA WholeNext ==
  ASSUME RInv, LInv', [Next]_vars, \A x \in Sector : Whole(flash[x])
  PROVE  \A x \in Sector : Whole(flash'[x])
<1>1. LInv /\ IInv /\ StoreInv /\ LogInv /\ flash \in [Sector -> Sectors]
  BY InUse DEF RInv, LInv
<1>2. CASE flash' = flash
  BY <1>2
<1>3. Whole(Erased)
  BY NothingFound DEF Whole
<1>4. CASE FormatErase
  BY <1>3, <1>4 DEF FormatErase
<1>5. CASE GcErase
  <2>1. pc = "gc_erase" /\ flash' = [flash EXCEPT ![Other(work)] = Erased] /\ Using
    BY <1>5 DEF GcErase, Using
  <2>. QED BY <1>1, <1>3, <2>1
<1>6. CASE GcCopy
  <2>. DEFINE b == flash[work]
              c == flash[Other(work)]
              d == Copied(b, c, gcRead, gcWrite)
  <2>1. /\ pc = "gc_copy" /\ IsBlock(b, gcRead) /\ Committed(b, gcRead) /\ Using
        /\ flash' = [flash EXCEPT ![Other(work)] = d]
    BY <1>6 DEF GcCopy, Copied, Using
  <2>2. /\ work \in Sector /\ Other(work) \in Sector /\ b \in Sectors /\ c \in Sectors
        /\ Tiled(b) /\ Tiled(c) /\ gcRead \in Nat /\ gcWrite \in Nat /\ gcWrite <= gcRead
    BY <1>1, <2>1, Sound, AtWork, InUse
  <2>3. CopyAt(b, c, gcRead, gcWrite) /\ Whole(b) /\ Whole(c)
    BY <1>1, <2>1, <2>2 DEF LogInv, Copying
  <2>. HIDE DEF b, c
  <2>4. Whole(d)
    BY <2>1, <2>2, <2>3, CopiedWhole
  <2>. HIDE DEF d
  <2>. QED BY <1>1, <2>1, <2>2, <2>4
<1>7. ASSUME NEW t \in Tags, Delete(t) PROVE \A x \in Sector : Whole(flash'[x])
  <2>1. CASE DeleteNothing(t)
    BY <1>2, <2>1 DEF DeleteNothing
  <2>2. CASE DeleteFirst(t)
    <3>1. PICK i \in Offset :
            /\ IsFirst(Live(flash[work], t), i)
            /\ flash' = [flash EXCEPT ![work][i] = Strike(@)]
      BY <2>2 DEF DeleteFirst
    <3>2. work \in Sector /\ flash[work] \in Sectors
      BY <1>1, <1>7, AtWork DEF Delete, Using
    <3>3. flash[work][i].kind = "meta"
      BY <3>1, <3>2, LiveFacts DEF IsFirst, GoodMeta
    <3>. QED BY <3>1, <3>2, <3>3, WholeStruck
  <2>. QED BY <1>7, <2>1, <2>2 DEF Delete
<1>8. CASE WriteMeta
  <2>1. work \in Sector
    BY <1>1, <1>8, AtWork DEF WriteMeta, Using
  <2>2. /\ \A x \in Sector : x # work => flash'[x] = flash[x]
        /\ \A t \in Tags : NoNews(flash[work], flash'[work], t)
    BY <1>8, WriteMetaFacts
  <2>3. Whole(flash'[work])
    BY <2>1, <2>2, StillWhole
  <2>. QED BY <2>1, <2>2, <2>3, WrittenWhole
<1>9. CASE WriteData
  <2>1. pc = "wr_data" /\ Using /\ job.val \in Values /\ Len[job.val] <= Len[job.val]
    BY <1>1, <1>9, Sound, LenAssumption DEF WriteData, Using, Writing
  <2>2. PICK x \in Values \cup {Junk} :
          flash' = [flash EXCEPT ![work] = Filled(@, DataCells(job.at, job.val), Data(x))]
    BY <1>9, <2>1 DEF WriteData
  <2>3. work \in Sector
    BY <1>1, <2>1, AtWork
  <2>4. /\ \A x1 \in Sector : x1 # work => flash'[x1] = flash[x1]
        /\ \A t \in Tags : NoNews(flash[work], flash'[work], t)
    BY <2>1, <2>2, FilledBlock
  <2>5. Whole(flash'[work])
    BY <2>3, <2>4, StillWhole
  <2>. QED BY <2>3, <2>4, <2>5, WrittenWhole
<1>10. CASE ConfirmNew \/ ConfirmOver
  BY <1>10, WholeConfirmed DEF ConfirmNew, ConfirmOver
<1>11. CASE StrikeMark
  BY <1>11, StrikeFacts, WholeStruck DEF StrikeMark
<1>12. CASE PowerLoss
  BY <1>12, WholeLost
<1>13. \/ UNCHANGED vars \/ Mount \/ FormatHeader \/ GcSkip \/ GcPlace \/ GcFull
       \/ CheckFails \/ StrikeGone \/ Lost
       \/ \E t \in Tags : Query(t)
       \/ \E t \in Tags, v \in Values : Append(t, v)
       => flash' = flash
  BY DEF Mount, FormatHeader, GcSkip, GcPlace, GcFull, GcCommit, CheckFails, StrikeGone, Lost,
         Query, Append, AppendInPlace, AppendCollect, AppendFull, flashVars, vars
<1>. QED BY <1>2, <1>4, <1>5, <1>6, <1>7, <1>8, <1>9, <1>10, <1>11, <1>12, <1>13 DEF Next, Proceed

(* What a search finds is whole. *)
LEMMA ShownWhole ==
  ASSUME CInv, NEW t \in Tags
  PROVE  Shows(t) # Junk
<1>1. IInv /\ \A s \in Sector : flash[s] \in Sectors /\ Whole(flash[s])
  BY Sound DEF CInv, RInv, LInv, CacheInv
<1>2. Home \in Sector \cup {Nil}
  BY <1>1, AtWork, AtRest
<1>3. CASE Home = Nil
  BY <1>3, NilAssumption DEF Shows
<1>4. CASE Home \in Sector /\ Home # Nil
  <2>. DEFINE b == flash[Home]
  <2>1. b \in Sectors /\ Whole(b) /\ Shows(t) = Found(b, t)
    BY <1>1, <1>4 DEF Shows
  <2>. HIDE DEF b
  <2>2. CASE Verified(b, t) = {}
    BY <2>1, <2>2, FoundFirst, NilAssumption
  <2>3. CASE Verified(b, t) # {}
    <3>1. Verified(b, t) \subseteq Nat
      BY <2>1, FoundFirst, Positions
    <3>2. PICK i : IsFirst(Verified(b, t), i)
      BY <2>3, <3>1, FirstOf
    <3>. QED BY <2>1, <3>2, FoundFirst DEF Whole, IsFirst
  <2>. QED BY <2>2, <2>3
<1>. QED BY <1>2, <1>3, <1>4

LEMMA CacheInvNext ==
  ASSUME CInv, RInv', [Next]_vars
  PROVE  CacheInv'
<1>. DEFINE None == \A t \in Tags : ~Cached(cache, t)
<1>1. IInv /\ cache \in CacheType /\ (~Using \/ ~UseCache => None)
  BY CacheTyped DEF CInv, CacheInv, RInv, LInv
<1>2. ASSUME cache' = cache, ~Using' => ~Using PROVE ~Using' \/ ~UseCache => None'
  BY <1>1, <1>2
<1>3. ~Using' \/ ~UseCache => None'
  <2>1. CASE UNCHANGED vars \/ Lost
    BY <1>2, <2>1 DEF Using, Lost, vars
  <2>2. CASE Mount \/ FormatErase
    BY <1>2, <2>2 DEF Mount, FormatErase, Using
  <2>3. CASE FormatHeader \/ PowerLoss
    BY <2>3, NothingCached DEF FormatHeader, PowerLoss
  <2>4. ASSUME NEW t \in Tags, Query(t) PROVE ~Using' \/ ~UseCache => None'
    BY <2>4 DEF Query, Using
  <2>5. ASSUME NEW u \in Tags, Delete(u) PROVE ~Using' \/ ~UseCache => None'
    <3>1. Using /\ Using' /\ cache' = Forget(cache, u)
      BY <2>5 DEF Delete, Using
    <3>2. None => None'
      BY <1>1, <3>1, Forgotten DEF Cached
    <3>. QED BY <1>1, <3>1, <3>2
  <2>6. ASSUME NEW t \in Tags, NEW v \in Values, Append(t, v) PROVE ~Using' \/ ~UseCache => None'
    BY <1>2, <2>6 DEF Append, AppendInPlace, AppendCollect, AppendFull, Place, Return, Using
  <2>7. CASE GcErase \/ GcCopy \/ GcSkip \/ GcPlace \/ GcFull
    BY <1>2, <2>7 DEF GcErase, GcCopy, GcSkip, GcPlace, GcFull, GcCommit, Place, Return, Using
  <2>8. CASE WriteMeta \/ WriteData \/ CheckFails \/ ConfirmOver
    BY <1>2, <2>8 DEF WriteMeta, WriteData, CheckFails, ConfirmOver, Return, Using
  <2>9. CASE ConfirmNew \/ StrikeMark \/ StrikeGone
    <3>1. Using' /\ Using /\ CacheJob
      BY <2>9 DEF ConfirmNew, StrikeMark, StrikeGone, Return, Using
    <3>. QED BY <1>2, <3>1 DEF CacheJob
  <2>. QED BY <2>1, <2>2, <2>3, <2>4, <2>5, <2>6, <2>7, <2>8, <2>9 DEF Next, Proceed
<1>4. (\A s \in Sector : Whole(flash[s]))'
  BY WholeNext DEF CInv, CacheInv, RInv
<1>. QED BY <1>3, <1>4, LastBlockNext DEF CacheInv

(* An entry stays exact if its block reads the same and so does a search. *)

ReadsKept(t) ==
  Cached(cache, t) =>
    LET s == cache.at[t].sec
        i == cache.at[t].off
    IN  Read(flash[s], i, t) # Junk => Read(flash'[s], i, t) = Read(flash[s], i, t)

EntryKept(t) == Cached(cache', t) => cache'.at[t] = cache.at[t]

LEMMA StillExact ==
  ASSUME NEW t \in Tags, Exact(t), Shows(t) # Junk,
         EntryKept(t), ReadsKept(t), Shows(t)' = Shows(t)
  PROVE  Exact(t)'
<1>. SUFFICES ASSUME Cached(cache', t) PROVE CacheRead(t)' = Shows(t)'
  BY DEF Exact
<1>1. cache'.at[t] = cache.at[t] /\ Cached(cache, t)
  BY DEF EntryKept, Cached
<1>. DEFINE s == cache.at[t].sec
            i == cache.at[t].off
<1>2. CacheRead(t) = Read(flash[s], i, t)
  BY DEF CacheRead, Read
<1>3. CacheRead(t)' = Read(flash'[s], i, t)
  BY <1>1 DEF CacheRead, Read
<1>4. CacheRead(t) = Shows(t)
  BY <1>1 DEF Exact
<1>. HIDE DEF s, i
<1>5. Read(flash'[s], i, t) = Read(flash[s], i, t)
  BY <1>1, <1>2, <1>4 DEF ReadsKept, s, i
<1>. QED BY <1>2, <1>3, <1>4, <1>5

LEMMA QuietExact ==
  ASSUME UNCHANGED <<flash, hdr, work, cache>>, NEW t \in Tags, Exact(t)
  PROVE  Exact(t)'
BY DEF Exact, CacheRead, Shows, Home

LEMMA BootExact ==
  ASSUME CInv, Mount \/ FormatErase \/ FormatHeader \/ PowerLoss, NEW t \in Tags
  PROVE  Exact(t)'
<1>1. ~Cached(cache', t)
  <2>1. CASE Mount \/ FormatErase
    BY <2>1 DEF Mount, FormatErase, CInv, CacheInv, Using, Cached
  <2>2. CASE FormatHeader \/ PowerLoss
    BY <2>2, NothingCached DEF FormatHeader, PowerLoss
  <2>. QED BY <2>1, <2>2
<1>. QED BY <1>1 DEF Exact

LEMMA QueryExact ==
  ASSUME CInv, RInv', NEW u \in Tags, Query(u), NEW t \in Tags, Exact(t), Shows(t) # Junk
  PROVE  Exact(t)'
<1>. DEFINE b == flash[work]
<1>1. /\ pc = "idle" /\ pc' = "idle" /\ UNCHANGED <<flash, hdr, work, job>>
  BY DEF Query, flashVars
<1>2. IInv /\ IInv' /\ Using /\ Using' /\ cache \in CacheType
  BY <1>1, CacheTyped DEF CInv, RInv, LInv, Using
<1>3. work \in Sector /\ b \in Sectors /\ Shows(t) = Found(b, t) /\ Shows(t)' = Found(b, t)
  BY <1>1, <1>2, AtWork, AtWorkNext, InUse DEF Using
<1>4. PICK i \in Offset :
        /\ IsFirst(Verified(b, u), i)
        /\ Remember(cache, u, [sec |-> work, off |-> i], cache')
  BY DEF Query
<1>5. [sec |-> work, off |-> i] \in Address
  BY <1>3 DEF Address
<1>6. cache'.at[u] = [sec |-> work, off |-> i] /\ (t # u => EntryKept(t))
  BY <1>2, <1>4, <1>5, Remembered DEF EntryKept
<1>7. CASE t = u
  <2>1. GoodMeta(b, i) /\ b[i].tag = t
    BY <1>3, <1>4, <1>7, LiveFacts DEF IsFirst
  <2>2. Found(b, t) = ValueAt(b, i)
    BY <1>3, <1>4, <1>7, FoundFirst
  <2>3. CacheRead(t)' = ValueAt(b, i)
    BY <1>1, <1>6, <1>7, <2>1 DEF CacheRead
  <2>. QED BY <1>3, <2>2, <2>3 DEF Exact
<1>8. CASE t # u
  <2>1. ReadsKept(t)
    BY <1>1 DEF ReadsKept
  <2>. QED BY <1>3, <1>6, <1>8, <2>1, StillExact
<1>. QED BY <1>7, <1>8

(* A strike at the meta field of another tag *)
LEMMA StruckReads ==
  ASSUME LInv, NEW s \in Sector, NEW m \in Offset, NEW t \in Tags,
         flash[s][m].kind = "meta", flash[s][m].tag # t,
         flash' = [flash EXCEPT ![s][m] = Strike(@)]
  PROVE  ReadsKept(t)
<1>. DEFINE b == flash[s]
<1>1. b \in Sectors /\ Tiled(b) /\ flash \in [Sector -> Sectors]
  BY Sound, InUse
<1>2. flash'[s] = Struck(b, m) /\ \A x \in Sector : x # s => flash'[x] = flash[x]
  BY <1>1 DEF Struck
<1>. HIDE DEF b
<1>3. \A i \in Offset : Read(Struck(b, m), i, t) = Read(b, i, t)
  BY <1>1, ReadStruck DEF b
<1>4. Cached(cache, t) => cache.at[t].sec \in Sector /\ cache.at[t].off \in Offset
  BY CacheTyped DEF LInv
<1>. QED BY <1>2, <1>3, <1>4 DEF ReadsKept, b

LEMMA DeleteExact ==
  ASSUME CInv, RInv', NEW u \in Tags, Delete(u), NEW t \in Tags, Exact(t), Shows(t) # Junk
  PROVE  Exact(t)'
<1>. DEFINE b == flash[work]
<1>1. pc = "idle" /\ pc' = "idle" /\ UNCHANGED <<hdr, work, job>> /\ cache' = Forget(cache, u)
  BY DEF Delete
<1>2. LInv /\ IInv /\ IInv' /\ Using /\ Using' /\ cache \in CacheType
  BY <1>1, CacheTyped DEF CInv, RInv, LInv, Using
<1>3. /\ work \in Sector /\ b \in Sectors /\ Tiled(b) /\ flash \in [Sector -> Sectors]
      /\ Shows(t) = Found(b, t) /\ Shows(t)' = Found(flash'[work], t)
  BY <1>1, <1>2, Sound, AtWork, AtWorkNext, InUse
<1>4. ~Cached(cache', u) /\ (t # u => EntryKept(t))
  BY <1>1, <1>2, Forgotten DEF EntryKept
<1>5. CASE t = u
  BY <1>4, <1>5 DEF Exact
<1>6. CASE t # u /\ DeleteFirst(u)
  <2>1. PICK i \in Offset :
          /\ IsFirst(Live(b, u), i)
          /\ flash' = [flash EXCEPT ![work][i] = Strike(@)]
    BY <1>6 DEF DeleteFirst
  <2>2. flash'[work] = Struck(b, i)
    BY <1>3, <2>1 DEF Struck
  <2>3. i \in Starts(b) /\ i \notin Live(b, t) /\ b[i].kind = "meta" /\ b[i].tag # t
    BY <1>3, <1>6, <2>1, LiveFacts DEF IsFirst, GoodMeta
  <2>4. ReadsKept(t)
    BY <1>2, <1>3, <2>1, <2>3, StruckReads
  <2>5. Shows(t)' = Shows(t)
    BY <1>3, <2>2, <2>3, StruckMeta
  <2>. QED BY <1>4, <1>6, <2>4, <2>5, StillExact
<1>7. CASE t # u /\ DeleteNothing(u)
  <2>1. flash' = flash
    BY <1>7 DEF DeleteNothing
  <2>2. ReadsKept(t) /\ Shows(t)' = Shows(t)
    BY <1>3, <2>1 DEF ReadsKept
  <2>. QED BY <1>4, <1>7, <2>2, StillExact
<1>. QED BY <1>5, <1>6, <1>7 DEF Delete

LEMMA CollectExact ==
  ASSUME CInv, RInv', GcErase \/ GcCopy \/ GcSkip, NEW t \in Tags, Exact(t), Shows(t) # Junk,
         cache.at[t].sec = work
  PROVE  Exact(t)'
<1>1. UNCHANGED <<work, cache, job>> /\ pc \in Collecting /\ pc' \in Collecting
  BY DEF GcErase, GcCopy, GcSkip, Collecting
<1>2. LInv /\ IInv /\ IInv' /\ Using /\ Using'
  BY <1>1 DEF CInv, RInv, LInv, Using, Collecting
<1>3. /\ work \in Sector /\ Other(work) \in Sector /\ Other(work) # work
      /\ flash \in [Sector -> Sectors]
  BY <1>2, Sound, AtWork, InUse
<1>4. flash'[work] = flash[work]
  BY <1>3 DEF GcErase, GcCopy, GcSkip, flashVars
<1>5. Shows(t)' = Shows(t)
  BY <1>1, <1>2, <1>4, AtWork, AtWorkNext
<1>6. EntryKept(t) /\ ReadsKept(t)
  BY <1>1, <1>4 DEF EntryKept, ReadsKept
<1>. QED BY <1>5, <1>6, StillExact

LEMMA SwitchExact ==
  ASSUME CInv, RInv', GcPlace \/ GcFull, NEW t \in Tags, Exact(t), Shows(t) # Junk
  PROVE  Exact(t)'
<1>1. GcCommit /\ pc' \in {"wr_meta", "idle"}
  BY DEF GcPlace, GcFull, Place, Return
<1>2. /\ pc = "gc_copy" /\ ~IsBlock(flash[work], gcRead) /\ work' = Other(work)
      /\ UNCHANGED <<flash, cache>>
  BY <1>1 DEF GcCommit
<1>3. RInv /\ IInv /\ IInv' /\ Using /\ Using'
  BY <1>1, <1>2 DEF CInv, RInv, LInv, Using
<1>4. Shows(t)' = Shows(t)
  BY <1>2, <1>3, AtWork, AtWorkNext, CopyComplete
<1>5. EntryKept(t) /\ ReadsKept(t)
  BY <1>2 DEF EntryKept, ReadsKept
<1>. QED BY <1>4, <1>5, StillExact

LEMMA ValueType == \A b, i : ValueAt(b, i) \in Values \cup {Junk}
<1>. SUFFICES ASSUME NEW b, NEW i PROVE ValueAt(b, i) \in Values \cup {Junk}
  OBVIOUS
<1>. DEFINE B == {w \in Values : b[i].len = Len[w] /\ \A k \in DataCells(i, w) : b[k] = Data(w)}
<1>1. ValueAt(b, i) = IF B = {} THEN Junk ELSE CHOOSE w \in B : TRUE
  BY Zenon DEF ValueAt
<1>2. B \subseteq Values
  OBVIOUS
<1>. HIDE DEF B
<1>. QED BY <1>1, <1>2

LEMMA WriteMetaExact ==
  ASSUME CInv, RInv', WriteMeta, NEW t \in Tags, Exact(t), Shows(t) # Junk
  PROVE  Exact(t)'
<1>. DEFINE b == flash[work]
            c == flash'[work]
<1>1. pc = "wr_meta" /\ pc' = "wr_data" /\ UNCHANGED <<work, cache>>
  BY DEF WriteMeta
<1>2. RInv /\ LInv' /\ IInv /\ IInv' /\ Using /\ Using'
  BY <1>1 DEF CInv, RInv, LInv, Using
<1>3. /\ b \in Sectors /\ c \in Sectors /\ Tiled(b) /\ job.at = Tail(b) /\ job.at < Capacity
      /\ \A s \in Sector : s # work => flash'[s] = flash[s]
      /\ \A i \in Offset : i # job.at => c[i] = b[i]
      /\ Found(c, t) = Found(b, t)
  BY <1>2, WriteMetaFacts
<1>4. Shows(t)' = Shows(t)
  BY <1>1, <1>2, <1>3, AtWork, AtWorkNext
<1>. HIDE DEF b, c
<1>5. \A i \in Offset : Read(b, i, t) # Junk => Read(c, i, t) = Read(b, i, t)
  BY <1>3, ReadGrown
<1>6. Cached(cache, t) => cache.at[t].sec \in Sector /\ cache.at[t].off \in Offset
  BY <1>2, CacheTyped
<1>7. ReadsKept(t)
  BY <1>3, <1>5, <1>6 DEF ReadsKept, b, c
<1>8. EntryKept(t)
  BY <1>1 DEF EntryKept
<1>. QED BY <1>4, <1>7, <1>8, StillExact

LEMMA WriteDataExact ==
  ASSUME CInv, RInv', WriteData, NEW t \in Tags, Exact(t), Shows(t) # Junk
  PROVE  Exact(t)'
<1>. DEFINE b == flash[work]
            c == flash'[work]
            k == job.at
<1>1. pc = "wr_data" /\ pc' = "check" /\ UNCHANGED <<work, cache>>
  BY DEF WriteData
<1>2. RInv /\ LInv /\ StoreInv /\ IInv /\ IInv' /\ Using /\ Using' /\ LastBlock
  BY <1>1 DEF CInv, CacheInv, RInv, LInv, Using
<1>3. /\ work \in Sector /\ b \in Sectors /\ Tiled(b) /\ flash \in [Sector -> Sectors]
      /\ job.val \in Values
  BY <1>1, <1>2, Sound, AtWork, InUse DEF Writing
<1>4. Len[job.val] <= Len[job.val]
  BY <1>3, LenAssumption
<1>5. PICK x \in Values \cup {Junk} :
        flash' = [flash EXCEPT ![work] = Filled(@, DataCells(k, job.val), Data(x))]
  BY <1>3 DEF WriteData
<1>6. /\ \A s \in Sector : s # work => flash'[s] = flash[s]
      /\ Found(c, t) = Found(b, t)
  BY <1>1, <1>2, <1>3, <1>4, <1>5, FilledBlock
<1>7. Shows(t)' = Shows(t)
  BY <1>1, <1>2, <1>6, AtWork, AtWorkNext
<1>8. c = Filled(b, DataCells(k, job.val), Data(x))
  BY <1>3, <1>5
<1>9. /\ k \in Starts(b) /\ GoodMeta(b, k) /\ b[k].status # "verify" /\ Len[job.val] = b[k].len
      /\ \A j \in DataCells(k, job.val) : b[j].kind \in Empty
  BY <1>1, <1>2 DEF StoreInv, BlockWritten, LastBlock
<1>. HIDE DEF b, c, k
<1>10. \A i \in Offset : Read(b, i, t) # Junk => Read(c, i, t) = Read(b, i, t)
  BY <1>3, <1>8, <1>9, ReadFilled
<1>11. Cached(cache, t) => cache.at[t].sec \in Sector /\ cache.at[t].off \in Offset
  BY <1>2, CacheTyped
<1>12. ReadsKept(t)
  BY <1>6, <1>10, <1>11 DEF ReadsKept, b, c
<1>13. EntryKept(t)
  BY <1>1 DEF EntryKept
<1>. QED BY <1>7, <1>12, <1>13, StillExact

(* The block is confirmed: whatever can be read can be read as before. *)
LEMMA ConfirmedReads ==
  ASSUME CInv, pc = "check", ReadBackOk, Confirm, NEW t \in Tags
  PROVE  ReadsKept(t)
<1>. DEFINE b == flash[work]
            c == flash'[work]
            k == job.at
<1>1. RInv /\ LInv /\ StoreInv
  BY DEF CInv, RInv
<1>2. /\ \A s \in Sector : s # work => flash'[s] = flash[s]
      /\ \A i \in Offset : i # k => c[i] = b[i]
      /\ GoodMeta(c, k) /\ c[k].tag = job.tag /\ c[k].len = Len[job.val]
  BY <1>1, ConfirmedBlock
<1>3. b \in Sectors /\ Tiled(b) /\ k \in Starts(b) /\ GoodMeta(b, k)
  BY <1>1, BlockLive
<1>4. b[k].tag = job.tag /\ b[k].len = Len[job.val]
  BY <1>1 DEF StoreInv, BlockWritten
<1>5. c[k].kind = b[k].kind
  BY <1>2, <1>3 DEF GoodMeta
<1>. HIDE DEF b, c, k
<1>6. \A i \in Offset : Read(c, i, t) = Read(b, i, t)
  BY <1>2, <1>3, <1>4, <1>5, ReadConfirmed
<1>7. Cached(cache, t) => cache.at[t].sec \in Sector /\ cache.at[t].off \in Offset
  BY <1>1, CacheTyped DEF LInv
<1>. QED BY <1>2, <1>6, <1>7 DEF ReadsKept, b, c

LEMMA ConfirmNewExact ==
  ASSUME CInv, RInv', ConfirmNew, NEW t \in Tags, Exact(t), Shows(t) # Junk
  PROVE  Exact(t)'
<1>. DEFINE c == flash'[work]
            k == job.at
            u == job.tag
<1>1. /\ pc = "check" /\ pc' = "idle" /\ ReadBackOk /\ Confirm /\ mark = Nil /\ CacheJob
      /\ UNCHANGED work
  BY DEF ConfirmNew, Return
<1>2. RInv /\ LInv /\ StoreInv /\ IInv /\ IInv' /\ Using /\ Using' /\ CacheInv
  BY <1>1 DEF CInv, RInv, LInv, Using
<1>3. job # Nil /\ job \in Jobs /\ k \in Offset /\ work \in Sector /\ u \in Tags
  BY <1>1, <1>2, InUse, Sound DEF Writing
<1>4. Shows(t) = Found(flash[work], t) /\ Shows(t)' = Found(c, t)
  BY <1>1, <1>2, AtWork, AtWorkNext
<1>5. /\ c \in Sectors /\ GoodMeta(c, k) /\ c[k].tag = u /\ ValueAt(c, k) = job.val
      /\ k \in Starts(c) /\ c[k].status = "verify"
      /\ Live(c, u) = Live(flash[work], u)
      /\ \A x \in Tags \ {u} : Found(c, x) = Found(flash[work], x)
  BY <1>1, <1>2, <1>3, ConfirmedBlock
<1>6. \A x \in Tags : Cached(cache', x) =>
        cache'.at[x] = IF x = u THEN [sec |-> work, off |-> k] ELSE cache.at[x]
  BY <1>1, <1>2, <1>3, JobCached
<1>7. CASE t = u
  <2>1. Old(u) = Live(flash[work], u) \ {k} /\ Old(u) = {}
    BY <1>1, <1>2, BlockLive, NilAssumption DEF StoreInv, MarksOld, Writing, Address, Sector, Offset
  <2>2. Live(c, u) \subseteq {k}
    BY <1>5, <2>1
  <2>. HIDE DEF c, k, u
  <2>3. k \in Verified(c, u) /\ Verified(c, u) \subseteq {k}
    BY <1>3, <1>5, <2>2, LiveFacts
  <2>4. Found(c, u) = job.val
    BY <1>3, <1>5, <2>3, OnlyBlock
  <2>5. Cached(cache', t) => CacheRead(t)' = job.val
    BY <1>3, <1>5, <1>6, <1>7 DEF CacheRead, c
  <2>. QED BY <1>4, <1>7, <2>4, <2>5 DEF Exact
<1>8. CASE t # u
  <2>1. Shows(t)' = Shows(t)
    BY <1>4, <1>5, <1>8
  <2>2. EntryKept(t)
    BY <1>6, <1>8 DEF EntryKept
  <2>3. ReadsKept(t)
    BY <1>1, ConfirmedReads
  <2>. QED BY <2>1, <2>2, <2>3, StillExact
<1>. QED BY <1>7, <1>8

(* A cached record shows, so the new block of the tag does not yet. *)
LEMMA ConfirmOverExact ==
  ASSUME CInv, RInv', ConfirmOver, NEW t \in Tags, Exact(t), Shows(t) # Junk
  PROVE  Exact(t)'
<1>. DEFINE b == flash[work]
            c == flash'[work]
            k == job.at
            u == job.tag
<1>1. /\ pc = "check" /\ pc' = "wr_delete" /\ ReadBackOk /\ Confirm /\ UNCHANGED <<work, cache>>
  BY DEF ConfirmOver
<1>2. RInv /\ LInv /\ StoreInv /\ IInv /\ IInv' /\ Using /\ Using' /\ LastBlock
  BY <1>1 DEF CInv, CacheInv, RInv, LInv, Using
<1>3. Shows(t) = Found(b, t) /\ Shows(t)' = Found(c, t)
  BY <1>1, <1>2, AtWork, AtWorkNext
<1>4. /\ c \in Sectors
      /\ \A x \in Tags \ {u} : Found(c, x) = Found(b, x)
      /\ Verified(c, u) = Verified(b, u) \cup {k}
      /\ \A i \in Verified(c, u) : ValueAt(c, i) = ValueAt(b, i)
  BY <1>1, <1>2, ConfirmedBlock
<1>5. b \in Sectors /\ IsLast(Starts(b), k) /\ u \in Tags
  BY <1>1, <1>2, BlockLive, Sound DEF LastBlock, Writing
<1>6. EntryKept(t) /\ ReadsKept(t)
  BY <1>1, ConfirmedReads DEF EntryKept
<1>7. CASE ~Cached(cache, t)
  BY <1>1, <1>7 DEF Exact
<1>8. CASE Cached(cache, t)
  <2>1. Found(b, t) # NoValue
    <3>1. CacheRead(t) \in Values \cup {Junk}
      <4>1. \A x, i : ValueAt(x, i) \in Values \cup {Junk}
        BY ValueType
      <4>. QED BY <4>1 DEF CacheRead
    <3>2. CacheRead(t) = Found(b, t)
      BY <1>3, <1>8 DEF Exact
    <3>. QED BY <3>1, <3>2, NilAssumption
  <2>. HIDE DEF b, c, k, u
  <2>2. Verified(b, t) # {} /\ Verified(b, t) \subseteq Nat
    BY <1>5, <2>1, FoundFirst, Positions
  <2>3. PICK i : IsFirst(Verified(b, t), i)
    BY <2>2, FirstOf
  <2>4. Found(c, t) = Found(b, t)
    <3>1. CASE t # u
      BY <1>4, <3>1
    <3>2. CASE t = u
      <4>1. i <= k /\ i \in Verified(b, u) /\ \A j \in Verified(b, u) : i <= j
        BY <1>5, <2>3, <3>2, LiveFacts DEF IsFirst, IsLast
      <4>2. IsFirst(Verified(c, u), i)
        BY <1>4, <4>1 DEF IsFirst
      <4>3. Found(c, u) = ValueAt(c, i) /\ Found(b, u) = ValueAt(b, i)
        BY <1>4, <1>5, <2>3, <3>2, <4>2, FoundFirst
      <4>. QED BY <1>4, <3>2, <4>1, <4>3
    <3>. QED BY <3>1, <3>2
  <2>. QED BY <1>3, <1>6, <2>4, StillExact
<1>. QED BY <1>7, <1>8

LEMMA StrikeExact ==
  ASSUME CInv, RInv', StrikeMark, OwnMark, NEW t \in Tags, Exact(t), Shows(t) # Junk,
         ~Vague(t)
  PROVE  Exact(t)'
<1>. DEFINE b == flash[work]
            c == flash'[work]
            k == job.at
            u == job.tag
            m == mark.off
<1>1. RInv /\ LInv /\ LInv' /\ IInv /\ CacheInv
  BY DEF CInv, RInv, LInv
<1>2. /\ pc = "wr_delete" /\ pc' = "idle" /\ job # Nil /\ u \in Tags
      /\ work \in Sector /\ b \in Sectors /\ c \in Sectors /\ Tiled(b)
      /\ mark \in Address /\ mark.sec \in Sector /\ m \in Offset
      /\ flash[mark.sec][m].kind = "meta"
      /\ c = IF mark.sec = work THEN Struck(b, m) ELSE b
      /\ k \in Verified(b, u) /\ k \in Live(b, u) /\ ValueAt(b, k) = job.val
      /\ Old(u) = Live(b, u) \ {k} /\ IsFiniteSet(Old(u))
      /\ \A x \in Tags : Shows(x) = Found(b, x) /\ Shows(x)' = Found(c, x)
      /\ Old(u) # {} => mark.sec = work /\ IsLast(Old(u), m)
  BY <1>1, StrikeFacts
<1>3. /\ flash' = [flash EXCEPT ![mark.sec][m] = Strike(@)] /\ CacheJob /\ work' = work
      /\ Using /\ job \in Jobs /\ k \in Offset
  BY <1>1, <1>2, InUse DEF StrikeMark, Using, Writing
<1>4. \A x \in Tags : Cached(cache', x) =>
        cache'.at[x] = IF x = u THEN [sec |-> work, off |-> k] ELSE cache.at[x]
  BY <1>1, <1>2, <1>3, JobCached
<1>5. /\ mark # [sec |-> work, off |-> k]
      /\ flash[mark.sec][m].kind = "meta" /\ flash[mark.sec][m].tag = u
  BY <1>2 DEF OwnMark
<1>6. mark.sec = work => m # k /\ b[m].kind = "meta" /\ b[m].tag = u /\ m \in Starts(b)
  <2>1. ASSUME mark.sec = work PROVE m # k
    <3>. QED BY <1>2, <1>5, <2>1 DEF Address
  <2>. QED BY <1>2, <1>5, <2>1, MetaStarts
<1>7. CASE t # u
  <2>1. ReadsKept(t)
    BY <1>1, <1>2, <1>3, <1>5, <1>7, StruckReads
  <2>2. EntryKept(t)
    BY <1>4, <1>7 DEF EntryKept
  <2>3. Found(c, t) = Found(b, t)
    <3>1. CASE mark.sec # work
      BY <1>2, <3>1
    <3>2. CASE mark.sec = work
      <4>1. m \notin Live(b, t)
        BY <1>2, <1>6, <1>7, <3>2, LiveFacts
      <4>. QED BY <1>2, <1>6, <3>2, <4>1, StruckMeta
    <3>. QED BY <3>1, <3>2
  <2>. QED BY <1>2, <2>1, <2>2, <2>3, StillExact
<1>8. CASE t = u
  <2>1. Found(c, u) = job.val
    <3>1. CASE mark.sec # work
      <4>1. Live(b, u) \subseteq {k} /\ c = b
        BY <1>2, <3>1
      <4>2. Verified(b, u) \subseteq {k}
        BY <1>2, <4>1, LiveFacts
      <4>. QED BY <1>2, <4>1, <4>2, OnlyBlock
    <3>2. CASE mark.sec = work
      <4>1. ~(Cardinality(Live(b, u) \ {k}) > 1)
        BY <1>2, <1>8 DEF Vague
      <4>2. Found(Struck(b, m), u) = ValueAt(b, k)
        BY <1>2, <1>6, <3>2, <4>1, StruckOld
      <4>. QED BY <1>2, <3>2, <4>2
    <3>. QED BY <3>1, <3>2
  <2>2. Read(c, k, u) = job.val
    <3>1. k \in Verified(c, u) /\ ValueAt(c, k) = ValueAt(b, k)
      <4>1. CASE mark.sec # work
        BY <1>2, <4>1
      <4>2. CASE mark.sec = work
        BY <1>2, <1>6, <4>2, StruckLive, StruckMeta
      <4>. QED BY <4>1, <4>2
    <3>2. GoodMeta(c, k) /\ c[k].tag = u
      BY <1>2, <3>1, LiveFacts
    <3>. QED BY <1>2, <3>1, <3>2 DEF Read
  <2>3. Cached(cache', t) => CacheRead(t)' = Read(c, k, u)
    BY <1>2, <1>4, <1>8 DEF CacheRead, Read
  <2>. QED BY <1>2, <1>8, <2>1, <2>2, <2>3 DEF Exact
<1>. QED BY <1>7, <1>8

LEMMA ExactNext ==
  ASSUME CInv, RInv', [Next]_vars, NEW t \in Tags, Exact(t),
         pc \in Collecting => cache.at[t].sec = work,
         ~Vague(t), pc = "wr_delete" => OwnMark
  PROVE  Exact(t)'
<1>0. Shows(t) # Junk
  BY ShownWhole
<1>1. CASE UNCHANGED vars \/ Lost
  BY <1>1, QuietExact DEF Lost, vars
<1>2. CASE Mount \/ FormatErase \/ FormatHeader \/ PowerLoss
  BY <1>2, BootExact
<1>3. ASSUME NEW u \in Tags, Query(u) \/ Delete(u) PROVE Exact(t)'
  BY <1>0, <1>3, QueryExact, DeleteExact
<1>4. ASSUME NEW u \in Tags, NEW v \in Values, Append(u, v) PROVE Exact(t)'
  BY <1>4, QuietExact DEF Append, AppendInPlace, AppendCollect, AppendFull, flashVars
<1>5. CASE GcErase \/ GcCopy \/ GcSkip
  BY <1>0, <1>5, CollectExact DEF GcErase, GcCopy, GcSkip, Collecting
<1>6. CASE GcPlace \/ GcFull
  BY <1>0, <1>6, SwitchExact
<1>7. CASE WriteMeta \/ WriteData
  BY <1>0, <1>7, WriteMetaExact, WriteDataExact
<1>8. CASE CheckFails
  BY <1>8, QuietExact DEF CheckFails, flashVars
<1>9. CASE ConfirmNew \/ ConfirmOver
  BY <1>0, <1>9, ConfirmNewExact, ConfirmOverExact
<1>10. CASE StrikeMark
  BY <1>0, <1>10, StrikeExact DEF StrikeMark
<1>11. CASE StrikeGone
  <2>1. OwnMark /\ mark = Gone
    BY <1>11 DEF StrikeGone
  <2>. QED BY <2>1, NilAssumption DEF OwnMark, Address, Sector, Offset
<1>. QED BY <1>1, <1>2, <1>3, <1>4, <1>5, <1>6, <1>7, <1>8, <1>9, <1>10, <1>11 DEF Next, Proceed

(* The invariant of the cache holds in every behaviour. *)
THEOREM CacheInvariance == Spec => []CInv
<1>1. Init => CacheInv
  <2>. SUFFICES ASSUME Init PROVE CacheInv
    OBVIOUS
  <2>1. (\A t \in Tags : ~Cached(cache, t)) /\ LastBlock
    BY DEF Init, LastBlock, EmptyCache, Cached
  <2>2. \A s \in Sector : Whole(flash[s])
    BY NothingFound DEF Init, Whole
  <2>. QED BY <2>1, <2>2 DEF CacheInv
<1>2. CInv /\ RInv' /\ [Next]_vars => CacheInv'
  BY CacheInvNext
<1>3. RInv /\ CacheInv <=> CInv
  BY DEF CInv
<1>. QED BY <1>1, <1>2, <1>3, StoreInvariance, PTL DEF Spec

(* For any number of tags, cache slots and cells: what the cache hands out *)
(* for a tag stops being what a search finds only by a second collection   *)
(* over an old entry, for a tag with two old live blocks, or by a strike   *)
(* at a stale mark_address.                                                *)
THEOREM CacheStaysExactAlways == Spec => CacheStaysExact
<1>1. CInv /\ RInv' /\ [Next]_vars =>
        \A t \in Tags :
          Exact(t) /\ ~Exact(t)' =>
            \/ pc \in {"gc_erase", "gc_copy"} /\ cache.at[t].sec # work
            \/ Vague(t)
            \/ pc = "wr_delete" /\ ~OwnMark
  BY ExactNext DEF Collecting
<1>. QED BY <1>1, CacheInvariance, StoreInvariance, PTL DEF Spec, CacheStaysExact
=============================================================================
