--------------------------- MODULE PanelBusProofs ---------------------------
(***************************************************************************)
(* The picture arrives and the panel sleeps, byte by byte, for every size  *)
(* of the panel and every content of the frame buffer.                     *)
(*                                                                         *)
(* Each call sends bytes that are known one by one.  The invariant says at *)
(* which byte of which call the driver is, and what the bytes before it    *)
(* have made of the panel.                                                 *)
(***************************************************************************)
EXTENDS PanelBus, SequenceTheorems, WellFoundedInduction, TLAPS

-----------------------------------------------------------------------------
(* FlattenSeq *)

LEMMA LeastNumber ==
  ASSUME NEW S, S \subseteq Nat, S # {}
  PROVE  \E n \in S : \A m \in S : n <= m
<1>. DEFINE R == OpToRel(<, Nat)
<1>1. IsWellFoundedOn(R, Nat)
  BY NatLessThanWellFounded
<1>2. \A m, n \in Nat : m < n => <<m, n>> \in R
  BY DEF OpToRel
<1>. HIDE DEF R
<1>3. PICK n \in S : \A m \in S : <<m, n>> \notin R
  BY <1>1, WFMin
<1>4. \A m, k \in Nat : ~(m < k) => k <= m
  OBVIOUS
<1>. QED BY <1>2, <1>3, <1>4


(* f gives the concatenations of the first parts of ss, the function that  *)
(* the recursion of FlattenSeq describes.                                  *)
Flattens(ss, f) ==
  f = [i \in 1..Len(ss) |-> IF i = 1 THEN ss[i] ELSE f[i - 1] \o ss[i]]

(* There is such a function, ... *)
LEMMA FlattenExists ==
  ASSUME NEW T, NEW ss \in Seq(Seq(T))
  PROVE  \E f \in [1..Len(ss) -> Seq(T)] : Flattens(ss, f)
<1>. DEFINE P(n, f) == \A i \in 1..n : f[i] = IF i = 1 THEN ss[i] ELSE f[i - 1] \o ss[i]
            S == {n \in 0..Len(ss) : ~ \E f \in [1..n -> Seq(T)] : P(n, f)}
<1>1. ASSUME S # {} PROVE FALSE
  <2>. HIDE DEF P
  <2>1. PICK n \in S : \A m \in S : n <= m
    <3>1. S \subseteq Nat
      BY LenProperties
    <3>. HIDE DEF S
    <3>. QED BY <1>1, <3>1, LeastNumber
  <2>. USE DEF P
  <2>2. n # 0
    <3>. DEFINE e == [i \in 1..0 |-> <<>>]
    <3>1. e \in [1..0 -> Seq(T)] /\ P(0, e)
      OBVIOUS
    <3>. HIDE DEF P, e
    <3>. QED BY <2>1, <3>1
  <2>3. n \in Nat \ {0} /\ n <= Len(ss) /\ n - 1 \in 0..Len(ss) /\ n - 1 \notin S
    <3>1. S \subseteq 0..Len(ss) /\ Len(ss) \in Nat
      BY LenProperties
    <3>. HIDE DEF S
    <3>. QED BY <2>1, <2>2, <3>1
  <2>4. PICK f \in [1..(n - 1) -> Seq(T)] : P(n - 1, f)
    <3>. HIDE DEF P
    <3>. QED BY <2>3
  <2>. HIDE DEF S
  <2>. DEFINE g == [i \in 1..n |-> IF i < n THEN f[i] ELSE IF n = 1 THEN ss[n] ELSE f[n - 1] \o ss[n]]
  <2>5. ss[n] \in Seq(T)
    BY <2>3
  <2>6. n > 1 => f[n - 1] \in Seq(T) /\ f[n - 1] \o ss[n] \in Seq(T)
    BY <2>3, <2>4, <2>5, ConcatProperties
  <2>7. g \in [1..n -> Seq(T)]
    BY <2>3, <2>4, <2>5, <2>6
  <2>8. ASSUME NEW i \in 1..n PROVE g[i] = IF i = 1 THEN ss[i] ELSE g[i - 1] \o ss[i]
    <3>1. CASE i = n
      BY <2>3, <3>1
    <3>2. CASE i # n
      <4>1. i \in 1..(n - 1) /\ (i # 1 => i - 1 \in 1..(n - 1))
        BY <2>3, <3>2
      <4>2. f[i] = IF i = 1 THEN ss[i] ELSE f[i - 1] \o ss[i]
        BY <2>4, <4>1
      <4>3. g[i] = f[i] /\ (i # 1 => g[i - 1] = f[i - 1])
        <5>1. \A j \in 1..(n - 1) : j \in 1..n /\ j < n
          BY <2>3
        <5>2. \A j \in 1..n : j < n => g[j] = f[j]
          OBVIOUS
        <5>. HIDE DEF g
        <5>. QED BY <4>1, <5>1, <5>2
      <4>. HIDE DEF g
      <4>. QED BY <4>2, <4>3
    <3>. QED BY <3>1, <3>2
  <2>. HIDE DEF g
  <2>9. P(n, g)
    BY <2>8
  <2>. USE DEF S
  <2>. HIDE DEF P
  <2>. QED BY <2>1, <2>7, <2>9
<1>2. Len(ss) \in 0..Len(ss)
  BY LenProperties
<1>3. PICK f \in [1..Len(ss) -> Seq(T)] : P(Len(ss), f)
  BY <1>1, <1>2
<1>4. Flattens(ss, f)
  BY <1>3 DEF Flattens
<1>. QED BY <1>4

(* ss is the beginning of tt. *)
Begins(ss, tt) ==
  /\ Len(ss) \in Nat /\ Len(tt) \in Nat /\ Len(ss) <= Len(tt)
  /\ \A i \in 1..Len(ss) : ss[i] = tt[i]

(* ... its values follow from the parts, ... *)
LEMMA FlattenUnique ==
  ASSUME NEW ss, NEW tt, NEW f, NEW g, Flattens(ss, f), Flattens(tt, g),
         Begins(ss, tt)
  PROVE  \A i \in 1..Len(ss) : f[i] = g[i]
<1>. DEFINE S == {i \in 1..Len(ss) : f[i] # g[i]}
<1>1. SUFFICES ASSUME S # {} PROVE FALSE
  OBVIOUS
<1>0. S \subseteq Nat
  OBVIOUS
<1>. USE DEF Begins
<1>2. PICK i \in S : \A m \in S : i <= m
  <2>. HIDE DEF S
  <2>. QED BY <1>0, <1>1, LeastNumber
<1>3. i \in 1..Len(ss) /\ i \in 1..Len(tt)
  BY <1>0
<1>4. /\ f[i] = IF i = 1 THEN ss[i] ELSE f[i - 1] \o ss[i]
      /\ g[i] = IF i = 1 THEN tt[i] ELSE g[i - 1] \o tt[i]
  BY <1>3 DEF Flattens
<1>6. i # 1
  BY <1>3, <1>4
<1>5. i - 1 \in 1..Len(ss) /\ i - 1 \notin S
  BY <1>2, <1>3, <1>6
<1>. QED BY <1>2, <1>4, <1>5

(* ... and FlattenSeq is its last value. *)
LEMMA FlattenIs ==
  ASSUME NEW T, NEW ss \in Seq(Seq(T))
  PROVE  /\ Len(ss) = 0 => FlattenSeq(ss) = <<>>
         /\ \E f \in [1..Len(ss) -> Seq(T)] :
              Flattens(ss, f) /\ (Len(ss) # 0 => FlattenSeq(ss) = f[Len(ss)])
<1>. DEFINE f == CHOOSE x : Flattens(ss, x)
<1>1. PICK g \in [1..Len(ss) -> Seq(T)] : Flattens(ss, g)
  BY FlattenExists
<1>2. Flattens(ss, f)
  BY <1>1
<1>3. \A i \in 1..Len(ss) : f[i] = g[i]
  <2>1. Begins(ss, ss)
    BY LenProperties DEF Begins
  <2>. HIDE DEF f
  <2>. QED BY <1>1, <1>2, <2>1, FlattenUnique
<1>4. DOMAIN f = 1..Len(ss) /\ f = [i \in 1..Len(ss) |-> f[i]]
  BY <1>2 DEF Flattens
<1>5. f \in [1..Len(ss) -> Seq(T)]
  BY <1>1, <1>3, <1>4
<1>6. Len(ss) # 0 => FlattenSeq(ss) = f[Len(ss)]
  BY DEF FlattenSeq, Flattens
<1>7. Len(ss) = 0 => FlattenSeq(ss) = <<>>
  BY EmptySeq DEF FlattenSeq
<1>. QED BY <1>2, <1>5, <1>6, <1>7

(* FlattenSeq is a sequence, empty of nothing, and it grows by what is     *)
(* appended.                                                               *)
LEMMA FlattenLaws ==
  ASSUME NEW T, NEW ss \in Seq(Seq(T)), NEW s \in Seq(T)
  PROVE  /\ FlattenSeq(ss) \in Seq(T)
         /\ FlattenSeq(<<>>) = <<>>
         /\ FlattenSeq(Append(ss, s)) = FlattenSeq(ss) \o s
<1>0. PICK tt \in Seq(Seq(T)) : tt = Append(ss, s)
  BY AppendProperties
<1>1. tt \in Seq(Seq(T)) /\ Len(tt) = Len(ss) + 1 /\ Len(ss) \in Nat
  BY <1>0, AppendProperties, LenProperties
<1>2. tt[Len(ss) + 1] = s /\ \A i \in 1..Len(ss) : tt[i] = ss[i]
  BY <1>0, AppendProperties
<1>3. PICK f \in [1..Len(ss) -> Seq(T)] :
        Flattens(ss, f) /\ (Len(ss) # 0 => FlattenSeq(ss) = f[Len(ss)])
  BY FlattenIs
<1>4. PICK g \in [1..Len(tt) -> Seq(T)] :
        Flattens(tt, g) /\ (Len(tt) # 0 => FlattenSeq(tt) = g[Len(tt)])
  BY <1>1, FlattenIs
<1>5. <<>> \in Seq(Seq(T)) /\ <<>> \in Seq(T) /\ Len(<<>>) = 0
  BY EmptySeq, LenProperties
<1>6. FlattenSeq(<<>>) = <<>> /\ (Len(ss) = 0 => FlattenSeq(ss) = <<>>)
  BY <1>5, FlattenIs
<1>7. FlattenSeq(ss) \in Seq(T)
  <2>1. CASE Len(ss) # 0
    <3>1. Len(ss) \in 1..Len(ss)
      BY <1>1, <2>1
    <3>. QED BY <1>3, <2>1, <3>1
  <2>. QED BY <1>5, <1>6, <2>1
<1>8. g[Len(tt)] = IF Len(tt) = 1 THEN tt[Len(tt)] ELSE g[Len(tt) - 1] \o tt[Len(tt)]
  <2>1. Len(tt) \in 1..Len(tt)
    BY <1>1
  <2>. QED BY <1>4, <2>1 DEF Flattens
<1>9. FlattenSeq(tt) = IF Len(ss) = 0 THEN s ELSE g[Len(ss)] \o s
  <2>1. Len(tt) # 0 /\ Len(tt) - 1 = Len(ss) /\ (Len(tt) = 1 <=> Len(ss) = 0) /\ tt[Len(tt)] = s
    BY <1>1, <1>2
  <2>. QED BY <1>4, <1>8, <2>1
<1>10. Len(ss) # 0 => g[Len(ss)] = f[Len(ss)]
  <2>1. Begins(ss, tt)
    BY <1>1, <1>2 DEF Begins
  <2>2. \A i \in 1..Len(ss) : f[i] = g[i]
    BY <1>3, <1>4, <2>1, FlattenUnique
  <2>. QED BY <1>1, <2>2
<1>11. FlattenSeq(tt) = FlattenSeq(ss) \o s
  BY <1>3, <1>6, <1>9, <1>10, ConcatEmptySeq
<1>. QED BY <1>6, <1>7, <1>11, <1>0

(* FlattenSeq of two sequences, one after the other. *)
LEMMA FlattenConcat ==
  ASSUME NEW T, NEW ss \in Seq(Seq(T)), NEW tt \in Seq(Seq(T))
  PROVE  FlattenSeq(ss \o tt) = FlattenSeq(ss) \o FlattenSeq(tt)
<1>. DEFINE u(n) == SubSeq(tt, 1, n)
            S == {n \in 0..Len(tt) : FlattenSeq(ss \o u(n)) # FlattenSeq(ss) \o FlattenSeq(u(n))}
<1>. HIDE DEF u
<1>1. ASSUME S # {} PROVE FALSE
  <2>1. S \subseteq 0..Len(tt) /\ S \subseteq Nat /\ Len(tt) \in Nat
    BY LenProperties
  <2>2. PICK n \in S : \A m \in S : n <= m
    <3>. HIDE DEF S
    <3>. QED BY <1>1, <2>1, LeastNumber
  <2>3. n # 0
    <3>1. u(0) = <<>>
      BY SubSeqEmpty DEF u
    <3>2. ss \o <<>> = ss /\ FlattenSeq(<<>>) = <<>> /\ FlattenSeq(ss) \in Seq(T)
      BY ConcatEmptySeq, FlattenLaws, EmptySeq
    <3>3. FlattenSeq(ss) \o <<>> = FlattenSeq(ss)
      BY <3>2, ConcatEmptySeq
    <3>. QED BY <2>2, <3>1, <3>2, <3>3
  <2>4. n \in 1..Len(tt) /\ n - 1 \in 0..Len(tt) /\ n - 1 \notin S
    <3>. HIDE DEF S
    <3>. QED BY <2>1, <2>2, <2>3
  <2>5. u(n - 1) \in Seq(Seq(T)) /\ tt[n] \in Seq(T)
    BY <2>4, SubSeqProperties, LenProperties, ElementOfSeq DEF u
  <2>. HIDE DEF S
  <2>6. u(n) = Append(u(n - 1), tt[n])
    <3>1. u(n) = u(n - 1) \o <<tt[n]>>
      BY <2>4, SubSeqRecursiveSecond DEF u
    <3>. QED BY <2>5, <3>1, AppendIsConcat
  <2>7. ss \o u(n) = Append(ss \o u(n - 1), tt[n])
    <3>1. /\ u(n) = u(n - 1) \o <<tt[n]>> /\ <<tt[n]>> \in Seq(Seq(T))
          /\ ss \o u(n - 1) \in Seq(Seq(T))
      BY <2>5, <2>6, AppendIsConcat, ConcatProperties
    <3>2. ss \o u(n) = (ss \o u(n - 1)) \o <<tt[n]>>
      <4>. DEFINE e == <<tt[n]>>
                  v == u(n - 1)
      <4>1. ss \in Seq(Seq(T)) /\ v \in Seq(Seq(T)) /\ e \in Seq(Seq(T)) /\ u(n) = v \o e
        BY <2>5, <3>1
      <4>. HIDE DEF e, v
      <4>2. (ss \o v) \o e = ss \o (v \o e)
        BY <4>1, ConcatAssociative
      <4>3. ss \o u(n) = (ss \o v) \o e
        BY <4>1, <4>2
      <4>. QED BY <4>3 DEF e, v
    <3>. QED BY <2>5, <3>1, <3>2, AppendIsConcat
  <2>8. FlattenSeq(ss \o u(n)) = FlattenSeq(ss \o u(n - 1)) \o tt[n]
    <3>1. ss \o u(n - 1) \in Seq(Seq(T))
      BY <2>5, ConcatProperties
    <3>. QED BY <2>5, <2>7, <3>1, FlattenLaws
  <2>9. FlattenSeq(u(n)) = FlattenSeq(u(n - 1)) \o tt[n]
    BY <2>5, <2>6, FlattenLaws
  <2>10. FlattenSeq(ss \o u(n - 1)) = FlattenSeq(ss) \o FlattenSeq(u(n - 1))
    BY <2>4 DEF S
  <2>11. FlattenSeq(ss) \in Seq(T) /\ FlattenSeq(u(n - 1)) \in Seq(T)
    BY <2>5, FlattenLaws
  <2>12. FlattenSeq(ss \o u(n)) = FlattenSeq(ss) \o FlattenSeq(u(n))
    <3>. DEFINE a == FlattenSeq(ss)
                b == FlattenSeq(u(n - 1))
                c == tt[n]
    <3>. HIDE DEF a, b, c
    <3>1. a \in Seq(T) /\ b \in Seq(T) /\ c \in Seq(T)
      BY <2>5, <2>11 DEF a, b, c
    <3>2. (a \o b) \o c = a \o (b \o c)
      BY <3>1, ConcatAssociative, SMTT(60)
    <3>3. FlattenSeq(ss \o u(n)) = (a \o b) \o c
      BY <2>8, <2>10 DEF a, b, c
    <3>4. FlattenSeq(u(n)) = b \o c
      BY <2>9 DEF b, c
    <3>. QED BY <3>2, <3>3, <3>4 DEF a
  <2>. QED BY <2>2, <2>12 DEF S
<1>2. Len(tt) \in 0..Len(tt) /\ u(Len(tt)) = tt
  BY LenProperties, SubSeqFull DEF u
<1>. QED BY <1>1, <1>2

(* FlattenSeq after a map *)
Mapped(F, p) == [i \in 1..Len(p) |-> F[p[i]]]
FlatMap(F, p) == FlattenSeq(Mapped(F, p))

(* The members of a mapped sequence. *)
LEMMA MappedIs ==
  ASSUME NEW C, NEW T, NEW F, \A c \in C : F[c] \in T, NEW p \in Seq(C)
  PROVE  /\ Mapped(F, p) \in Seq(T)
         /\ Len(Mapped(F, p)) = Len(p)
         /\ \A j \in 1..Len(p) : Mapped(F, p)[j] = F[p[j]]
<1>1. Len(p) \in Nat /\ \A i \in 1..Len(p) : p[i] \in C
  BY LenProperties, ElementOfSeq
<1>2. \A i \in 1..Len(p) : F[p[i]] \in T
  BY <1>1
<1>. QED BY <1>1, <1>2 DEF Mapped

(* A mapped sequence in two parts. *)
LEMMA MappedConcat ==
  ASSUME NEW C, NEW F, NEW p \in Seq(C), NEW q \in Seq(C)
  PROVE  Mapped(F, p \o q) =
           Mapped(F, p) \o Mapped(F, q)
<1>0. PICK T : \A c \in C : F[c] \in T
  <2>1. \A c \in C : F[c] \in {F[x] : x \in C}
    OBVIOUS
  <2>. QED BY <2>1
<1>1. PICK r \in Seq(C) : r = p \o q
  BY ConcatProperties
<1>2. Len(p) \in Nat /\ Len(q) \in Nat
  BY LenProperties
<1>3. Len(r) = Len(p) + Len(q)
      /\ \A i \in 1..Len(r) : r[i] = IF i <= Len(p) THEN p[i] ELSE q[i - Len(p)]
  BY <1>1, ConcatProperties
<1>4. PICK a \in Seq(T) : a = Mapped(F, p)
  BY <1>0, MappedIs
<1>5. PICK b \in Seq(T) : b = Mapped(F, q)
  BY <1>0, MappedIs
<1>6. PICK c \in Seq(T) : c = Mapped(F, r)
  BY <1>0, MappedIs
<1>7. Len(a) = Len(p) /\ Len(b) = Len(q) /\ Len(c) = Len(r)
  BY <1>2, <1>3, <1>4, <1>5, <1>6 DEF Mapped
<1>12. /\ \A j \in 1..Len(p) : a[j] = F[p[j]]
       /\ \A j \in 1..Len(q) : b[j] = F[q[j]]
       /\ \A j \in 1..Len(r) : c[j] = F[r[j]]
  BY <1>4, <1>5, <1>6 DEF Mapped
<1>8. PICK d \in Seq(T) : d = a \o b
  BY ConcatProperties
<1>9. Len(d) = Len(p) + Len(q)
      /\ \A i \in 1..Len(p) + Len(q) : d[i] = IF i <= Len(p) THEN a[i] ELSE b[i - Len(p)]
  <2>1. Len(d) = Len(a) + Len(b)
        /\ \A i \in 1..Len(a) + Len(b) : d[i] = IF i <= Len(a) THEN a[i] ELSE b[i - Len(a)]
    BY <1>8, ConcatProperties
  <2>. QED BY <1>7, <2>1
<1>10. ASSUME NEW i \in 1..Len(c) PROVE c[i] = d[i]
  <2>1. i \in 1..Len(r) /\ c[i] = F[r[i]]
    BY <1>7, <1>12
  <2>2. CASE i <= Len(p)
    <3>1. i \in 1..Len(p) /\ r[i] = p[i] /\ d[i] = a[i]
      BY <1>2, <1>3, <1>9, <2>1, <2>2
    <3>. QED BY <1>12, <2>1, <3>1
  <2>3. CASE ~(i <= Len(p))
    <3>1. i - Len(p) \in 1..Len(q) /\ r[i] = q[i - Len(p)] /\ d[i] = b[i - Len(p)]
      BY <1>2, <1>3, <1>9, <2>1, <2>3
    <3>. QED BY <1>12, <2>1, <3>1
  <2>. QED BY <2>2, <2>3
<1>11. c = d
  BY <1>3, <1>7, <1>9, <1>10, SeqEqual
<1>. QED BY <1>1, <1>4, <1>5, <1>6, <1>8, <1>11

(* FlatMap of a sequence: its type, ... *)
LEMMA FlatMapTyped ==
  ASSUME NEW C, NEW T, NEW F \in [C -> Seq(T)], NEW p \in Seq(C)
  PROVE  FlatMap(F, p) \in Seq(T)
BY MappedIs, FlattenLaws, EmptySeq DEF FlatMap

(* ... of none, ... *)
LEMMA FlatMapEmpty ==
  ASSUME NEW F
  PROVE  FlatMap(F, <<>>) = <<>>
<1>1. Mapped(F, <<>>) = <<>>
  BY DEF Mapped
<1>. QED BY <1>1 DEF FlatMap, FlattenSeq

(* ... of one, ... *)
LEMMA FlatMapOne ==
  ASSUME NEW C, NEW T, NEW F \in [C -> Seq(T)], NEW c \in C
  PROVE  FlatMap(F, <<c>>) = F[c]
<1>1. F[c] \in Seq(T) /\ <<>> \in Seq(Seq(T))
  BY EmptySeq
<1>2. Mapped(F, <<c>>) = Append(<<>>, F[c])
  BY DEF Mapped
<1>3. FlattenSeq(Append(<<>>, F[c])) = FlattenSeq(<<>>) \o F[c] /\ FlattenSeq(<<>>) = <<>>
  BY <1>1, FlattenLaws
<1>. QED BY <1>1, <1>2, <1>3, ConcatEmptySeq DEF FlatMap

(* ... and of two parts. *)
LEMMA FlatMapConcat ==
  ASSUME NEW C, NEW T, NEW F \in [C -> Seq(T)], NEW p \in Seq(C), NEW q \in Seq(C)
  PROVE  FlatMap(F, p \o q) = FlatMap(F, p) \o FlatMap(F, q)
<1>1. Mapped(F, p \o q) = Mapped(F, p) \o Mapped(F, q)
  BY MappedConcat
<1>2. Mapped(F, p) \in Seq(Seq(T)) /\ Mapped(F, q) \in Seq(Seq(T))
  BY MappedIs
<1>3. FlattenSeq(Mapped(F, p) \o Mapped(F, q)) = FlattenSeq(Mapped(F, p)) \o FlattenSeq(Mapped(F, q))
  BY <1>2, FlattenConcat
<1>. QED BY <1>1, <1>3 DEF FlatMap

-----------------------------------------------------------------------------
(* What a call sends *)

SentByte == [dc : {0, 1}, byte : Int]
Command == [cmd : Int, data : Seq(Int), plane : BOOLEAN]

(* What a command sends: its byte, then its data. *)
LEMMA SentIs ==
  ASSUME NEW t \in Command
  PROVE  /\ Sent(t) \in Seq(SentByte) /\ Len(Sent(t)) = 1 + Len(t.data)
         /\ Sent(t)[1] = [dc |-> 0, byte |-> t.cmd]
         /\ \A i \in 1..Len(t.data) : Sent(t)[1 + i] = [dc |-> 1, byte |-> t.data[i]]
<1>1. t.data \in Seq(Int) /\ t.cmd \in Int /\ Len(t.data) \in Nat
  BY LenProperties DEF Command
<1>2. PICK n \in Nat : n = Len(t.data)
  BY <1>1
<1>3. PICK c \in Seq(SentByte) : c = <<[dc |-> 0, byte |-> t.cmd]>>
  <2>1. [dc |-> 0, byte |-> t.cmd] \in SentByte
    BY <1>1 DEF SentByte
  <2>2. PICK x \in SentByte : x = [dc |-> 0, byte |-> t.cmd]
    BY <2>1
  <2>3. <<x>> \in Seq(SentByte)
    OBVIOUS
  <2>. QED BY <2>2, <2>3
<1>4. PICK d \in Seq(SentByte) : d = [i \in 1..n |-> [dc |-> 1, byte |-> t.data[i]]]
  <2>1. \A i \in 1..n : t.data[i] \in Int
    BY <1>1, <1>2
  <2>2. \A i \in 1..n : [dc |-> 1, byte |-> t.data[i]] \in SentByte
    BY <2>1 DEF SentByte
  <2>. DEFINE d == [i \in 1..n |-> [dc |-> 1, byte |-> t.data[i]]]
  <2>3. d \in [1..n -> SentByte]
    BY <2>2
  <2>4. d \in Seq(SentByte)
    BY <2>3, SeqDef
  <2>. QED BY <2>4
<1>5. Len(c) = 1 /\ c[1] = [dc |-> 0, byte |-> t.cmd]
  BY <1>3
<1>6. Len(d) = n /\ \A i \in 1..n : d[i] = [dc |-> 1, byte |-> t.data[i]]
  BY <1>2, <1>4
<1>7. Sent(t) = c \o d
  BY <1>2, <1>3, <1>4 DEF Sent
<1>8. /\ c \o d \in Seq(SentByte) /\ Len(c \o d) = 1 + n
      /\ \A i \in 1..1 + n : (c \o d)[i] = IF i <= 1 THEN c[i] ELSE d[i - 1]
  <2>1. /\ c \o d \in Seq(SentByte) /\ Len(c \o d) = Len(c) + Len(d)
        /\ \A i \in 1..Len(c) + Len(d) : (c \o d)[i] = IF i <= Len(c) THEN c[i] ELSE d[i - Len(c)]
    BY ConcatProperties
  <2>. QED BY <1>5, <1>6, <2>1
<1>9. ASSUME NEW i \in 1..n PROVE (c \o d)[1 + i] = d[i]
  BY <1>2, <1>8
<1>10. (c \o d)[1] = c[1]
  BY <1>2, <1>8
<1>. QED BY <1>2, <1>5, <1>6, <1>7, <1>8, <1>9, <1>10

SentF == [t \in Command |-> Sent(t)]

(* AllSent is a FlatMap, ... *)
LEMMA AllSentMaps ==
  ASSUME NEW ts \in Seq(Command)
  PROVE  AllSent(ts) = FlatMap(SentF, ts)
<1>1. \A i \in 1..Len(ts) : SentF[ts[i]] = Sent(ts[i])
  BY DEF SentF
<1>. QED BY <1>1 DEF AllSent, FlatMap, Mapped

LEMMA SentFTyped == SentF \in [Command -> Seq(SentByte)]
BY SentIs DEF SentF

(* ... so that the bytes of two calls follow each other. *)
LEMMA AllSentConcat ==
  ASSUME NEW ts \in Seq(Command), NEW us \in Seq(Command)
  PROVE  AllSent(ts \o us) = AllSent(ts) \o AllSent(us)
<1>1. FlatMap(SentF, ts \o us) = FlatMap(SentF, ts) \o FlatMap(SentF, us)
  BY SentFTyped, FlatMapConcat
<1>2. ts \o us \in Seq(Command)
  BY ConcatProperties
<1>. QED BY <1>1, <1>2, AllSentMaps

LEMMA AllSentIs ==
  ASSUME NEW ts \in Seq(Command)
  PROVE  AllSent(ts) \in Seq(SentByte)
BY AllSentMaps, SentFTyped, FlatMapTyped

LEMMA AllSentEmpty == AllSent(<<>>) = <<>>
<1>1. <<>> \in Seq(Command)
  OBVIOUS
<1>. QED BY <1>1, AllSentMaps, FlatMapEmpty

LEMMA AllSentOne ==
  ASSUME NEW t \in Command
  PROVE  AllSent(<<t>>) = Sent(t)
<1>1. <<t>> \in Seq(Command)
  OBVIOUS
<1>2. FlatMap(SentF, <<t>>) = SentF[t]
  BY SentFTyped, FlatMapOne
<1>. QED BY <1>1, <1>2, AllSentMaps DEF SentF

(* A byte sent as a command, and one sent as data. *)
C(b) == [dc |-> 0, byte |-> b]
D(b) == [dc |-> 1, byte |-> b]

(* The first k commands of ts send the first n bytes of o. *)
SentAs(ts, k, o, n) ==
  /\ Len(AllSent(SubSeq(ts, 1, k))) = n
  /\ \A i \in 1..n : AllSent(SubSeq(ts, 1, k))[i] = o[i]

LEMMA NothingSent == ASSUME NEW ts, NEW o PROVE SentAs(ts, 0, o, 0)
<1>1. SubSeq(ts, 1, 0) = <<>>
  BY SubSeqEmpty
<1>2. AllSent(SubSeq(ts, 1, 0)) = <<>>
  BY <1>1, AllSentEmpty
<1>3. Len(<<>>) = 0 /\ 1..0 = {}
  OBVIOUS
<1>. QED BY <1>2, <1>3 DEF SentAs

(* A command more: o goes on with its byte and its data. *)
LEMMA SentNext ==
  ASSUME NEW ts \in Seq(Command), NEW k \in Nat, k < Len(ts), NEW o, NEW n \in Nat,
         SentAs(ts, k, o, n),
         o[n + 1] = C(ts[k + 1].cmd),
         \A j \in 1..Len(ts[k + 1].data) : o[n + 1 + j] = D(ts[k + 1].data[j])
  PROVE  SentAs(ts, k + 1, o, n + 1 + Len(ts[k + 1].data))
<1>1. k + 1 \in 1..Len(ts) /\ Len(ts) \in Nat /\ (k + 1) - 1 = k
  BY LenProperties
<1>2. PICK t \in Command : t = ts[k + 1]
  BY <1>1, ElementOfSeq
<1>3. PICK u \in Seq(Command) : u = SubSeq(ts, 1, k)
  <2>1. \A i \in 1..k : ts[i] \in Command
    BY <1>1, ElementOfSeq
  <2>2. SubSeq(ts, 1, k) \in Seq(Command)
    BY <2>1, SubSeqProperties
  <2>. QED BY <2>2
<1>4. SubSeq(ts, 1, k + 1) = u \o <<t>>
  BY <1>1, <1>2, <1>3, SubSeqRecursiveSecond
<1>5. AllSent(u \o <<t>>) = AllSent(u) \o Sent(t)
  <2>1. <<t>> \in Seq(Command)
    OBVIOUS
  <2>2. AllSent(u \o <<t>>) = AllSent(u) \o AllSent(<<t>>)
    BY <2>1, AllSentConcat
  <2>. QED BY <2>2, AllSentOne
<1>6. PICK a \in Seq(SentByte) : a = AllSent(u)
  BY AllSentIs
<1>7. PICK b \in Seq(SentByte) : b = Sent(t)
  BY SentIs
<1>8. PICK m \in Nat : m = Len(t.data)
  BY LenProperties DEF Command
<1>9. b[1] = C(t.cmd) /\ \A j \in 1..m : b[1 + j] = D(t.data[j])
  BY <1>7, <1>8, SentIs DEF C, D
<1>10. \A i \in 1..n : a[i] = o[i]
  BY <1>3, <1>6 DEF SentAs
<1>14. Len(a) = n /\ Len(b) = 1 + m
  BY <1>3, <1>6, <1>7, <1>8, SentIs DEF SentAs
<1>15. PICK d \in Seq(SentByte) : d = a \o b
  BY ConcatProperties
<1>11. /\ Len(d) = Len(a) + Len(b)
       /\ \A i \in 1..Len(a) + Len(b) : d[i] = IF i <= Len(a) THEN a[i] ELSE b[i - Len(a)]
  BY <1>15, ConcatProperties
<1>12. Len(d) = n + 1 + m
  BY ONLY n \in Nat, m \in Nat, <1>11, <1>14
<1>16. \A i \in 1..(n + 1 + m) : d[i] = IF i <= n THEN a[i] ELSE b[i - n]
  BY ONLY n \in Nat, m \in Nat, <1>11, <1>14
<1>13. ASSUME NEW i \in 1..(n + 1 + m) PROVE d[i] = o[i]
  <2>1. d[i] = IF i <= n THEN a[i] ELSE b[i - n]
    BY <1>16
  <2>2. CASE i <= n
    <3>1. i \in 1..n
      BY <2>2
    <3>. QED BY <1>10, <2>1, <2>2, <3>1
  <2>3. CASE i = n + 1
    <3>1. b[i - n] = b[1] /\ ~(i <= n)
      BY <2>3
    <3>. QED BY <1>2, <1>9, <2>1, <2>3, <3>1
  <2>4. CASE i > n + 1
    <3>1. PICK j \in 1..m : i = n + 1 + j /\ i - n = 1 + j
      <4>1. i - n - 1 \in 1..m /\ i = n + 1 + (i - n - 1)
        BY <2>4
      <4>. QED BY <4>1
    <3>2. b[1 + j] = o[n + 1 + j]
      BY <1>2, <1>8, <1>9
    <3>3. d[i] = b[1 + j]
      BY <2>1, <2>4, <3>1
    <3>. QED BY <3>1, <3>2, <3>3
  <2>5. i <= n \/ i = n + 1 \/ i > n + 1
    BY <1>8
  <2>. QED BY <2>2, <2>3, <2>4, <2>5
<1>. QED BY <1>2, <1>3, <1>4, <1>5, <1>6, <1>7, <1>8, <1>12, <1>13, <1>15 DEF SentAs

(* After n bytes o goes on with command k + 1, which has m data. *)
NextBytes(ts, k, o, n, m) ==
  /\ k < Len(ts)
  /\ Len(ts[k + 1].data) = m
  /\ o[n + 1] = C(ts[k + 1].cmd)
  /\ \A j \in 1..m : o[n + 1 + j] = D(ts[k + 1].data[j])

LEMMA SentMore ==
  ASSUME NEW ts \in Seq(Command), NEW o, NEW k \in Nat, NEW n \in Nat, NEW m \in Nat,
         SentAs(ts, k, o, n), NextBytes(ts, k, o, n, m),
         NEW h, h = k + 1, NEW l, l = n + 1 + m
  PROVE  SentAs(ts, h, o, l)
BY SentNext DEF NextBytes

(* The 27 bytes of epd_open(). *)
OpenBytes ==
  <<C(18),
    C(1), D(Height - 1), D(0), D(0),
    C(17), D(3),
    C(68), D(0), D(RamWidth - 1),
    C(69), D(0), D(0), D(Height - 1), D(120),
    C(60), D(5),
    C(24), D(128),
    C(33), D(0), D(128),
    C(78), D(0),
    C(79), D(0), D(0)>>

(* epd_open() sends them, command by command. *)
LEMMA OpenSent ==
  /\ OpenCmds \in Seq(Command)
  /\ Len(AllSent(OpenCmds)) = 27
  /\ \A i \in 1..27 : AllSent(OpenCmds)[i] = OpenBytes[i]
<1>1. PICK ts \in Seq(Command) : ts = OpenCmds
  <2>. USE DEF SW_RESET, DRIVER_OUTPUT_CTRL, DATA_ENTRY_MODE, SET_RAM_X_ADDR, SET_RAM_Y_ADDR,
           BORDER_WAVEFORM_CTRL, TEMP_SENSOR_CTRL, DISP_UPDATE_CTRL, SET_RAM_X_COUNTER, SET_RAM_Y_COUNTER
  <2>1. OpenCmds \in Seq(Command)
    BY SizeAssumption DEF OpenCmds, Command, Cmd
  <2>. QED BY <2>1
<1>0. ts \in Seq(Command)
  OBVIOUS
<1>2. PICK o : o = OpenBytes
  OBVIOUS
<1>3. /\ Len(ts) = 10
      /\ ts[1].cmd = 18 /\ Len(ts[1].data) = 0
      /\ ts[2].cmd = 1 /\ Len(ts[2].data) = 3 /\ ts[2].data[1] = Height - 1 /\ ts[2].data[2] = 0 /\ ts[2].data[3] = 0
      /\ ts[3].cmd = 17 /\ Len(ts[3].data) = 1 /\ ts[3].data[1] = 3
      /\ ts[4].cmd = 68 /\ Len(ts[4].data) = 2 /\ ts[4].data[1] = 0 /\ ts[4].data[2] = RamWidth - 1
      /\ ts[5].cmd = 69 /\ Len(ts[5].data) = 4 /\ ts[5].data[1] = 0 /\ ts[5].data[2] = 0 /\ ts[5].data[3] = Height - 1 /\ ts[5].data[4] = 120
      /\ ts[6].cmd = 60 /\ Len(ts[6].data) = 1 /\ ts[6].data[1] = 5
      /\ ts[7].cmd = 24 /\ Len(ts[7].data) = 1 /\ ts[7].data[1] = 128
      /\ ts[8].cmd = 33 /\ Len(ts[8].data) = 2 /\ ts[8].data[1] = 0 /\ ts[8].data[2] = 128
      /\ ts[9].cmd = 78 /\ Len(ts[9].data) = 1 /\ ts[9].data[1] = 0
      /\ ts[10].cmd = 79 /\ Len(ts[10].data) = 2 /\ ts[10].data[1] = 0 /\ ts[10].data[2] = 0
  BY <1>1 DEF OpenCmds, Cmd, SW_RESET, DRIVER_OUTPUT_CTRL, DATA_ENTRY_MODE, SET_RAM_X_ADDR, SET_RAM_Y_ADDR,
           BORDER_WAVEFORM_CTRL, TEMP_SENSOR_CTRL, DISP_UPDATE_CTRL, SET_RAM_X_COUNTER, SET_RAM_Y_COUNTER
<1>4. /\ o[1] = C(18)
      /\ o[2] = C(1)
      /\ o[3] = D(Height - 1)
      /\ o[4] = D(0)
      /\ o[5] = D(0)
      /\ o[6] = C(17)
      /\ o[7] = D(3)
      /\ o[8] = C(68)
      /\ o[9] = D(0)
      /\ o[10] = D(RamWidth - 1)
      /\ o[11] = C(69)
      /\ o[12] = D(0)
      /\ o[13] = D(0)
      /\ o[14] = D(Height - 1)
      /\ o[15] = D(120)
      /\ o[16] = C(60)
      /\ o[17] = D(5)
      /\ o[18] = C(24)
      /\ o[19] = D(128)
      /\ o[20] = C(33)
      /\ o[21] = D(0)
      /\ o[22] = D(128)
      /\ o[23] = C(78)
      /\ o[24] = D(0)
      /\ o[25] = C(79)
      /\ o[26] = D(0)
      /\ o[27] = D(0)
  BY <1>2 DEF OpenBytes
<1>5. SentAs(ts, 0, o, 0)
  BY NothingSent
<1>6. NextBytes(ts, 0, o, 0, 0)
  <2>1. Len(ts) = 10 /\ ts[1].cmd = 18 /\ Len(ts[1].data) = 0
    BY <1>3
  <2>2. o[1] = C(18)
    BY <1>4
  <2>. QED BY ONLY <2>1, <2>2 DEF NextBytes
<1>7. SentAs(ts, 1, o, 1)
  BY ONLY <1>0, <1>5, <1>6, SentMore
<1>8. NextBytes(ts, 1, o, 1, 3)
  <2>1. Len(ts) = 10 /\ ts[2].cmd = 1 /\ Len(ts[2].data) = 3 /\ ts[2].data[1] = Height - 1 /\ ts[2].data[2] = 0 /\ ts[2].data[3] = 0
    BY <1>3
  <2>2. o[2] = C(1) /\ o[3] = D(Height - 1) /\ o[4] = D(0) /\ o[5] = D(0)
    BY <1>4
  <2>. QED BY ONLY <2>1, <2>2 DEF NextBytes
<1>9. SentAs(ts, 2, o, 5)
  BY ONLY <1>0, <1>7, <1>8, SentMore
<1>10. NextBytes(ts, 2, o, 5, 1)
  <2>1. Len(ts) = 10 /\ ts[3].cmd = 17 /\ Len(ts[3].data) = 1 /\ ts[3].data[1] = 3
    BY <1>3
  <2>2. o[6] = C(17) /\ o[7] = D(3)
    BY <1>4
  <2>. QED BY ONLY <2>1, <2>2 DEF NextBytes
<1>11. SentAs(ts, 3, o, 7)
  BY ONLY <1>0, <1>9, <1>10, SentMore
<1>12. NextBytes(ts, 3, o, 7, 2)
  <2>1. Len(ts) = 10 /\ ts[4].cmd = 68 /\ Len(ts[4].data) = 2 /\ ts[4].data[1] = 0 /\ ts[4].data[2] = RamWidth - 1
    BY <1>3
  <2>2. o[8] = C(68) /\ o[9] = D(0) /\ o[10] = D(RamWidth - 1)
    BY <1>4
  <2>. QED BY ONLY <2>1, <2>2 DEF NextBytes
<1>13. SentAs(ts, 4, o, 10)
  BY ONLY <1>0, <1>11, <1>12, SentMore
<1>14. NextBytes(ts, 4, o, 10, 4)
  <2>1. Len(ts) = 10 /\ ts[5].cmd = 69 /\ Len(ts[5].data) = 4 /\ ts[5].data[1] = 0 /\ ts[5].data[2] = 0 /\ ts[5].data[3] = Height - 1 /\ ts[5].data[4] = 120
    BY <1>3
  <2>2. o[11] = C(69) /\ o[12] = D(0) /\ o[13] = D(0) /\ o[14] = D(Height - 1) /\ o[15] = D(120)
    BY <1>4
  <2>. QED BY ONLY <2>1, <2>2 DEF NextBytes
<1>15. SentAs(ts, 5, o, 15)
  BY ONLY <1>0, <1>13, <1>14, SentMore
<1>16. NextBytes(ts, 5, o, 15, 1)
  <2>1. Len(ts) = 10 /\ ts[6].cmd = 60 /\ Len(ts[6].data) = 1 /\ ts[6].data[1] = 5
    BY <1>3
  <2>2. o[16] = C(60) /\ o[17] = D(5)
    BY <1>4
  <2>. QED BY ONLY <2>1, <2>2 DEF NextBytes
<1>17. SentAs(ts, 6, o, 17)
  BY ONLY <1>0, <1>15, <1>16, SentMore
<1>18. NextBytes(ts, 6, o, 17, 1)
  <2>1. Len(ts) = 10 /\ ts[7].cmd = 24 /\ Len(ts[7].data) = 1 /\ ts[7].data[1] = 128
    BY <1>3
  <2>2. o[18] = C(24) /\ o[19] = D(128)
    BY <1>4
  <2>. QED BY ONLY <2>1, <2>2 DEF NextBytes
<1>19. SentAs(ts, 7, o, 19)
  BY ONLY <1>0, <1>17, <1>18, SentMore
<1>20. NextBytes(ts, 7, o, 19, 2)
  <2>1. Len(ts) = 10 /\ ts[8].cmd = 33 /\ Len(ts[8].data) = 2 /\ ts[8].data[1] = 0 /\ ts[8].data[2] = 128
    BY <1>3
  <2>2. o[20] = C(33) /\ o[21] = D(0) /\ o[22] = D(128)
    BY <1>4
  <2>. QED BY ONLY <2>1, <2>2 DEF NextBytes
<1>21. SentAs(ts, 8, o, 22)
  BY ONLY <1>0, <1>19, <1>20, SentMore
<1>22. NextBytes(ts, 8, o, 22, 1)
  <2>1. Len(ts) = 10 /\ ts[9].cmd = 78 /\ Len(ts[9].data) = 1 /\ ts[9].data[1] = 0
    BY <1>3
  <2>2. o[23] = C(78) /\ o[24] = D(0)
    BY <1>4
  <2>. QED BY ONLY <2>1, <2>2 DEF NextBytes
<1>23. SentAs(ts, 9, o, 24)
  BY ONLY <1>0, <1>21, <1>22, SentMore
<1>24. NextBytes(ts, 9, o, 24, 2)
  <2>1. Len(ts) = 10 /\ ts[10].cmd = 79 /\ Len(ts[10].data) = 2 /\ ts[10].data[1] = 0 /\ ts[10].data[2] = 0
    BY <1>3
  <2>2. o[25] = C(79) /\ o[26] = D(0) /\ o[27] = D(0)
    BY <1>4
  <2>. QED BY ONLY <2>1, <2>2 DEF NextBytes
<1>25. SentAs(ts, 10, o, 27)
  BY ONLY <1>0, <1>23, <1>24, SentMore
<1>26. SubSeq(ts, 1, 10) = ts
  BY <1>3, SubSeqFull
<1>. QED BY <1>1, <1>2, <1>25, <1>26 DEF SentAs

-----------------------------------------------------------------------------
(* Frame buffer, planes and RAM *)

Picture == [0..(EpdRamSize - 1) -> Byte]

(* The sizes, as numbers. *)
LEMMA Sizes ==
  /\ RamWidth \in 1..256 /\ Height \in 1..256
  /\ RamWidth <= PanelWidth /\ Height <= PanelHeight
  /\ PanelWidth \in 1..256 /\ PanelHeight \in 1..256
  /\ EpdPartRamSize \in Nat \ {0} /\ EpdRamSize = 2 * EpdPartRamSize
  /\ EpdPartRamSize = RamWidth * Height
<1>1. \A a, b \in Nat \ {0} : a * b \in Nat \ {0}
  OBVIOUS
<1>2. /\ RamWidth \in 1..256 /\ Height \in 1..256
      /\ RamWidth <= PanelWidth /\ Height <= PanelHeight
      /\ PanelWidth \in 1..256 /\ PanelHeight \in 1..256
  BY SizeAssumption
<1>3. EpdPartRamSize \in Nat \ {0}
  <2>1. RamWidth \in Nat \ {0} /\ Height \in Nat \ {0}
    BY SizeAssumption
  <2>. QED BY <1>1, <2>1 DEF EpdPartRamSize
<1>. QED BY <1>2, <1>3 DEF EpdRamSize, EpdPartRamSize

LEMMA FramesArePictures == Frames \cup {ZeroFrame} \subseteq Picture
<1>1. ZeroFrame \in Picture
  BY DEF ZeroFrame, Picture, Byte
<1>2. Frames \subseteq Picture
  BY SizeAssumption DEF Picture
<1>. QED BY <1>1, <1>2

(* A pixel has two bits. *)
LEMMA PixelIs ==
  ASSUME NEW f \in Picture, NEW p \in 0..(4 * EpdRamSize - 1)
  PROVE  Pixel(f, p) \in 0..3
<1>1. p \div 4 \in 0..(EpdRamSize - 1) /\ p % 4 \in 0..3
  BY Sizes
<1>2. PICK b \in Int : b = f[p \div 4] /\ b >= 0
  BY <1>1 DEF Picture, Byte
<1>3. \A d \in {1, 4, 16, 64} : (b \div d) % 4 \in 0..3
  BY <1>2
<1>4. 4^(p % 4) \in {1, 4, 16, 64}
  <2>1. 4^0 = 1 /\ 4^1 = 4 /\ 4^2 = 16 /\ 4^3 = 64
    OBVIOUS
  <2>2. p % 4 = 0 \/ p % 4 = 1 \/ p % 4 = 2 \/ p % 4 = 3
    BY <1>1
  <2>. QED BY <2>1, <2>2
<1>. QED BY <1>2, <1>3, <1>4 DEF Pixel

(* Eight bits make a byte, and are the bits of that byte. *)
LEMMA EightBits ==
  ASSUME NEW a0 \in {0, 1}, NEW a1 \in {0, 1}, NEW a2 \in {0, 1}, NEW a3 \in {0, 1},
         NEW a4 \in {0, 1}, NEW a5 \in {0, 1}, NEW a6 \in {0, 1}, NEW a7 \in {0, 1},
         NEW v, v = a0 * 128 + a1 * 64 + a2 * 32 + a3 * 16 + a4 * 8 + a5 * 4 + a6 * 2 + a7 * 1
  PROVE  /\ v \in 0..255
         /\ (v \div 128) % 2 = a0 /\ (v \div 64) % 2 = a1 /\ (v \div 32) % 2 = a2
         /\ (v \div 16) % 2 = a3 /\ (v \div 8) % 2 = a4 /\ (v \div 4) % 2 = a5
         /\ (v \div 2) % 2 = a6 /\ (v \div 1) % 2 = a7
OBVIOUS

LEMMA Powers ==
  /\ 2^(7 - 0) = 128 /\ 2^(7 - 1) = 64 /\ 2^(7 - 2) = 32 /\ 2^(7 - 3) = 16
  /\ 2^(7 - 4) = 8 /\ 2^(7 - 5) = 4 /\ 2^(7 - 6) = 2 /\ 2^(7 - 7) = 1
<1>1. /\ 7 - 0 = 7 /\ 7 - 1 = 6 /\ 7 - 2 = 5 /\ 7 - 3 = 4
      /\ 7 - 4 = 3 /\ 7 - 5 = 2 /\ 7 - 6 = 1 /\ 7 - 7 = 0
  OBVIOUS
<1>2. /\ 2^7 = 128 /\ 2^6 = 64 /\ 2^5 = 32 /\ 2^4 = 16 /\ 2^3 = 8 /\ 2^2 = 4 /\ 2^1 = 2 /\ 2^0 = 1
  OBVIOUS
<1>. QED BY <1>1, <1>2

(* A byte of a plane has the masked bits of its eight pixels, the first    *)
(* highest.                                                                *)
LEMMA BitScaleIs ==
  ASSUME NEW f \in Picture, NEW index \in 0..(EpdPartRamSize - 1), NEW mask \in {1, 2}
  PROVE  /\ BitScale(f, index, mask) \in 0..255
         /\ \A k \in 0..7 : (BitScale(f, index, mask) \div 2^(7 - k)) % 2
                              = MaskedBit(Pixel(f, 8 * index + k), mask)
<1>. DEFINE a(k) == MaskedBit(Pixel(f, 8 * index + k), mask)
<1>1. \A k \in 0..7 : a(k) \in {0, 1}
  <2>. TAKE k \in 0..7
  <2>1. 8 * index + k \in 0..(4 * EpdRamSize - 1)
    BY Sizes
  <2>2. PICK v \in 0..3 : v = Pixel(f, 8 * index + k)
    BY <2>1, PixelIs
  <2>3. v % 2 \in {0, 1} /\ v \div 2 \in {0, 1}
    OBVIOUS
  <2>. QED BY <2>2, <2>3 DEF MaskedBit
<1>2. BitScale(f, index, mask) = a(0) * 128 + a(1) * 64 + a(2) * 32 + a(3) * 16
        + a(4) * 8 + a(5) * 4 + a(6) * 2 + a(7) * 1
  BY Powers DEF BitScale
<1>. HIDE DEF a
<1>3. /\ a(0) \in {0, 1} /\ a(1) \in {0, 1} /\ a(2) \in {0, 1} /\ a(3) \in {0, 1}
      /\ a(4) \in {0, 1} /\ a(5) \in {0, 1} /\ a(6) \in {0, 1} /\ a(7) \in {0, 1}
  BY <1>1
<1>10. PICK b0 \in {0, 1} : b0 = a(0)
  BY <1>3
<1>11. PICK b1 \in {0, 1} : b1 = a(1)
  BY <1>3
<1>12. PICK b2 \in {0, 1} : b2 = a(2)
  BY <1>3
<1>13. PICK b3 \in {0, 1} : b3 = a(3)
  BY <1>3
<1>14. PICK b4 \in {0, 1} : b4 = a(4)
  BY <1>3
<1>15. PICK b5 \in {0, 1} : b5 = a(5)
  BY <1>3
<1>16. PICK b6 \in {0, 1} : b6 = a(6)
  BY <1>3
<1>17. PICK b7 \in {0, 1} : b7 = a(7)
  BY <1>3
<1>4. PICK v : v = BitScale(f, index, mask)
  OBVIOUS
<1>7. v = b0 * 128 + b1 * 64 + b2 * 32 + b3 * 16 + b4 * 8 + b5 * 4 + b6 * 2 + b7 * 1
  BY <1>2, <1>4, <1>10, <1>11, <1>12, <1>13, <1>14, <1>15, <1>16, <1>17
<1>8. v \in 0..255 /\ (v \div 128) % 2 = b0 /\ (v \div 64) % 2 = b1 /\ (v \div 32) % 2 = b2 /\ (v \div 16) % 2 = b3 /\ (v \div 8) % 2 = b4 /\ (v \div 4) % 2 = b5 /\ (v \div 2) % 2 = b6 /\ (v \div 1) % 2 = b7
  BY ONLY <1>7, EightBits, SMTT(60)
<1>6. ASSUME NEW k \in 0..7 PROVE (v \div 2^(7 - k)) % 2 = a(k)
  <2>9. k = 0 \/ k = 1 \/ k = 2 \/ k = 3 \/ k = 4 \/ k = 5 \/ k = 6 \/ k = 7
    OBVIOUS
  <2>0. CASE k = 0
    <3>1. 2^(7 - k) = 128
      BY <2>0, Powers
    <3>. QED BY <1>8, <1>10, <2>0, <3>1
  <2>1. CASE k = 1
    <3>1. 2^(7 - k) = 64
      BY <2>1, Powers
    <3>. QED BY <1>8, <1>11, <2>1, <3>1
  <2>2. CASE k = 2
    <3>1. 2^(7 - k) = 32
      BY <2>2, Powers
    <3>. QED BY <1>8, <1>12, <2>2, <3>1
  <2>3. CASE k = 3
    <3>1. 2^(7 - k) = 16
      BY <2>3, Powers
    <3>. QED BY <1>8, <1>13, <2>3, <3>1
  <2>4. CASE k = 4
    <3>1. 2^(7 - k) = 8
      BY <2>4, Powers
    <3>. QED BY <1>8, <1>14, <2>4, <3>1
  <2>5. CASE k = 5
    <3>1. 2^(7 - k) = 4
      BY <2>5, Powers
    <3>. QED BY <1>8, <1>15, <2>5, <3>1
  <2>6. CASE k = 6
    <3>1. 2^(7 - k) = 2
      BY <2>6, Powers
    <3>. QED BY <1>8, <1>16, <2>6, <3>1
  <2>7. CASE k = 7
    <3>1. 2^(7 - k) = 1
      BY <2>7, Powers
    <3>. QED BY <1>8, <1>17, <2>7, <3>1
  <2>. QED BY <2>0, <2>1, <2>2, <2>3, <2>4, <2>5, <2>6, <2>7, <2>9
<1>. QED BY <1>4, <1>8, <1>6 DEF a

(* The first k bytes of a plane are in the RAM, row by row. *)
Drawn(ram, f, mask, k) ==
  \A x \in 0..(RamWidth - 1), y \in 0..(Height - 1) :
    RamWidth * y + x < k => ram[<<x, y>>] = BitScale(f, RamWidth * y + x, mask)

(* Every cell of the window has a number of its own, ... *)
LEMMA CellNumber ==
  ASSUME NEW x \in 0..(RamWidth - 1), NEW y \in 0..(Height - 1)
  PROVE  /\ RamWidth * y + x \in 0..(EpdPartRamSize - 1)
         /\ RamWidth * y + x = EpdPartRamSize - 1 <=> x = RamWidth - 1 /\ y = Height - 1
         /\ \A i \in 0..(RamWidth - 1), j \in 0..(Height - 1) :
              RamWidth * j + i = RamWidth * y + x => i = x /\ j = y
<1>1. RamWidth \in 1..256 /\ Height \in 1..256 /\ EpdPartRamSize = RamWidth * Height
  BY Sizes
<1>2. \A a, b \in Nat : \A w \in Nat \ {0} : a < b => w * a + w <= w * b
  <2>. TAKE a, b \in Nat
  <2>. TAKE w \in Nat \ {0}
  <2>. HAVE a < b
  <2>1. PICK c \in Nat : b = a + 1 + c
    <3>1. b - a - 1 \in Nat /\ b = a + 1 + (b - a - 1)
      OBVIOUS
    <3>. QED BY <3>1
  <2>2. w * b = w * a + w + w * c /\ w * c >= 0
    BY <2>1
  <2>3. w * a \in Int /\ w * c \in Int
    OBVIOUS
  <2>. QED BY <2>2, <2>3
<1>3. y < Height /\ y \in Nat /\ Height \in Nat /\ RamWidth \in Nat \ {0}
  BY <1>1
<1>4. RamWidth * y + RamWidth <= RamWidth * Height
  BY <1>2, <1>3
<1>5. RamWidth * y \in Nat /\ RamWidth * Height \in Nat
  BY <1>3
<1>6. RamWidth * y + x \in 0..(EpdPartRamSize - 1)
  BY <1>1, <1>4, <1>5
<1>7. ASSUME RamWidth * y + x = EpdPartRamSize - 1 PROVE x = RamWidth - 1 /\ y = Height - 1
  <2>1. CASE y < Height - 1
    <3>1. RamWidth * y + RamWidth <= RamWidth * (Height - 1)
      BY <1>2, <1>3, <2>1
    <3>2. RamWidth * (Height - 1) = RamWidth * Height - RamWidth
      BY <1>3
    <3>. QED BY <1>1, <1>3, <1>5, <1>7, <3>1, <3>2
  <2>2. CASE y = Height - 1
    <3>1. RamWidth * y = RamWidth * Height - RamWidth
      BY <1>3, <2>2
    <3>. QED BY <1>1, <1>3, <1>5, <1>7, <2>2, <3>1
  <2>. QED BY <1>3, <2>1, <2>2
<1>8. ASSUME x = RamWidth - 1, y = Height - 1 PROVE RamWidth * y + x = EpdPartRamSize - 1
  <2>1. RamWidth * y = RamWidth * Height - RamWidth
    BY <1>3, <1>8
  <2>. QED BY <1>1, <1>5, <1>8, <2>1
<1>9. ASSUME NEW i \in 0..(RamWidth - 1), NEW j \in 0..(Height - 1),
             RamWidth * j + i = RamWidth * y + x
      PROVE  i = x /\ j = y
  <2>1. j \in Nat /\ RamWidth * j \in Nat
    BY <1>3
  <2>2. CASE j < y
    <3>1. RamWidth * j + RamWidth <= RamWidth * y
      BY <1>2, <1>3, <2>1, <2>2
    <3>. QED BY <1>3, <1>5, <1>9, <2>1, <3>1
  <2>3. CASE y < j
    <3>1. RamWidth * y + RamWidth <= RamWidth * j
      BY <1>2, <1>3, <2>1, <2>3
    <3>. QED BY <1>3, <1>5, <1>9, <2>1, <3>1
  <2>4. CASE j = y
    BY <1>5, <1>9, <2>4
  <2>. QED BY <1>3, <2>1, <2>2, <2>3, <2>4
<1>. QED BY <1>6, <1>7, <1>8, <1>9

(* ... and every number its cell. *)
LEMMA NumberCell ==
  ASSUME NEW k \in 0..(EpdPartRamSize - 1)
  PROVE  /\ k % RamWidth \in 0..(RamWidth - 1) /\ k \div RamWidth \in 0..(Height - 1)
         /\ RamWidth * (k \div RamWidth) + (k % RamWidth) = k
<1>1. RamWidth \in 1..256 /\ Height \in 1..256 /\ EpdPartRamSize = RamWidth * Height
  BY Sizes
<1>2. PICK q \in Int, r \in Int : q = k \div RamWidth /\ r = k % RamWidth /\ r \in 0..(RamWidth - 1)
                                  /\ k = RamWidth * q + r
  BY <1>1
<1>4. RamWidth * q \in Int /\ RamWidth * Height \in Int
  BY <1>1
<1>3. q \in 0..(Height - 1)
  <2>1. CASE q < 0
    <3>1. RamWidth * q <= RamWidth * (0 - 1)
      <4>1. RamWidth * (0 - 1 - q) >= 0
        BY <1>1, <2>1
      <4>. QED BY <1>1, <4>1
    <3>. QED BY <1>1, <1>2, <1>4, <3>1
  <2>2. CASE q >= Height
    <3>1. RamWidth * (q - Height) >= 0
      BY <1>1, <2>2
    <3>2. RamWidth * q >= RamWidth * Height
      BY <1>1, <3>1
    <3>. QED BY <1>1, <1>2, <1>4, <3>2
  <2>. QED BY <1>1, <2>1, <2>2
<1>5. RamWidth * q + r = k
  BY <1>2
<1>. QED BY <1>2, <1>3, <1>5, Zenon

(* With both planes in the RAM the panel shows the frame buffer. *)
LEMMA DrawnShows ==
  ASSUME NEW f \in Picture, NEW bw, NEW red,
         Drawn(bw, f, 1, EpdPartRamSize), Drawn(red, f, 2, EpdPartRamSize)
  PROVE  Shows(<<bw, red>>, f)
<1>. SUFFICES ASSUME NEW p \in 0..(4 * EpdRamSize - 1), Pixel(f, p) # 2
              PROVE  ShownColor(<<bw, red>>, p) = Color(Pixel(f, p))
  BY DEF Shows
<1>1. PICK k \in 0..(EpdPartRamSize - 1), d \in 0..7 : k = p \div 8 /\ d = p % 8 /\ p = 8 * k + d
  BY Sizes
<1>2. PICK x \in 0..(RamWidth - 1), y \in 0..(Height - 1) :
        x = k % RamWidth /\ y = k \div RamWidth /\ RamWidth * y + x = k
  <2>. DEFINE i == k % RamWidth
              j == k \div RamWidth
  <2>1. i \in 0..(RamWidth - 1) /\ j \in 0..(Height - 1) /\ RamWidth * j + i = k
    BY NumberCell, Zenon
  <2>. QED BY <2>1, Zenon
<1>3. bw[<<x, y>>] = BitScale(f, k, 1) /\ red[<<x, y>>] = BitScale(f, k, 2)
  <2>1. k < EpdPartRamSize
    BY Sizes
  <2>2. RamWidth * y + x < EpdPartRamSize
    BY ONLY <1>2, <2>1, Zenon
  <2>. QED BY <1>2, <2>2, Zenon DEF Drawn
<1>4. PICK v \in 0..3 : v = Pixel(f, p)
  BY PixelIs
<1>5. (BitScale(f, k, 1) \div 2^(7 - d)) % 2 = v % 2
  <2>1. (BitScale(f, k, 1) \div 2^(7 - d)) % 2 = MaskedBit(Pixel(f, 8 * k + d), 1)
    BY BitScaleIs
  <2>. QED BY <1>1, <1>4, <2>1 DEF MaskedBit, COLOR_MASK_BW
<1>6. (BitScale(f, k, 2) \div 2^(7 - d)) % 2 = v \div 2
  <2>1. (BitScale(f, k, 2) \div 2^(7 - d)) % 2 = MaskedBit(Pixel(f, 8 * k + d), 2)
    BY BitScaleIs
  <2>. QED BY <1>1, <1>4, <2>1 DEF MaskedBit, COLOR_MASK_BW
<1>7. ShownColor(<<bw, red>>, p) =
        CASE v \div 2 = 1 -> "COLOR_RED"
          [] v \div 2 = 0 /\ v % 2 = 0 -> "COLOR_BLACK"
          [] OTHER -> "COLOR_WHITE"
  BY <1>1, <1>2, <1>3, <1>5, <1>6 DEF ShownColor
<1>8. v = 0 \/ v = 1 \/ v = 3
  BY <1>4
<1>9. /\ 0 \div 2 = 0 /\ 0 % 2 = 0 /\ 1 \div 2 = 0 /\ 1 % 2 = 1 /\ 3 \div 2 = 1
  OBVIOUS
<1>. QED BY <1>4, <1>7, <1>8, <1>9 DEF Color

-----------------------------------------------------------------------------
(* The bytes of a flush *)

FlushBytes(f) ==
  [j \in 1..(2 * EpdPartRamSize + 5) |->
     CASE j = 1 -> C(36)
       [] j \in 2..(EpdPartRamSize + 1) -> D(BitScale(f, j - 2, 1))
       [] j = EpdPartRamSize + 2 -> C(38)
       [] j \in (EpdPartRamSize + 3)..(2 * EpdPartRamSize + 2) ->
            D(BitScale(f, j - EpdPartRamSize - 3, 2))
       [] j = 2 * EpdPartRamSize + 3 -> C(34)
       [] j = 2 * EpdPartRamSize + 4 -> D(247)
       [] j = 2 * EpdPartRamSize + 5 -> C(32)]

(* The same, part by part. *)
FlushAre(o, f, s) ==
  /\ o[1] = C(36) /\ \A j \in 1..s : o[j + 1] = D(BitScale(f, j - 1, 1))
  /\ o[s + 2] = C(38) /\ \A j \in 1..s : o[s + 2 + j] = D(BitScale(f, j - 1, 2))
  /\ o[2 * s + 3] = C(34) /\ o[2 * s + 4] = D(247) /\ o[2 * s + 5] = C(32)

LEMMA FlushBytesAre ==
  ASSUME NEW f
  PROVE  FlushAre(FlushBytes(f), f, EpdPartRamSize)
<1>0. PICK s, o : s = EpdPartRamSize /\ o = FlushBytes(f)
  OBVIOUS
<1>1. s \in Nat \ {0}
  BY <1>0, Sizes
<1>2. o = [j \in 1..(2 * s + 5) |->
     CASE j = 1 -> C(36)
       [] j \in 2..(s + 1) -> D(BitScale(f, j - 2, 1))
       [] j = s + 2 -> C(38)
       [] j \in (s + 3)..(2 * s + 2) -> D(BitScale(f, j - s - 3, 2))
       [] j = 2 * s + 3 -> C(34)
       [] j = 2 * s + 4 -> D(247)
       [] j = 2 * s + 5 -> C(32)]
  BY <1>0 DEF FlushBytes
<1>3. /\ o[1] = C(36) /\ o[s + 2] = C(38)
      /\ o[2 * s + 3] = C(34) /\ o[2 * s + 4] = D(247) /\ o[2 * s + 5] = C(32)
  BY <1>1, <1>2, SMTT(60)
<1>4. ASSUME NEW j \in 1..s PROVE o[j + 1] = D(BitScale(f, j - 1, 1))
  <2>1. j + 1 \in 2..(s + 1) /\ j + 1 \in 1..(2 * s + 5) /\ (j + 1) - 2 = j - 1 /\ j + 1 # 1
    BY <1>1
  <2>2. PICK i : i = j + 1
    OBVIOUS
  <2>3. o[i] = D(BitScale(f, i - 2, 1))
    BY <1>1, <1>2, <2>1, <2>2
  <2>. QED BY <2>1, <2>2, <2>3
<1>5. ASSUME NEW j \in 1..s PROVE o[s + 2 + j] = D(BitScale(f, j - 1, 2))
  <2>1. s + 2 + j \in (s + 3)..(2 * s + 2) /\ s + 2 + j \in 1..(2 * s + 5)
        /\ (s + 2 + j) - s - 3 = j - 1
    BY <1>1
  <2>2. PICK i : i = s + 2 + j
    OBVIOUS
  <2>3. o[i] = D(BitScale(f, i - s - 3, 2))
    BY <1>1, <1>2, <2>1, <2>2
  <2>. QED BY <2>1, <2>2, <2>3
<1>. QED BY <1>0, <1>3, <1>4, <1>5 DEF FlushAre

LEMMA BytesFunction ==
  ASSUME NEW n \in Nat, NEW d \in [1..n -> 0..255]
  PROVE  d \in Seq(Int) /\ d \in Seq(0..255) /\ Len(d) = n
<1>1. ASSUME NEW i \in 1..n PROVE d[i] \in Int
  <2>1. d[i] \in 0..255
    BY Zenon
  <2>2. PICK x \in 0..255 : x = d[i]
    BY <2>1, Zenon
  <2>. QED BY <2>2
<1>2. d \in [1..n -> Int]
  BY <1>1
<1>. QED BY <1>2, SeqDef

(* A plane is a sequence of bytes. *)
LEMMA DisplayRamIs ==
  ASSUME NEW f \in Picture, NEW mask \in {1, 2}
  PROVE  /\ DisplayRam(f, mask) \in Seq(Int) /\ DisplayRam(f, mask) \in Seq(Byte)
         /\ Len(DisplayRam(f, mask)) = EpdPartRamSize
         /\ \A i \in 1..EpdPartRamSize : DisplayRam(f, mask)[i] = BitScale(f, i - 1, mask)
<1>1. \A i \in 1..EpdPartRamSize : BitScale(f, i - 1, mask) \in 0..255
  <2>. TAKE i \in 1..EpdPartRamSize
  <2>1. i - 1 \in 0..(EpdPartRamSize - 1)
    BY Sizes
  <2>. QED BY <2>1, BitScaleIs
<1>2. PICK n \in Nat : n = EpdPartRamSize
  BY Sizes
<1>3. DisplayRam(f, mask) = [i \in 1..n |-> BitScale(f, i - 1, mask)]
  BY <1>2 DEF DisplayRam
<1>4. DisplayRam(f, mask) \in [1..n -> 0..255]
  BY <1>1, <1>2, <1>3
<1>5. PICK d \in [1..n -> 0..255] : d = DisplayRam(f, mask)
  BY <1>4
<1>6. d \in Seq(Int) /\ d \in Seq(0..255) /\ Len(d) = n
  BY BytesFunction
<1>7. \A i \in 1..n : d[i] = BitScale(f, i - 1, mask)
  BY <1>3, <1>5
<1>. QED BY <1>2, <1>5, <1>6, <1>7 DEF Byte

(* epd_flush() sends FlushBytes. *)
LEMMA FlushSent ==
  ASSUME NEW f \in Picture
  PROVE  /\ FlushCmds(f) \in Seq(Command)
         /\ Len(AllSent(FlushCmds(f))) = 2 * EpdPartRamSize + 5
         /\ \A i \in 1..(2 * EpdPartRamSize + 5) : AllSent(FlushCmds(f))[i] = FlushBytes(f)[i]
<1>1. PICK bw \in Seq(Int), red \in Seq(Int) :
        bw = DisplayRam(f, COLOR_MASK_BW) /\ red = DisplayRam(f, COLOR_MASK_RED)
  BY DisplayRamIs DEF COLOR_MASK_BW, COLOR_MASK_RED
<1>2. PICK s \in Nat \ {0} : s = EpdPartRamSize
  BY Sizes
<1>3. /\ Len(bw) = s /\ \A i \in 1..s : bw[i] = BitScale(f, i - 1, 1)
      /\ Len(red) = s /\ \A i \in 1..s : red[i] = BitScale(f, i - 1, 2)
  BY <1>1, <1>2, DisplayRamIs DEF COLOR_MASK_BW, COLOR_MASK_RED
<1>4. PICK ts \in Seq(Command) :
        ts = <<[cmd |-> 36, data |-> bw, plane |-> TRUE], [cmd |-> 38, data |-> red, plane |-> TRUE],
               [cmd |-> 34, data |-> <<247>>, plane |-> FALSE], [cmd |-> 32, data |-> <<>>, plane |-> FALSE]>>
  <2>1. /\ [cmd |-> 36, data |-> bw, plane |-> TRUE] \in Command
        /\ [cmd |-> 38, data |-> red, plane |-> TRUE] \in Command
        /\ [cmd |-> 34, data |-> <<247>>, plane |-> FALSE] \in Command
        /\ [cmd |-> 32, data |-> <<>>, plane |-> FALSE] \in Command
    BY DEF Command
  <2>2. \A a, b, c, d \in Command : <<a, b, c, d>> \in Seq(Command)
    OBVIOUS
  <2>. QED BY <2>1, <2>2
<1>5. FlushCmds(f) = ts
  BY <1>1, <1>4 DEF FlushCmds, Cmd, Plane, WRITE_RAM_BW, WRITE_RAM_RED, DISPLAY_UPDATE_CTRL2,
                    MASTER_ACTIVATION
<1>6. /\ Len(ts) = 4
      /\ ts[1].cmd = 36 /\ ts[1].data = bw /\ ts[2].cmd = 38 /\ ts[2].data = red
      /\ ts[3].cmd = 34 /\ Len(ts[3].data) = 1 /\ ts[3].data[1] = 247
      /\ ts[4].cmd = 32 /\ Len(ts[4].data) = 0
  BY <1>4
<1>7. PICK o : o = FlushBytes(f)
  OBVIOUS
<1>8. /\ o[1] = C(36) /\ \A j \in 1..s : o[j + 1] = D(BitScale(f, j - 1, 1))
      /\ o[s + 2] = C(38) /\ \A j \in 1..s : o[s + 2 + j] = D(BitScale(f, j - 1, 2))
      /\ o[2 * s + 3] = C(34) /\ o[2 * s + 4] = D(247) /\ o[2 * s + 5] = C(32)
  <2>1. FlushAre(o, f, s)
    BY <1>2, <1>7, FlushBytesAre
  <2>. QED BY ONLY <2>1 DEF FlushAre
<1>9. ts \in Seq(Command) /\ s \in Nat \ {0} /\ SentAs(ts, 0, o, 0)
  BY NothingSent
<1>10. NextBytes(ts, 0, o, 0, s)
  <2>1. Len(ts) = 4 /\ ts[1].cmd = 36 /\ Len(ts[1].data) = s /\ o[1] = C(36)
        /\ \A j \in 1..s : ts[1].data[j] = BitScale(f, j - 1, 1)
    BY <1>3, <1>6, <1>8
  <2>2. \A j \in 1..s : o[0 + 1 + j] = D(ts[0 + 1].data[j])
    <3>. TAKE j \in 1..s
    <3>1. 0 + 1 + j = j + 1 /\ 0 + 1 = 1
      OBVIOUS
    <3>. QED BY <1>8, <2>1, <3>1
  <2>3. 0 < Len(ts) /\ Len(ts[0 + 1].data) = s /\ o[0 + 1] = C(ts[0 + 1].cmd)
    <3>1. 0 + 1 = 1
      OBVIOUS
    <3>. QED BY <2>1, <3>1
  <2>. QED BY <2>2, <2>3, Zenon DEF NextBytes
<1>11. SentAs(ts, 1, o, s + 1)
  <2>1. s + 1 = 0 + 1 + s /\ s \in Nat
    BY <1>9
  <2>. QED BY ONLY <1>9, <1>10, <2>1, SentMore
<1>12. NextBytes(ts, 1, o, s + 1, s)
  <2>1. Len(ts) = 4 /\ ts[2].cmd = 38 /\ Len(ts[2].data) = s /\ o[s + 1 + 1] = C(38)
        /\ \A j \in 1..s : ts[2].data[j] = BitScale(f, j - 1, 2)
    <3>1. s + 1 + 1 = s + 2
      OBVIOUS
    <3>. QED BY <1>3, <1>6, <1>8, <3>1
  <2>2. \A j \in 1..s : o[s + 1 + 1 + j] = D(ts[1 + 1].data[j])
    <3>. TAKE j \in 1..s
    <3>1. s + 1 + 1 + j = s + 2 + j /\ 1 + 1 = 2
      OBVIOUS
    <3>. QED BY <1>8, <2>1, <3>1, SMTT(60)
  <2>3. 1 < Len(ts) /\ Len(ts[1 + 1].data) = s /\ o[s + 1 + 1] = C(ts[1 + 1].cmd)
    <3>1. 1 + 1 = 2
      OBVIOUS
    <3>. QED BY <2>1, <3>1
  <2>. QED BY <2>2, <2>3, Zenon DEF NextBytes
<1>13. SentAs(ts, 2, o, 2 * s + 2)
  <2>1. 2 * s + 2 = (s + 1) + 1 + s /\ s \in Nat /\ s + 1 \in Nat /\ 2 = 1 + 1
    BY <1>9
  <2>. QED BY ONLY <1>9, <1>11, <1>12, <2>1, SentMore
<1>14. NextBytes(ts, 2, o, 2 * s + 2, 1)
  <2>1. 2 * s + 2 + 1 = 2 * s + 3 /\ 2 * s + 2 + 1 + 1 = 2 * s + 4
    OBVIOUS
  <2>2. Len(ts) = 4 /\ ts[3].cmd = 34 /\ Len(ts[3].data) = 1 /\ ts[3].data[1] = 247
        /\ o[2 * s + 2 + 1] = C(34) /\ o[2 * s + 2 + 1 + 1] = D(247)
    BY <1>6, <1>8, <2>1
  <2>. QED BY ONLY <2>2 DEF NextBytes
<1>15. SentAs(ts, 3, o, 2 * s + 4)
  <2>1. 2 * s + 4 = (2 * s + 2) + 1 + 1 /\ 2 * s + 2 \in Nat /\ 3 = 2 + 1
    BY <1>9
  <2>. QED BY ONLY <1>9, <1>13, <1>14, <2>1, SentMore
<1>16. NextBytes(ts, 3, o, 2 * s + 4, 0)
  <2>1. 2 * s + 4 + 1 = 2 * s + 5
    OBVIOUS
  <2>2. Len(ts) = 4 /\ ts[4].cmd = 32 /\ Len(ts[4].data) = 0 /\ o[2 * s + 4 + 1] = C(32)
    BY <1>6, <1>8, <2>1
  <2>. QED BY ONLY <2>2 DEF NextBytes
<1>17. SentAs(ts, 4, o, 2 * s + 5)
  <2>1. 2 * s + 5 = (2 * s + 4) + 1 + 0 /\ 2 * s + 4 \in Nat /\ 4 = 3 + 1
    BY <1>9
  <2>. QED BY ONLY <1>9, <1>15, <1>16, <2>1, SentMore
<1>18. SubSeq(ts, 1, 4) = ts
  BY <1>6, SubSeqFull
<1>. QED BY <1>2, <1>5, <1>7, <1>17, <1>18 DEF SentAs

-----------------------------------------------------------------------------
(* The panel and a byte *)

Ram == [Cell -> Int]
Regs == [cmd : Int, args : Int, x : Int, y : Int, xs : Int, xe : Int, ys : Int, ye : Int]
Panels == [awake : BOOLEAN, reg : Regs, bw : Ram, red : Ram, shown : Ram \X Ram]

(* Whatever it takes, the panel keeps its type. *)
LEMMA HighTyped == ASSUME NEW old \in Int, NEW b \in Int PROVE High(old, b) \in Int
BY DEF High

LEMMA SteppedTyped ==
  ASSUME NEW r \in Regs
  PROVE  Stepped(r) \in Regs
<1>1. PanelWidth \in Nat \ {0} /\ PanelHeight \in Nat \ {0}
  BY Sizes
<1>2. r.x \in Int /\ r.y \in Int /\ r.xs \in Int /\ r.xe \in Int /\ r.ys \in Int /\ r.ye \in Int
  BY DEF Regs
<1>3. (r.x + 1) % PanelWidth \in Int /\ (r.y + 1) % PanelHeight \in Int
  BY <1>1, <1>2
<1>. QED BY <1>2, <1>3 DEF Stepped, Regs

LEMMA CommandTyped ==
  ASSUME NEW p \in Panels, NEW b \in Int
  PROVE  TakesCommand(p, b) \in Panels
<1>1. p.reg \in Regs /\ p.bw \in Ram /\ p.red \in Ram
  BY DEF Panels
<1>2. [p.reg EXCEPT !.cmd = b, !.args = 0] \in Regs
  <2>1. \A r \in Regs, c \in Int : [r EXCEPT !.cmd = b, !.args = c] \in Regs
    BY DEF Regs
  <2>2. 0 \in Int
    OBVIOUS
  <2>. QED BY <1>1, <2>1, <2>2, Zenon
<1>3. [Registers EXCEPT !.cmd = b] \in Regs
  BY Sizes DEF Registers, Regs
<1>4. \A r \in Regs : [p EXCEPT !.reg = r] \in Panels
  BY DEF Panels
<1>5. \A r \in Regs : [p EXCEPT !.reg = r, !.shown = <<p.bw, p.red>>] \in Panels
  BY <1>1 DEF Panels
<1>. QED BY <1>2, <1>3, <1>4, <1>5 DEF TakesCommand

LEMMA RamTyped ==
  ASSUME NEW m \in Ram, NEW c, NEW b \in Int
  PROVE  [m EXCEPT ![c] = b] \in Ram
BY DEF Ram

LEMMA DataTyped ==
  ASSUME NEW p \in Panels, NEW b \in Int
  PROVE  TakesData(p, b) \in Panels
<1>1. PICK r \in Regs : r = p.reg
  BY DEF Panels
<1>2. p.bw \in Ram /\ p.red \in Ram /\ NoRam \in Ram
  BY DEF Panels, NoRam, Lost, Ram
<1>3. \A s \in Regs : [p EXCEPT !.reg = s] \in Panels
  BY DEF Panels
<1>4. PICK s \in Regs : s = [r EXCEPT !.args = @ + 1]
  <2>1. r.args + 1 \in Int
    BY DEF Regs
  <2>2. \A a \in Int : [r EXCEPT !.args = a] \in Regs
    BY DEF Regs
  <2>3. [r EXCEPT !.args = r.args + 1] \in Regs
    BY <2>1, <2>2
  <2>. QED BY <2>3
<1>5. \A s1 \in Regs, m \in Ram : [p EXCEPT !.reg = s1, !.bw = m] \in Panels
  BY DEF Panels
<1>6. \A s1 \in Regs, m \in Ram : [p EXCEPT !.reg = s1, !.red = m] \in Panels
  BY DEF Panels
<1>7. [p EXCEPT !.awake = FALSE, !.bw = NoRam, !.red = NoRam] \in Panels
  BY <1>2 DEF Panels
<1>8. [p EXCEPT !.reg = Stepped(p.reg), !.bw[<<p.reg.x, p.reg.y>>] = b] \in Panels
  <2>1. [p.bw EXCEPT ![<<p.reg.x, p.reg.y>>] = b] \in Ram /\ Stepped(p.reg) \in Regs
    BY <1>1, <1>2, RamTyped, SteppedTyped
  <2>. QED BY <2>1, <1>5
<1>9. [p EXCEPT !.reg = Stepped(p.reg), !.red[<<p.reg.x, p.reg.y>>] = b] \in Panels
  <2>1. [p.red EXCEPT ![<<p.reg.x, p.reg.y>>] = b] \in Ram /\ Stepped(p.reg) \in Regs
    BY <1>1, <1>2, RamTyped, SteppedTyped
  <2>. QED BY <2>1, <1>6
<1>10. /\ [s EXCEPT !.xs = b] \in Regs /\ [s EXCEPT !.xe = b] \in Regs
       /\ [s EXCEPT !.ys = b] \in Regs /\ [s EXCEPT !.ye = b] \in Regs
       /\ [s EXCEPT !.x = b] \in Regs /\ [s EXCEPT !.y = b] \in Regs
  BY DEF Regs
<1>11. /\ [s EXCEPT !.ys = High(@, b)] \in Regs /\ [s EXCEPT !.ye = High(@, b)] \in Regs
       /\ [s EXCEPT !.y = High(@, b)] \in Regs
  BY HighTyped DEF Regs
<1>12. s = [p.reg EXCEPT !.args = @ + 1]
  BY <1>1, <1>4
<1>. DEFINE n == p.reg.args
<1>13. TakesData(p, b) =
         CASE p.reg.cmd = WRITE_RAM_BW ->
             [p EXCEPT !.reg = Stepped(p.reg), !.bw[<<p.reg.x, p.reg.y>>] = b]
        [] p.reg.cmd = WRITE_RAM_RED ->
             [p EXCEPT !.reg = Stepped(p.reg), !.red[<<p.reg.x, p.reg.y>>] = b]
        [] p.reg.cmd = SET_RAM_X_ADDR ->
             [p EXCEPT !.reg = IF n = 0 THEN [s EXCEPT !.xs = b] ELSE [s EXCEPT !.xe = b]]
        [] p.reg.cmd = SET_RAM_Y_ADDR ->
             [p EXCEPT !.reg = CASE n = 0 -> [s EXCEPT !.ys = b]
                                 [] n = 1 -> [s EXCEPT !.ys = High(@, b)]
                                 [] n = 2 -> [s EXCEPT !.ye = b]
                                 [] OTHER -> [s EXCEPT !.ye = High(@, b)]]
        [] p.reg.cmd = SET_RAM_X_COUNTER -> [p EXCEPT !.reg = [s EXCEPT !.x = b]]
        [] p.reg.cmd = SET_RAM_Y_COUNTER ->
             [p EXCEPT !.reg = IF n = 0 THEN [s EXCEPT !.y = b]
                                        ELSE [s EXCEPT !.y = High(@, b)]]
        [] p.reg.cmd = DEEP_SLP_MODE ->
             IF b = 0 THEN p ELSE [p EXCEPT !.awake = FALSE, !.bw = NoRam, !.red = NoRam]
        [] OTHER -> [p EXCEPT !.reg = s]
  BY <1>12, Zenon DEF TakesData
<1>14. \/ TakesData(p, b) = [p EXCEPT !.reg = Stepped(p.reg), !.bw[<<p.reg.x, p.reg.y>>] = b]
       \/ TakesData(p, b) = [p EXCEPT !.reg = Stepped(p.reg), !.red[<<p.reg.x, p.reg.y>>] = b]
       \/ TakesData(p, b) = p
       \/ TakesData(p, b) = [p EXCEPT !.awake = FALSE, !.bw = NoRam, !.red = NoRam]
       \/ \E s1 \in Regs : TakesData(p, b) = [p EXCEPT !.reg = s1]
  BY <1>10, <1>11, <1>13
<1>. QED BY <1>3, <1>7, <1>8, <1>9, <1>14

LEMMA TakesTyped ==
  ASSUME NEW p \in Panels, NEW dc, NEW b \in Int
  PROVE  PanelTakes(p, dc, b) \in Panels
BY CommandTyped, DataTyped DEF PanelTakes

(* The registers while the panel is opened: the last command and how many  *)
(* of its data have come; the counters and the start of the window are 0.  *)
RegIs(r, c, a, xe, ye) ==
  /\ r.cmd = c /\ r.args = a /\ r.xe = xe /\ r.ye = ye
  /\ r.x = 0 /\ r.y = 0 /\ r.xs = 0 /\ r.ys = 0

AwakeWith(p, c, a, xe, ye) == p \in Panels /\ p.awake /\ RegIs(p.reg, c, a, xe, ye)

(* What sending command c, or data b, does to such a panel p; q is p then. *)
Takes(q, p, c, a, xe, ye) == AwakeWith(q, c, a, xe, ye) /\ q.shown = p.shown

(* A command that is no reset and no refresh, ... *)
LEMMA TakesOther ==
  ASSUME NEW p, NEW c, NEW a, NEW xe, NEW ye, AwakeWith(p, c, a, xe, ye),
         NEW b \in Int, b # 18, b # 32
  PROVE  Takes(PanelTakes(p, 0, b), p, b, 0, xe, ye)
<1>1. PICK r \in Regs : r = p.reg
  BY DEF AwakeWith, Panels
<1>2. PICK q : q = [r EXCEPT !.cmd = b, !.args = 0]
  OBVIOUS
<1>3. PanelTakes(p, 0, b) = [p EXCEPT !.reg = q]
  BY <1>1, <1>2 DEF PanelTakes, TakesCommand, SW_RESET, MASTER_ACTIVATION, AwakeWith
<1>4. RegIs(q, b, 0, xe, ye)
  BY <1>1, <1>2 DEF RegIs, AwakeWith, Regs
<1>5. PanelTakes(p, 0, b) \in Panels
  BY TakesTyped DEF AwakeWith
<1>6. [p EXCEPT !.reg = q].awake /\ [p EXCEPT !.reg = q].reg = q
      /\ [p EXCEPT !.reg = q].shown = p.shown
  BY DEF AwakeWith, Panels
<1>. QED BY <1>3, <1>4, <1>5, <1>6 DEF AwakeWith, Takes

(* ... the reset, ... *)
LEMMA TakesReset ==
  ASSUME NEW p, NEW c, NEW a, NEW xe, NEW ye, AwakeWith(p, c, a, xe, ye),
         NEW b, b = 18
  PROVE  Takes(PanelTakes(p, 0, b), p, b, 0, PanelWidth - 1, PanelHeight - 1)
<1>1. PICK q : q = [Registers EXCEPT !.cmd = b]
  OBVIOUS
<1>2. PanelTakes(p, 0, b) = [p EXCEPT !.reg = q]
  <2>1. PanelTakes(p, 0, b) = TakesCommand(p, b)
    BY DEF PanelTakes, AwakeWith
  <2>2. TakesCommand(p, b) = [p EXCEPT !.reg = [Registers EXCEPT !.cmd = b]]
    BY DEF TakesCommand, SW_RESET, MASTER_ACTIVATION
  <2>. QED BY <1>1, <2>1, <2>2
<1>3. RegIs(q, b, 0, PanelWidth - 1, PanelHeight - 1)
  BY <1>1 DEF RegIs, Registers
<1>4. PanelTakes(p, 0, b) \in Panels
  BY TakesTyped DEF AwakeWith
<1>5. [p EXCEPT !.reg = q].awake /\ [p EXCEPT !.reg = q].reg = q
      /\ [p EXCEPT !.reg = q].shown = p.shown
  BY DEF AwakeWith, Panels
<1>. QED BY <1>2, <1>3, <1>4, <1>5 DEF AwakeWith, Takes

(* ... and each kind of data that epd_open() sends. *)
LEMMA TakesDatum ==
  ASSUME NEW p, NEW c, NEW a, NEW xe, NEW ye, AwakeWith(p, c, a, xe, ye), a \in Nat,
         NEW b \in Int, NEW xe1, NEW ye1,
         \/ c \in {1, 17, 60, 24, 33} /\ xe1 = xe /\ ye1 = ye
         \/ c = 68 /\ a = 0 /\ b = 0 /\ xe1 = xe /\ ye1 = ye
         \/ c = 68 /\ a = 1 /\ xe1 = b /\ ye1 = ye
         \/ c = 69 /\ a \in {0, 1} /\ b = 0 /\ xe1 = xe /\ ye1 = ye
         \/ c = 69 /\ a = 2 /\ xe1 = xe /\ ye1 = b
         \/ c = 69 /\ a = 3 /\ b = 120 /\ ye \in 0..255 /\ xe1 = xe /\ ye1 = ye
         \/ c = 78 /\ b = 0 /\ xe1 = xe /\ ye1 = ye
         \/ c = 79 /\ b = 0 /\ xe1 = xe /\ ye1 = ye
  PROVE  Takes(PanelTakes(p, 1, b), p, c, a + 1, xe1, ye1)
<1>1. PICK r \in Regs : r = p.reg
  BY DEF AwakeWith, Panels
<1>2. PICK s \in Regs : s = [r EXCEPT !.args = @ + 1]
  <2>1. r.args + 1 \in Int
    BY DEF Regs
  <2>2. \A i \in Int : [r EXCEPT !.args = i] \in Regs
    BY DEF Regs
  <2>3. [r EXCEPT !.args = r.args + 1] \in Regs
    BY <2>1, <2>2
  <2>. QED BY <2>3
<1>3. RegIs(s, c, a + 1, xe, ye)
  BY <1>1, <1>2 DEF RegIs, AwakeWith, Regs
<1>4. High(0, 0) = 0 /\ (ye \in 0..255 => High(ye, 120) = ye)
  BY DEF High
<1>5. PICK q : q = CASE c = 68 -> (IF a = 0 THEN [s EXCEPT !.xs = b] ELSE [s EXCEPT !.xe = b])
                     [] c = 69 -> (CASE a = 0 -> [s EXCEPT !.ys = b]
                                     [] a = 1 -> [s EXCEPT !.ys = High(@, b)]
                                     [] a = 2 -> [s EXCEPT !.ye = b]
                                     [] OTHER -> [s EXCEPT !.ye = High(@, b)])
                     [] c = 78 -> [s EXCEPT !.x = b]
                     [] c = 79 -> (IF a = 0 THEN [s EXCEPT !.y = b] ELSE [s EXCEPT !.y = High(@, b)])
                     [] OTHER -> s
  OBVIOUS
<1>6. p.reg.cmd = c /\ p.reg.args = a
      /\ c # 36 /\ c # 38 /\ c # 16
  BY DEF AwakeWith, RegIs
<1>7. PanelTakes(p, 1, b) = [p EXCEPT !.reg = q]
  BY <1>1, <1>2, <1>5, <1>6 DEF PanelTakes, TakesData, AwakeWith, WRITE_RAM_BW, WRITE_RAM_RED,
       SET_RAM_X_ADDR, SET_RAM_Y_ADDR, SET_RAM_X_COUNTER, SET_RAM_Y_COUNTER, DEEP_SLP_MODE
<1>8. RegIs(q, c, a + 1, xe1, ye1)
  <2>1. CASE c \in {1, 17, 60, 24, 33} /\ xe1 = xe /\ ye1 = ye
    BY <1>3, <1>5, <2>1 DEF RegIs
  <2>2. CASE c = 68 /\ a = 0 /\ b = 0 /\ xe1 = xe /\ ye1 = ye
    <3>1. q = [s EXCEPT !.xs = b]
      BY <1>5, <2>2
    <3>. QED BY <1>3, <2>2, <3>1 DEF RegIs, Regs
  <2>3. CASE c = 68 /\ a = 1 /\ xe1 = b /\ ye1 = ye
    <3>1. q = [s EXCEPT !.xe = b]
      BY <1>5, <2>3
    <3>. QED BY <1>3, <2>3, <3>1 DEF RegIs, Regs
  <2>4. CASE c = 69 /\ a \in {0, 1} /\ b = 0 /\ xe1 = xe /\ ye1 = ye
    <3>1. q = [s EXCEPT !.ys = b]
      BY <1>3, <1>4, <1>5, <2>4 DEF RegIs
    <3>. QED BY <1>3, <2>4, <3>1 DEF RegIs, Regs
  <2>5. CASE c = 69 /\ a = 2 /\ xe1 = xe /\ ye1 = b
    <3>1. q = [s EXCEPT !.ye = b]
      BY <1>5, <2>5
    <3>. QED BY <1>3, <2>5, <3>1 DEF RegIs, Regs
  <2>6. CASE c = 69 /\ a = 3 /\ b = 120 /\ ye \in 0..255 /\ xe1 = xe /\ ye1 = ye
    <3>1. q = [s EXCEPT !.ye = ye]
      <4>1. s.ye = ye /\ High(s.ye, b) = ye
        BY <1>3, <1>4, <2>6 DEF RegIs
      <4>. QED BY <1>5, <2>6, <4>1
    <3>. QED BY <1>3, <2>6, <3>1 DEF RegIs, Regs
  <2>7. CASE c = 78 /\ b = 0 /\ xe1 = xe /\ ye1 = ye
    <3>1. q = [s EXCEPT !.x = b]
      BY <1>5, <2>7
    <3>. QED BY <1>3, <2>7, <3>1 DEF RegIs, Regs
  <2>8. CASE c = 79 /\ b = 0 /\ xe1 = xe /\ ye1 = ye
    <3>1. q = [s EXCEPT !.y = b]
      <4>1. s.y = 0 /\ High(s.y, b) = b
        BY <1>3, <1>4, <2>8 DEF RegIs
      <4>. QED BY <1>5, <2>8, <4>1
    <3>. QED BY <1>3, <2>8, <3>1 DEF RegIs, Regs
  <2>. QED BY <2>1, <2>2, <2>3, <2>4, <2>5, <2>6, <2>7, <2>8
<1>9. PanelTakes(p, 1, b) \in Panels
  BY TakesTyped DEF AwakeWith
<1>10. [p EXCEPT !.reg = q].awake /\ [p EXCEPT !.reg = q].reg = q
       /\ [p EXCEPT !.reg = q].shown = p.shown
  BY DEF AwakeWith, Panels
<1>. QED BY <1>7, <1>8, <1>9, <1>10 DEF AwakeWith, Takes

LEMMA TakesIgnored ==
  ASSUME NEW p, NEW c \in {1, 17, 60, 24, 33}, NEW a \in Nat, NEW xe, NEW ye,
         AwakeWith(p, c, a, xe, ye), NEW b \in Int
  PROVE  Takes(PanelTakes(p, 1, b), p, c, a + 1, xe, ye)
BY TakesDatum

-----------------------------------------------------------------------------
(* epd_open() *)

(* After n bytes of epd_open(): the last command, and how many of its data *)
(* have come.                                                              *)
OpenCode ==
  <<0, 18, 1, 1, 1, 1, 17, 17, 68, 68, 68, 69, 69, 69, 69, 69, 60, 60, 24, 24, 33, 33, 33, 78, 78, 79, 79, 79>>
OpenCount ==
  <<0, 0, 0, 1, 2, 3, 0, 1, 0, 1, 2, 0, 1, 2, 3, 4, 0, 1, 0, 1, 0, 1, 2, 0, 1, 0, 1, 2>>

OpenAt(p, n) ==
  AwakeWith(p, OpenCode[n + 1], OpenCount[n + 1],
            IF n < 10 THEN PanelWidth - 1 ELSE RamWidth - 1,
            IF n < 14 THEN PanelHeight - 1 ELSE Height - 1)

(* A reset panel is at the start of epd_open(). *)
LEMMA OpenReset ==
  ASSUME NEW p \in Panels
  PROVE  OpenAt(HardwareReset(p), 0) /\ HardwareReset(p).shown = p.shown
<1>1. Registers \in Regs
  BY Sizes DEF Registers, Regs
<1>2. RegIs(Registers, 0, 0, PanelWidth - 1, PanelHeight - 1)
  BY DEF Registers, RegIs
<1>3. HardwareReset(p) \in Panels /\ HardwareReset(p).awake /\ HardwareReset(p).reg = Registers
      /\ HardwareReset(p).shown = p.shown
  BY <1>1 DEF HardwareReset, Panels
<1>4. OpenCode[0 + 1] = 0 /\ OpenCount[0 + 1] = 0 /\ 0 < 10 /\ 0 < 14
  BY DEF OpenCode, OpenCount
<1>. QED BY <1>2, <1>3, <1>4 DEF OpenAt, AwakeWith

LEMMA OpenBytesAre ==
  /\ OpenBytes[1].dc = 0 /\ OpenBytes[1].byte = 18
  /\ OpenBytes[2].dc = 0 /\ OpenBytes[2].byte = 1
  /\ OpenBytes[3].dc = 1 /\ OpenBytes[3].byte = Height - 1
  /\ OpenBytes[4].dc = 1 /\ OpenBytes[4].byte = 0
  /\ OpenBytes[5].dc = 1 /\ OpenBytes[5].byte = 0
  /\ OpenBytes[6].dc = 0 /\ OpenBytes[6].byte = 17
  /\ OpenBytes[7].dc = 1 /\ OpenBytes[7].byte = 3
  /\ OpenBytes[8].dc = 0 /\ OpenBytes[8].byte = 68
  /\ OpenBytes[9].dc = 1 /\ OpenBytes[9].byte = 0
  /\ OpenBytes[10].dc = 1 /\ OpenBytes[10].byte = RamWidth - 1
  /\ OpenBytes[11].dc = 0 /\ OpenBytes[11].byte = 69
  /\ OpenBytes[12].dc = 1 /\ OpenBytes[12].byte = 0
  /\ OpenBytes[13].dc = 1 /\ OpenBytes[13].byte = 0
  /\ OpenBytes[14].dc = 1 /\ OpenBytes[14].byte = Height - 1
  /\ OpenBytes[15].dc = 1 /\ OpenBytes[15].byte = 120
  /\ OpenBytes[16].dc = 0 /\ OpenBytes[16].byte = 60
  /\ OpenBytes[17].dc = 1 /\ OpenBytes[17].byte = 5
  /\ OpenBytes[18].dc = 0 /\ OpenBytes[18].byte = 24
  /\ OpenBytes[19].dc = 1 /\ OpenBytes[19].byte = 128
  /\ OpenBytes[20].dc = 0 /\ OpenBytes[20].byte = 33
  /\ OpenBytes[21].dc = 1 /\ OpenBytes[21].byte = 0
  /\ OpenBytes[22].dc = 1 /\ OpenBytes[22].byte = 128
  /\ OpenBytes[23].dc = 0 /\ OpenBytes[23].byte = 78
  /\ OpenBytes[24].dc = 1 /\ OpenBytes[24].byte = 0
  /\ OpenBytes[25].dc = 0 /\ OpenBytes[25].byte = 79
  /\ OpenBytes[26].dc = 1 /\ OpenBytes[26].byte = 0
  /\ OpenBytes[27].dc = 1 /\ OpenBytes[27].byte = 0
BY DEF OpenBytes, C, D

LEMMA OpenCodeIs ==
  /\ OpenCode[1] = 0 /\ OpenCount[1] = 0
  /\ OpenCode[2] = 18 /\ OpenCount[2] = 0
  /\ OpenCode[3] = 1 /\ OpenCount[3] = 0
  /\ OpenCode[4] = 1 /\ OpenCount[4] = 1
  /\ OpenCode[5] = 1 /\ OpenCount[5] = 2
  /\ OpenCode[6] = 1 /\ OpenCount[6] = 3
  /\ OpenCode[7] = 17 /\ OpenCount[7] = 0
  /\ OpenCode[8] = 17 /\ OpenCount[8] = 1
  /\ OpenCode[9] = 68 /\ OpenCount[9] = 0
  /\ OpenCode[10] = 68 /\ OpenCount[10] = 1
  /\ OpenCode[11] = 68 /\ OpenCount[11] = 2
  /\ OpenCode[12] = 69 /\ OpenCount[12] = 0
  /\ OpenCode[13] = 69 /\ OpenCount[13] = 1
  /\ OpenCode[14] = 69 /\ OpenCount[14] = 2
  /\ OpenCode[15] = 69 /\ OpenCount[15] = 3
  /\ OpenCode[16] = 69 /\ OpenCount[16] = 4
  /\ OpenCode[17] = 60 /\ OpenCount[17] = 0
  /\ OpenCode[18] = 60 /\ OpenCount[18] = 1
  /\ OpenCode[19] = 24 /\ OpenCount[19] = 0
  /\ OpenCode[20] = 24 /\ OpenCount[20] = 1
  /\ OpenCode[21] = 33 /\ OpenCount[21] = 0
  /\ OpenCode[22] = 33 /\ OpenCount[22] = 1
  /\ OpenCode[23] = 33 /\ OpenCount[23] = 2
  /\ OpenCode[24] = 78 /\ OpenCount[24] = 0
  /\ OpenCode[25] = 78 /\ OpenCount[25] = 1
  /\ OpenCode[26] = 79 /\ OpenCount[26] = 0
  /\ OpenCode[27] = 79 /\ OpenCount[27] = 1
  /\ OpenCode[28] = 79 /\ OpenCount[28] = 2
BY DEF OpenCode, OpenCount

(* Each byte of epd_open() brings the panel one byte further. *)
LEMMA OpenStep ==
  ASSUME NEW n \in 0..26, NEW p, OpenAt(p, n),
         NEW q, q = PanelTakes(p, OpenBytes[n + 1].dc, OpenBytes[n + 1].byte)
  PROVE  OpenAt(q, n + 1) /\ q.shown = p.shown
<1>0. PICK xe \in Int, ye \in Int : xe = PanelWidth - 1 /\ ye = PanelHeight - 1
  BY Sizes
<1>100. PICK rw \in 0..255, h \in 0..255 : rw = RamWidth - 1 /\ h = Height - 1
  <2>1. RamWidth - 1 \in 0..255 /\ Height - 1 \in 0..255
    BY Sizes
  <2>. QED BY <2>1
<1>1. CASE n = 0
  <2>1. n + 1 = 1 /\ (n + 1) + 1 = 2 /\ (n < 10) /\ (n < 14)
        /\ (n + 1 < 10) /\ (n + 1 < 14)
    BY <1>1
  <2>2. q = PanelTakes(p, 0, 18)
    BY <1>100, <2>1, OpenBytesAre
  <2>3. AwakeWith(p, 0, 0, xe, ye)
    BY <1>0, <1>100, <2>1, OpenCodeIs DEF OpenAt
  <2>4. Takes(q, p, 18, 0, xe, ye)
    BY <2>2, <2>3, TakesReset, <1>0
  <2>. QED BY <1>0, <1>100, <2>1, <2>4, OpenCodeIs DEF OpenAt, Takes
<1>2. CASE n = 1
  <2>1. n + 1 = 2 /\ (n + 1) + 1 = 3 /\ (n < 10) /\ (n < 14)
        /\ (n + 1 < 10) /\ (n + 1 < 14)
    BY <1>2
  <2>2. q = PanelTakes(p, 0, 1)
    BY <1>100, <2>1, OpenBytesAre
  <2>3. AwakeWith(p, 18, 0, xe, ye)
    BY <1>0, <1>100, <2>1, OpenCodeIs DEF OpenAt
  <2>4. Takes(q, p, 1, 0, xe, ye)
    BY <2>2, <2>3, TakesOther
  <2>. QED BY <1>0, <1>100, <2>1, <2>4, OpenCodeIs DEF OpenAt, Takes
<1>3. CASE n = 2
  <2>1. n + 1 = 3 /\ (n + 1) + 1 = 4 /\ (n < 10) /\ (n < 14)
        /\ (n + 1 < 10) /\ (n + 1 < 14)
    BY <1>3
  <2>2. q = PanelTakes(p, 1, h)
    BY <1>100, <2>1, OpenBytesAre
  <2>3. AwakeWith(p, 1, 0, xe, ye)
    BY <1>0, <1>100, <2>1, OpenCodeIs DEF OpenAt
  <2>5. 1 \in {1, 17, 60, 24, 33} /\ 0 \in Nat /\ 0 + 1 = 1 /\ h \in Int
    OBVIOUS
  <2>4. Takes(q, p, 1, 1, xe, ye)
    BY <2>2, <2>3, <2>5, TakesIgnored, Zenon
  <2>. QED BY <1>0, <1>100, <2>1, <2>4, OpenCodeIs DEF OpenAt, Takes
<1>4. CASE n = 3
  <2>1. n + 1 = 4 /\ (n + 1) + 1 = 5 /\ (n < 10) /\ (n < 14)
        /\ (n + 1 < 10) /\ (n + 1 < 14)
    BY <1>4
  <2>2. q = PanelTakes(p, 1, 0)
    BY <1>100, <2>1, OpenBytesAre
  <2>3. AwakeWith(p, 1, 1, xe, ye)
    BY <1>0, <1>100, <2>1, OpenCodeIs DEF OpenAt
  <2>5. 1 \in {1, 17, 60, 24, 33} /\ 1 \in Nat /\ 1 + 1 = 2 /\ 0 \in Int
    OBVIOUS
  <2>4. Takes(q, p, 1, 2, xe, ye)
    BY <2>2, <2>3, <2>5, TakesIgnored, Zenon
  <2>. QED BY <1>0, <1>100, <2>1, <2>4, OpenCodeIs DEF OpenAt, Takes
<1>5. CASE n = 4
  <2>1. n + 1 = 5 /\ (n + 1) + 1 = 6 /\ (n < 10) /\ (n < 14)
        /\ (n + 1 < 10) /\ (n + 1 < 14)
    BY <1>5
  <2>2. q = PanelTakes(p, 1, 0)
    BY <1>100, <2>1, OpenBytesAre
  <2>3. AwakeWith(p, 1, 2, xe, ye)
    BY <1>0, <1>100, <2>1, OpenCodeIs DEF OpenAt
  <2>5. 1 \in {1, 17, 60, 24, 33} /\ 2 \in Nat /\ 2 + 1 = 3 /\ 0 \in Int
    OBVIOUS
  <2>4. Takes(q, p, 1, 3, xe, ye)
    BY <2>2, <2>3, <2>5, TakesIgnored, Zenon
  <2>. QED BY <1>0, <1>100, <2>1, <2>4, OpenCodeIs DEF OpenAt, Takes
<1>6. CASE n = 5
  <2>1. n + 1 = 6 /\ (n + 1) + 1 = 7 /\ (n < 10) /\ (n < 14)
        /\ (n + 1 < 10) /\ (n + 1 < 14)
    BY <1>6
  <2>2. q = PanelTakes(p, 0, 17)
    BY <1>100, <2>1, OpenBytesAre
  <2>3. AwakeWith(p, 1, 3, xe, ye)
    BY <1>0, <1>100, <2>1, OpenCodeIs DEF OpenAt
  <2>4. Takes(q, p, 17, 0, xe, ye)
    BY <2>2, <2>3, TakesOther
  <2>. QED BY <1>0, <1>100, <2>1, <2>4, OpenCodeIs DEF OpenAt, Takes
<1>7. CASE n = 6
  <2>1. n + 1 = 7 /\ (n + 1) + 1 = 8 /\ (n < 10) /\ (n < 14)
        /\ (n + 1 < 10) /\ (n + 1 < 14)
    BY <1>7
  <2>2. q = PanelTakes(p, 1, 3)
    BY <1>100, <2>1, OpenBytesAre
  <2>3. AwakeWith(p, 17, 0, xe, ye)
    BY <1>0, <1>100, <2>1, OpenCodeIs DEF OpenAt
  <2>5. 17 \in {1, 17, 60, 24, 33} /\ 0 \in Nat /\ 0 + 1 = 1 /\ 3 \in Int
    OBVIOUS
  <2>4. Takes(q, p, 17, 1, xe, ye)
    BY <2>2, <2>3, <2>5, TakesIgnored, Zenon
  <2>. QED BY <1>0, <1>100, <2>1, <2>4, OpenCodeIs DEF OpenAt, Takes
<1>8. CASE n = 7
  <2>1. n + 1 = 8 /\ (n + 1) + 1 = 9 /\ (n < 10) /\ (n < 14)
        /\ (n + 1 < 10) /\ (n + 1 < 14)
    BY <1>8
  <2>2. q = PanelTakes(p, 0, 68)
    BY <1>100, <2>1, OpenBytesAre
  <2>3. AwakeWith(p, 17, 1, xe, ye)
    BY <1>0, <1>100, <2>1, OpenCodeIs DEF OpenAt
  <2>4. Takes(q, p, 68, 0, xe, ye)
    BY <2>2, <2>3, TakesOther
  <2>. QED BY <1>0, <1>100, <2>1, <2>4, OpenCodeIs DEF OpenAt, Takes
<1>9. CASE n = 8
  <2>1. n + 1 = 9 /\ (n + 1) + 1 = 10 /\ (n < 10) /\ (n < 14)
        /\ (n + 1 < 10) /\ (n + 1 < 14)
    BY <1>9
  <2>2. q = PanelTakes(p, 1, 0)
    BY <1>100, <2>1, OpenBytesAre
  <2>3. AwakeWith(p, 68, 0, xe, ye)
    BY <1>0, <1>100, <2>1, OpenCodeIs DEF OpenAt
  <2>4. Takes(q, p, 68, 1, xe, ye)
    BY <2>2, <2>3, TakesDatum
  <2>. QED BY <1>0, <1>100, <2>1, <2>4, OpenCodeIs DEF OpenAt, Takes
<1>10. CASE n = 9
  <2>1. n + 1 = 10 /\ (n + 1) + 1 = 11 /\ (n < 10) /\ (n < 14)
        /\ ~(n + 1 < 10) /\ (n + 1 < 14)
    BY <1>10
  <2>2. q = PanelTakes(p, 1, rw)
    BY <1>100, <2>1, OpenBytesAre
  <2>3. AwakeWith(p, 68, 1, xe, ye)
    BY <1>0, <1>100, <2>1, OpenCodeIs DEF OpenAt
  <2>4. Takes(q, p, 68, 2, rw, ye)
    BY <2>2, <2>3, TakesDatum
  <2>. QED BY <1>0, <1>100, <2>1, <2>4, OpenCodeIs DEF OpenAt, Takes
<1>11. CASE n = 10
  <2>1. n + 1 = 11 /\ (n + 1) + 1 = 12 /\ ~(n < 10) /\ (n < 14)
        /\ ~(n + 1 < 10) /\ (n + 1 < 14)
    BY <1>11
  <2>2. q = PanelTakes(p, 0, 69)
    BY <1>100, <2>1, OpenBytesAre
  <2>3. AwakeWith(p, 68, 2, rw, ye)
    BY <1>0, <1>100, <2>1, OpenCodeIs DEF OpenAt
  <2>4. Takes(q, p, 69, 0, rw, ye)
    BY <2>2, <2>3, TakesOther
  <2>. QED BY <1>0, <1>100, <2>1, <2>4, OpenCodeIs DEF OpenAt, Takes
<1>12. CASE n = 11
  <2>1. n + 1 = 12 /\ (n + 1) + 1 = 13 /\ ~(n < 10) /\ (n < 14)
        /\ ~(n + 1 < 10) /\ (n + 1 < 14)
    BY <1>12
  <2>2. q = PanelTakes(p, 1, 0)
    BY <1>100, <2>1, OpenBytesAre
  <2>3. AwakeWith(p, 69, 0, rw, ye)
    BY <1>0, <1>100, <2>1, OpenCodeIs DEF OpenAt
  <2>4. Takes(q, p, 69, 1, rw, ye)
    BY <2>2, <2>3, TakesDatum
  <2>. QED BY <1>0, <1>100, <2>1, <2>4, OpenCodeIs DEF OpenAt, Takes
<1>13. CASE n = 12
  <2>1. n + 1 = 13 /\ (n + 1) + 1 = 14 /\ ~(n < 10) /\ (n < 14)
        /\ ~(n + 1 < 10) /\ (n + 1 < 14)
    BY <1>13
  <2>2. q = PanelTakes(p, 1, 0)
    BY <1>100, <2>1, OpenBytesAre
  <2>3. AwakeWith(p, 69, 1, rw, ye)
    BY <1>0, <1>100, <2>1, OpenCodeIs DEF OpenAt
  <2>4. Takes(q, p, 69, 2, rw, ye)
    BY <2>2, <2>3, TakesDatum
  <2>. QED BY <1>0, <1>100, <2>1, <2>4, OpenCodeIs DEF OpenAt, Takes
<1>14. CASE n = 13
  <2>1. n + 1 = 14 /\ (n + 1) + 1 = 15 /\ ~(n < 10) /\ (n < 14)
        /\ ~(n + 1 < 10) /\ ~(n + 1 < 14)
    BY <1>14
  <2>2. q = PanelTakes(p, 1, h)
    BY <1>100, <2>1, OpenBytesAre
  <2>3. AwakeWith(p, 69, 2, rw, ye)
    BY <1>0, <1>100, <2>1, OpenCodeIs DEF OpenAt
  <2>4. Takes(q, p, 69, 3, rw, h)
    BY <2>2, <2>3, TakesDatum
  <2>. QED BY <1>0, <1>100, <2>1, <2>4, OpenCodeIs DEF OpenAt, Takes
<1>15. CASE n = 14
  <2>1. n + 1 = 15 /\ (n + 1) + 1 = 16 /\ ~(n < 10) /\ ~(n < 14)
        /\ ~(n + 1 < 10) /\ ~(n + 1 < 14)
    BY <1>15
  <2>2. q = PanelTakes(p, 1, 120)
    BY <1>100, <2>1, OpenBytesAre
  <2>3. AwakeWith(p, 69, 3, rw, h)
    BY <1>0, <1>100, <2>1, OpenCodeIs DEF OpenAt
  <2>4. Takes(q, p, 69, 4, rw, h)
    BY <2>2, <2>3, TakesDatum
  <2>. QED BY <1>0, <1>100, <2>1, <2>4, OpenCodeIs DEF OpenAt, Takes
<1>16. CASE n = 15
  <2>1. n + 1 = 16 /\ (n + 1) + 1 = 17 /\ ~(n < 10) /\ ~(n < 14)
        /\ ~(n + 1 < 10) /\ ~(n + 1 < 14)
    BY <1>16
  <2>2. q = PanelTakes(p, 0, 60)
    BY <1>100, <2>1, OpenBytesAre
  <2>3. AwakeWith(p, 69, 4, rw, h)
    BY <1>0, <1>100, <2>1, OpenCodeIs DEF OpenAt
  <2>4. Takes(q, p, 60, 0, rw, h)
    BY <2>2, <2>3, TakesOther
  <2>. QED BY <1>0, <1>100, <2>1, <2>4, OpenCodeIs DEF OpenAt, Takes
<1>17. CASE n = 16
  <2>1. n + 1 = 17 /\ (n + 1) + 1 = 18 /\ ~(n < 10) /\ ~(n < 14)
        /\ ~(n + 1 < 10) /\ ~(n + 1 < 14)
    BY <1>17
  <2>2. q = PanelTakes(p, 1, 5)
    BY <1>100, <2>1, OpenBytesAre
  <2>3. AwakeWith(p, 60, 0, rw, h)
    BY <1>0, <1>100, <2>1, OpenCodeIs DEF OpenAt
  <2>5. 60 \in {1, 17, 60, 24, 33} /\ 0 \in Nat /\ 0 + 1 = 1 /\ 5 \in Int
    OBVIOUS
  <2>4. Takes(q, p, 60, 1, rw, h)
    BY <2>2, <2>3, <2>5, TakesIgnored, Zenon
  <2>. QED BY <1>0, <1>100, <2>1, <2>4, OpenCodeIs DEF OpenAt, Takes
<1>18. CASE n = 17
  <2>1. n + 1 = 18 /\ (n + 1) + 1 = 19 /\ ~(n < 10) /\ ~(n < 14)
        /\ ~(n + 1 < 10) /\ ~(n + 1 < 14)
    BY <1>18
  <2>2. q = PanelTakes(p, 0, 24)
    BY <1>100, <2>1, OpenBytesAre
  <2>3. AwakeWith(p, 60, 1, rw, h)
    BY <1>0, <1>100, <2>1, OpenCodeIs DEF OpenAt
  <2>4. Takes(q, p, 24, 0, rw, h)
    BY <2>2, <2>3, TakesOther
  <2>. QED BY <1>0, <1>100, <2>1, <2>4, OpenCodeIs DEF OpenAt, Takes
<1>19. CASE n = 18
  <2>1. n + 1 = 19 /\ (n + 1) + 1 = 20 /\ ~(n < 10) /\ ~(n < 14)
        /\ ~(n + 1 < 10) /\ ~(n + 1 < 14)
    BY <1>19
  <2>2. q = PanelTakes(p, 1, 128)
    BY <1>100, <2>1, OpenBytesAre
  <2>3. AwakeWith(p, 24, 0, rw, h)
    BY <1>0, <1>100, <2>1, OpenCodeIs DEF OpenAt
  <2>5. 24 \in {1, 17, 60, 24, 33} /\ 0 \in Nat /\ 0 + 1 = 1 /\ 128 \in Int
    OBVIOUS
  <2>4. Takes(q, p, 24, 1, rw, h)
    BY <2>2, <2>3, <2>5, TakesIgnored, Zenon
  <2>. QED BY <1>0, <1>100, <2>1, <2>4, OpenCodeIs DEF OpenAt, Takes
<1>20. CASE n = 19
  <2>1. n + 1 = 20 /\ (n + 1) + 1 = 21 /\ ~(n < 10) /\ ~(n < 14)
        /\ ~(n + 1 < 10) /\ ~(n + 1 < 14)
    BY <1>20
  <2>2. q = PanelTakes(p, 0, 33)
    BY <1>100, <2>1, OpenBytesAre
  <2>3. AwakeWith(p, 24, 1, rw, h)
    BY <1>0, <1>100, <2>1, OpenCodeIs DEF OpenAt
  <2>4. Takes(q, p, 33, 0, rw, h)
    BY <2>2, <2>3, TakesOther
  <2>. QED BY <1>0, <1>100, <2>1, <2>4, OpenCodeIs DEF OpenAt, Takes
<1>21. CASE n = 20
  <2>1. n + 1 = 21 /\ (n + 1) + 1 = 22 /\ ~(n < 10) /\ ~(n < 14)
        /\ ~(n + 1 < 10) /\ ~(n + 1 < 14)
    BY <1>21
  <2>2. q = PanelTakes(p, 1, 0)
    BY <1>100, <2>1, OpenBytesAre
  <2>3. AwakeWith(p, 33, 0, rw, h)
    BY <1>0, <1>100, <2>1, OpenCodeIs DEF OpenAt
  <2>5. 33 \in {1, 17, 60, 24, 33} /\ 0 \in Nat /\ 0 + 1 = 1 /\ 0 \in Int
    OBVIOUS
  <2>4. Takes(q, p, 33, 1, rw, h)
    BY <2>2, <2>3, <2>5, TakesIgnored, Zenon
  <2>. QED BY <1>0, <1>100, <2>1, <2>4, OpenCodeIs DEF OpenAt, Takes
<1>22. CASE n = 21
  <2>1. n + 1 = 22 /\ (n + 1) + 1 = 23 /\ ~(n < 10) /\ ~(n < 14)
        /\ ~(n + 1 < 10) /\ ~(n + 1 < 14)
    BY <1>22
  <2>2. q = PanelTakes(p, 1, 128)
    BY <1>100, <2>1, OpenBytesAre
  <2>3. AwakeWith(p, 33, 1, rw, h)
    BY <1>0, <1>100, <2>1, OpenCodeIs DEF OpenAt
  <2>5. 33 \in {1, 17, 60, 24, 33} /\ 1 \in Nat /\ 1 + 1 = 2 /\ 128 \in Int
    OBVIOUS
  <2>4. Takes(q, p, 33, 2, rw, h)
    BY <2>2, <2>3, <2>5, TakesIgnored, Zenon
  <2>. QED BY <1>0, <1>100, <2>1, <2>4, OpenCodeIs DEF OpenAt, Takes
<1>23. CASE n = 22
  <2>1. n + 1 = 23 /\ (n + 1) + 1 = 24 /\ ~(n < 10) /\ ~(n < 14)
        /\ ~(n + 1 < 10) /\ ~(n + 1 < 14)
    BY <1>23
  <2>2. q = PanelTakes(p, 0, 78)
    BY <1>100, <2>1, OpenBytesAre
  <2>3. AwakeWith(p, 33, 2, rw, h)
    BY <1>0, <1>100, <2>1, OpenCodeIs DEF OpenAt
  <2>4. Takes(q, p, 78, 0, rw, h)
    BY <2>2, <2>3, TakesOther
  <2>. QED BY <1>0, <1>100, <2>1, <2>4, OpenCodeIs DEF OpenAt, Takes
<1>24. CASE n = 23
  <2>1. n + 1 = 24 /\ (n + 1) + 1 = 25 /\ ~(n < 10) /\ ~(n < 14)
        /\ ~(n + 1 < 10) /\ ~(n + 1 < 14)
    BY <1>24
  <2>2. q = PanelTakes(p, 1, 0)
    BY <1>100, <2>1, OpenBytesAre
  <2>3. AwakeWith(p, 78, 0, rw, h)
    BY <1>0, <1>100, <2>1, OpenCodeIs DEF OpenAt
  <2>4. Takes(q, p, 78, 1, rw, h)
    BY <2>2, <2>3, TakesDatum
  <2>. QED BY <1>0, <1>100, <2>1, <2>4, OpenCodeIs DEF OpenAt, Takes
<1>25. CASE n = 24
  <2>1. n + 1 = 25 /\ (n + 1) + 1 = 26 /\ ~(n < 10) /\ ~(n < 14)
        /\ ~(n + 1 < 10) /\ ~(n + 1 < 14)
    BY <1>25
  <2>2. q = PanelTakes(p, 0, 79)
    BY <1>100, <2>1, OpenBytesAre
  <2>3. AwakeWith(p, 78, 1, rw, h)
    BY <1>0, <1>100, <2>1, OpenCodeIs DEF OpenAt
  <2>4. Takes(q, p, 79, 0, rw, h)
    BY <2>2, <2>3, TakesOther
  <2>. QED BY <1>0, <1>100, <2>1, <2>4, OpenCodeIs DEF OpenAt, Takes
<1>26. CASE n = 25
  <2>1. n + 1 = 26 /\ (n + 1) + 1 = 27 /\ ~(n < 10) /\ ~(n < 14)
        /\ ~(n + 1 < 10) /\ ~(n + 1 < 14)
    BY <1>26
  <2>2. q = PanelTakes(p, 1, 0)
    BY <1>100, <2>1, OpenBytesAre
  <2>3. AwakeWith(p, 79, 0, rw, h)
    BY <1>0, <1>100, <2>1, OpenCodeIs DEF OpenAt
  <2>4. Takes(q, p, 79, 1, rw, h)
    BY <2>2, <2>3, TakesDatum
  <2>. QED BY <1>0, <1>100, <2>1, <2>4, OpenCodeIs DEF OpenAt, Takes
<1>27. CASE n = 26
  <2>1. n + 1 = 27 /\ (n + 1) + 1 = 28 /\ ~(n < 10) /\ ~(n < 14)
        /\ ~(n + 1 < 10) /\ ~(n + 1 < 14)
    BY <1>27
  <2>2. q = PanelTakes(p, 1, 0)
    BY <1>100, <2>1, OpenBytesAre
  <2>3. AwakeWith(p, 79, 1, rw, h)
    BY <1>0, <1>100, <2>1, OpenCodeIs DEF OpenAt
  <2>4. Takes(q, p, 79, 2, rw, h)
    BY <2>2, <2>3, TakesDatum
  <2>. QED BY <1>0, <1>100, <2>1, <2>4, OpenCodeIs DEF OpenAt, Takes
<1>. QED BY <1>1, <1>2, <1>3, <1>4, <1>5, <1>6, <1>7, <1>8, <1>9, <1>10, <1>11, <1>12, <1>13, <1>14, <1>15, <1>16, <1>17, <1>18, <1>19, <1>20, <1>21, <1>22, <1>23, <1>24, <1>25, <1>26, <1>27

-----------------------------------------------------------------------------
(* epd_flush() *)

(* The window is the picture, and the counters are at its byte k; after    *)
(* the last byte they are at the first again.                              *)
Counts(r, k) ==
  /\ r.xs = 0 /\ r.ys = 0 /\ r.xe = RamWidth - 1 /\ r.ye = Height - 1
  /\ r.x \in 0..(RamWidth - 1) /\ r.y \in 0..(Height - 1)
  /\ RamWidth * r.y + r.x = IF k = EpdPartRamSize THEN 0 ELSE k

(* The counters step to the next byte, and wrap after the last. *)
LEMMA SteppedCounts ==
  ASSUME NEW r \in Regs, NEW k \in 0..(EpdPartRamSize - 1), Counts(r, k)
  PROVE  /\ Counts(Stepped(r), k + 1)
         /\ Stepped(r).cmd = r.cmd
<1>1. PICK w \in 1..256, h \in 1..256, s \in Nat \ {0} : w = RamWidth /\ h = Height /\ s = EpdPartRamSize
  <2>1. RamWidth \in 1..256 /\ Height \in 1..256 /\ EpdPartRamSize \in Nat \ {0}
    BY Sizes
  <2>. QED BY <2>1
<1>2. PICK x \in 0..(w - 1), y \in 0..(h - 1) : x = r.x /\ y = r.y
  BY <1>1 DEF Counts
<1>3. r.xs = 0 /\ r.ys = 0 /\ r.xe = w - 1 /\ r.ye = h - 1 /\ w * y + x = k /\ k < s
  <2>1. k # EpdPartRamSize
    BY <1>1
  <2>. QED BY <1>1, <1>2, <2>1 DEF Counts
<1>4. k = s - 1 <=> x = w - 1 /\ y = h - 1
  <2>1. w * y + x = s - 1 <=> x = w - 1 /\ y = h - 1
    BY <1>1, CellNumber, Zenon
  <2>. QED BY <1>3, <2>1
<1>5. w <= PanelWidth /\ h <= PanelHeight /\ PanelWidth \in Nat /\ PanelHeight \in Nat
  BY <1>1, Sizes
<1>6. CASE x # w - 1
  <2>1. (x + 1) % PanelWidth = x + 1
    BY <1>5, <1>6
  <2>2. Stepped(r) = [r EXCEPT !.x = x + 1]
    BY <1>2, <1>3, <1>6, <2>1 DEF Stepped, Regs
  <2>3. w * y + (x + 1) = k + 1 /\ k + 1 # s
    BY <1>3, <1>4, <1>6
  <2>4. x + 1 \in 0..(w - 1)
    BY <1>6
  <2>5. PICK q : q = [r EXCEPT !.x = x + 1]
    OBVIOUS
  <2>6. /\ q.xs = 0 /\ q.ys = 0 /\ q.xe = w - 1 /\ q.ye = h - 1
        /\ q.x = x + 1 /\ q.y = y /\ q.cmd = r.cmd
    BY <1>2, <1>3, <2>5 DEF Regs
  <2>. QED BY <1>1, <2>2, <2>3, <2>4, <2>5, <2>6 DEF Counts
<1>7. CASE x = w - 1 /\ y # h - 1
  <2>1. (y + 1) % PanelHeight = y + 1
    BY <1>5, <1>7
  <2>2. Stepped(r) = [r EXCEPT !.x = 0, !.y = y + 1]
    BY <1>2, <1>3, <1>7, <2>1 DEF Stepped, Regs
  <2>3. w * (y + 1) + 0 = k + 1 /\ k + 1 # s
    <3>1. w * (y + 1) = w * y + w
      OBVIOUS
    <3>. QED BY <1>3, <1>4, <1>7, <3>1
  <2>4. y + 1 \in 0..(h - 1) /\ 0 \in 0..(w - 1)
    BY <1>7
  <2>5. PICK q, c, d : q = [r EXCEPT !.x = c, !.y = d] /\ c = 0 /\ d = y + 1
    OBVIOUS
  <2>6. /\ q.xs = 0 /\ q.ys = 0 /\ q.xe = w - 1 /\ q.ye = h - 1
        /\ q.x = 0 /\ q.y = y + 1 /\ q.cmd = r.cmd
    BY <1>2, <1>3, <2>5 DEF Regs
  <2>. QED BY <1>1, <2>2, <2>3, <2>4, <2>5, <2>6 DEF Counts
<1>8. CASE x = w - 1 /\ y = h - 1
  <2>2. Stepped(r) = [r EXCEPT !.x = 0, !.y = 0]
    BY <1>2, <1>3, <1>8 DEF Stepped, Regs
  <2>3. w * 0 + 0 = 0 /\ k + 1 = s
    BY <1>4, <1>8
  <2>4. 0 \in 0..(h - 1) /\ 0 \in 0..(w - 1)
    OBVIOUS
  <2>5. PICK q, c, d : q = [r EXCEPT !.x = c, !.y = d] /\ c = 0 /\ d = 0
    OBVIOUS
  <2>6. /\ q.xs = 0 /\ q.ys = 0 /\ q.xe = w - 1 /\ q.ye = h - 1
        /\ q.x = 0 /\ q.y = 0 /\ q.cmd = r.cmd
    BY <1>2, <1>3, <2>5 DEF Regs
  <2>. QED BY <1>1, <2>2, <2>3, <2>4, <2>5, <2>6 DEF Counts
<1>. QED BY <1>6, <1>7, <1>8

(* A byte written at the counters extends what is drawn, and changes no    *)
(* byte before it.                                                         *)
LEMMA DrawnNext ==
  ASSUME NEW ram \in Ram, NEW f, NEW mask, NEW k \in 0..(EpdPartRamSize - 1), NEW r,
         Counts(r, k), Drawn(ram, f, mask, k), NEW b, b = BitScale(f, k, mask),
         NEW new, new = [ram EXCEPT ![<<r.x, r.y>>] = b]
  PROVE  Drawn(new, f, mask, k + 1)
<1>1. PICK w \in 1..256, h \in 1..256 : w = RamWidth /\ h = Height /\ w <= PanelWidth /\ h <= PanelHeight
  <2>1. RamWidth \in 1..256 /\ Height \in 1..256
    BY Sizes
  <2>. QED BY <2>1, Sizes
<1>2. PICK x \in 0..(w - 1), y \in 0..(h - 1) : x = r.x /\ y = r.y
  BY <1>1 DEF Counts
<1>3. w * y + x = k
  <2>1. k # EpdPartRamSize
    BY Sizes
  <2>. QED BY <1>1, <1>2, <2>1 DEF Counts
<1>. SUFFICES ASSUME NEW i \in 0..(w - 1), NEW j \in 0..(h - 1), w * j + i < k + 1
              PROVE  new[<<i, j>>] = BitScale(f, w * j + i, mask)
  BY <1>1 DEF Drawn
<1>4. <<x, y>> \in Cell /\ <<i, j>> \in Cell
  BY <1>1, Sizes DEF Cell
<1>5. CASE w * j + i = k
  <2>1. i = x /\ j = y
    BY <1>1, <1>3, <1>5, CellNumber
  <2>. QED BY <1>2, <1>4, <1>5, <2>1 DEF Ram
<1>6. CASE w * j + i # k
  <2>1. w * j + i \in Int
    OBVIOUS
  <2>2. w * j + i < k
    BY <1>6, <2>1
  <2>3. <<i, j>> # <<x, y>>
    BY <1>3, <1>6
  <2>4. ram[<<i, j>>] = BitScale(f, w * j + i, mask)
    BY <1>1, <2>2 DEF Drawn
  <2>. QED BY <1>2, <1>4, <2>3, <2>4 DEF Ram
<1>. QED BY <1>5, <1>6

(* Panel p after a command that is no reset. *)
Commanded(q, p, b) ==
  /\ q \in Panels /\ q.awake /\ q.reg.cmd = b /\ q.bw = p.bw /\ q.red = p.red
  /\ Counts(p.reg, 0) => Counts(q.reg, 0)
  /\ b = 32 => q.shown = <<p.bw, p.red>>

LEMMA CommandIs ==
  ASSUME NEW p \in Panels, p.awake, NEW b \in Int, b # 18, NEW q, q = PanelTakes(p, 0, b)
  PROVE  Commanded(q, p, b)
<1>1. PICK r \in Regs : r = p.reg
  BY DEF Panels
<1>2. PICK a, s : s = [r EXCEPT !.cmd = b, !.args = a] /\ a = 0
  OBVIOUS
<1>3. q = IF b = 32 THEN [p EXCEPT !.reg = s, !.shown = <<p.bw, p.red>>] ELSE [p EXCEPT !.reg = s]
  <2>1. q = TakesCommand(p, b)
    BY DEF PanelTakes
  <2>2. s = [p.reg EXCEPT !.cmd = b, !.args = 0]
    BY <1>1, <1>2
  <2>. QED BY <2>1, <2>2 DEF TakesCommand, SW_RESET, MASTER_ACTIVATION
<1>4. s.cmd = b /\ s.x = r.x /\ s.y = r.y /\ s.xs = r.xs /\ s.xe = r.xe /\ s.ys = r.ys /\ s.ye = r.ye
  BY <1>2 DEF Regs
<1>5. q.reg = s /\ q.awake /\ q.bw = p.bw /\ q.red = p.red
  BY <1>3 DEF Panels
<1>6. b = 32 => q.shown = <<p.bw, p.red>>
  BY <1>3 DEF Panels
<1>7. q \in Panels
  BY TakesTyped
<1>8. Counts(p.reg, 0) => Counts(q.reg, 0)
  BY <1>1, <1>4, <1>5 DEF Counts
<1>. QED BY <1>4, <1>5, <1>6, <1>7, <1>8 DEF Commanded

(* A data byte: of a plane it is drawn, of the refresh control it is not. *)
LEMMA PlaneStep ==
  ASSUME NEW p \in Panels, p.awake, NEW f, NEW k \in 0..(EpdPartRamSize - 1), Counts(p.reg, k),
         NEW b \in Int, NEW q, q = PanelTakes(p, 1, b)
  PROVE  /\ q \in Panels /\ (p.reg.cmd \in {34, 36, 38} => q.awake)
         /\ p.reg.cmd \in {36, 38} => q.reg.cmd = p.reg.cmd /\ Counts(q.reg, k + 1)
         /\ p.reg.cmd = 36 /\ b = BitScale(f, k, 1) /\ Drawn(p.bw, f, 1, k) => Drawn(q.bw, f, 1, k + 1)
         /\ p.reg.cmd = 38 => q.bw = p.bw
         /\ p.reg.cmd = 38 /\ b = BitScale(f, k, 2) /\ Drawn(p.red, f, 2, k) => Drawn(q.red, f, 2, k + 1)
         /\ p.reg.cmd = 34 => q.reg.cmd = 34 /\ q.bw = p.bw /\ q.red = p.red
<1>1. PICK r \in Regs : r = p.reg
  BY DEF Panels
<1>2. p.bw \in Ram /\ p.red \in Ram
  BY DEF Panels
<1>3. PICK bw \in Ram : bw = [p.bw EXCEPT ![<<r.x, r.y>>] = b]
  BY <1>2, RamTyped
<1>4. PICK red \in Ram : red = [p.red EXCEPT ![<<r.x, r.y>>] = b]
  BY <1>2, RamTyped
<1>5. PICK s : s = Stepped(r)
  OBVIOUS
<1>6. Counts(s, k + 1) /\ s.cmd = r.cmd
  BY <1>1, <1>5, SteppedCounts
<1>7. q = TakesData(p, b)
  BY DEF PanelTakes
<1>8. p.reg.cmd = 36 => q = [p EXCEPT !.reg = s, !.bw = bw]
  BY <1>1, <1>3, <1>5, <1>7 DEF TakesData, WRITE_RAM_BW, WRITE_RAM_RED, SET_RAM_X_ADDR, SET_RAM_Y_ADDR,
     SET_RAM_X_COUNTER, SET_RAM_Y_COUNTER, DEEP_SLP_MODE
<1>9. p.reg.cmd = 38 => q = [p EXCEPT !.reg = s, !.red = red]
  BY <1>1, <1>4, <1>5, <1>7 DEF TakesData, WRITE_RAM_BW, WRITE_RAM_RED, SET_RAM_X_ADDR, SET_RAM_Y_ADDR,
     SET_RAM_X_COUNTER, SET_RAM_Y_COUNTER, DEEP_SLP_MODE
<1>10. PICK t : t = [r EXCEPT !.args = @ + 1]
  OBVIOUS
<1>11. p.reg.cmd = 34 => q = [p EXCEPT !.reg = t]
  BY <1>1, <1>10, <1>7 DEF TakesData, WRITE_RAM_BW, WRITE_RAM_RED, SET_RAM_X_ADDR, SET_RAM_Y_ADDR,
     SET_RAM_X_COUNTER, SET_RAM_Y_COUNTER, DEEP_SLP_MODE
<1>12. t.cmd = r.cmd
  BY <1>10 DEF Regs
<1>13. q \in Panels
  BY TakesTyped
<1>14. p.reg.cmd = 36 => q.reg = s /\ q.bw = bw /\ q.awake
  BY <1>8 DEF Panels
<1>15. p.reg.cmd = 38 => q.reg = s /\ q.bw = p.bw /\ q.red = red /\ q.awake
  BY <1>9 DEF Panels
<1>16. p.reg.cmd = 34 => q.reg = t /\ q.bw = p.bw /\ q.red = p.red /\ q.awake
  BY <1>11 DEF Panels
<1>17. b = BitScale(f, k, 1) /\ Drawn(p.bw, f, 1, k) => Drawn(bw, f, 1, k + 1)
  BY <1>1, <1>2, <1>3, DrawnNext
<1>18. b = BitScale(f, k, 2) /\ Drawn(p.red, f, 2, k) => Drawn(red, f, 2, k + 1)
  BY <1>1, <1>2, <1>4, DrawnNext
<1>. QED BY <1>1, <1>6, <1>12, <1>13, <1>14, <1>15, <1>16, <1>17, <1>18

(* After n bytes of epd_flush() of f. *)
FlushAt(p, f, n) ==
  /\ p \in Panels /\ p.awake
  /\ n = 0 => Counts(p.reg, 0)
  /\ n \in 1..(EpdPartRamSize + 1) =>
       p.reg.cmd = 36 /\ Counts(p.reg, n - 1) /\ Drawn(p.bw, f, 1, n - 1)
  /\ n \in (EpdPartRamSize + 2)..(2 * EpdPartRamSize + 2) =>
       /\ p.reg.cmd = 38 /\ Counts(p.reg, n - EpdPartRamSize - 2)
       /\ Drawn(p.bw, f, 1, EpdPartRamSize) /\ Drawn(p.red, f, 2, n - EpdPartRamSize - 2)
  /\ n \in {2 * EpdPartRamSize + 3, 2 * EpdPartRamSize + 4} =>
       /\ n = 2 * EpdPartRamSize + 3 => p.reg.cmd = 34 /\ Counts(p.reg, 0)
       /\ Drawn(p.bw, f, 1, EpdPartRamSize) /\ Drawn(p.red, f, 2, EpdPartRamSize)
  /\ n = 2 * EpdPartRamSize + 5 => Shows(p.shown, f)

LEMMA CountsWrap ==
  ASSUME NEW r, Counts(r, EpdPartRamSize)
  PROVE  Counts(r, 0)
BY Sizes DEF Counts

LEMMA DrawnNothing ==
  ASSUME NEW m, NEW f, NEW mask
  PROVE  Drawn(m, f, mask, 0)
<1>1. \A x \in 0..(RamWidth - 1), y \in 0..(Height - 1) : RamWidth * y + x \in 0..(EpdPartRamSize - 1)
  BY CellNumber
<1>. QED BY <1>1 DEF Drawn

(* Panel q is panel p with byte n + 1 of epd_flush() of f. *)
FlushByte(f, n, q, p) == q = PanelTakes(p, FlushBytes(f)[n + 1].dc, FlushBytes(f)[n + 1].byte)

LEMMA FlushCommand ==
  ASSUME NEW f, NEW n, NEW b, FlushBytes(f)[n + 1] = C(b), NEW p, NEW q, FlushByte(f, n, q, p)
  PROVE  q = PanelTakes(p, 0, b)
BY DEF FlushByte, C

LEMMA FlushDatum ==
  ASSUME NEW f, NEW n, NEW b, FlushBytes(f)[n + 1] = D(b), NEW p, NEW q, FlushByte(f, n, q, p)
  PROVE  q = PanelTakes(p, 1, b)
BY DEF FlushByte, D

(* Each byte of epd_flush() brings the panel one byte further. *)
LEMMA FlushStep ==
  ASSUME NEW f \in Picture, NEW n \in 0..(2 * EpdPartRamSize + 4), NEW p, FlushAt(p, f, n),
         NEW q, FlushByte(f, n, q, p)
  PROVE  FlushAt(q, f, n + 1)
<1>. DEFINE o == FlushBytes(f)
<1>1. PICK s \in Nat \ {0} : s = EpdPartRamSize
  BY Sizes
<1>2. /\ o[1] = C(36) /\ \A j \in 1..s : o[j + 1] = D(BitScale(f, j - 1, 1))
      /\ o[s + 2] = C(38) /\ \A j \in 1..s : o[s + 2 + j] = D(BitScale(f, j - 1, 2))
      /\ o[2 * s + 3] = C(34) /\ o[2 * s + 4] = D(247) /\ o[2 * s + 5] = C(32)
  <2>1. FlushAre(o, f, s)
    BY <1>1, FlushBytesAre
  <2>. QED BY ONLY <2>1 DEF FlushAre
<1>. HIDE DEF o
<1>3. p \in Panels /\ p.awake
  BY DEF FlushAt
<1>4. CASE n = 0
  <2>1. o[n + 1] = C(36) /\ n + 1 = 1 /\ Counts(p.reg, 0)
    BY <1>2, <1>4 DEF FlushAt
  <2>2. q = PanelTakes(p, 0, 36)
    BY <2>1, FlushCommand DEF o
  <2>3. q \in Panels /\ q.awake /\ q.reg.cmd = 36 /\ Counts(q.reg, 0)
    <3>1. 36 \in Int /\ 36 # 18
      OBVIOUS
    <3>2. Commanded(q, p, 36)
      BY <1>3, <2>1, <2>2, <3>1, CommandIs
    <3>. QED BY <1>3, <2>1, <2>2, <3>2 DEF Commanded
  <2>4. Drawn(q.bw, f, 1, 0)
    BY DrawnNothing
  <2>5. 1 - 1 = 0 /\ 1 # 0 /\ 1 \notin (s + 2)..(2 * s + 2) /\ 1 \notin {2 * s + 3, 2 * s + 4} /\ 1 # 2 * s + 5
    BY <1>1
  <2>. QED BY <1>1, <2>1, <2>3, <2>4, <2>5 DEF FlushAt
<1>5. CASE n \in 1..s
  <2>1. p.reg.cmd = 36 /\ Counts(p.reg, n - 1) /\ Drawn(p.bw, f, 1, n - 1)
    BY <1>1, <1>5 DEF FlushAt
  <2>2. PICK k \in 0..(s - 1) : k = n - 1 /\ k + 1 = n
    BY <1>5
  <2>3. PICK b \in 0..255 : b = BitScale(f, k, 1)
    BY <1>1, BitScaleIs
  <2>4. q = PanelTakes(p, 1, b)
    <3>1. o[n + 1] = D(b)
      BY <1>2, <1>5, <2>2, <2>3
    <3>. QED BY <3>1, FlushDatum DEF o
  <2>5. q \in Panels /\ q.awake /\ q.reg.cmd = 36 /\ Counts(q.reg, n) /\ Drawn(q.bw, f, 1, n)
    <3>1. b \in Int
      OBVIOUS
    <3>. QED BY <1>1, <1>3, <2>1, <2>2, <2>3, <2>4, <3>1, PlaneStep
  <2>6. /\ n + 1 # 0 /\ (n + 1) - 1 = n /\ n + 1 \notin (s + 2)..(2 * s + 2)
        /\ n + 1 \notin {2 * s + 3, 2 * s + 4} /\ n + 1 # 2 * s + 5
    BY <1>5
  <2>. QED BY <1>1, <2>5, <2>6 DEF FlushAt
<1>6. CASE n = s + 1
  <2>1. p.reg.cmd = 36 /\ Counts(p.reg, s) /\ Drawn(p.bw, f, 1, s)
    <3>1. n \in 1..(s + 1) /\ n - 1 = s
      BY <1>6
    <3>. QED BY <1>1, <3>1 DEF FlushAt
  <2>2. q = PanelTakes(p, 0, 38)
    <3>1. o[n + 1] = C(38)
      BY <1>2, <1>6
    <3>. QED BY <3>1, FlushCommand DEF o
  <2>3. Counts(p.reg, 0)
    BY <1>1, <2>1, CountsWrap
  <2>4. q \in Panels /\ q.awake /\ q.reg.cmd = 38 /\ Counts(q.reg, 0) /\ q.bw = p.bw
    <3>1. 38 \in Int /\ 38 # 18
      OBVIOUS
    <3>2. Commanded(q, p, 38)
      BY <1>3, <2>2, <2>3, <3>1, CommandIs
    <3>. QED BY <1>3, <2>2, <2>3, <3>2 DEF Commanded
  <2>5. Drawn(q.red, f, 2, 0) /\ Drawn(q.bw, f, 1, s)
    BY <2>1, <2>4, DrawnNothing
  <2>6. /\ n + 1 # 0 /\ n + 1 \notin 1..(s + 1) /\ (n + 1) - s - 2 = 0
        /\ n + 1 \notin {2 * s + 3, 2 * s + 4} /\ n + 1 # 2 * s + 5
    BY <1>6
  <2>. QED BY <1>1, <2>4, <2>5, <2>6 DEF FlushAt
<1>7. CASE n \in (s + 2)..(2 * s + 1)
  <2>1. PICK k \in 0..(s - 1) : k = n - s - 2 /\ n = s + 2 + k
    BY <1>7
  <2>2. p.reg.cmd = 38 /\ Counts(p.reg, k) /\ Drawn(p.bw, f, 1, s) /\ Drawn(p.red, f, 2, k)
    <3>1. n \in (s + 2)..(2 * s + 2)
      BY <1>7
    <3>. QED BY <1>1, <2>1, <3>1 DEF FlushAt
  <2>3. PICK b \in 0..255 : b = BitScale(f, k, 2)
    BY <1>1, BitScaleIs
  <2>4. q = PanelTakes(p, 1, b)
    <3>1. n + 1 = s + 2 + (k + 1) /\ k + 1 \in 1..s /\ (k + 1) - 1 = k
      BY <2>1
    <3>2. o[n + 1] = D(b)
      BY <1>2, <2>3, <3>1
    <3>. QED BY <3>2, FlushDatum DEF o
  <2>5. /\ q \in Panels /\ q.awake /\ q.reg.cmd = 38 /\ Counts(q.reg, k + 1) /\ q.bw = p.bw
        /\ Drawn(q.red, f, 2, k + 1)
    <3>1. b \in Int
      OBVIOUS
    <3>. QED BY <1>1, <1>3, <2>2, <2>3, <2>4, <3>1, PlaneStep
  <2>6. /\ n + 1 # 0 /\ n + 1 \notin 1..(s + 1) /\ (n + 1) - s - 2 = k + 1
        /\ n + 1 \notin {2 * s + 3, 2 * s + 4} /\ n + 1 # 2 * s + 5
    BY <2>1
  <2>. QED BY <1>1, <2>2, <2>5, <2>6 DEF FlushAt
<1>8. CASE n = 2 * s + 2
  <2>1. Counts(p.reg, s) /\ Drawn(p.bw, f, 1, s) /\ Drawn(p.red, f, 2, s)
    <3>1. n \in (s + 2)..(2 * s + 2) /\ n - s - 2 = s
      BY <1>8
    <3>. QED BY <1>1, <3>1 DEF FlushAt
  <2>2. q = PanelTakes(p, 0, 34)
    <3>1. o[n + 1] = C(34)
      BY <1>2, <1>8
    <3>. QED BY <3>1, FlushCommand DEF o
  <2>3. Counts(p.reg, 0)
    BY <1>1, <2>1, CountsWrap
  <2>4. q \in Panels /\ q.awake /\ q.reg.cmd = 34 /\ Counts(q.reg, 0) /\ q.bw = p.bw /\ q.red = p.red
    <3>1. 34 \in Int /\ 34 # 18
      OBVIOUS
    <3>2. Commanded(q, p, 34)
      BY <1>3, <2>2, <2>3, <3>1, CommandIs
    <3>. QED BY <1>3, <2>2, <2>3, <3>2 DEF Commanded
  <2>6. /\ n + 1 # 0 /\ n + 1 \notin 1..(s + 1) /\ n + 1 \notin (s + 2)..(2 * s + 2) /\ n + 1 # 2 * s + 5
    BY <1>8
  <2>. QED BY <1>1, <2>1, <2>4, <2>6 DEF FlushAt
<1>9. CASE n = 2 * s + 3
  <2>1. p.reg.cmd = 34 /\ Counts(p.reg, 0) /\ Drawn(p.bw, f, 1, s) /\ Drawn(p.red, f, 2, s)
    BY <1>1, <1>9 DEF FlushAt
  <2>2. q = PanelTakes(p, 1, 247)
    <3>1. o[n + 1] = D(247)
      BY <1>2, <1>9
    <3>. QED BY <3>1, FlushDatum DEF o
  <2>3. q \in Panels /\ q.awake /\ q.bw = p.bw /\ q.red = p.red
    <3>1. 0 \in 0..(EpdPartRamSize - 1) /\ 247 \in Int
      BY Sizes
    <3>. QED BY <1>3, <2>1, <2>2, <3>1, PlaneStep
  <2>6. /\ n + 1 # 0 /\ n + 1 \notin 1..(s + 1) /\ n + 1 \notin (s + 2)..(2 * s + 2)
        /\ n + 1 # 2 * s + 5 /\ n + 1 # 2 * s + 3
    BY <1>9
  <2>. QED BY <1>1, <2>1, <2>3, <2>6 DEF FlushAt
<1>10. CASE n = 2 * s + 4
  <2>1. Drawn(p.bw, f, 1, s) /\ Drawn(p.red, f, 2, s)
    BY <1>1, <1>10 DEF FlushAt
  <2>2. q = PanelTakes(p, 0, 32)
    <3>1. o[n + 1] = C(32)
      BY <1>2, <1>10
    <3>. QED BY <3>1, FlushCommand DEF o
  <2>3. q \in Panels /\ q.awake /\ q.shown = <<p.bw, p.red>>
    <3>1. 32 \in Int /\ 32 # 18
      OBVIOUS
    <3>2. Commanded(q, p, 32)
      BY <1>3, <2>2, <3>1, CommandIs
    <3>. QED BY <3>2 DEF Commanded
  <2>4. Shows(q.shown, f)
    BY <1>1, <2>1, <2>3, DrawnShows
  <2>6. /\ n + 1 # 0 /\ n + 1 \notin 1..(s + 1) /\ n + 1 \notin (s + 2)..(2 * s + 2)
        /\ n + 1 \notin {2 * s + 3, 2 * s + 4}
    BY <1>10
  <2>. QED BY <1>1, <2>3, <2>4, <2>6 DEF FlushAt
<1>11. n = 0 \/ n \in 1..s \/ n = s + 1 \/ n \in (s + 2)..(2 * s + 1) \/ n = 2 * s + 2
       \/ n = 2 * s + 3 \/ n = 2 * s + 4
  BY <1>1
<1>. QED BY <1>4, <1>5, <1>6, <1>7, <1>8, <1>9, <1>10, <1>11

-----------------------------------------------------------------------------
(* epd_sleep() *)

(* After n bytes of epd_sleep(). *)
SleepAt(p, n) ==
  /\ p \in Panels
  /\ n = 1 => ~p.awake \/ p.reg.cmd = 16
  /\ n = 2 => ~p.awake

(* epd_sleep() sends two bytes, ... *)
LEMMA SleepSent ==
  /\ SleepCmds \in Seq(Command)
  /\ Len(AllSent(SleepCmds)) = 2
  /\ AllSent(SleepCmds)[1] = C(16) /\ AllSent(SleepCmds)[2] = D(3)
<1>1. PICK t \in Command : t = Cmd(DEEP_SLP_MODE, <<3>>)
  <2>1. Cmd(DEEP_SLP_MODE, <<3>>) \in Command
    BY DEF Command, Cmd, DEEP_SLP_MODE
  <2>. QED BY <2>1
<1>2. SleepCmds = <<t>> /\ <<t>> \in Seq(Command)
  BY <1>1 DEF SleepCmds
<1>3. AllSent(SleepCmds) = Sent(t)
  BY <1>2, AllSentOne
<1>4. t.cmd = 16 /\ Len(t.data) = 1 /\ t.data[1] = 3
  BY <1>1 DEF Cmd, DEEP_SLP_MODE
<1>5. /\ Len(Sent(t)) = 2 /\ Sent(t)[1] = [dc |-> 0, byte |-> 16]
      /\ Sent(t)[2] = [dc |-> 1, byte |-> 3]
  <2>1. Len(Sent(t)) = 1 + 1 /\ Sent(t)[1] = [dc |-> 0, byte |-> t.cmd]
        /\ \A i \in 1..1 : Sent(t)[1 + i] = [dc |-> 1, byte |-> t.data[i]]
    BY <1>4, SentIs
  <2>2. Sent(t)[1 + 1] = [dc |-> 1, byte |-> t.data[1]]
    BY <2>1
  <2>. QED BY <1>4, <2>1, <2>2
<1>. QED BY <1>2, <1>3, <1>5 DEF C, D

(* ... and each brings the panel one byte further. *)
LEMMA SleepStep ==
  ASSUME NEW p, NEW n \in {0, 1}, SleepAt(p, n),
         NEW o, n = 0 => o = C(16), n = 1 => o = D(3),
         NEW q, q = PanelTakes(p, o.dc, o.byte)
  PROVE  SleepAt(q, n + 1)
<1>1. p \in Panels /\ p.awake \in BOOLEAN
  BY DEF SleepAt, Panels
<1>2. CASE n = 0
  <2>1. q = PanelTakes(p, 0, 16)
    BY <1>2 DEF C
  <2>2. CASE p.awake
    <3>1. 16 \in Int /\ 16 # 18
      OBVIOUS
    <3>2. Commanded(q, p, 16)
      BY <1>1, <2>1, <2>2, <3>1, CommandIs
    <3>. QED BY <1>2, <3>2 DEF Commanded, SleepAt
  <2>3. CASE ~p.awake
    BY <1>1, <1>2, <2>1, <2>3 DEF PanelTakes, SleepAt
  <2>. QED BY <1>1, <2>2, <2>3
<1>3. CASE n = 1
  <2>1. q = PanelTakes(p, 1, 3)
    BY <1>3 DEF D
  <2>2. CASE p.awake
    <3>1. p.reg.cmd = 16
      BY <1>3, <2>2 DEF SleepAt
    <3>2. q = [p EXCEPT !.awake = FALSE, !.bw = NoRam, !.red = NoRam]
      <4>1. q = TakesData(p, 3)
        BY <2>1, <2>2 DEF PanelTakes
      <4>. QED BY <3>1, <4>1 DEF TakesData, WRITE_RAM_BW, WRITE_RAM_RED, SET_RAM_X_ADDR, SET_RAM_Y_ADDR,
                              SET_RAM_X_COUNTER, SET_RAM_Y_COUNTER, DEEP_SLP_MODE
    <3>3. q.awake = FALSE
      BY <1>1, <3>2 DEF Panels
    <3>4. q \in Panels
      BY <1>1, <2>1, TakesTyped
    <3>. QED BY <1>3, <3>3, <3>4 DEF SleepAt
  <2>3. CASE ~p.awake
    BY <1>1, <1>3, <2>1, <2>3 DEF PanelTakes, SleepAt
  <2>. QED BY <1>1, <2>2, <2>3
<1>. QED BY <1>2, <1>3

-----------------------------------------------------------------------------
(* s is what a call of the bytes c has yet to send after n of them. *)
Ahead(s, c, n) ==
  /\ s \in Seq(SentByte) /\ c \in Seq(SentByte) /\ n \in Nat /\ n <= Len(c)
  /\ Len(s) = Len(c) - n
  /\ \A i \in 1..(Len(c) - n) : s[i] = c[n + i]

(* A call at its start, ... *)
LEMMA AheadAll ==
  ASSUME NEW c \in Seq(SentByte)
  PROVE  Ahead(c, c, 0)
BY LenProperties DEF Ahead

(* ... at its end, ... *)
LEMMA AheadNone ==
  ASSUME NEW s, NEW c, NEW n, Ahead(s, c, n), s = <<>>
  PROVE  n = Len(c)
<1>1. Len(s) = 0 /\ Len(c) \in Nat /\ n \in Nat
  BY LenProperties DEF Ahead
<1>. QED BY <1>1 DEF Ahead

(* ... and a byte further. *)
LEMMA AheadNext ==
  ASSUME NEW s, NEW c, NEW n, Ahead(s, c, n), s # <<>>
  PROVE  /\ n \in 0..(Len(c) - 1) /\ Head(s) = c[n + 1]
         /\ Ahead(Tail(s), c, n + 1)
<1>1. s \in Seq(SentByte) /\ c \in Seq(SentByte) /\ n \in Nat /\ n <= Len(c) /\ Len(s) = Len(c) - n
  BY DEF Ahead
<1>2. PICK l \in Nat : l = Len(c)
  BY <1>1, LenProperties
<1>3. Len(s) # 0
  BY <1>1, EmptySeq, LenProperties
<1>4. n < l
  BY <1>1, <1>2, <1>3
<1>5. \A i \in 1..(l - n) : s[i] = c[n + i]
  BY <1>2 DEF Ahead
<1>6. Head(s) = c[n + 1]
  <2>1. 1 \in 1..(l - n)
    BY <1>1, <1>4
  <2>2. Head(s) = s[1]
    BY <1>1, HeadTailProperties
  <2>. QED BY <1>5, <2>1, <2>2
<1>7. PICK t \in Seq(SentByte) : t = Tail(s)
  BY <1>1, HeadTailProperties
<1>8. Len(t) = l - (n + 1) /\ \A i \in 1..(l - (n + 1)) : t[i] = s[i + 1]
  <2>1. Len(t) = Len(s) - 1 /\ \A i \in 1..Len(t) : t[i] = s[i + 1]
    BY <1>1, <1>7, HeadTailProperties
  <2>2. Len(s) - 1 = l - (n + 1)
    BY <1>1, <1>2
  <2>. QED BY <2>1, <2>2
<1>9. ASSUME NEW i \in 1..(l - (n + 1)) PROVE t[i] = c[(n + 1) + i]
  <2>1. i + 1 \in 1..(l - n) /\ n + (i + 1) = (n + 1) + i
    BY <1>1, <1>4
  <2>2. s[i + 1] = c[n + (i + 1)]
    BY <1>5, <2>1
  <2>. QED BY <1>8, <2>1, <2>2
<1>10. n + 1 \in Nat /\ n + 1 <= l
  BY <1>1, <1>4
<1>. QED BY <1>1, <1>2, <1>4, <1>6, <1>7, <1>8, <1>9, <1>10 DEF Ahead

(* The bytes of the calls. *)
OpenSends == AllSent(OpenCmds)
SleepSends == AllSent(SleepCmds)
FlushSends(f) == AllSent(FlushCmds(f))

LEMMA Sends ==
  /\ OpenSends \in Seq(SentByte) /\ Len(OpenSends) = 27 /\ \A i \in 1..27 : OpenSends[i] = OpenBytes[i]
  /\ SleepSends \in Seq(SentByte) /\ Len(SleepSends) = 2
  /\ SleepSends[1] = C(16) /\ SleepSends[2] = D(3)
  /\ \A f \in Picture :
       /\ FlushSends(f) \in Seq(SentByte) /\ Len(FlushSends(f)) = 2 * EpdPartRamSize + 5
       /\ \A i \in 1..(2 * EpdPartRamSize + 5) : FlushSends(f)[i] = FlushBytes(f)[i]
<1>1. /\ OpenSends \in Seq(SentByte) /\ Len(OpenSends) = 27
      /\ \A i \in 1..27 : OpenSends[i] = OpenBytes[i]
  BY OpenSent, AllSentIs DEF OpenSends
<1>2. /\ SleepSends \in Seq(SentByte) /\ Len(SleepSends) = 2
      /\ SleepSends[1] = C(16) /\ SleepSends[2] = D(3)
  BY SleepSent, AllSentIs DEF SleepSends
<1>3. \A f \in Picture :
       /\ FlushSends(f) \in Seq(SentByte) /\ Len(FlushSends(f)) = 2 * EpdPartRamSize + 5
       /\ \A i \in 1..(2 * EpdPartRamSize + 5) : FlushSends(f)[i] = FlushBytes(f)[i]
  BY FlushSent, AllSentIs DEF FlushSends
<1>. QED BY <1>1, <1>2, <1>3

(* A call that begins with epd_open(). *)
LEMMA AfterOpen ==
  ASSUME NEW x \in Seq(SentByte)
  PROVE  /\ OpenSends \o x \in Seq(SentByte) /\ Len(OpenSends \o x) = 27 + Len(x)
         /\ \A i \in 1..27 : (OpenSends \o x)[i] = OpenBytes[i]
         /\ \A i \in 1..Len(x) : (OpenSends \o x)[27 + i] = x[i]
<1>1. PICK o \in Seq(SentByte) : o = OpenSends
  BY Sends
<1>2. Len(o) = 27 /\ \A i \in 1..27 : o[i] = OpenBytes[i]
  BY <1>1, Sends
<1>3. PICK c \in Seq(SentByte) : c = o \o x
  BY ConcatProperties
<1>4. PICK m \in Nat : m = Len(x)
  BY LenProperties
<1>5. Len(c) = 27 + m /\ \A i \in 1..(27 + m) : c[i] = IF i <= 27 THEN o[i] ELSE x[i - 27]
  <2>1. Len(c) = Len(o) + Len(x)
        /\ \A i \in 1..Len(o) + Len(x) : c[i] = IF i <= Len(o) THEN o[i] ELSE x[i - Len(o)]
    BY <1>3, ConcatProperties
  <2>. QED BY <1>2, <1>4, <2>1
<1>6. ASSUME NEW i \in 1..27 PROVE c[i] = OpenBytes[i]
  <2>1. i \in 1..(27 + m) /\ i <= 27
    OBVIOUS
  <2>2. c[i] = o[i]
    BY <1>5, <2>1
  <2>3. o[i] = OpenBytes[i]
    BY <1>2
  <2>. QED BY <2>2, <2>3
<1>7. ASSUME NEW i \in 1..m PROVE c[27 + i] = x[i]
  <2>1. 27 + i \in 1..(27 + m) /\ ~(27 + i <= 27) /\ (27 + i) - 27 = i
    OBVIOUS
  <2>. QED BY <1>5, <2>1
<1>. QED BY <1>1, <1>3, <1>4, <1>5, <1>6, <1>7

-----------------------------------------------------------------------------
(* The call under way, and what it has done to the panel. *)
Booting(n) ==
  /\ status = "IDLE" /\ Ahead(todo, OpenSends \o SleepSends, n)
  /\ n <= 27 => OpenAt(panel, n)
  /\ n >= 27 => SleepAt(panel, n - 27)

Refreshing(n) ==
  /\ status = "BUSY" /\ Ahead(todo, OpenSends \o FlushSends(frame), n)
  /\ n <= 27 => OpenAt(panel, n)
  /\ n >= 27 => FlushAt(panel, frame, n - 27)

Reopening(n) ==
  /\ status = "BUSY" /\ Ahead(todo, OpenSends, n)
  /\ OpenAt(panel, n)
  /\ Shows(panel.shown, frame)

Sleeping(n) ==
  /\ status = "IDLE" /\ Ahead(todo, SleepSends, n)
  /\ SleepAt(panel, n)

(* The invariant: the driver is at some byte of one of four calls, and the *)
(* panel has what the bytes before it make of it.                          *)
Inv ==
  /\ frame \in Picture /\ panel \in Panels
  /\ \E n \in Nat : Booting(n) \/ Refreshing(n) \/ Reopening(n) \/ Sleeping(n)

(* An opened panel can be flushed, and put to sleep. *)
LEMMA OpenedFlushes ==
  ASSUME NEW p, OpenAt(p, 27), NEW f
  PROVE  FlushAt(p, f, 0)
<1>1. p \in Panels /\ p.awake /\ RegIs(p.reg, 79, 2, RamWidth - 1, Height - 1)
  BY OpenCodeIs DEF OpenAt, AwakeWith
<1>2. Counts(p.reg, 0)
  <2>1. 0 \in 0..(RamWidth - 1) /\ 0 \in 0..(Height - 1) /\ RamWidth * 0 + 0 = 0
    BY Sizes
  <2>. QED BY <1>1, <2>1 DEF RegIs, Counts
<1>3. PICK s \in Nat \ {0} : s = EpdPartRamSize
  BY Sizes
<1>4. 0 \notin 1..(s + 1) /\ 0 \notin (s + 2)..(2 * s + 2) /\ 0 \notin {2 * s + 3, 2 * s + 4} /\ 0 # 2 * s + 5
  OBVIOUS
<1>. QED BY <1>1, <1>2, <1>3, <1>4 DEF FlushAt

LEMMA OpenedSleeps ==
  ASSUME NEW p, OpenAt(p, 27)
  PROVE  SleepAt(p, 0)
BY DEF OpenAt, AwakeWith, SleepAt

(* At the end of a call the invariant gives both properties. *)
LEMMA InvEnds ==
  ASSUME Inv, todo = <<>>
  PROVE  /\ status = "BUSY" => Shows(panel.shown, frame)
         /\ status = "IDLE" => ~panel.awake
<1>1. PICK n \in Nat : Booting(n) \/ Refreshing(n) \/ Reopening(n) \/ Sleeping(n)
  BY DEF Inv
<1>2. CASE Booting(n)
  <2>1. n = Len(OpenSends \o SleepSends)
    BY <1>2, AheadNone DEF Booting
  <2>2. n = 29
    <3>1. Len(OpenSends \o SleepSends) = 27 + Len(SleepSends)
      BY Sends, AfterOpen
    <3>. QED BY <2>1, <3>1, Sends
  <2>3. SleepAt(panel, 2)
    BY <1>2, <2>2 DEF Booting
  <2>. QED BY <1>2, <2>3 DEF Booting, SleepAt
<1>3. CASE Refreshing(n)
  <2>0. frame \in Picture
    BY DEF Inv
  <2>1. n = Len(OpenSends \o FlushSends(frame))
    BY <1>3, AheadNone DEF Refreshing
  <2>2. PICK s \in Nat : s = EpdPartRamSize
    BY Sizes
  <2>3. Len(OpenSends \o FlushSends(frame)) = 27 + Len(FlushSends(frame))
    BY <2>0, Sends, AfterOpen
  <2>4. Len(FlushSends(frame)) = 2 * s + 5
    BY <2>0, <2>2, Sends
  <2>5. n >= 27 /\ n - 27 = 2 * s + 5
    BY <2>1, <2>3, <2>4
  <2>6. FlushAt(panel, frame, 2 * s + 5)
    BY <1>3, <2>5 DEF Refreshing
  <2>7. Shows(panel.shown, frame)
    BY <2>2, <2>6 DEF FlushAt
  <2>. QED BY <1>3, <2>7 DEF Refreshing
<1>4. CASE Reopening(n)
  BY <1>4 DEF Reopening
<1>5. CASE Sleeping(n)
  <2>1. n = 2
    BY <1>5, AheadNone, Sends DEF Sleeping
  <2>. QED BY <1>5, <2>1 DEF Sleeping, SleepAt
<1>. QED BY <1>1, <1>2, <1>3, <1>4, <1>5

-----------------------------------------------------------------------------
(* The steps *)

LEMMA BootSent ==
  AllSent(OpenCmds \o SleepCmds) = OpenSends \o SleepSends
BY OpenSent, SleepSent, AllSentConcat DEF OpenSends, SleepSends

LEMMA FlushedSent ==
  ASSUME NEW f \in Picture
  PROVE  AllSent(OpenCmds \o FlushCmds(f)) = OpenSends \o FlushSends(f)
BY OpenSent, FlushSent, AllSentConcat DEF OpenSends, FlushSends

LEMMA ReopenSent ==
  AllSent(OpenCmds \o <<>>) = OpenSends
<1>1. OpenCmds \o <<>> = OpenCmds
  BY OpenSent, ConcatEmptySeq
<1>. QED BY <1>1 DEF OpenSends

(* Power and reset keep the panel's type. *)
LEMMA PanelsPowered ==
  /\ PoweredOff \in Panels
  /\ \A p \in Panels : Unpowered(p) \in Panels
  /\ \A p \in Panels : HardwareReset(p) \in Panels
<1>1. Registers \in Regs
  BY Sizes DEF Registers, Regs
<1>2. NoRam \in Ram
  BY DEF NoRam, Ram, Lost
<1>3. PoweredOff \in Panels
  BY <1>1, <1>2 DEF PoweredOff, Panels
<1>4. \A p \in Panels : Unpowered(p) \in Panels
  BY <1>3 DEF Unpowered, Panels
<1>5. \A p \in Panels : HardwareReset(p) \in Panels
  BY <1>1 DEF HardwareReset, Panels
<1>. QED BY <1>3, <1>4, <1>5

(* After its start the driver is at the first byte of booting. *)
LEMMA BootsFrom ==
  ASSUME NEW p \in Panels, status = "IDLE", panel = HardwareReset(p),
         todo = AllSent(OpenCmds \o SleepCmds)
  PROVE  Booting(0)
<1>1. Ahead(todo, OpenSends \o SleepSends, 0)
  BY BootSent, AheadAll, Sends, AfterOpen
<1>2. OpenAt(panel, 0)
  BY OpenReset
<1>. QED BY <1>1, <1>2 DEF Booting

LEMMA InvInit == Init => Inv
<1>. SUFFICES ASSUME Init PROVE Inv
  OBVIOUS
<1>1. frame \in Picture
  BY FramesArePictures DEF Init
<1>2. panel \in Panels
  BY PanelsPowered DEF Init
<1>3. Booting(0)
  BY PanelsPowered, BootsFrom DEF Init
<1>4. 0 \in Nat
  OBVIOUS
<1>. QED BY <1>1, <1>2, <1>3, <1>4 DEF Inv

(* A byte that arrives is the next of the call: at 27 an opened panel goes *)
(* on to be flushed or put to sleep.                                       *)
LEMMA InvDelivers ==
  ASSUME Inv, Delivers
  PROVE  Inv'
<1>0. frame' = frame /\ status' = status /\ todo # <<>> /\ todo' = Tail(todo)
      /\ panel' = PanelTakes(panel, Head(todo).dc, Head(todo).byte)
  BY DEF Delivers
<1>1. frame \in Picture /\ panel \in Panels
  BY DEF Inv
<1>2. PICK n \in Nat : Booting(n) \/ Refreshing(n) \/ Reopening(n) \/ Sleeping(n)
  BY DEF Inv
<1>3. Head(todo).byte \in Int
  <2>1. todo \in Seq(SentByte)
    BY <1>2 DEF Booting, Refreshing, Reopening, Sleeping, Ahead
  <2>2. Head(todo) \in SentByte
    BY <1>0, <2>1, HeadTailProperties
  <2>. QED BY <2>2 DEF SentByte
<1>4. panel' \in Panels
  BY <1>0, <1>1, <1>3, TakesTyped
<1>5. n + 1 \in Nat
  OBVIOUS
<1>6. CASE Booting(n)
  <2>. DEFINE c == OpenSends \o SleepSends
  <2>1. Ahead(todo, c, n)
    BY <1>6 DEF Booting
  <2>2. n \in 0..(Len(c) - 1) /\ Ahead(todo', c, n + 1) /\ Head(todo) = c[n + 1]
    BY <1>0, <2>1, AheadNext
  <2>3. n \in 0..28
    <3>1. Len(c) = 27 + 2
      BY Sends, AfterOpen
    <3>. QED BY <2>2, <3>1
  <2>4. CASE n < 27
    <3>1. n + 1 \in 1..27 /\ n \in 0..26
      BY <2>3, <2>4
    <3>2. c[n + 1] = OpenBytes[n + 1]
      BY <3>1, Sends, AfterOpen
    <3>3. panel' = PanelTakes(panel, OpenBytes[n + 1].dc, OpenBytes[n + 1].byte)
      BY <1>0, <2>2, <3>2
    <3>4. OpenAt(panel', n + 1)
      <4>1. OpenAt(panel, n)
        BY <1>6, <2>4 DEF Booting
      <4>. QED BY <3>1, <3>3, <4>1, OpenStep
    <3>5. n + 1 >= 27 => SleepAt(panel', (n + 1) - 27)
      <4>1. n + 1 >= 27 => n + 1 = 27 /\ (n + 1) - 27 = 0
        BY <2>4
      <4>. QED BY <3>4, <4>1, OpenedSleeps
    <3>6. Booting(n + 1)'
      BY <1>0, <1>6, <2>2, <3>4, <3>5 DEF Booting, OpenSends, SleepSends
    <3>. QED BY <1>0, <1>1, <1>4, <1>5, <3>6 DEF Inv
  <2>5. CASE n >= 27
    <3>1. PICK k \in {0, 1} : k = n - 27 /\ n + 1 = 27 + (k + 1) /\ (n + 1) - 27 = k + 1 /\ ~(n + 1 <= 27)
                              /\ k + 1 \in 1..2
      BY <2>3, <2>5
    <3>2. c[n + 1] = SleepSends[k + 1]
      <4>1. \A i \in 1..2 : c[27 + i] = SleepSends[i]
        BY Sends, AfterOpen
      <4>. QED BY <3>1, <4>1
    <3>3. (k = 0 => SleepSends[k + 1] = C(16)) /\ (k = 1 => SleepSends[k + 1] = D(3))
      <4>1. SleepSends[1] = C(16) /\ SleepSends[2] = D(3)
        BY Sends
      <4>2. (k = 0 => k + 1 = 1) /\ (k = 1 => k + 1 = 2)
        OBVIOUS
      <4>. QED BY <4>1, <4>2
    <3>4. SleepAt(panel, k)
      BY <1>6, <2>5, <3>1 DEF Booting
    <3>5. SleepAt(panel', k + 1)
      BY <1>0, <2>2, <3>2, <3>3, <3>4, SleepStep
    <3>6. Booting(n + 1)'
      BY <1>0, <1>6, <2>2, <3>1, <3>5 DEF Booting, OpenSends, SleepSends
    <3>. QED BY <1>0, <1>1, <1>4, <1>5, <3>6 DEF Inv
  <2>. QED BY <2>4, <2>5
<1>7. CASE Refreshing(n)
  <2>. DEFINE c == OpenSends \o FlushSends(frame)
  <2>1. Ahead(todo, c, n)
    BY <1>7 DEF Refreshing
  <2>2. n \in 0..(Len(c) - 1) /\ Ahead(todo', c, n + 1) /\ Head(todo) = c[n + 1]
    BY <1>0, <2>1, AheadNext
  <2>0. PICK s \in Nat : s = EpdPartRamSize
    BY Sizes
  <2>6. /\ Len(FlushSends(frame)) = 2 * s + 5
        /\ \A i \in 1..(2 * s + 5) : FlushSends(frame)[i] = FlushBytes(frame)[i]
        /\ FlushSends(frame) \in Seq(SentByte)
    BY <1>1, <2>0, Sends
  <2>3. n \in 0..(2 * s + 31)
    <3>1. Len(c) = 27 + (2 * s + 5)
      BY <2>6, AfterOpen
    <3>. QED BY <2>2, <3>1
  <2>4. CASE n < 27
    <3>1. n + 1 \in 1..27 /\ n \in 0..26
      BY <2>3, <2>4
    <3>2. c[n + 1] = OpenBytes[n + 1]
      BY <2>6, <3>1, AfterOpen
    <3>3. panel' = PanelTakes(panel, OpenBytes[n + 1].dc, OpenBytes[n + 1].byte)
      BY <1>0, <2>2, <3>2
    <3>4. OpenAt(panel', n + 1)
      <4>1. OpenAt(panel, n)
        BY <1>7, <2>4 DEF Refreshing
      <4>. QED BY <3>1, <3>3, <4>1, OpenStep
    <3>5. n + 1 >= 27 => FlushAt(panel', frame, (n + 1) - 27)
      <4>1. n + 1 >= 27 => n + 1 = 27 /\ (n + 1) - 27 = 0
        BY <2>4
      <4>. QED BY <3>4, <4>1, OpenedFlushes
    <3>6. Refreshing(n + 1)'
      BY <1>0, <1>7, <2>2, <3>4, <3>5 DEF Refreshing, OpenSends, FlushSends
    <3>. QED BY <1>0, <1>1, <1>4, <1>5, <3>6 DEF Inv
  <2>5. CASE n >= 27
    <3>1. PICK k \in 0..(2 * s + 4) : k = n - 27 /\ n + 1 = 27 + (k + 1) /\ (n + 1) - 27 = k + 1
                              /\ ~(n + 1 <= 27) /\ k + 1 \in 1..(2 * s + 5)
      <4>1. n - 27 \in 0..(2 * s + 4) /\ n + 1 = 27 + ((n - 27) + 1) /\ (n + 1) - 27 = (n - 27) + 1
            /\ ~(n + 1 <= 27) /\ (n - 27) + 1 \in 1..(2 * s + 5)
        BY <2>3, <2>5
      <4>. QED BY <4>1
    <3>2. c[n + 1] = FlushBytes(frame)[k + 1]
      <4>1. \A i \in 1..(2 * s + 5) : c[27 + i] = FlushSends(frame)[i]
        BY <2>6, AfterOpen
      <4>. QED BY <2>6, <3>1, <4>1
    <3>3. FlushByte(frame, k, panel', panel)
      BY <1>0, <2>2, <3>2 DEF FlushByte
    <3>4. FlushAt(panel, frame, k)
      BY <1>7, <2>5, <3>1 DEF Refreshing
    <3>5. FlushAt(panel', frame, k + 1)
      BY <1>1, <2>0, <3>3, <3>4, FlushStep
    <3>6. Refreshing(n + 1)'
      BY <1>0, <1>7, <2>2, <3>1, <3>5 DEF Refreshing, OpenSends, FlushSends
    <3>. QED BY <1>0, <1>1, <1>4, <1>5, <3>6 DEF Inv
  <2>. QED BY <2>4, <2>5
<1>8. CASE Reopening(n)
  <2>1. Ahead(todo, OpenSends, n) /\ OpenAt(panel, n) /\ Shows(panel.shown, frame)
    BY <1>8 DEF Reopening
  <2>2. n \in 0..(Len(OpenSends) - 1) /\ Ahead(todo', OpenSends, n + 1) /\ Head(todo) = OpenSends[n + 1]
    BY <1>0, <2>1, AheadNext
  <2>3. n \in 0..26 /\ n + 1 \in 1..27
    BY <2>2, Sends
  <2>4. panel' = PanelTakes(panel, OpenBytes[n + 1].dc, OpenBytes[n + 1].byte)
    BY <1>0, <2>2, <2>3, Sends
  <2>5. OpenAt(panel', n + 1) /\ panel'.shown = panel.shown
    BY <2>1, <2>3, <2>4, OpenStep
  <2>6. Reopening(n + 1)'
    BY <1>0, <1>8, <2>1, <2>2, <2>5 DEF Reopening, OpenSends
  <2>. QED BY <1>0, <1>1, <1>4, <1>5, <2>6 DEF Inv
<1>9. CASE Sleeping(n)
  <2>1. Ahead(todo, SleepSends, n) /\ SleepAt(panel, n)
    BY <1>9 DEF Sleeping
  <2>2. n \in 0..(Len(SleepSends) - 1) /\ Ahead(todo', SleepSends, n + 1) /\ Head(todo) = SleepSends[n + 1]
    BY <1>0, <2>1, AheadNext
  <2>3. n \in {0, 1}
    BY <2>2, Sends
  <2>4. (n = 0 => SleepSends[n + 1] = C(16)) /\ (n = 1 => SleepSends[n + 1] = D(3))
    BY Sends
  <2>5. SleepAt(panel', n + 1)
    BY <1>0, <2>1, <2>2, <2>3, <2>4, SleepStep
  <2>6. Sleeping(n + 1)'
    BY <1>0, <1>9, <2>2, <2>5 DEF Sleeping, SleepSends
  <2>. QED BY <1>0, <1>1, <1>4, <1>5, <2>6 DEF Inv
<1>. QED BY <1>2, <1>6, <1>7, <1>8, <1>9

(* The frame buffer changes only while no picture is promised. *)
LEMMA InvEpdWrite ==
  ASSUME Inv, EpdWrite
  PROVE  Inv'
<1>1. /\ todo = <<>> /\ status = "IDLE" /\ frame' \in Frames
      /\ status' = status /\ todo' = todo /\ panel' = panel
  BY DEF EpdWrite
<1>2. frame' \in Picture /\ panel' \in Panels
  BY <1>1, FramesArePictures DEF Inv
<1>3. PICK n \in Nat : Booting(n) \/ Refreshing(n) \/ Reopening(n) \/ Sleeping(n)
  BY DEF Inv
<1>4. CASE Booting(n)
  BY <1>1, <1>2, <1>4 DEF Booting, Inv, OpenSends, SleepSends
<1>5. CASE Sleeping(n)
  BY <1>1, <1>2, <1>5 DEF Sleeping, Inv, SleepSends
<1>. QED BY <1>1, <1>3, <1>4, <1>5 DEF Refreshing, Reopening

(* A second epd_open() during a refresh keeps what is shown. *)
LEMMA InvOpenAndFlush ==
  ASSUME Inv, OpenAndFlush
  PROVE  Inv'
<1>1. /\ todo = <<>> /\ panel' = HardwareReset(panel) /\ status' = "BUSY" /\ frame' = frame
      /\ todo' = AllSent(OpenCmds \o (IF status = "IDLE" THEN FlushCmds(frame) ELSE <<>>))
  BY DEF OpenAndFlush
<1>2. frame' \in Picture /\ panel' \in Panels
  BY <1>1, PanelsPowered DEF Inv
<1>3. OpenAt(panel', 0) /\ panel'.shown = panel.shown
  BY <1>1, OpenReset DEF Inv
<1>4. 0 \in Nat /\ ~(0 >= 27)
  OBVIOUS
<1>5. status \in {"IDLE", "BUSY"}
  BY DEF Inv, Booting, Refreshing, Reopening, Sleeping
<1>6. CASE status = "IDLE"
  <2>1. todo' = OpenSends \o FlushSends(frame)
    BY <1>1, <1>6, FlushedSent DEF Inv
  <2>2. Ahead(todo', OpenSends \o FlushSends(frame), 0)
    BY <2>1, AheadAll, Sends, AfterOpen DEF Inv
  <2>3. Refreshing(0)'
    BY <1>1, <1>3, <1>4, <2>2 DEF Refreshing, OpenSends, FlushSends
  <2>. QED BY <1>2, <1>4, <2>3 DEF Inv
<1>7. CASE status = "BUSY"
  <2>1. todo' = OpenSends
    BY <1>1, <1>7, ReopenSent
  <2>2. Ahead(todo', OpenSends, 0)
    BY <2>1, AheadAll, Sends
  <2>3. Shows(panel.shown, frame)
    BY <1>1, <1>7, InvEnds
  <2>4. Reopening(0)'
    BY <1>1, <1>3, <2>2, <2>3 DEF Reopening, OpenSends
  <2>. QED BY <1>2, <1>4, <2>4 DEF Inv
<1>. QED BY <1>5, <1>6, <1>7

LEMMA InvEpdTimerEnds ==
  ASSUME Inv, EpdTimerEnds
  PROVE  Inv'
<1>1. status' = "IDLE" /\ todo' = SleepSends /\ frame' = frame /\ panel' = panel
  BY DEF EpdTimerEnds, SleepSends
<1>2. Ahead(todo', SleepSends, 0)
  BY <1>1, AheadAll, Sends
<1>3. SleepAt(panel', 0)
  BY <1>1 DEF SleepAt, Inv
<1>4. Sleeping(0)'
  BY <1>1, <1>2, <1>3 DEF Sleeping, SleepSends
<1>5. 0 \in Nat
  OBVIOUS
<1>. QED BY <1>1, <1>4, <1>5 DEF Inv

LEMMA InvPowerLoss ==
  ASSUME Inv, PowerLoss
  PROVE  Inv'
<1>1. /\ frame' = ZeroFrame /\ status' = "IDLE" /\ panel' = HardwareReset(Unpowered(panel))
      /\ todo' = AllSent(OpenCmds \o SleepCmds)
  BY DEF PowerLoss
<1>2. Unpowered(panel) \in Panels
  BY PanelsPowered DEF Inv
<1>3. frame' \in Picture /\ panel' \in Panels
  BY <1>1, <1>2, PanelsPowered, FramesArePictures
<1>4. Ahead(todo', OpenSends \o SleepSends, 0)
  BY <1>1, BootSent, AheadAll, Sends, AfterOpen
<1>5. OpenAt(panel', 0)
  BY <1>1, <1>2, OpenReset
<1>6. 0 \in Nat /\ ~(0 >= 27)
  OBVIOUS
<1>7. Booting(0)'
  BY <1>1, <1>4, <1>5, <1>6 DEF Booting, OpenSends, SleepSends
<1>. QED BY <1>3, <1>6, <1>7 DEF Inv

(* Every state of the bus satisfies the invariant. *)
THEOREM InvariantHolds == Spec => []Inv
<1>1. Inv /\ [Next]_bus => Inv'
  <2>. SUFFICES ASSUME Inv, [Next]_bus PROVE Inv'
    OBVIOUS
  <2>1. CASE Delivers
    BY <2>1, InvDelivers
  <2>2. CASE EpdWrite
    BY <2>2, InvEpdWrite
  <2>3. CASE OpenAndFlush
    BY <2>3, InvOpenAndFlush
  <2>4. CASE EpdTimerEnds
    BY <2>4, InvEpdTimerEnds
  <2>5. CASE PowerLoss
    BY <2>5, InvPowerLoss
  <2>6. CASE UNCHANGED bus
    BY <2>6 DEF bus, Inv, Booting, Refreshing, Reopening, Sleeping, OpenSends, SleepSends, FlushSends
  <2>. QED BY <2>1, <2>2, <2>3, <2>4, <2>5, <2>6 DEF Next
<1>. QED BY InvInit, <1>1, PTL DEF Spec

(* When a call of a busy driver has sent all its bytes, the panel shows    *)
(* the frame buffer, for every size of panel and every picture (epd_open() *)
(* and epd_flush() of ssd1680.c).                                          *)
THEOREM PictureAlwaysArrives == Spec => []PictureArrives
<1>1. Inv => PictureArrives
  BY InvEnds DEF PictureArrives
<1>. QED BY InvariantHolds, <1>1, PTL

(* When a call of an idle driver has sent all its bytes, the panel is in   *)
(* deep sleep (epd_sleep(), and user_proj_main() at the start).            *)
THEOREM IdleAlwaysSleeps == Spec => []IdleSleeps
<1>1. Inv => IdleSleeps
  BY InvEnds DEF IdleSleeps
<1>. QED BY InvariantHolds, <1>1, PTL
=============================================================================
