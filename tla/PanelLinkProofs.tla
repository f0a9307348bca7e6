-------------------------- MODULE PanelLinkProofs ---------------------------
(***************************************************************************)
(* The wires deliver every byte as what it is meant to be, in both builds, *)
(* for every size of the panel and every picture; with PanelBusProofs, the *)
(* picture arrives and the panel sleeps.                                   *)
(*                                                                         *)
(* A call is a program, built from programs: each part starts from lines   *)
(* that the part before leaves.  So at any time the rest of the program can *)
(* run from where the wires are, and D/C moves only when nothing waits in  *)
(* the FIFO.  That is the invariant, with the bits of the present byte, and *)
(* under it a step of the link is a delivery of the bus or nothing to it.  *)
(***************************************************************************)
EXTENDS PanelLink, SequenceTheorems, WellFoundedInduction, TLAPS

-----------------------------------------------------------------------------
(***************************************************************************)
(* Programs on the lines.  A program of steps needs D/C and CS to be as    *)
(* its bytes mean, and the FIFO to be empty when D/C moves.                *)
(***************************************************************************)

(* A byte, and what it is meant to be: a command or data *)
Meant == [dc : {0, 1}, byte : 0..255]

Steps ==
  ({"dc", "cs"} \X {0, 1}) \cup ({"put", "shift"} \X Meant) \cup {Enable, Wait, Disable}

(* What a program does to D/C and CS, and the bytes put since the last wait *)
Lines == [dc : {0, 1}, cs : {0, 1}, n : Nat]

(* Step s takes the lines from a to b.  The bytes put are counted from the *)
(* last wait on, and no more than the FIFO is taken to hold.               *)
Does(sf, a, s, b) ==
  \/ s[1] = "dc" /\ a.n = 0 /\ b = [dc |-> s[2], cs |-> a.cs, n |-> 0]
  \/ s[1] = "cs" /\ sf /\ b = [dc |-> a.dc, cs |-> s[2], n |-> a.n]
  \/ s[1] = "shift" /\ sf /\ a.cs = 0 /\ s[2].dc = a.dc /\ b = a
  \/ s[1] = "put" /\ ~sf /\ s[2].dc = a.dc /\ a.n < FifoBound
     /\ b = [dc |-> a.dc, cs |-> a.cs, n |-> a.n + 1]
  \/ s[1] \in {"enable", "disable"} /\ ~sf /\ b = a
  \/ s[1] = "wait" /\ ~sf /\ b = [dc |-> a.dc, cs |-> a.cs, n |-> 0]

(* d has the lines before and after every step of p. *)
Traces(sf, p, a, b, d) ==
  /\ d \in [1..(Len(p) + 1) -> Lines] /\ d[1] = a /\ d[Len(p) + 1] = b
  /\ \A i \in 1..Len(p) : Does(sf, d[i], p[i], d[i + 1])

(* Program p takes the lines from a to b. *)
Runs(sf, p, a, b) == \E d : Traces(sf, p, a, b, d)

(* No step, one step, two programs one after the other *)
LEMMA RunsNone ==
  ASSUME NEW sf, NEW a \in Lines
  PROVE  Runs(sf, <<>>, a, a)
<1>. DEFINE d == [i \in 1..1 |-> a]
<1>1. Len(<<>>) = 0 /\ 0 + 1 = 1
  OBVIOUS
<1>2. d \in [1..1 -> Lines] /\ d[1] = a /\ 1..0 = {}
  OBVIOUS
<1>3. Traces(sf, <<>>, a, a, d)
  BY <1>1, <1>2 DEF Traces
<1>. QED BY <1>3 DEF Runs

LEMMA RunsOne ==
  ASSUME NEW sf, NEW a \in Lines, NEW b \in Lines, NEW s, Does(sf, a, s, b)
  PROVE  Runs(sf, <<s>>, a, b)
<1>. DEFINE d == [i \in 1..2 |-> IF i = 1 THEN a ELSE b]
<1>1. Len(<<s>>) = 1 /\ 1 + 1 = 2 /\ <<s>>[1] = s
  OBVIOUS
<1>2. d \in [1..2 -> Lines] /\ d[1] = a /\ d[2] = b
  OBVIOUS
<1>3. ASSUME NEW i \in 1..1 PROVE Does(sf, d[i], <<s>>[i], d[i + 1])
  <2>1. i = 1 /\ i + 1 = 2
    OBVIOUS
  <2>. HIDE DEF d
  <2>. QED BY <1>1, <1>2, <2>1
<1>. HIDE DEF d
<1>4. Traces(sf, <<s>>, a, b, d)
  BY <1>1, <1>2, <1>3 DEF Traces
<1>. QED BY <1>4 DEF Runs

LEMMA RunsBoth ==
  ASSUME NEW sf, NEW a, NEW b, NEW c, NEW p \in Seq(Steps), NEW q \in Seq(Steps),
         Runs(sf, p, a, b), Runs(sf, q, b, c)
  PROVE  Runs(sf, p \o q, a, c)
<1>1. PICK d : Traces(sf, p, a, b, d)
  BY DEF Runs
<1>2. PICK e : Traces(sf, q, b, c, e)
  BY DEF Runs
<1>3. PICK m \in Nat, n \in Nat : m = Len(p) /\ n = Len(q)
  BY LenProperties
<1>4. /\ d \in [1..(m + 1) -> Lines] /\ d[1] = a /\ d[m + 1] = b
      /\ \A i \in 1..m : Does(sf, d[i], p[i], d[i + 1])
  BY <1>1, <1>3 DEF Traces
<1>5. /\ e \in [1..(n + 1) -> Lines] /\ e[1] = b /\ e[n + 1] = c
      /\ \A i \in 1..n : Does(sf, e[i], q[i], e[i + 1])
  BY <1>2, <1>3 DEF Traces
<1>6. PICK r : r = p \o q
  OBVIOUS
<1>7. Len(r) = m + n /\ (\A i \in 1..m : r[i] = p[i]) /\ (\A i \in 1..n : r[m + i] = q[i])
  <2>1. Len(r) = m + n /\ \A i \in 1..(m + n) : r[i] = IF i <= m THEN p[i] ELSE q[i - m]
    BY <1>3, <1>6, ConcatProperties
  <2>2. \A i \in 1..m : i \in 1..(m + n) /\ i <= m
    OBVIOUS
  <2>3. \A i \in 1..n : m + i \in 1..(m + n) /\ ~(m + i <= m) /\ (m + i) - m = i
    OBVIOUS
  <2>. QED BY <2>1, <2>2, <2>3
<1>. DEFINE g == [i \in 1..(m + n + 1) |-> IF i <= m THEN d[i] ELSE e[i - m]]
<1>8. \A i \in 1..m : g[i] = d[i]
  <2>1. \A i \in 1..m : i \in 1..(m + n + 1) /\ i <= m
    OBVIOUS
  <2>. QED BY <2>1
<1>9. \A i \in 1..(n + 1) : g[m + i] = e[i]
  <2>1. \A i \in 1..(n + 1) : m + i \in 1..(m + n + 1) /\ ~(m + i <= m) /\ (m + i) - m = i
    OBVIOUS
  <2>. QED BY <2>1
<1>10. g[m + 1] = d[m + 1]
  BY <1>4, <1>5, <1>9
<1>11. g \in [1..(m + n + 1) -> Lines]
  <2>. SUFFICES ASSUME NEW i \in 1..(m + n + 1) PROVE (IF i <= m THEN d[i] ELSE e[i - m]) \in Lines
    OBVIOUS
  <2>1. i <= m => i \in 1..(m + 1)
    OBVIOUS
  <2>2. ~(i <= m) => i - m \in 1..(n + 1)
    OBVIOUS
  <2>. QED BY <1>4, <1>5, <2>1, <2>2
<1>. HIDE DEF g
<1>12. g[1] = a /\ g[m + n + 1] = c
  <2>1. m = 0 \/ 1 \in 1..m
    OBVIOUS
  <2>2. m + (n + 1) = m + n + 1 /\ n + 1 \in 1..(n + 1) /\ 1 \in 1..(m + 1)
    OBVIOUS
  <2>. QED BY <1>4, <1>5, <1>8, <1>9, <1>10, <2>1, <2>2
<1>13. ASSUME NEW i \in 1..(m + n) PROVE Does(sf, g[i], r[i], g[i + 1])
  <2>1. CASE i <= m
    <3>1. i \in 1..m /\ (i + 1 \in 1..m \/ i + 1 = m + 1)
      BY <2>1
    <3>2. g[i] = d[i] /\ g[i + 1] = d[i + 1] /\ r[i] = p[i]
      BY <1>7, <1>8, <1>10, <3>1
    <3>. QED BY <1>4, <3>1, <3>2
  <2>2. CASE i > m
    <3>1. PICK j \in 1..n : i = m + j
      <4>1. i - m \in 1..n /\ i = m + (i - m)
        BY <2>2
      <4>. QED BY <4>1
    <3>2. j \in 1..(n + 1) /\ j + 1 \in 1..(n + 1) /\ i + 1 = m + (j + 1)
      BY <3>1
    <3>3. g[i] = e[j] /\ g[i + 1] = e[j + 1] /\ r[i] = q[j]
      BY <1>7, <1>9, <3>1, <3>2
    <3>. QED BY <1>5, <3>3
  <2>. QED BY <2>1, <2>2
<1>14. Traces(sf, r, a, c, g)
  BY <1>7, <1>11, <1>12, <1>13 DEF Traces
<1>. QED BY <1>6, <1>14 DEF Runs

(* The first step of a program, and its end *)
LEMMA RunsOn ==
  ASSUME NEW sf, NEW a, NEW b, NEW p \in Seq(Steps), p # <<>>, Runs(sf, p, a, b)
  PROVE  \E c \in Lines : Does(sf, a, p[1], c) /\ Runs(sf, Tail(p), c, b)
<1>1. PICK d : Traces(sf, p, a, b, d)
  BY DEF Runs
<1>2. PICK m \in Nat : m = Len(p)
  BY LenProperties
<1>3. m > 0
  BY <1>2, EmptySeq, LenProperties
<1>4. /\ d \in [1..(m + 1) -> Lines] /\ d[1] = a /\ d[m + 1] = b
      /\ \A i \in 1..m : Does(sf, d[i], p[i], d[i + 1])
  BY <1>1, <1>2 DEF Traces
<1>5. PICK r : r = Tail(p)
  OBVIOUS
<1>6. Len(r) = m - 1 /\ \A i \in 1..(m - 1) : r[i] = p[i + 1]
  BY <1>2, <1>3, <1>5, HeadTailProperties
<1>. DEFINE g == [i \in 1..m |-> d[i + 1]]
<1>7. g \in [1..m -> Lines] /\ \A i \in 1..m : g[i] = d[i + 1]
  <2>1. \A i \in 1..m : i + 1 \in 1..(m + 1)
    OBVIOUS
  <2>. QED BY <1>4, <2>1
<1>. HIDE DEF g
<1>8. 1 \in 1..m /\ m \in 1..m /\ (m - 1) + 1 = m /\ 1 + 1 = 2
  BY <1>3
<1>9. ASSUME NEW i \in 1..(m - 1) PROVE Does(sf, g[i], r[i], g[i + 1])
  <2>1. i \in 1..m /\ i + 1 \in 1..m
    OBVIOUS
  <2>2. g[i] = d[i + 1] /\ g[i + 1] = d[(i + 1) + 1] /\ r[i] = p[i + 1]
    BY <1>6, <1>7, <2>1
  <2>. QED BY <1>4, <2>1, <2>2
<1>10. Traces(sf, r, g[1], b, g)
  BY <1>4, <1>6, <1>7, <1>8, <1>9 DEF Traces
<1>11. Does(sf, a, p[1], g[1]) /\ g[1] \in Lines
  BY <1>4, <1>7, <1>8
<1>. QED BY <1>5, <1>10, <1>11 DEF Runs

LEMMA RunsEnd ==
  ASSUME NEW sf, NEW a, NEW b, Runs(sf, <<>>, a, b)
  PROVE  a = b
<1>1. Len(<<>>) = 0 /\ 0 + 1 = 1
  OBVIOUS
<1>. QED BY <1>1 DEF Runs, Traces

(* The bus, with what was proved of it *)
B == INSTANCE PanelBusProofs WITH todo <- Remaining

LEMMA BusSizes == B!SizeAssumption!:
BY SizeAssumption DEF EpdPartRamSize, EpdRamSize, Byte, B!EpdPartRamSize, B!EpdRamSize, B!Byte

(* What the steps are *)
LEMMA StepKinds ==
  ASSUME NEW s \in Steps
  PROVE  \/ s[1] \in {"dc", "cs"} /\ s[2] \in {0, 1}
         \/ s[1] \in {"put", "shift"} /\ s[2] \in Meant
         \/ s[1] \in {"enable", "wait", "disable"}
BY DEF Steps, Enable, Wait, Disable

LEMMA StepsAre ==
  /\ \A v \in {0, 1} : Dc(v) \in Steps /\ Dc(v)[1] = "dc" /\ Dc(v)[2] = v
  /\ \A v \in {0, 1} : Cs(v) \in Steps /\ Cs(v)[1] = "cs" /\ Cs(v)[2] = v
  /\ \A r \in Meant : /\ <<"put", r>> \in Steps /\ <<"put", r>>[1] = "put" /\ <<"put", r>>[2] = r
                      /\ <<"shift", r>> \in Steps /\ <<"shift", r>>[1] = "shift" /\ <<"shift", r>>[2] = r
  /\ Enable \in Steps /\ Enable[1] = "enable"
  /\ Disable \in Steps /\ Disable[1] = "disable"
  /\ Wait \in Steps /\ Wait[1] = "wait"
BY DEF Steps, Dc, Cs, Enable, Disable, Wait

(* The bytes a step gives, and a program *)
Given(s) == IF s[1] \in {"put", "shift"} THEN <<s[2]>> ELSE <<>>
Gives == [s \in Steps |-> Given(s)]
Bytes(p) ==
  FlattenSeq([i \in 1..Len(p) |-> IF p[i][1] \in {"put", "shift"} THEN <<p[i][2]>> ELSE <<>>])

LEMMA RemainingIs == Remaining = fifo \o Bytes(prog)
BY DEF Remaining, Bytes

(* A program gives what its parts give. *)
LEMMA GivesTyped == Gives \in [Steps -> Seq(Meant)]
<1>1. ASSUME NEW s \in Steps PROVE Given(s) \in Seq(Meant)
  <2>1. s[1] \in {"put", "shift"} => s[2] \in Meant
    BY StepKinds
  <2>2. \A x \in Meant : <<x>> \in Seq(Meant)
    OBVIOUS
  <2>3. <<>> \in Seq(Meant)
    OBVIOUS
  <2>. QED BY <2>1, <2>2, <2>3 DEF Given
<1>. QED BY <1>1 DEF Gives

LEMMA FlattenSame ==
  ASSUME NEW ss
  PROVE  FlattenSeq(ss) = B!FlattenSeq(ss)
BY DEF FlattenSeq, B!FlattenSeq

LEMMA BytesAre ==
  ASSUME NEW p \in Seq(Steps)
  PROVE  Bytes(p) = B!FlatMap(Gives, p)
<1>1. \A i \in 1..Len(p) : Gives[p[i]] = Given(p[i])
  BY ElementOfSeq DEF Gives
<1>2. [i \in 1..Len(p) |-> IF p[i][1] \in {"put", "shift"} THEN <<p[i][2]>> ELSE <<>>]
        = [i \in 1..Len(p) |-> Gives[p[i]]]
  BY <1>1 DEF Given
<1>. QED BY <1>2, FlattenSame DEF Bytes, B!FlatMap, B!Mapped

LEMMA BytesTyped ==
  ASSUME NEW p \in Seq(Steps)
  PROVE  Bytes(p) \in Seq(Meant)
BY BytesAre, GivesTyped, B!FlatMapTyped, BusSizes

LEMMA BytesNone == Bytes(<<>>) = <<>>
<1>1. <<>> \in Seq(Steps)
  OBVIOUS
<1>. QED BY <1>1, BytesAre, B!FlatMapEmpty, BusSizes

LEMMA BytesOne ==
  ASSUME NEW s \in Steps
  PROVE  Bytes(<<s>>) = Given(s)
<1>1. <<s>> \in Seq(Steps)
  OBVIOUS
<1>2. B!FlatMap(Gives, <<s>>) = Gives[s]
  BY GivesTyped, B!FlatMapOne, BusSizes
<1>. QED BY <1>1, <1>2, BytesAre DEF Gives

LEMMA BytesBoth ==
  ASSUME NEW p \in Seq(Steps), NEW q \in Seq(Steps)
  PROVE  Bytes(p \o q) = Bytes(p) \o Bytes(q)
<1>1. p \o q \in Seq(Steps)
  BY ConcatProperties
<1>2. B!FlatMap(Gives, p \o q) = B!FlatMap(Gives, p) \o B!FlatMap(Gives, q)
  <2>1. PICK X, Y : X = [Steps -> Seq(Meant)] /\ Y = Seq(Steps)
    OBVIOUS
  <2>2. \A F \in X : \A r \in Y, s \in Y : B!FlatMap(F, r \o s) = B!FlatMap(F, r) \o B!FlatMap(F, s)
    <3>1. \A C, T : \A F \in [C -> Seq(T)] : \A r \in Seq(C), s \in Seq(C) :
            B!FlatMap(F, r \o s) = B!FlatMap(F, r) \o B!FlatMap(F, s)
      BY B!FlatMapConcat, BusSizes
    <3>2. \A T : \A F \in [Steps -> Seq(T)] : \A r \in Seq(Steps), s \in Seq(Steps) :
            B!FlatMap(F, r \o s) = B!FlatMap(F, r) \o B!FlatMap(F, s)
      BY ONLY <3>1, Zenon
    <3>3. \A F \in [Steps -> Seq(Meant)] : \A r \in Seq(Steps), s \in Seq(Steps) :
            B!FlatMap(F, r \o s) = B!FlatMap(F, r) \o B!FlatMap(F, s)
      BY ONLY <3>2, Zenon
    <3>. QED BY ONLY <3>3, <2>1, Zenon
  <2>3. Gives \in X /\ p \in Y /\ q \in Y
    BY GivesTyped, <2>1
  <2>. QED BY ONLY <2>2, <2>3, Zenon
<1>. QED BY <1>1, <1>2, BytesAre

-----------------------------------------------------------------------------
(* Program p takes the lines from a to b, and delivers x. *)
Prog(sf, p, a, b, x) ==
  /\ p \in Seq(Steps) /\ a \in Lines /\ b \in Lines /\ x \in Seq(Meant)
  /\ Runs(sf, p, a, b) /\ Bytes(p) = x

(* As for Runs *)
LEMMA ProgNone ==
  ASSUME NEW sf, NEW a \in Lines
  PROVE  Prog(sf, <<>>, a, a, <<>>)
BY RunsNone, BytesNone, EmptySeq DEF Prog

LEMMA ProgOne ==
  ASSUME NEW sf, NEW a \in Lines, NEW b \in Lines, NEW s \in Steps, Does(sf, a, s, b)
  PROVE  Prog(sf, <<s>>, a, b, Given(s))
<1>1. <<s>> \in Seq(Steps)
  OBVIOUS
<1>. QED BY <1>1, RunsOne, BytesOne, BytesTyped DEF Prog

LEMMA ProgBoth ==
  ASSUME NEW sf, NEW p, NEW q, NEW a, NEW b, NEW c, NEW x, NEW y,
         Prog(sf, p, a, b, x), Prog(sf, q, b, c, y)
  PROVE  Prog(sf, p \o q, a, c, x \o y)
<1>1. p \in Seq(Steps) /\ q \in Seq(Steps) /\ x \in Seq(Meant) /\ y \in Seq(Meant)
  BY DEF Prog
<1>2. p \o q \in Seq(Steps) /\ x \o y \in Seq(Meant)
  BY <1>1, ConcatProperties
<1>3. Runs(sf, p \o q, a, c)
  BY <1>1, RunsBoth DEF Prog
<1>4. Bytes(p \o q) = x \o y
  BY <1>1, BytesBoth DEF Prog
<1>. QED BY <1>2, <1>3, <1>4 DEF Prog

(* Sets of numbers have a least element. *)
LEMMA Least ==
  ASSUME NEW S, S \subseteq Nat, S # {}
  PROVE  \E n \in S : \A m \in S : n <= m
BY B!LeastNumber, BusSizes

(* f gives the concatenations of the first parts of ss. *)
Joins(f, ss, n) ==
  \A i \in 1..n : f[i] = IF i = 1 THEN ss[i] ELSE f[i - 1] \o ss[i]

(* FlattenSeq is the last of these concatenations. *)
LEMMA JoinsTo ==
  ASSUME NEW T, NEW ss \in Seq(Seq(T))
  PROVE  /\ Len(ss) = 0 => FlattenSeq(ss) = <<>>
         /\ \E f \in [1..Len(ss) -> Seq(T)] :
              Joins(f, ss, Len(ss)) /\ (Len(ss) # 0 => FlattenSeq(ss) = f[Len(ss)])
<1>1. /\ Len(ss) = 0 => B!FlattenSeq(ss) = <<>>
      /\ \E f \in [1..Len(ss) -> Seq(T)] :
           B!Flattens(ss, f) /\ (Len(ss) # 0 => B!FlattenSeq(ss) = f[Len(ss)])
  BY B!FlattenIs, BusSizes
<1>2. PICK f \in [1..Len(ss) -> Seq(T)] :
        B!Flattens(ss, f) /\ (Len(ss) # 0 => B!FlattenSeq(ss) = f[Len(ss)])
  BY <1>1
<1>3. Joins(f, ss, Len(ss))
  BY <1>2 DEF B!Flattens, Joins
<1>. QED BY <1>1, <1>2, <1>3, FlattenSame

(* What grows part by part is the whole at the end. *)
LEMMA Pieces ==
  ASSUME NEW T, NEW n \in Nat, NEW ss \in Seq(Seq(T)), Len(ss) = n,
         NEW h \in [0..n -> Seq(T)], h[0] = <<>>, \A i \in 1..n : h[i] = h[i - 1] \o ss[i]
  PROVE  FlattenSeq(ss) = h[n]
<1>1. PICK f \in [1..n -> Seq(T)] : Joins(f, ss, n) /\ (n # 0 => FlattenSeq(ss) = f[n])
  BY JoinsTo
<1>. DEFINE S == {i \in 1..n : f[i] # h[i]}
<1>2. ASSUME S # {} PROVE FALSE
  <2>1. S \subseteq Nat
    OBVIOUS
  <2>2. PICK k \in S : \A m \in S : k <= m
    <3>. HIDE DEF S
    <3>. QED BY <1>2, <2>1, Least
  <2>3. k \in 1..n /\ f[k] # h[k]
    OBVIOUS
  <2>4. f[k] = IF k = 1 THEN ss[k] ELSE f[k - 1] \o ss[k]
    BY <1>1, <2>3 DEF Joins
  <2>5. CASE k = 1
    <3>1. 1 \in 1..n /\ 1 - 1 = 0
      BY <2>3
    <3>2. h[1] = <<>> \o ss[1]
      BY <3>1
    <3>3. ss[1] \in Seq(T)
      BY <3>1, ElementOfSeq
    <3>4. <<>> \o ss[1] = ss[1]
      BY <3>3, ConcatEmptySeq
    <3>. QED BY <2>3, <2>4, <2>5, <3>2, <3>4
  <2>6. CASE k # 1
    <3>1. k - 1 \in 1..n /\ ~(k <= k - 1)
      BY <2>3, <2>6
    <3>2. f[k - 1] = h[k - 1]
      BY <2>2, <3>1
    <3>. QED BY <2>3, <2>4, <2>6, <3>2
  <2>. QED BY <2>5, <2>6
<1>3. n # 0 => f[n] = h[n]
  <2>1. n # 0 => n \in 1..n
    OBVIOUS
  <2>. QED BY <1>2, <2>1
<1>4. n = 0 => FlattenSeq(ss) = <<>>
  BY JoinsTo
<1>. QED BY <1>1, <1>3, <1>4

(* The parts of c elements of a sequence *)
ChunksOf(x, n, c) == [i \in 1..n |-> SubSeq(x, (i - 1) * c + 1, i * c)]

(* In parts of c a sequence is whole, ... *)
LEMMA Chunks ==
  ASSUME NEW T, NEW x \in Seq(T), NEW n \in Nat, NEW c \in Nat, Len(x) = n * c
  PROVE  ChunksOf(x, n, c) \in Seq(Seq(T)) /\ FlattenSeq(ChunksOf(x, n, c)) = x
<1>1. PICK g \in [0..n -> 0..Len(x)] :
        g[0] = 0 /\ g[n] = Len(x) /\ \A i \in 1..n : g[i - 1] <= g[i] /\ g[i] = i * c /\ g[i - 1] = (i - 1) * c
  <2>1. \A i \in 0..n : i * c \in 0..(n * c)
    <3>. SUFFICES ASSUME NEW i \in 0..n PROVE i * c \in 0..(n * c)
      OBVIOUS
    <3>1. PICK j \in Nat : n = i + j
      <4>1. n - i \in Nat /\ n = i + (n - i)
        OBVIOUS
      <4>. QED BY <4>1
    <3>2. n * c = i * c + j * c /\ i * c \in Nat /\ j * c \in Nat
      BY <3>1
    <3>. QED BY <3>2
  <2>2. \A i \in 1..n : (i - 1) * c <= i * c
    <3>. SUFFICES ASSUME NEW i \in 1..n PROVE (i - 1) * c <= i * c
      OBVIOUS
    <3>1. PICK j \in Nat : i = j + 1
      <4>1. i - 1 \in Nat /\ i = (i - 1) + 1
        OBVIOUS
      <4>. QED BY <4>1
    <3>2. (j + 1) * c = j * c + c /\ j * c \in Nat /\ (j + 1) - 1 = j
      OBVIOUS
    <3>. QED BY <3>1, <3>2
  <2>3. \A i \in 1..n : i \in 0..n /\ i - 1 \in 0..n
    OBVIOUS
  <2>4. 0 * c = 0
    OBVIOUS
  <2>. DEFINE k == [i \in 0..n |-> i * c]
  <2>5. k \in [0..n -> 0..Len(x)]
    BY <2>1
  <2>6. k[0] = 0 /\ k[n] = Len(x) /\ \A i \in 1..n : k[i - 1] <= k[i] /\ k[i] = i * c /\ k[i - 1] = (i - 1) * c
    BY <2>2, <2>3, <2>4
  <2>. QED BY <2>5, <2>6
<1>. DEFINE ss == [i \in 1..n |-> SubSeq(x, g[i - 1] + 1, g[i])]
            h == [i \in 0..n |-> SubSeq(x, 1, g[i])]
<1>2. ss = ChunksOf(x, n, c)
  BY <1>1 DEF ChunksOf
<1>3. \A i \in 0..n : g[i] \in 0..Len(x) /\ Len(x) \in Nat
  BY LenProperties
<1>4. \A i \in 1..n : SubSeq(x, g[i - 1] + 1, g[i]) \in Seq(T)
  <2>. SUFFICES ASSUME NEW i \in 1..n PROVE SubSeq(x, g[i - 1] + 1, g[i]) \in Seq(T)
    OBVIOUS
  <2>1. PICK a \in 0..Len(x), b \in 0..Len(x) : a = g[i - 1] /\ b = g[i]
    <3>1. i - 1 \in 0..n /\ i \in 0..n
      OBVIOUS
    <3>. QED BY <3>1
  <2>2. \A j \in (a + 1)..b : x[j] \in T
    <3>1. \A j \in (a + 1)..b : j \in 1..Len(x)
      BY <1>3
    <3>. QED BY <3>1, ElementOfSeq
  <2>3. a + 1 \in Int /\ b \in Int
    BY <1>3
  <2>4. SubSeq(x, a + 1, b) \in Seq(T)
    BY <2>2, <2>3, SubSeqProperties
  <2>. QED BY <2>1, <2>4
<1>5. \A i \in 0..n : SubSeq(x, 1, g[i]) \in Seq(T)
  <2>. SUFFICES ASSUME NEW i \in 0..n PROVE SubSeq(x, 1, g[i]) \in Seq(T)
    OBVIOUS
  <2>1. PICK b \in 0..Len(x) : b = g[i]
    OBVIOUS
  <2>2. \A j \in 1..b : x[j] \in T
    <3>1. \A j \in 1..b : j \in 1..Len(x)
      BY <1>3
    <3>. QED BY <3>1, ElementOfSeq
  <2>4. SubSeq(x, 1, b) \in Seq(T)
    BY <2>2, <1>3, SubSeqProperties
  <2>. QED BY <2>1, <2>4
<1>6. \A i \in 1..n : SubSeq(x, 1, g[i]) = SubSeq(x, 1, g[i - 1]) \o SubSeq(x, g[i - 1] + 1, g[i])
  <2>. SUFFICES ASSUME NEW i \in 1..n
                PROVE  SubSeq(x, 1, g[i]) = SubSeq(x, 1, g[i - 1]) \o SubSeq(x, g[i - 1] + 1, g[i])
    OBVIOUS
  <2>1. PICK a \in 0..Len(x), b \in 0..Len(x) : a = g[i - 1] /\ b = g[i]
    <3>1. i - 1 \in 0..n /\ i \in 0..n
      OBVIOUS
    <3>. QED BY <3>1
  <2>2. 1 \in 1..Len(x) + 1 /\ a \in (1 - 1)..Len(x) /\ b \in a..Len(x)
    BY <1>1, <1>3, <2>1
  <2>3. SubSeq(x, 1, a) \o SubSeq(x, a + 1, b) = SubSeq(x, 1, b)
    BY <2>2, ConcatAdjacentSubSeq
  <2>. QED BY <2>1, <2>3
<1>7. ss \in Seq(Seq(T)) /\ Len(ss) = n
  <2>1. ss \in [1..n -> Seq(T)]
    BY <1>4
  <2>2. ss \in Seq(Seq(T))
    BY <2>1, SeqDef
  <2>. QED BY <2>2, LenProperties, <2>1
<1>8. h \in [0..n -> Seq(T)] /\ h[0] = <<>> /\ \A i \in 1..n : h[i] = h[i - 1] \o ss[i]
  <2>1. SubSeq(x, 1, 0) = <<>>
    BY SubSeqEmpty
  <2>2. \A i \in 1..n : i \in 0..n /\ i - 1 \in 0..n
    OBVIOUS
  <2>3. h \in [0..n -> Seq(T)] /\ \A i \in 0..n : h[i] = SubSeq(x, 1, g[i])
    BY <1>5
  <2>4. \A i \in 1..n : ss[i] = SubSeq(x, g[i - 1] + 1, g[i])
    OBVIOUS
  <2>5. h[0] = <<>>
    <3>1. 0 \in 0..n
      OBVIOUS
    <3>. QED BY <1>1, <2>1, <2>3, <3>1
  <2>. HIDE DEF h, ss
  <2>. QED BY <1>6, <2>2, <2>3, <2>4, <2>5
<1>9. h[n] = x
  BY <1>1, SubSeqFull
<1>10. FlattenSeq(ss) = h[n]
  <2>. HIDE DEF ss, h
  <2>. QED BY <1>7, <1>8, Pieces
<1>. QED BY <1>2, <1>7, <1>9, <1>10

(* ... as in parts of one. *)
LEMMA Singles ==
  ASSUME NEW T, NEW x \in Seq(T)
  PROVE  /\ [i \in 1..Len(x) |-> <<x[i]>>] \in Seq(Seq(T))
         /\ FlattenSeq([i \in 1..Len(x) |-> <<x[i]>>]) = x
<1>1. PICK n \in Nat : n = Len(x) /\ n = n * 1
  BY LenProperties
<1>2. ASSUME NEW i \in 1..n PROVE SubSeq(x, (i - 1) * 1 + 1, i * 1) = <<x[i]>>
  <2>1. (i - 1) * 1 + 1 = i /\ i * 1 = i /\ i \in i..n /\ i \in Int /\ i - 1 \in Int /\ i - 1 < i
    OBVIOUS
  <2>2. SubSeq(x, i, i) = SubSeq(x, i, i - 1) \o <<x[i]>>
    BY <1>1, <2>1, SubSeqRecursiveSecond
  <2>3. SubSeq(x, i, i - 1) = <<>>
    BY <2>1, SubSeqEmpty
  <2>4. <<>> \o <<x[i]>> = <<x[i]>>
    OBVIOUS
  <2>. QED BY <2>1, <2>2, <2>3, <2>4
<1>3. [i \in 1..n |-> SubSeq(x, (i - 1) * 1 + 1, i * 1)] = [i \in 1..n |-> <<x[i]>>]
  BY <1>2
<1>4. 1 \in Nat /\ Len(x) = n * 1
  BY <1>1
<1>5. ChunksOf(x, n, 1) \in Seq(Seq(T)) /\ FlattenSeq(ChunksOf(x, n, 1)) = x
  BY <1>4, Chunks
<1>. QED BY <1>1, <1>3, <1>5 DEF ChunksOf

-----------------------------------------------------------------------------
(* p takes the lines from anywhere in A to somewhere in Z, and delivers x. *)
Moves(sf, A, p, x, Z) ==
  A \subseteq Lines /\ \A a \in A : \E b \in Z : Prog(sf, p, a, b, x)

(* As for Prog *)
LEMMA MovesBoth ==
  ASSUME NEW sf, NEW A, NEW Y, NEW Z, NEW p, NEW q, NEW x, NEW y,
         Moves(sf, A, p, x, Y), Moves(sf, Y, q, y, Z)
  PROVE  Moves(sf, A, p \o q, x \o y, Z)
<1>. SUFFICES ASSUME NEW a \in A PROVE \E c \in Z : Prog(sf, p \o q, a, c, x \o y)
  BY DEF Moves
<1>1. PICK b \in Y : Prog(sf, p, a, b, x)
  BY DEF Moves
<1>2. PICK c \in Z : Prog(sf, q, b, c, y)
  BY DEF Moves
<1>. QED BY <1>1, <1>2, ProgBoth

LEMMA MovesNone ==
  ASSUME NEW sf, NEW A, A \subseteq Lines
  PROVE  Moves(sf, A, <<>>, <<>>, A)
BY ProgNone DEF Moves

LEMMA MovesOne ==
  ASSUME NEW sf, NEW A \in SUBSET Lines, NEW Z \in SUBSET Lines, NEW s \in Steps, NEW x, x = Given(s),
         \A a \in A : \E b \in Z : Does(sf, a, s, b)
  PROVE  Moves(sf, A, <<s>>, x, Z)
<1>. SUFFICES ASSUME NEW a \in A PROVE \E b \in Z : Prog(sf, <<s>>, a, b, x)
  BY DEF Moves
<1>1. PICK b \in Z : Does(sf, a, s, b)
  OBVIOUS
<1>2. a \in Lines /\ b \in Lines
  OBVIOUS
<1>. QED BY <1>1, <1>2, ProgOne

(* A chain of programs *)
LEMMA MovesAll ==
  ASSUME NEW sf, NEW n \in Nat, NEW ps \in Seq(Seq(Steps)), NEW xs \in Seq(Seq(Meant)),
         Len(ps) = n, Len(xs) = n, NEW A, A[0] \subseteq Lines,
         \A i \in 1..n : Moves(sf, A[i - 1], ps[i], xs[i], A[i])
  PROVE  Moves(sf, A[0], FlattenSeq(ps), FlattenSeq(xs), A[n])
<1>1. CASE n = 0
  <2>1. FlattenSeq(ps) = <<>> /\ FlattenSeq(xs) = <<>>
    BY <1>1, JoinsTo
  <2>. QED BY <1>1, <2>1, MovesNone
<1>2. CASE n # 0
  <2>1. PICK f : Joins(f, ps, n) /\ FlattenSeq(ps) = f[n]
    BY <1>2, JoinsTo
  <2>2. PICK g : Joins(g, xs, n) /\ FlattenSeq(xs) = g[n]
    BY <1>2, JoinsTo
  <2>. DEFINE S == {i \in 1..n : ~Moves(sf, A[0], f[i], g[i], A[i])}
  <2>3. ASSUME S # {} PROVE FALSE
    <3>1. S \subseteq Nat
      OBVIOUS
    <3>2. PICK k \in S : \A m \in S : k <= m
      <4>. HIDE DEF S
      <4>. QED BY <2>3, <3>1, Least
    <3>3. k \in 1..n /\ ~Moves(sf, A[0], f[k], g[k], A[k])
      OBVIOUS
    <3>4. /\ f[k] = IF k = 1 THEN ps[k] ELSE f[k - 1] \o ps[k]
          /\ g[k] = IF k = 1 THEN xs[k] ELSE g[k - 1] \o xs[k]
      BY <2>1, <2>2, <3>3 DEF Joins
    <3>5. Moves(sf, A[k - 1], ps[k], xs[k], A[k])
      BY <3>3
    <3>6. CASE k = 1
      <4>1. k - 1 = 0
        BY <3>6
      <4>. QED BY <3>3, <3>4, <3>5, <3>6, <4>1
    <3>7. CASE k # 1
      <4>1. k - 1 \in 1..n /\ ~(k <= k - 1)
        BY <3>3, <3>7
      <4>2. Moves(sf, A[0], f[k - 1], g[k - 1], A[k - 1])
        BY <3>2, <4>1
      <4>. QED BY <3>3, <3>4, <3>5, <3>7, <4>2, MovesBoth
    <3>. QED BY <3>6, <3>7
  <2>4. n \in 1..n
    BY <1>2
  <2>. QED BY <2>1, <2>2, <2>3, <2>4
<1>. QED BY <1>1, <1>2

-----------------------------------------------------------------------------
(***************************************************************************)
(* What the parts of a call do, from lines on which nothing waits.         *)
(***************************************************************************)

(* Bytes, and what they are meant to be with D/C at v *)
Datum == 0..255
As(v, bytes) == [i \in 1..Len(bytes) |-> [dc |-> v, byte |-> bytes[i]]]

(* Lines on which no byte waits; with D/C at v and k bytes that were put;  *)
(* with the panel selected                                                 *)
Idle == {a \in Lines : a.n = 0}
Level(v, k) == {a \in Lines : a.dc = v /\ a.n = k}
Selected(v) == {a \in Lines : a.dc = v /\ a.cs = 0 /\ a.n = 0}

(* From fewer lines, to more *)
LEMMA MovesMore ==
  ASSUME NEW sf, NEW p, NEW x, NEW A, NEW X, NEW Y, NEW Z, Moves(sf, X, p, x, Y),
         A \subseteq X, Y \subseteq Z
  PROVE  Moves(sf, A, p, x, Z)
BY DEF Moves

(* What is meant is as long as what is sent. *)
LEMMA AsIs ==
  ASSUME NEW v \in {0, 1}, NEW bytes \in Seq(Datum)
  PROVE  As(v, bytes) \in Seq(Meant) /\ Len(As(v, bytes)) = Len(bytes)
<1>1. PICK n \in Nat : n = Len(bytes)
  BY LenProperties
<1>2. \A i \in 1..n : [dc |-> v, byte |-> bytes[i]] \in Meant
  <2>1. \A i \in 1..n : bytes[i] \in Datum
    BY <1>1, ElementOfSeq
  <2>. QED BY <2>1 DEF Meant, Datum
<1>. DEFINE x == [i \in 1..n |-> [dc |-> v, byte |-> bytes[i]]]
<1>3. x \in [1..n -> Meant]
  BY <1>2
<1>4. x \in Seq(Meant) /\ Len(x) = n
  <2>. HIDE DEF x
  <2>1. x \in Seq(Meant)
    BY <1>3, SeqDef
  <2>. QED BY <1>3, <2>1, LenProperties
<1>. QED BY <1>1, <1>4 DEF As

LEMMA FifoBoundIs == FifoBound \in Nat /\ 4 <= FifoBound /\ ChunkSize <= FifoBound
BY SizeAssumption DEF FifoBound

(* Bytes that are put, ... *)
LEMMA PutMoves ==
  ASSUME NEW v \in {0, 1}, NEW bytes \in Seq(Datum), Len(bytes) <= FifoBound
  PROVE  Moves(FALSE, Level(v, 0), Put(v, bytes), As(v, bytes), Level(v, Len(bytes)))
<1>1. PICK n \in Nat : n = Len(bytes)
  BY LenProperties
<1>2. PICK x \in Seq(Meant) : x = As(v, bytes) /\ Len(x) = n
  BY <1>1, AsIs
<1>3. \A i \in 1..n : x[i] = [dc |-> v, byte |-> bytes[i]] /\ x[i] \in Meant
  BY <1>1, <1>2, ElementOfSeq DEF As
<1>4. PICK p \in Seq(Steps) : p = Put(v, bytes) /\ Len(p) = n /\ \A i \in 1..n : p[i] = <<"put", x[i]>>
  <2>. DEFINE q == [i \in 1..n |-> <<"put", x[i]>>]
  <2>1. q \in [1..n -> Steps]
    BY <1>3, StepsAre
  <2>2. q \in Seq(Steps) /\ Len(q) = n
    <3>. HIDE DEF q
    <3>1. q \in Seq(Steps)
      BY <2>1, SeqDef
    <3>. QED BY <2>1, <3>1, LenProperties
  <2>3. q = Put(v, bytes)
    BY <1>1, <1>3 DEF Put
  <2>4. \A i \in 1..n : q[i] = <<"put", x[i]>>
    OBVIOUS
  <2>. HIDE DEF q
  <2>. QED BY <2>2, <2>3, <2>4
<1>5. PICK A : A = [i \in 0..n |-> Level(v, i)]
  OBVIOUS
<1>6. PICK ps \in Seq(Seq(Steps)) : ps = [i \in 1..n |-> <<p[i]>>] /\ FlattenSeq(ps) = p
  BY <1>4, Singles
<1>7. PICK xs \in Seq(Seq(Meant)) : xs = [i \in 1..n |-> <<x[i]>>] /\ FlattenSeq(xs) = x
  BY <1>2, Singles
<1>8. Len(ps) = n /\ Len(xs) = n
  BY <1>6, <1>7
<1>9. ASSUME NEW i \in 1..n PROVE Moves(FALSE, A[i - 1], ps[i], xs[i], A[i])
  <2>1. PICK s \in Steps, r \in Meant : s = p[i] /\ r = x[i] /\ s = <<"put", r>>
    BY <1>3, <1>4, StepsAre
  <2>2. s[1] = "put" /\ s[2] = r /\ Given(s) = <<r>> /\ r.dc = v
    <3>1. s[1] = "put" /\ s[2] = r
      BY <2>1
    <3>2. Given(s) = <<r>>
      BY <3>1 DEF Given
    <3>3. r.dc = v
      <4>1. r = [dc |-> v, byte |-> bytes[i]]
        BY <2>1, <1>3
      <4>. QED BY <4>1
    <3>. QED BY <3>1, <3>2, <3>3
  <2>3. i - 1 \in 0..n /\ i \in 0..n /\ i - 1 < FifoBound /\ (i - 1) + 1 = i /\ i \in Nat
    BY <1>1, FifoBoundIs
  <2>4. \A a \in Level(v, i - 1) : \E b \in Level(v, i) : Does(FALSE, a, s, b)
    <3>. SUFFICES ASSUME NEW a \in Level(v, i - 1) PROVE \E b \in Level(v, i) : Does(FALSE, a, s, b)
      OBVIOUS
    <3>1. a \in Lines /\ a.dc = v /\ a.n = i - 1 /\ a.cs \in {0, 1}
      BY DEF Level, Lines
    <3>2. PICK b : b = [dc |-> a.dc, cs |-> a.cs, n |-> i]
      OBVIOUS
    <3>3. b \in Level(v, i)
      BY <2>3, <3>1, <3>2 DEF Level, Lines
    <3>4. Does(FALSE, a, s, b)
      BY <2>2, <2>3, <3>1, <3>2 DEF Does
    <3>. QED BY <3>3, <3>4
  <2>5. Moves(FALSE, Level(v, i - 1), <<s>>, <<r>>, Level(v, i))
    <3>1. Level(v, i - 1) \subseteq Lines /\ Level(v, i) \subseteq Lines
      BY DEF Level
    <3>. QED BY <2>2, <2>4, <3>1, MovesOne
  <2>. QED BY <1>5, <1>6, <1>7, <2>1, <2>3, <2>5
<1>10. A[0] = Level(v, 0) /\ A[n] = Level(v, n) /\ A[0] \subseteq Lines
  BY <1>5 DEF Level
<1>11. Moves(FALSE, A[0], FlattenSeq(ps), FlattenSeq(xs), A[n])
  BY <1>8, <1>9, <1>10, MovesAll
<1>. QED BY <1>1, <1>2, <1>4, <1>6, <1>7, <1>10, <1>11

(* ... and bytes that softspi.c shifts out itself. *)
LEMMA ShiftMoves ==
  ASSUME NEW v \in {0, 1}, NEW bytes \in Seq(Datum)
  PROVE  Moves(TRUE, Selected(v), Shift(v, bytes), As(v, bytes), Selected(v))
<1>1. PICK n \in Nat : n = Len(bytes)
  BY LenProperties
<1>2. PICK x \in Seq(Meant) : x = As(v, bytes) /\ Len(x) = n
  BY <1>1, AsIs
<1>3. \A i \in 1..n : x[i] = [dc |-> v, byte |-> bytes[i]] /\ x[i] \in Meant
  BY <1>1, <1>2, ElementOfSeq DEF As
<1>4. PICK p \in Seq(Steps) : p = Shift(v, bytes) /\ Len(p) = n /\ \A i \in 1..n : p[i] = <<"shift", x[i]>>
  <2>. DEFINE q == [i \in 1..n |-> <<"shift", x[i]>>]
  <2>1. q \in [1..n -> Steps]
    BY <1>3, StepsAre
  <2>2. q \in Seq(Steps) /\ Len(q) = n
    <3>. HIDE DEF q
    <3>1. q \in Seq(Steps)
      BY <2>1, SeqDef
    <3>. QED BY <2>1, <3>1, LenProperties
  <2>3. q = Shift(v, bytes)
    BY <1>1, <1>3 DEF Shift
  <2>4. \A i \in 1..n : q[i] = <<"shift", x[i]>>
    OBVIOUS
  <2>. HIDE DEF q
  <2>. QED BY <2>2, <2>3, <2>4
<1>5. PICK A : A = [i \in 0..n |-> Selected(v)]
  OBVIOUS
<1>6. PICK ps \in Seq(Seq(Steps)) : ps = [i \in 1..n |-> <<p[i]>>] /\ FlattenSeq(ps) = p
  BY <1>4, Singles
<1>7. PICK xs \in Seq(Seq(Meant)) : xs = [i \in 1..n |-> <<x[i]>>] /\ FlattenSeq(xs) = x
  BY <1>2, Singles
<1>8. Len(ps) = n /\ Len(xs) = n
  BY <1>6, <1>7
<1>9. ASSUME NEW i \in 1..n PROVE Moves(TRUE, A[i - 1], ps[i], xs[i], A[i])
  <2>1. PICK s \in Steps, r \in Meant : s = p[i] /\ r = x[i] /\ s = <<"shift", r>>
    BY <1>3, <1>4, StepsAre
  <2>2. s[1] = "shift" /\ s[2] = r /\ Given(s) = <<r>> /\ r.dc = v
    <3>1. s[1] = "shift" /\ s[2] = r
      BY <2>1
    <3>2. Given(s) = <<r>>
      BY <3>1 DEF Given
    <3>3. r.dc = v
      <4>1. r = [dc |-> v, byte |-> bytes[i]]
        BY <2>1, <1>3
      <4>. QED BY <4>1
    <3>. QED BY <3>1, <3>2, <3>3
  <2>3. i - 1 \in 0..n /\ i \in 0..n
    OBVIOUS
  <2>4. \A a \in Selected(v) : \E b \in Selected(v) : Does(TRUE, a, s, b)
    <3>. SUFFICES ASSUME NEW a \in Selected(v) PROVE Does(TRUE, a, s, a)
      OBVIOUS
    <3>1. a.dc = v /\ a.cs = 0
      BY DEF Selected
    <3>. QED BY <2>2, <3>1 DEF Does
  <2>5. Moves(TRUE, Selected(v), <<s>>, <<r>>, Selected(v))
    <3>1. Selected(v) \subseteq Lines
      BY DEF Selected
    <3>. QED BY <2>2, <2>4, <3>1, MovesOne
  <2>. QED BY <1>5, <1>6, <1>7, <2>1, <2>3, <2>5
<1>10. A[0] = Selected(v) /\ A[n] = Selected(v) /\ A[0] \subseteq Lines
  BY <1>5 DEF Selected
<1>11. Moves(TRUE, A[0], FlattenSeq(ps), FlattenSeq(xs), A[n])
  BY <1>8, <1>9, <1>10, MovesAll
<1>. QED BY <1>1, <1>2, <1>4, <1>6, <1>7, <1>10, <1>11

(* A step that gives no byte *)
LEMMA DcMoves ==
  ASSUME NEW sf, NEW v \in {0, 1}
  PROVE  Moves(sf, Idle, <<Dc(v)>>, <<>>, Level(v, 0))
<1>1. Dc(v) \in Steps /\ Dc(v)[1] = "dc" /\ Dc(v)[2] = v
  BY StepsAre
<1>2. Given(Dc(v)) = <<>>
  BY <1>1 DEF Given
<1>3. ASSUME NEW a \in Idle PROVE \E b \in Level(v, 0) : Does(sf, a, Dc(v), b)
  <2>1. a.n = 0 /\ a.cs \in {0, 1}
    BY DEF Idle, Lines
  <2>2. PICK b : b = [dc |-> v, cs |-> a.cs, n |-> 0]
    OBVIOUS
  <2>3. b \in Level(v, 0)
    BY <2>1, <2>2 DEF Level, Lines
  <2>. QED BY <1>1, <2>1, <2>2, <2>3 DEF Does
<1>4. Idle \in SUBSET Lines /\ Level(v, 0) \in SUBSET Lines
  BY DEF Idle, Level
<1>. QED BY <1>1, <1>2, <1>3, <1>4, MovesOne

LEMMA DcStays ==
  ASSUME NEW v \in {0, 1}, NEW u \in {0, 1}
  PROVE  Moves(TRUE, Selected(u), <<Dc(v)>>, <<>>, Selected(v))
<1>1. Dc(v) \in Steps /\ Dc(v)[1] = "dc" /\ Dc(v)[2] = v
  BY StepsAre
<1>2. Given(Dc(v)) = <<>>
  BY <1>1 DEF Given
<1>3. ASSUME NEW a \in Selected(u) PROVE \E b \in Selected(v) : Does(TRUE, a, Dc(v), b)
  <2>1. a.n = 0 /\ a.cs = 0
    BY DEF Selected
  <2>2. PICK b : b = [dc |-> v, cs |-> a.cs, n |-> 0]
    OBVIOUS
  <2>3. b \in Selected(v)
    BY <2>1, <2>2 DEF Selected, Lines
  <2>. QED BY <1>1, <2>1, <2>2, <2>3 DEF Does
<1>4. Selected(u) \in SUBSET Lines /\ Selected(v) \in SUBSET Lines
  BY DEF Selected
<1>. QED BY <1>1, <1>2, <1>3, <1>4, MovesOne

LEMMA CsMoves ==
  ASSUME NEW v \in {0, 1}
  PROVE  /\ Moves(TRUE, Level(v, 0), <<Cs(0)>>, <<>>, Selected(v))
         /\ Moves(TRUE, Selected(v), <<Cs(1)>>, <<>>, Idle)
<1>1. /\ Cs(0) \in Steps /\ Cs(0)[1] = "cs" /\ Cs(0)[2] = 0
      /\ Cs(1) \in Steps /\ Cs(1)[1] = "cs" /\ Cs(1)[2] = 1
  BY StepsAre
<1>2. Given(Cs(0)) = <<>> /\ Given(Cs(1)) = <<>>
  BY <1>1 DEF Given
<1>3. ASSUME NEW a \in Level(v, 0) PROVE \E b \in Selected(v) : Does(TRUE, a, Cs(0), b)
  <2>1. a.n = 0 /\ a.dc = v
    BY DEF Level
  <2>2. PICK b : b = [dc |-> a.dc, cs |-> 0, n |-> a.n]
    OBVIOUS
  <2>3. b \in Selected(v)
    BY <2>1, <2>2 DEF Selected, Lines
  <2>. QED BY <1>1, <2>1, <2>2, <2>3 DEF Does
<1>4. ASSUME NEW a \in Selected(v) PROVE \E b \in Idle : Does(TRUE, a, Cs(1), b)
  <2>1. a.n = 0 /\ a.dc = v
    BY DEF Selected
  <2>2. PICK b : b = [dc |-> a.dc, cs |-> 1, n |-> a.n]
    OBVIOUS
  <2>3. b \in Idle
    BY <2>1, <2>2 DEF Idle, Lines
  <2>. QED BY <1>1, <2>1, <2>2, <2>3 DEF Does
<1>5. Selected(v) \in SUBSET Lines /\ Level(v, 0) \in SUBSET Lines /\ Idle \in SUBSET Lines
  BY DEF Selected, Level, Idle
<1>. QED BY <1>1, <1>2, <1>3, <1>4, <1>5, MovesOne

LEMMA SspMoves ==
  ASSUME NEW v \in {0, 1}, NEW k \in Nat
  PROVE  /\ Moves(FALSE, Level(v, k), <<Enable>>, <<>>, Level(v, k))
         /\ Moves(FALSE, Level(v, k), <<Disable>>, <<>>, Level(v, k))
         /\ Moves(FALSE, Level(v, k), <<Wait>>, <<>>, Level(v, 0))
<1>1. /\ Enable \in Steps /\ Enable[1] = "enable"
      /\ Disable \in Steps /\ Disable[1] = "disable"
      /\ Wait \in Steps /\ Wait[1] = "wait"
  BY StepsAre
<1>2. Given(Enable) = <<>> /\ Given(Disable) = <<>> /\ Given(Wait) = <<>>
  BY <1>1 DEF Given
<1>3. ASSUME NEW a \in Level(v, k) PROVE Does(FALSE, a, Enable, a) /\ Does(FALSE, a, Disable, a)
  BY <1>1 DEF Does
<1>4. ASSUME NEW a \in Level(v, k) PROVE \E b \in Level(v, 0) : Does(FALSE, a, Wait, b)
  <2>1. a.cs \in {0, 1} /\ a.dc = v
    BY DEF Level, Lines
  <2>2. PICK b : b = [dc |-> a.dc, cs |-> a.cs, n |-> 0]
    OBVIOUS
  <2>3. b \in Level(v, 0)
    BY <2>1, <2>2 DEF Level, Lines
  <2>. QED BY <1>1, <2>1, <2>2, <2>3 DEF Does
<1>5. Level(v, k) \in SUBSET Lines /\ Level(v, 0) \in SUBSET Lines
  BY DEF Level
<1>6. Moves(FALSE, Level(v, k), <<Enable>>, <<>>, Level(v, k))
  BY <1>1, <1>2, <1>3, <1>5, MovesOne
<1>7. Moves(FALSE, Level(v, k), <<Disable>>, <<>>, Level(v, k))
  BY <1>1, <1>2, <1>3, <1>5, MovesOne
<1>8. Moves(FALSE, Level(v, k), <<Wait>>, <<>>, Level(v, 0))
  BY <1>1, <1>2, <1>4, <1>5, MovesOne
<1>. QED BY <1>6, <1>7, <1>8

(* Concatenation with nothing *)
LEMMA WithNone ==
  ASSUME NEW T, NEW x \in Seq(T)
  PROVE  <<>> \o x = x /\ x \o <<>> = x
BY ConcatEmptySeq

(* Sequences that are written down are concatenations. *)
LEMMA Pair ==
  /\ \A a, b : <<a>> \o <<b>> = <<a, b>>
  /\ <<>> \o <<>> = <<>>
<1>. SUFFICES ASSUME NEW a, NEW b PROVE <<a>> \o <<b>> = <<a, b>>
  BY ConcatEmptySeq, EmptySeq
<1>1. /\ <<a>> \in Seq({a, b}) /\ <<b>> \in Seq({a, b}) /\ <<a, b>> \in Seq({a, b})
      /\ Len(<<a>>) = 1 /\ Len(<<b>>) = 1 /\ Len(<<a, b>>) = 2
      /\ <<a>>[1] = a /\ <<b>>[1] = b /\ <<a, b>>[1] = a /\ <<a, b>>[2] = b
  OBVIOUS
<1>2. PICK p \in Seq({a, b}), q \in Seq({a, b}), r \in Seq({a, b}) : p = <<a>> /\ q = <<b>> /\ r = <<a, b>>
  BY <1>1
<1>3. /\ p \o q \in Seq({a, b}) /\ Len(p \o q) = 2
      /\ \A i \in 1..2 : (p \o q)[i] = IF i <= 1 THEN p[i] ELSE q[i - 1]
  BY <1>1, <1>2, ConcatProperties
<1>4. \A i \in 1..2 : (p \o q)[i] = r[i]
  <2>1. \A i \in 1..2 : i = 1 \/ i = 2
    OBVIOUS
  <2>2. 1 \in 1..2 /\ 2 \in 1..2 /\ 1 <= 1 /\ ~(2 <= 1) /\ 2 - 1 = 1
    OBVIOUS
  <2>. QED BY <1>1, <1>2, <1>3, <2>1, <2>2
<1>5. Len(r) = 2
  BY <1>1, <1>2
<1>6. p \o q = r
  BY <1>3, <1>4, <1>5, SeqEqual
<1>. QED BY <1>2, <1>6

LEMMA Triple ==
  ASSUME NEW a, NEW b, NEW c
  PROVE  <<a, b>> \o <<c>> = <<a, b, c>>
<1>1. PICK S : S = {a, b, c}
  OBVIOUS
<1>2. /\ <<a, b>> \in Seq(S) /\ <<c>> \in Seq(S) /\ <<a, b, c>> \in Seq(S)
      /\ Len(<<a, b>>) = 2 /\ Len(<<c>>) = 1 /\ Len(<<a, b, c>>) = 3
      /\ <<a, b>>[1] = a /\ <<a, b>>[2] = b /\ <<c>>[1] = c
      /\ <<a, b, c>>[1] = a /\ <<a, b, c>>[2] = b /\ <<a, b, c>>[3] = c
  BY <1>1
<1>3. PICK p \in Seq(S), q \in Seq(S), r \in Seq(S) : p = <<a, b>> /\ q = <<c>> /\ r = <<a, b, c>>
  BY <1>2
<1>4. /\ p \o q \in Seq(S) /\ Len(p \o q) = 3
      /\ \A i \in 1..3 : (p \o q)[i] = IF i <= 2 THEN p[i] ELSE q[i - 2]
  BY <1>2, <1>3, ConcatProperties
<1>5. \A i \in 1..3 : (p \o q)[i] = r[i]
  <2>1. \A i \in 1..3 : i = 1 \/ i = 2 \/ i = 3
    OBVIOUS
  <2>2. 1 \in 1..3 /\ 2 \in 1..3 /\ 3 \in 1..3 /\ 1 <= 2 /\ 2 <= 2 /\ ~(3 <= 2) /\ 3 - 2 = 1
    OBVIOUS
  <2>. QED BY <1>2, <1>3, <1>4, <2>1, <2>2
<1>6. Len(r) = 3
  BY <1>2, <1>3
<1>7. p \o q = r
  BY <1>4, <1>5, <1>6, SeqEqual
<1>. QED BY <1>3, <1>7

(* softspi_write() *)
LEMMA WriteMoves ==
  ASSUME NEW v \in {0, 1}, NEW bytes \in Seq(Datum), NEW take \in BOOLEAN, NEW release \in BOOLEAN
  PROVE  Moves(TRUE, IF take THEN Level(v, 0) ELSE Selected(v), SoftspiWrite(v, bytes, take, release),
               As(v, bytes), IF release THEN Idle ELSE Selected(v))
<1>1. PICK p : p = IF take THEN <<Cs(0)>> ELSE <<>>
  OBVIOUS
<1>2. PICK q : q = IF release THEN <<Cs(1)>> ELSE <<>>
  OBVIOUS
<1>3. PICK A : A = IF take THEN Level(v, 0) ELSE Selected(v)
  OBVIOUS
<1>4. PICK Z : Z = IF release THEN Idle ELSE Selected(v)
  OBVIOUS
<1>5. Moves(TRUE, Selected(v), <<>>, <<>>, Selected(v))
  <2>1. Selected(v) \subseteq Lines
    BY DEF Selected
  <2>. QED BY <2>1, MovesNone
<1>6. Moves(TRUE, A, p, <<>>, Selected(v))
  <2>1. CASE take
    BY <1>1, <1>3, <2>1, CsMoves
  <2>2. CASE ~take
    BY <1>1, <1>3, <1>5, <2>2
  <2>. QED BY <2>1, <2>2
<1>7. Moves(TRUE, Selected(v), q, <<>>, Z)
  <2>1. CASE release
    BY <1>2, <1>4, <2>1, CsMoves
  <2>2. CASE ~release
    BY <1>2, <1>4, <1>5, <2>2
  <2>. QED BY <2>1, <2>2
<1>8. PICK x \in Seq(Meant) : x = As(v, bytes)
  BY AsIs
<1>9. Moves(TRUE, Selected(v), Shift(v, bytes), x, Selected(v))
  BY <1>8, ShiftMoves
<1>10. Moves(TRUE, A, (p \o Shift(v, bytes)) \o q, (<<>> \o x) \o <<>>, Z)
  <2>1. Moves(TRUE, A, p \o Shift(v, bytes), <<>> \o x, Selected(v))
    BY <1>6, <1>9, MovesBoth
  <2>. QED BY <1>7, <2>1, MovesBoth
<1>11. (<<>> \o x) \o <<>> = x
  BY WithNone
<1>12. SoftspiWrite(v, bytes, take, release) = (p \o Shift(v, bytes)) \o q
  BY <1>1, <1>2 DEF SoftspiWrite
<1>. QED BY <1>3, <1>4, <1>8, <1>10, <1>11, <1>12

(* What the driver sends are bytes. *)
Order == [cmd : Datum, data : Seq(Datum), plane : BOOLEAN]

(* What a command is meant to be, on the bus too *)
Says(t) == As(0, <<t.cmd>>) \o As(1, t.data)

LEMMA SaysIs ==
  ASSUME NEW t \in Order
  PROVE  /\ t.cmd \in Datum /\ t.data \in Seq(Datum) /\ <<t.cmd>> \in Seq(Datum)
         /\ As(0, <<t.cmd>>) \in Seq(Meant) /\ As(1, t.data) \in Seq(Meant)
         /\ Says(t) \in Seq(Meant)
         /\ Says(t) = B!Sent(t)
<1>1. t.cmd \in Datum /\ t.data \in Seq(Datum)
  BY DEF Order
<1>2. <<t.cmd>> \in Seq(Datum)
  BY <1>1
<1>3. As(0, <<t.cmd>>) \in Seq(Meant) /\ As(1, t.data) \in Seq(Meant)
  BY <1>1, <1>2, AsIs
<1>4. As(0, <<t.cmd>>) = <<[dc |-> 0, byte |-> t.cmd]>>
  BY DEF As
<1>5. Says(t) \in Seq(Meant)
  BY <1>3, ConcatProperties DEF Says
<1>. QED BY <1>1, <1>2, <1>3, <1>4, <1>5 DEF Says, B!Sent, As

(* epd_write_cmd() with softspi.c *)
LEMMA SoftCmdMoves ==
  ASSUME NEW t \in Order
  PROVE  Moves(TRUE, Idle, SoftCmd(t), Says(t), Idle)
<1>1. PICK w \in Seq(Meant), d \in Seq(Meant) : w = As(0, <<t.cmd>>) /\ d = As(1, t.data)
  <2>1. As(0, <<t.cmd>>) \in Seq(Meant) /\ As(1, t.data) \in Seq(Meant)
    BY SaysIs
  <2>. QED BY <2>1
<1>2. t.data \in Seq(Datum) /\ <<t.cmd>> \in Seq(Datum) /\ <<>> \in Seq(Datum)
  BY SaysIs, EmptySeq
<1>3. PICK p : p = SoftspiWrite(0, <<t.cmd>>, TRUE, FALSE)
  OBVIOUS
<1>4. Moves(TRUE, Level(0, 0), p, w, Selected(0))
  <2>1. Moves(TRUE, IF TRUE THEN Level(0, 0) ELSE Selected(0), SoftspiWrite(0, <<t.cmd>>, TRUE, FALSE),
              As(0, <<t.cmd>>), IF FALSE THEN Idle ELSE Selected(0))
    BY <1>2, WriteMoves
  <2>. QED BY <1>1, <1>3, <2>1
<1>5. Moves(TRUE, Idle, <<Dc(0)>> \o p, <<>> \o w, Selected(0))
  BY <1>4, DcMoves, MovesBoth
<1>6. CASE t.data # <<>>
  <2>1. PICK q : q = SoftspiWrite(1, t.data, FALSE, TRUE)
    OBVIOUS
  <2>2. Moves(TRUE, Selected(1), q, d, Idle)
    <3>1. Moves(TRUE, IF FALSE THEN Level(1, 0) ELSE Selected(1), SoftspiWrite(1, t.data, FALSE, TRUE),
              As(1, t.data), IF TRUE THEN Idle ELSE Selected(1))
      BY <1>2, WriteMoves
    <3>. QED BY <1>1, <2>1, <3>1
  <2>3. Moves(TRUE, Selected(0), <<Dc(1)>> \o q, <<>> \o d, Idle)
    BY <2>2, DcStays, MovesBoth
  <2>5. <<>> \o w = w /\ <<>> \o d = d
    BY WithNone
  <2>4. Moves(TRUE, Idle, (<<Dc(0)>> \o p) \o (<<Dc(1)>> \o q), w \o d, Idle)
    <3>1. Moves(TRUE, Idle, <<Dc(0)>> \o p, w, Selected(0))
      BY <1>5, <2>5
    <3>2. Moves(TRUE, Selected(0), <<Dc(1)>> \o q, d, Idle)
      BY <2>3, <2>5
    <3>. QED BY ONLY <3>1, <3>2, MovesBoth, Zenon
  <2>6. SoftCmd(t) = (<<Dc(0)>> \o p) \o (<<Dc(1)>> \o q)
    BY <1>3, <1>6, <2>1 DEF SoftCmd
  <2>. QED BY <1>1, <2>4, <2>6 DEF Says
<1>7. CASE t.data = <<>>
  <2>1. PICK q : q = SoftspiWrite(0, <<>>, FALSE, TRUE)
    OBVIOUS
  <2>2. As(0, <<>>) = <<>> /\ d = <<>>
    BY <1>1, <1>7 DEF As
  <2>3. Moves(TRUE, Selected(0), q, <<>>, Idle)
    <3>1. Moves(TRUE, IF FALSE THEN Level(0, 0) ELSE Selected(0), SoftspiWrite(0, <<>>, FALSE, TRUE),
              As(0, <<>>), IF TRUE THEN Idle ELSE Selected(0))
      BY <1>2, WriteMoves
    <3>. QED BY <2>1, <2>2, <3>1
  <2>4. Moves(TRUE, Idle, (<<Dc(0)>> \o p) \o q, (<<>> \o w) \o <<>>, Idle)
    BY ONLY <1>5, <2>3, MovesBoth, Zenon
  <2>5. <<>> \o w = w
    BY WithNone
  <2>6. SoftCmd(t) = (<<Dc(0)>> \o p) \o q
    BY <1>3, <1>7, <2>1 DEF SoftCmd
  <2>. QED BY <1>1, <2>2, <2>4, <2>5, <2>6 DEF Says
<1>. QED BY <1>6, <1>7

(* epd_write_cmd() with the SSP *)
LEMMA SspCmdMoves ==
  ASSUME NEW t \in Order, Len(t.data) <= FifoBound
  PROVE  Moves(FALSE, Idle, SspCmd(t), Says(t), Idle)
<1>1. PICK w \in Seq(Meant), d \in Seq(Meant) : w = As(0, <<t.cmd>>) /\ d = As(1, t.data)
  <2>1. As(0, <<t.cmd>>) \in Seq(Meant) /\ As(1, t.data) \in Seq(Meant)
    BY SaysIs
  <2>. QED BY <2>1
<1>2. t.data \in Seq(Datum) /\ <<t.cmd>> \in Seq(Datum) /\ Len(<<t.cmd>>) = 1 /\ Len(t.data) \in Nat
  BY SaysIs, LenProperties
<1>3. PICK p : p = Put(0, <<t.cmd>>)
  OBVIOUS
<1>4. Moves(FALSE, Level(0, 0), p, w, Level(0, 1))
  <2>1. Len(<<t.cmd>>) <= FifoBound
    BY <1>2, FifoBoundIs
  <2>. QED BY <1>1, <1>2, <1>3, <2>1, PutMoves
<1>5. Moves(FALSE, Level(0, 1), <<Enable, Wait>>, <<>>, Level(0, 0))
  <2>1. Moves(FALSE, Level(0, 1), <<Enable>> \o <<Wait>>, <<>> \o <<>>, Level(0, 0))
    BY SspMoves, MovesBoth
  <2>2. <<Enable>> \o <<Wait>> = <<Enable, Wait>> /\ <<>> \o <<>> = <<>>
    BY Pair
  <2>. QED BY <2>1, <2>2
<1>6. Moves(FALSE, Idle, (<<Dc(0)>> \o p) \o <<Enable, Wait>>, (<<>> \o w) \o <<>>, Level(0, 0))
  <2>1. Moves(FALSE, Idle, <<Dc(0)>> \o p, <<>> \o w, Level(0, 1))
    BY <1>4, DcMoves, MovesBoth
  <2>. QED BY <1>5, <2>1, MovesBoth
<1>7. (<<>> \o w) \o <<>> = w
  BY WithNone
<1>8. Level(0, 0) \subseteq Idle /\ Level(1, 0) \subseteq Idle /\ Idle \subseteq Idle
  BY DEF Level, Idle
<1>9. CASE t.data # <<>>
  <2>1. PICK q : q = Put(1, t.data)
    OBVIOUS
  <2>2. Moves(FALSE, Level(1, 0), q, d, Level(1, Len(t.data)))
    BY <1>1, <1>2, <2>1, PutMoves
  <2>3. Moves(FALSE, Level(1, Len(t.data)), <<Wait, Disable>>, <<>>, Level(1, 0))
    <3>1. Moves(FALSE, Level(1, Len(t.data)), <<Wait>> \o <<Disable>>, <<>> \o <<>>, Level(1, 0))
      BY <1>2, SspMoves, MovesBoth
    <3>2. <<Wait>> \o <<Disable>> = <<Wait, Disable>> /\ <<>> \o <<>> = <<>>
      BY Pair
    <3>. QED BY <3>1, <3>2
  <2>4. Moves(FALSE, Level(0, 0), (<<Dc(1)>> \o q) \o <<Wait, Disable>>, (<<>> \o d) \o <<>>, Level(1, 0))
    <3>1. Moves(FALSE, Level(0, 0), <<Dc(1)>>, <<>>, Level(1, 0))
      <4>1. Moves(FALSE, Idle, <<Dc(1)>>, <<>>, Level(1, 0))
        BY DcMoves
      <4>. QED BY <1>8, <4>1, MovesMore
    <3>2. Moves(FALSE, Level(0, 0), <<Dc(1)>> \o q, <<>> \o d, Level(1, Len(t.data)))
      BY <2>2, <3>1, MovesBoth
    <3>. QED BY <2>3, <3>2, MovesBoth
  <2>5. (<<>> \o d) \o <<>> = d
    BY WithNone
  <2>6. Moves(FALSE, Idle, ((<<Dc(0)>> \o p) \o <<Enable, Wait>>) \o ((<<Dc(1)>> \o q) \o <<Wait, Disable>>),
              w \o d, Level(1, 0))
    <3>1. Moves(FALSE, Idle, (<<Dc(0)>> \o p) \o <<Enable, Wait>>, w, Level(0, 0))
      BY <1>6, <1>7
    <3>2. Moves(FALSE, Level(0, 0), (<<Dc(1)>> \o q) \o <<Wait, Disable>>, d, Level(1, 0))
      BY <2>4, <2>5
    <3>. QED BY ONLY <3>1, <3>2, MovesBoth, Zenon
  <2>7. SspCmd(t) = ((<<Dc(0)>> \o p) \o <<Enable, Wait>>) \o ((<<Dc(1)>> \o q) \o <<Wait, Disable>>)
    BY <1>3, <1>9, <2>1 DEF SspCmd
  <2>. QED BY <1>1, <1>8, <2>6, <2>7, MovesMore DEF Says
<1>10. CASE t.data = <<>>
  <2>1. d = <<>>
    BY <1>1, <1>10 DEF As
  <2>2. Moves(FALSE, Level(0, 0), <<>>, <<>>, Level(0, 0))
    <3>1. Level(0, 0) \subseteq Lines
      BY DEF Level
    <3>. QED BY <3>1, MovesNone
  <2>3. Moves(FALSE, Idle, ((<<Dc(0)>> \o p) \o <<Enable, Wait>>) \o <<>>, w \o d, Level(0, 0))
    BY <1>6, <1>7, <2>1, <2>2, MovesBoth
  <2>4. SspCmd(t) = ((<<Dc(0)>> \o p) \o <<Enable, Wait>>) \o <<>>
    BY <1>3, <1>10 DEF SspCmd
  <2>. QED BY <1>1, <1>8, <2>3, <2>4, MovesMore DEF Says
<1>. QED BY <1>9, <1>10

(* A program, then one that gives nothing *)
LEMMA MovesMute ==
  ASSUME NEW sf, NEW A, NEW Y, NEW Z, NEW p, NEW q, NEW x \in Seq(Meant),
         Moves(sf, A, p, x, Y), Moves(sf, Y, q, <<>>, Z)
  PROVE  Moves(sf, A, p \o q, x, Z)
<1>1. PICK e : e = <<>>
  OBVIOUS
<1>2. Moves(sf, A, p \o q, x \o e, Z)
  BY <1>1, MovesBoth
<1>3. x \o e = x
  BY <1>1, WithNone
<1>. QED BY <1>2, <1>3

(* epd_flush() with softspi.c: the two planes, CS held over both of them *)
LEMMA SoftPlanesMove ==
  ASSUME NEW bw \in Order, NEW red \in Order
  PROVE  Moves(TRUE, Idle, SoftPlanes(bw, red), Says(bw) \o Says(red), Idle)
<1>1. PICK w \in Seq(Meant), d \in Seq(Meant) : w = As(0, <<bw.cmd>>) /\ d = As(1, bw.data)
  <2>1. As(0, <<bw.cmd>>) \in Seq(Meant) /\ As(1, bw.data) \in Seq(Meant)
    BY SaysIs
  <2>. QED BY <2>1
<1>2. PICK v \in Seq(Meant), e \in Seq(Meant) : v = As(0, <<red.cmd>>) /\ e = As(1, red.data)
  <2>1. As(0, <<red.cmd>>) \in Seq(Meant) /\ As(1, red.data) \in Seq(Meant)
    BY SaysIs
  <2>. QED BY <2>1
<1>3. /\ bw.data \in Seq(Datum) /\ <<bw.cmd>> \in Seq(Datum)
      /\ red.data \in Seq(Datum) /\ <<red.cmd>> \in Seq(Datum)
  BY SaysIs
<1>4. PICK p1, p2, p3, p4 :
        /\ p1 = SoftspiWrite(0, <<bw.cmd>>, TRUE, FALSE)
        /\ p2 = SoftspiWrite(1, bw.data, FALSE, FALSE)
        /\ p3 = SoftspiWrite(0, <<red.cmd>>, FALSE, FALSE)
        /\ p4 = SoftspiWrite(1, red.data, FALSE, TRUE)
  OBVIOUS
<1>5. Moves(TRUE, Level(0, 0), p1, w, Selected(0))
  <2>1. Moves(TRUE, IF TRUE THEN Level(0, 0) ELSE Selected(0), SoftspiWrite(0, <<bw.cmd>>, TRUE, FALSE),
              As(0, <<bw.cmd>>), IF FALSE THEN Idle ELSE Selected(0))
    BY <1>3, WriteMoves
  <2>. QED BY <1>1, <1>4, <2>1
<1>6. Moves(TRUE, Selected(1), p2, d, Selected(1))
  <2>1. Moves(TRUE, IF FALSE THEN Level(1, 0) ELSE Selected(1), SoftspiWrite(1, bw.data, FALSE, FALSE),
              As(1, bw.data), IF FALSE THEN Idle ELSE Selected(1))
    BY <1>3, WriteMoves
  <2>. QED BY <1>1, <1>4, <2>1
<1>7. Moves(TRUE, Selected(0), p3, v, Selected(0))
  <2>1. Moves(TRUE, IF FALSE THEN Level(0, 0) ELSE Selected(0), SoftspiWrite(0, <<red.cmd>>, FALSE, FALSE),
              As(0, <<red.cmd>>), IF FALSE THEN Idle ELSE Selected(0))
    BY <1>3, WriteMoves
  <2>. QED BY <1>2, <1>4, <2>1
<1>8. Moves(TRUE, Selected(1), p4, e, Idle)
  <2>1. Moves(TRUE, IF FALSE THEN Level(1, 0) ELSE Selected(1), SoftspiWrite(1, red.data, FALSE, TRUE),
              As(1, red.data), IF TRUE THEN Idle ELSE Selected(1))
    BY <1>3, WriteMoves
  <2>. QED BY <1>2, <1>4, <2>1
<1>9. PICK q1 : q1 = <<Dc(0)>> \o p1
  OBVIOUS
<1>10. Moves(TRUE, Idle, q1, w, Selected(0))
  <2>1. Moves(TRUE, Idle, <<Dc(0)>> \o p1, <<>> \o w, Selected(0))
    BY <1>5, DcMoves, MovesBoth
  <2>. QED BY <1>9, <2>1, WithNone
<1>11. PICK q2 : q2 = q1 \o <<Dc(1)>>
  OBVIOUS
<1>12. Moves(TRUE, Idle, q2, w, Selected(1))
  BY <1>10, <1>11, DcStays, MovesMute
<1>24. PICK q3 : q3 = q2 \o p2
  OBVIOUS
<1>13. PICK y \in Seq(Meant) : y = w \o d
  <2>1. w \o d \in Seq(Meant)
    BY ConcatProperties
  <2>. QED BY <2>1
<1>14. Moves(TRUE, Idle, q3, y, Selected(1))
  BY <1>6, <1>12, <1>13, <1>24, MovesBoth
<1>15. PICK q4 : q4 = q3 \o <<Dc(0)>>
  OBVIOUS
<1>16. Moves(TRUE, Idle, q4, y, Selected(0))
  BY <1>14, <1>15, DcStays, MovesMute
<1>25. PICK q5 : q5 = q4 \o p3
  OBVIOUS
<1>17. PICK z \in Seq(Meant) : z = y \o v
  <2>1. y \o v \in Seq(Meant)
    BY ConcatProperties
  <2>. QED BY <2>1
<1>18. Moves(TRUE, Idle, q5, z, Selected(0))
  BY <1>7, <1>16, <1>17, <1>25, MovesBoth
<1>19. PICK q6 : q6 = q5 \o <<Dc(1)>>
  OBVIOUS
<1>20. Moves(TRUE, Idle, q6, z, Selected(1))
  BY <1>18, <1>19, DcStays, MovesMute
<1>21. Moves(TRUE, Idle, q6 \o p4, z \o e, Idle)
  BY <1>8, <1>20, MovesBoth
<1>22. SoftPlanes(bw, red) = q6 \o p4
  BY <1>4, <1>9, <1>11, <1>15, <1>19, <1>24, <1>25 DEF SoftPlanes
<1>23. z \o e = y \o (v \o e)
  <2>1. y \in Seq(Meant) /\ v \in Seq(Meant) /\ e \in Seq(Meant)
    OBVIOUS
  <2>2. (y \o v) \o e = y \o (v \o e)
    BY ONLY <2>1, ConcatAssociative, SMTT(60)
  <2>. QED BY <1>17, <2>2
<1>. QED BY <1>1, <1>2, <1>13, <1>21, <1>22, <1>23 DEF Says

(* A plane, and its chunks *)
Sized(t) == t \in Order /\ Len(t.data) = EpdPartRamSize

LEMMA ChunkCount ==
  EpdPartRamSize \div ChunkSize \in Nat /\ ChunkSize \in Nat /\ EpdPartRamSize \in Nat
  /\ EpdPartRamSize = (EpdPartRamSize \div ChunkSize) * ChunkSize
<1>1. \A a, b \in Nat \ {0} : a * b \in Nat
  OBVIOUS
<1>2. EpdPartRamSize \in Nat /\ ChunkSize \in Nat \ {0} /\ EpdPartRamSize % ChunkSize = 0
  BY <1>1, SizeAssumption DEF EpdPartRamSize
<1>3. \A a \in Nat, b \in Nat \ {0} : a % b = 0 => a \div b \in Nat /\ a = (a \div b) * b
  OBVIOUS
<1>. QED BY <1>2, <1>3

(* Programs are steps, and give bytes. *)
LEMMA MovesTyped ==
  ASSUME NEW sf, NEW A, NEW Z, NEW p, NEW x, NEW a \in A, Moves(sf, A, p, x, Z)
  PROVE  p \in Seq(Steps) /\ x \in Seq(Meant)
BY DEF Moves, Prog

(* Chunk i ends within the plane. *)
LEMMA ChunkBounds ==
  ASSUME NEW n \in Nat, NEW c \in Nat, NEW i \in 1..n
  PROVE  (i - 1) * c \in Nat /\ i * c = (i - 1) * c + c /\ i * c <= n * c
<1>1. PICK j \in Nat : i = j + 1
  <2>1. i - 1 \in Nat /\ i = (i - 1) + 1
    OBVIOUS
  <2>. QED BY <2>1
<1>2. PICK k \in Nat : n = i + k
  <2>1. n - i \in Nat /\ n = i + (n - i)
    OBVIOUS
  <2>. QED BY <2>1
<1>3. j * c \in Nat /\ k * c \in Nat /\ (j + 1) * c = j * c + c /\ (j + 1) - 1 = j
  OBVIOUS
<1>4. n * c = (j + 1) * c + k * c
  BY <1>1, <1>2
<1>. QED BY <1>1, <1>3, <1>4

(* A part of a sequence, element by element *)
LEMMA PartIs ==
  ASSUME NEW T, NEW x \in Seq(T), NEW a \in Nat, NEW c \in Nat, NEW b, b = a + c, b <= Len(x)
  PROVE  /\ SubSeq(x, a + 1, b) \in Seq(T) /\ Len(SubSeq(x, a + 1, b)) = c
         /\ \A i \in 1..c : SubSeq(x, a + 1, b)[i] = x[a + i]
<1>1. PICK n \in Nat : n = Len(x)
  BY LenProperties
<1>2. \A i \in (a + 1)..b : i \in 1..n
  BY <1>1
<1>3. \A i \in (a + 1)..b : x[i] \in T
  BY <1>1, <1>2, ElementOfSeq
<1>4. PICK m \in Int : m = a + 1
  OBVIOUS
<1>5. b \in Int
  OBVIOUS
<1>6. /\ SubSeq(x, m, b) \in Seq(T)
      /\ Len(SubSeq(x, m, b)) = IF m <= b THEN b - m + 1 ELSE 0
      /\ \A i \in 1..(b - m + 1) : SubSeq(x, m, b)[i] = x[m + i - 1]
  BY <1>3, <1>4, <1>5, SubSeqProperties
<1>7. b - m + 1 = c /\ (m <= b \/ c = 0) /\ (\A i \in 1..c : m + i - 1 = a + i)
  BY <1>4
<1>8. Len(SubSeq(x, m, b)) = c
  BY <1>4, <1>6, <1>7
<1>. QED BY <1>4, <1>6, <1>7, <1>8

(* Between a and b, the data and what they are meant to be agree. *)
PartAs(v, data, a, b, c) ==
  /\ SubSeq(data, a + 1, b) \in Seq(Datum) /\ Len(SubSeq(data, a + 1, b)) = c
  /\ SubSeq(As(v, data), a + 1, b) = As(v, SubSeq(data, a + 1, b))

(* A part of the data of a command is data. *)
LEMMA AsPart ==
  ASSUME NEW v \in {0, 1}, NEW data \in Seq(Datum), NEW a \in Nat, NEW c \in Nat, NEW b, b = a + c, b <= Len(data)
  PROVE  PartAs(v, data, a, b, c)
<1>1. PICK n \in Nat : n = Len(data)
  BY LenProperties
<1>2. PICK x \in Seq(Meant) : x = As(v, data) /\ Len(x) = n
  BY <1>1, AsIs
<1>6. PICK d \in Seq(Datum) : d = SubSeq(data, a + 1, b) /\ Len(d) = c /\ \A i \in 1..c : d[i] = data[a + i]
  <2>1. /\ SubSeq(data, a + 1, b) \in Seq(Datum) /\ Len(SubSeq(data, a + 1, b)) = c
        /\ \A i \in 1..c : SubSeq(data, a + 1, b)[i] = data[a + i]
    BY PartIs
  <2>. QED BY <2>1
<1>7. PICK y \in Seq(Meant) : y = SubSeq(x, a + 1, b) /\ Len(y) = c /\ \A i \in 1..c : y[i] = x[a + i]
  <2>1. /\ SubSeq(x, a + 1, b) \in Seq(Meant) /\ Len(SubSeq(x, a + 1, b)) = c
        /\ \A i \in 1..c : SubSeq(x, a + 1, b)[i] = x[a + i]
    BY <1>1, <1>2, PartIs
  <2>. QED BY <2>1
<1>8. \A i \in 1..n : x[i] = [dc |-> v, byte |-> data[i]]
  BY <1>1, <1>2 DEF As
<1>9. PICK z \in Seq(Meant) : z = As(v, d) /\ Len(z) = c /\ \A i \in 1..c : z[i] = [dc |-> v, byte |-> d[i]]
  <2>1. As(v, d) \in Seq(Meant) /\ Len(As(v, d)) = c
    BY <1>6, AsIs
  <2>2. \A i \in 1..c : As(v, d)[i] = [dc |-> v, byte |-> d[i]]
    BY <1>6 DEF As
  <2>. QED BY <2>1, <2>2
<1>10. \A i \in 1..c : y[i] = z[i]
  <2>. TAKE i \in 1..c
  <2>1. PICK k \in 1..n : k = a + i
    <3>1. a + i \in 1..n
      BY <1>1
    <3>. QED BY <3>1
  <2>2. y[i] = x[k] /\ d[i] = data[k]
    BY <1>6, <1>7, <2>1
  <2>3. x[k] = [dc |-> v, byte |-> data[k]] /\ z[i] = [dc |-> v, byte |-> d[i]]
    BY <1>8, <1>9
  <2>. QED BY <2>2, <2>3
<1>11. y = z
  BY <1>7, <1>9, <1>10, SeqEqual
<1>. QED BY <1>2, <1>6, <1>7, <1>9, <1>11 DEF PartAs

(* The chunks of a plane *)
LEMMA ChunksMove ==
  ASSUME NEW data \in Seq(Datum), Len(data) = EpdPartRamSize
  PROVE  Moves(FALSE, Level(1, 0),
               FlattenSeq([i \in 1..(EpdPartRamSize \div ChunkSize) |->
                 Put(1, SubSeq(data, (i - 1) * ChunkSize + 1, i * ChunkSize)) \o <<Wait>>]),
               As(1, data), Level(1, 0))
<1>1. PICK n \in Nat, c \in Nat : n = EpdPartRamSize \div ChunkSize /\ c = ChunkSize /\ n * c = EpdPartRamSize
  BY ChunkCount
<1>2. PICK x \in Seq(Meant) : x = As(1, data) /\ Len(x) = n * c
  BY <1>1, AsIs
<1>3. PICK lo, hi : /\ lo = [i \in 1..n |-> (i - 1) * c] /\ hi = [i \in 1..n |-> i * c]
  OBVIOUS
<1>4. \A i \in 1..n : lo[i] = (i - 1) * c /\ hi[i] = i * c /\ lo[i] \in Nat /\ hi[i] = lo[i] + c /\ hi[i] <= Len(data)
  BY <1>1, <1>3, ChunkBounds
<1>5. \A i \in 1..n :
        /\ SubSeq(data, lo[i] + 1, hi[i]) \in Seq(Datum) /\ Len(SubSeq(data, lo[i] + 1, hi[i])) = c
        /\ SubSeq(x, lo[i] + 1, hi[i]) = As(1, SubSeq(data, lo[i] + 1, hi[i]))
  <2>. TAKE i \in 1..n
  <2>1. PICK a \in Nat, b \in Nat : a = lo[i] /\ b = hi[i] /\ b = a + c /\ b <= Len(data)
    BY <1>4
  <2>2. /\ SubSeq(data, a + 1, b) \in Seq(Datum) /\ Len(SubSeq(data, a + 1, b)) = c
        /\ SubSeq(As(1, data), a + 1, b) = As(1, SubSeq(data, a + 1, b))
    <3>1. PICK v \in {0, 1} : v = 1
      OBVIOUS
    <3>2. b = a + c /\ b <= Len(data)
      BY <2>1
    <3>3. PartAs(v, data, a, b, c)
      BY <3>2, AsPart
    <3>. QED BY <3>1, <3>3 DEF PartAs
  <2>. QED BY <1>2, <2>1, <2>2
<1>6. \A i \in 1..n : Moves(FALSE, Level(1, 0), Put(1, SubSeq(data, lo[i] + 1, hi[i])) \o <<Wait>>,
                           SubSeq(x, lo[i] + 1, hi[i]), Level(1, 0))
  <2>. TAKE i \in 1..n
  <2>1. PICK d \in Seq(Datum) : d = SubSeq(data, lo[i] + 1, hi[i]) /\ Len(d) = c
    BY <1>5
  <2>2. Moves(FALSE, Level(1, 0), Put(1, d), As(1, d), Level(1, c))
    BY <1>1, <2>1, FifoBoundIs, PutMoves
  <2>3. Moves(FALSE, Level(1, c), <<Wait>>, <<>>, Level(1, 0))
    BY SspMoves
  <2>4. As(1, d) \in Seq(Meant)
    BY AsIs
  <2>5. Moves(FALSE, Level(1, 0), Put(1, d) \o <<Wait>>, As(1, d), Level(1, 0))
    BY <2>2, <2>3, <2>4, MovesMute
  <2>. QED BY <1>5, <2>1, <2>5
<1>7. PICK a : a \in Level(1, 0) /\ Level(1, 0) \subseteq Lines
  <2>1. [dc |-> 1, cs |-> 0, n |-> 0] \in Level(1, 0)
    BY DEF Level, Lines
  <2>2. Level(1, 0) \subseteq Lines
    BY DEF Level
  <2>. QED BY <2>1, <2>2
<1>8. PICK ps \in Seq(Seq(Steps)) :
        /\ Len(ps) = n
        /\ ps = [i \in 1..n |-> Put(1, SubSeq(data, lo[i] + 1, hi[i])) \o <<Wait>>]
  <2>. DEFINE q == [i \in 1..n |-> Put(1, SubSeq(data, lo[i] + 1, hi[i])) \o <<Wait>>]
  <2>1. q \in [1..n -> Seq(Steps)]
    BY <1>6, <1>7, MovesTyped
  <2>. HIDE DEF q
  <2>2. q \in Seq(Seq(Steps)) /\ Len(q) = n
    <3>1. q \in Seq(Seq(Steps))
      BY <2>1, SeqDef
    <3>. QED BY <2>1, <3>1, LenProperties
  <2>. QED BY <2>2 DEF q
<1>9. PICK xs \in Seq(Seq(Meant)) :
        xs = [i \in 1..n |-> SubSeq(x, lo[i] + 1, hi[i])] /\ FlattenSeq(xs) = x
  <2>1. [i \in 1..n |-> SubSeq(x, lo[i] + 1, hi[i])] = ChunksOf(x, n, c)
    BY <1>4 DEF ChunksOf
  <2>2. ChunksOf(x, n, c) \in Seq(Seq(Meant)) /\ FlattenSeq(ChunksOf(x, n, c)) = x
    BY <1>2, Chunks
  <2>. QED BY <2>1, <2>2
<1>10. Len(xs) = n
  BY <1>9
<1>11. PICK A : A = [i \in 0..n |-> Level(1, 0)]
  OBVIOUS
<1>12. A[0] = Level(1, 0) /\ A[n] = Level(1, 0) /\ A[0] \subseteq Lines
  BY <1>7, <1>11
<1>13. \A i \in 1..n : Moves(FALSE, A[i - 1], ps[i], xs[i], A[i])
  <2>. TAKE i \in 1..n
  <2>1. i - 1 \in 0..n /\ i \in 0..n
    OBVIOUS
  <2>. QED BY <1>6, <1>8, <1>9, <1>11, <2>1
<1>14. Moves(FALSE, A[0], FlattenSeq(ps), FlattenSeq(xs), A[n])
  BY <1>8, <1>10, <1>12, <1>13, MovesAll
<1>15. ps = [i \in 1..(EpdPartRamSize \div ChunkSize) |->
                 Put(1, SubSeq(data, (i - 1) * ChunkSize + 1, i * ChunkSize)) \o <<Wait>>]
  BY <1>1, <1>4, <1>8
<1>. QED BY <1>2, <1>9, <1>12, <1>14, <1>15

(* epd_flush() with the SSP: a plane *)
LEMMA SspPlaneMoves ==
  ASSUME NEW t, Sized(t)
  PROVE  Moves(FALSE, Idle, SspPlane(t), Says(t), Idle)
<1>0. t \in Order /\ Len(t.data) = EpdPartRamSize
  BY DEF Sized
<1>1. PICK w \in Seq(Meant), d \in Seq(Meant) : w = As(0, <<t.cmd>>) /\ d = As(1, t.data)
  <2>1. As(0, <<t.cmd>>) \in Seq(Meant) /\ As(1, t.data) \in Seq(Meant)
    BY <1>0, SaysIs
  <2>. QED BY <2>1
<1>2. t.data \in Seq(Datum) /\ <<t.cmd>> \in Seq(Datum) /\ Len(<<t.cmd>>) = 1
  BY <1>0, SaysIs
<1>3. PICK p : p = Put(0, <<t.cmd>>)
  OBVIOUS
<1>4. Moves(FALSE, Level(0, 0), p, w, Level(0, 1))
  <2>1. Len(<<t.cmd>>) <= FifoBound
    BY <1>2, FifoBoundIs
  <2>. QED BY <1>1, <1>2, <1>3, <2>1, PutMoves
<1>5. PICK q1 : q1 = <<Dc(0)>> \o p
  OBVIOUS
<1>6. Moves(FALSE, Idle, q1, w, Level(0, 1))
  <2>1. Moves(FALSE, Idle, <<Dc(0)>> \o p, <<>> \o w, Level(0, 1))
    BY <1>4, DcMoves, MovesBoth
  <2>. QED BY <1>5, <2>1, WithNone
<1>7. PICK e : e = <<>> /\ e \o e = e
  BY Pair
<1>8. PICK m : m = <<Enable, Wait, Dc(1)>>
  OBVIOUS
<1>9. Moves(FALSE, Level(0, 1), m, e, Level(1, 0))
  <2>1. PICK a, b, c : a = <<Enable>> /\ b = <<Wait>> /\ c = <<Dc(1)>>
    OBVIOUS
  <2>2. Moves(FALSE, Level(0, 1), a, e, Level(0, 1)) /\ Moves(FALSE, Level(0, 1), b, e, Level(0, 0))
    BY <1>7, <2>1, SspMoves
  <2>3. Moves(FALSE, Level(0, 0), c, e, Level(1, 0))
    <3>1. Level(0, 0) \subseteq Idle
      BY DEF Level, Idle
    <3>2. Moves(FALSE, Idle, c, e, Level(1, 0))
      BY <1>7, <2>1, DcMoves
    <3>. QED BY <3>1, <3>2, MovesMore
  <2>4. Moves(FALSE, Level(0, 1), a \o b, e, Level(0, 0))
    BY <1>7, <2>2, MovesBoth
  <2>5. Moves(FALSE, Level(0, 1), (a \o b) \o c, e, Level(1, 0))
    BY <1>7, <2>3, <2>4, MovesBoth
  <2>6. (a \o b) \o c = m
    <3>1. a \o b = <<Enable, Wait>>
      BY <2>1, Pair
    <3>. QED BY <1>8, <2>1, <3>1, Triple
  <2>. QED BY <2>5, <2>6
<1>10. PICK q2 : q2 = q1 \o m
  OBVIOUS
<1>11. Moves(FALSE, Idle, q2, w, Level(1, 0))
  BY <1>6, <1>7, <1>9, <1>10, MovesMute
<1>12. PICK ch : ch = FlattenSeq([i \in 1..(EpdPartRamSize \div ChunkSize) |->
                        Put(1, SubSeq(t.data, (i - 1) * ChunkSize + 1, i * ChunkSize)) \o <<Wait>>])
  OBVIOUS
<1>13. Moves(FALSE, Level(1, 0), ch, d, Level(1, 0))
  BY <1>0, <1>1, <1>2, <1>12, ChunksMove
<1>14. PICK q3 : q3 = q2 \o ch
  OBVIOUS
<1>15. PICK y \in Seq(Meant) : y = w \o d
  <2>1. w \o d \in Seq(Meant)
    BY ConcatProperties
  <2>. QED BY <2>1
<1>16. Moves(FALSE, Idle, q3, y, Level(1, 0))
  BY <1>11, <1>13, <1>14, <1>15, MovesBoth
<1>17. Moves(FALSE, Idle, q3 \o <<Disable>>, y, Level(1, 0))
  <2>1. Moves(FALSE, Level(1, 0), <<Disable>>, <<>>, Level(1, 0))
    BY SspMoves
  <2>. QED BY <1>16, <2>1, MovesMute
<1>18. SspPlane(t) = q3 \o <<Disable>>
  BY <1>3, <1>5, <1>8, <1>10, <1>12, <1>14 DEF SspPlane
<1>19. Idle \subseteq Idle /\ Level(1, 0) \subseteq Idle
  BY DEF Level, Idle
<1>. QED BY <1>1, <1>15, <1>17, <1>18, <1>19, MovesMore DEF Says

(* Commands whose data fit into the FIFO *)
Short(ts) == ts \in Seq(Order) /\ \A i \in 1..Len(ts) : Len(ts[i].data) <= FifoBound

(* epd_write_cmd(), command by command *)
LEMMA CommandsMove ==
  ASSUME soft \in BOOLEAN, NEW ts, Short(ts)
  PROVE  Moves(soft, Idle, Commands(ts), B!AllSent(ts), Idle)
<1>1. PICK n \in Nat : n = Len(ts)
  BY LenProperties DEF Short
<1>2. \A i \in 1..n : ts[i] \in Order /\ Len(ts[i].data) <= FifoBound
  BY <1>1, ElementOfSeq DEF Short
<1>3. PICK C : C = [i \in 1..n |-> IF soft THEN SoftCmd(ts[i]) ELSE SspCmd(ts[i])]
  OBVIOUS
<1>4. \A i \in 1..n : Moves(soft, Idle, C[i], Says(ts[i]), Idle)
  BY <1>2, <1>3, SoftCmdMoves, SspCmdMoves
<1>5. PICK a : a \in Idle /\ Idle \subseteq Lines
  <2>1. [dc |-> 1, cs |-> 0, n |-> 0] \in Idle /\ Idle \subseteq Lines
    BY DEF Idle, Lines
  <2>. QED BY <2>1
<1>6. C \in Seq(Seq(Steps)) /\ Len(C) = n
  <2>1. DOMAIN C = 1..n /\ C = [i \in 1..n |-> C[i]]
    BY <1>3
  <2>2. \A i \in 1..n : C[i] \in Seq(Steps)
    BY <1>4, <1>5, MovesTyped
  <2>3. C \in [1..n -> Seq(Steps)]
    BY <2>1, <2>2
  <2>4. C \in Seq(Seq(Steps))
    BY <2>3, SeqDef
  <2>. QED BY <2>3, <2>4, LenProperties
<1>7. PICK xs \in Seq(Seq(Meant)) : Len(xs) = n /\ xs = [i \in 1..n |-> Says(ts[i])]
  <2>. DEFINE x == [i \in 1..n |-> Says(ts[i])]
  <2>1. x \in [1..n -> Seq(Meant)]
    BY <1>2, SaysIs
  <2>. HIDE DEF x
  <2>2. x \in Seq(Seq(Meant))
    BY <2>1, SeqDef
  <2>3. Len(x) = n
    BY <2>1, <2>2, LenProperties
  <2>. QED BY <2>2, <2>3 DEF x
<1>8. PICK A : A = [i \in 0..n |-> Idle]
  OBVIOUS
<1>9. A[0] = Idle /\ A[n] = Idle /\ A[0] \subseteq Lines
  BY <1>5, <1>8
<1>10. \A i \in 1..n : Moves(soft, A[i - 1], C[i], xs[i], A[i])
  <2>. TAKE i \in 1..n
  <2>1. i - 1 \in 0..n /\ i \in 0..n
    OBVIOUS
  <2>. QED BY <1>4, <1>7, <1>8, <2>1
<1>11. Moves(soft, A[0], FlattenSeq(C), FlattenSeq(xs), A[n])
  BY <1>6, <1>7, <1>9, <1>10, MovesAll
<1>12. FlattenSeq(C) = Commands(ts)
  BY <1>1, <1>3 DEF Commands
<1>13. FlattenSeq(xs) = B!AllSent(ts)
  <2>1. xs = [i \in 1..Len(ts) |-> B!Sent(ts[i])]
    BY <1>1, <1>2, <1>7, SaysIs
  <2>. QED BY <2>1, FlattenSame DEF B!AllSent
<1>. QED BY <1>9, <1>11, <1>12, <1>13

(* The bus sends the commands of Panel, ... *)
LEMMA SameCalls ==
  /\ B!OpenCmds = OpenCmds /\ B!SleepCmds = SleepCmds
  /\ \A f : B!FlushCmds(f) = FlushCmds(f)
  /\ \A f, mask : B!DisplayRam(f, mask) = DisplayRam(f, mask)
  /\ B!EpdPartRamSize = EpdPartRamSize /\ B!EpdRamSize = EpdRamSize
  /\ B!ZeroFrame = ZeroFrame
<1>. USE DEF EpdPartRamSize, EpdRamSize, B!EpdPartRamSize, B!EpdRamSize
<1>1. \A f, mask : B!DisplayRam(f, mask) = DisplayRam(f, mask)
  BY DEF DisplayRam, BitScale, MaskedBit, Pixel, COLOR_MASK_BW,
         B!DisplayRam, B!BitScale, B!MaskedBit, B!Pixel, B!COLOR_MASK_BW
<1>2. \A c, d : B!Cmd(c, d) = Cmd(c, d) /\ B!Plane(c, d) = Plane(c, d)
  BY DEF Cmd, Plane, B!Cmd, B!Plane
<1>3. B!OpenCmds = OpenCmds
  BY <1>2 DEF OpenCmds, B!OpenCmds,
    SW_RESET, DRIVER_OUTPUT_CTRL, DATA_ENTRY_MODE, SET_RAM_X_ADDR, SET_RAM_Y_ADDR,
    BORDER_WAVEFORM_CTRL, TEMP_SENSOR_CTRL, DISP_UPDATE_CTRL, SET_RAM_X_COUNTER, SET_RAM_Y_COUNTER,
    B!SW_RESET, B!DRIVER_OUTPUT_CTRL, B!DATA_ENTRY_MODE, B!SET_RAM_X_ADDR, B!SET_RAM_Y_ADDR,
    B!BORDER_WAVEFORM_CTRL, B!TEMP_SENSOR_CTRL, B!DISP_UPDATE_CTRL, B!SET_RAM_X_COUNTER, B!SET_RAM_Y_COUNTER
<1>4. B!SleepCmds = SleepCmds
  BY <1>2 DEF SleepCmds, B!SleepCmds, DEEP_SLP_MODE, B!DEEP_SLP_MODE
<1>5. \A f : B!FlushCmds(f) = FlushCmds(f)
  BY <1>1, <1>2 DEF FlushCmds, B!FlushCmds, WRITE_RAM_BW, WRITE_RAM_RED, DISPLAY_UPDATE_CTRL2, MASTER_ACTIVATION,
    COLOR_MASK_BW, COLOR_MASK_RED, B!COLOR_MASK_BW, B!COLOR_MASK_RED,
    B!WRITE_RAM_BW, B!WRITE_RAM_RED, B!DISPLAY_UPDATE_CTRL2, B!MASTER_ACTIVATION
<1>6. B!ZeroFrame = ZeroFrame
  BY DEF ZeroFrame, B!ZeroFrame
<1>. QED BY <1>1, <1>3, <1>4, <1>5, <1>6

(* ... to the same panel, ... *)
LEMMA SamePanel ==
  /\ B!PoweredOff = PoweredOff
  /\ \A p : B!HardwareReset(p) = HardwareReset(p) /\ B!Unpowered(p) = Unpowered(p)
  /\ \A p, v, b : B!PanelTakes(p, v, b) = PanelTakes(p, v, b)
<1>0. B!Registers = Registers /\ B!NoRam = NoRam /\ B!Lost = Lost
  BY DEF Registers, NoRam, Cell, Lost, B!Registers, B!NoRam, B!Cell, B!Lost
<1>1. B!PoweredOff = PoweredOff
  BY <1>0 DEF PoweredOff, B!PoweredOff
<1>2. \A p : B!HardwareReset(p) = HardwareReset(p) /\ B!Unpowered(p) = Unpowered(p)
  BY <1>0, <1>1 DEF HardwareReset, B!HardwareReset, Unpowered, B!Unpowered
<1>3. \A r : B!Stepped(r) = Stepped(r)
  BY DEF Stepped, B!Stepped
<1>4. \A r, b : B!High(r, b) = High(r, b)
  BY DEF High, B!High
<1>5. \A p, b : B!TakesCommand(p, b) = TakesCommand(p, b)
  BY <1>0 DEF TakesCommand, B!TakesCommand, SW_RESET, MASTER_ACTIVATION, B!SW_RESET, B!MASTER_ACTIVATION
<1>6. \A p, b : B!TakesData(p, b) = TakesData(p, b)
  BY DEF TakesData, B!TakesData, Stepped, B!Stepped, High, B!High, NoRam, B!NoRam, Cell, B!Cell, Lost, B!Lost,
    WRITE_RAM_BW, WRITE_RAM_RED, SET_RAM_X_ADDR, SET_RAM_Y_ADDR, SET_RAM_X_COUNTER, SET_RAM_Y_COUNTER, DEEP_SLP_MODE,
    B!WRITE_RAM_BW, B!WRITE_RAM_RED, B!SET_RAM_X_ADDR, B!SET_RAM_Y_ADDR, B!SET_RAM_X_COUNTER, B!SET_RAM_Y_COUNTER, B!DEEP_SLP_MODE
<1>7. \A p, v, b : B!PanelTakes(p, v, b) = PanelTakes(p, v, b)
  BY <1>5, <1>6 DEF PanelTakes, B!PanelTakes
<1>. QED BY <1>1, <1>2, <1>7

(* ... on which pictures are the same. *)
LEMMA SameShows == \A s, f : B!Shows(s, f) = Shows(s, f)
<1>1. \A f, p : B!Pixel(f, p) = Pixel(f, p)
  BY DEF Pixel, B!Pixel
<1>2. \A s, p : B!ShownColor(s, p) = ShownColor(s, p)
  BY DEF ShownColor, B!ShownColor
<1>3. \A x : B!Color(x) = Color(x)
  BY DEF Color, B!Color
<1>. QED BY <1>1, <1>2, <1>3 DEF Shows, B!Shows, EpdPartRamSize, EpdRamSize, B!EpdPartRamSize, B!EpdRamSize

(* epd_open() and epd_sleep() *)
LEMMA OpenIsShort == Short(OpenCmds) /\ OpenCmds \in Seq(Order)
<1>1. /\ Height - 1 \in 0..255 /\ RamWidth - 1 \in 0..255
  BY SizeAssumption
<1>2. PICK h \in Datum, w \in Datum : h = Height - 1 /\ w = RamWidth - 1
  BY <1>1 DEF Datum
<1>3. \A b \in Datum, d \in Seq(Datum) : Cmd(b, d) \in Order /\ Cmd(b, d).data = d
  BY DEF Cmd, Order
<1>4. \A a \in 0..255 : a \in Datum
  BY DEF Datum
<1>5. /\ <<>> \in Seq(Datum) /\ <<h, 0, 0>> \in Seq(Datum) /\ <<3>> \in Seq(Datum) /\ <<0, w>> \in Seq(Datum)
      /\ <<0, 0, h, 120>> \in Seq(Datum) /\ <<5>> \in Seq(Datum) /\ <<128>> \in Seq(Datum)
      /\ <<0, 128>> \in Seq(Datum) /\ <<0>> \in Seq(Datum) /\ <<0, 0>> \in Seq(Datum)
  BY DEF Datum
<1>6. PICK c1 \in Order, c2 \in Order, c3 \in Order, c4 \in Order, c5 \in Order,
           c6 \in Order, c7 \in Order, c8 \in Order, c9 \in Order, c10 \in Order :
        /\ c1 = Cmd(18, <<>>) /\ c2 = Cmd(1, <<h, 0, 0>>) /\ c3 = Cmd(17, <<3>>) /\ c4 = Cmd(68, <<0, w>>)
        /\ c5 = Cmd(69, <<0, 0, h, 120>>) /\ c6 = Cmd(60, <<5>>) /\ c7 = Cmd(24, <<128>>)
        /\ c8 = Cmd(33, <<0, 128>>) /\ c9 = Cmd(78, <<0>>) /\ c10 = Cmd(79, <<0, 0>>)
  <2>1. 18 \in Datum /\ 1 \in Datum /\ 17 \in Datum /\ 68 \in Datum /\ 69 \in Datum /\ 60 \in Datum
        /\ 24 \in Datum /\ 33 \in Datum /\ 78 \in Datum /\ 79 \in Datum
    BY DEF Datum
  <2>2. /\ Cmd(18, <<>>) \in Order /\ Cmd(1, <<h, 0, 0>>) \in Order /\ Cmd(17, <<3>>) \in Order
        /\ Cmd(68, <<0, w>>) \in Order /\ Cmd(69, <<0, 0, h, 120>>) \in Order /\ Cmd(60, <<5>>) \in Order
        /\ Cmd(24, <<128>>) \in Order /\ Cmd(33, <<0, 128>>) \in Order /\ Cmd(78, <<0>>) \in Order
        /\ Cmd(79, <<0, 0>>) \in Order
    <3>. DEFINE P(b, d) == Cmd(b, d) \in Order
    <3>1. \A b \in Datum : \A d \in Seq(Datum) : P(b, d)
      BY <1>3
    <3>. HIDE DEF P
    <3>2. /\ P(18, <<>>) /\ P(1, <<h, 0, 0>>) /\ P(17, <<3>>) /\ P(68, <<0, w>>)
          /\ P(69, <<0, 0, h, 120>>)
      BY <1>5, <2>1, <3>1, Zenon
    <3>3. /\ P(60, <<5>>) /\ P(24, <<128>>) /\ P(33, <<0, 128>>) /\ P(78, <<0>>) /\ P(79, <<0, 0>>)
      BY <1>5, <2>1, <3>1, Zenon
    <3>. QED BY <3>2, <3>3 DEF P
  <2>. QED BY <2>2
<1>7. OpenCmds = <<c1, c2, c3, c4, c5, c6, c7, c8, c9, c10>>
  BY <1>2, <1>6 DEF OpenCmds, SW_RESET, DRIVER_OUTPUT_CTRL, DATA_ENTRY_MODE, SET_RAM_X_ADDR, SET_RAM_Y_ADDR,
           BORDER_WAVEFORM_CTRL, TEMP_SENSOR_CTRL, DISP_UPDATE_CTRL, SET_RAM_X_COUNTER, SET_RAM_Y_COUNTER
<1>8. <<c1, c2, c3, c4, c5, c6, c7, c8, c9, c10>> \in Seq(Order)
  OBVIOUS
<1>9. /\ Len(c1.data) = 0 /\ Len(c2.data) = 3 /\ Len(c3.data) = 1 /\ Len(c4.data) = 2 /\ Len(c5.data) = 4
      /\ Len(c6.data) = 1 /\ Len(c7.data) = 1 /\ Len(c8.data) = 2 /\ Len(c9.data) = 1 /\ Len(c10.data) = 2
  BY <1>6 DEF Cmd
<1>10. PICK ts \in Seq(Order) : ts = <<c1, c2, c3, c4, c5, c6, c7, c8, c9, c10>> /\ Len(ts) = 10
  BY <1>8
<1>11. \A i \in 1..10 : Len(ts[i].data) <= 4
  <2>1. \A i \in 1..10 : i = 1 \/ i = 2 \/ i = 3 \/ i = 4 \/ i = 5 \/ i = 6 \/ i = 7 \/ i = 8 \/ i = 9 \/ i = 10
    OBVIOUS
  <2>2. /\ ts[1] = c1 /\ ts[2] = c2 /\ ts[3] = c3 /\ ts[4] = c4 /\ ts[5] = c5
        /\ ts[6] = c6 /\ ts[7] = c7 /\ ts[8] = c8 /\ ts[9] = c9 /\ ts[10] = c10
    BY <1>10
  <2>3. 0 <= 4 /\ 1 <= 4 /\ 2 <= 4 /\ 3 <= 4 /\ 4 <= 4
    OBVIOUS
  <2>. QED BY ONLY <1>9, <2>1, <2>2, <2>3
<1>12. \A i \in 1..10 : Len(ts[i].data) <= FifoBound
  <2>1. \A i \in 1..10 : Len(ts[i].data) \in Nat
    <3>1. \A i \in 1..10 : ts[i] \in Order
      BY <1>10, ElementOfSeq
    <3>2. \A t \in Order : t.data \in Seq(Datum)
      BY DEF Order
    <3>. QED BY <3>1, <3>2, LenProperties
  <2>2. PICK n \in Nat : n = FifoBound /\ 4 <= n
    BY FifoBoundIs
  <2>3. \A k \in Nat : k <= 4 => k <= n
    BY <2>2
  <2>. QED BY <1>11, <2>1, <2>2, <2>3
<1>. QED BY <1>7, <1>10, <1>12 DEF Short

LEMMA SleepIsShort == Short(SleepCmds) /\ SleepCmds \in Seq(Order)
<1>1. 16 \in Datum /\ <<3>> \in Seq(Datum) /\ Len(<<3>>) = 1
  BY DEF Datum
<1>2. PICK c \in Order : c = Cmd(16, <<3>>) /\ Len(c.data) = 1
  <2>1. Cmd(16, <<3>>) \in Order /\ Len(Cmd(16, <<3>>).data) = 1
    BY <1>1 DEF Cmd, Order
  <2>. QED BY <2>1
<1>3. SleepCmds = <<c>>
  BY <1>2 DEF SleepCmds, DEEP_SLP_MODE
<1>4. <<c>> \in Seq(Order) /\ Len(<<c>>) = 1 /\ <<c>>[1] = c
  OBVIOUS
<1>5. \A i \in 1..1 : Len(<<c>>[i].data) <= FifoBound
  <2>1. 1 <= FifoBound
    BY FifoBoundIs
  <2>2. \A i \in 1..1 : <<c>>[i] = c
    OBVIOUS
  <2>. QED BY <1>2, <2>1, <2>2
<1>. QED BY <1>3, <1>4, <1>5 DEF Short

(* One call after the other *)
LEMMA ShortBoth ==
  ASSUME NEW ts, NEW us, Short(ts), Short(us)
  PROVE  Short(ts \o us)
<1>1. ts \in Seq(Order) /\ us \in Seq(Order)
  BY DEF Short
<1>2. PICK m \in Nat, n \in Nat : m = Len(ts) /\ n = Len(us)
  BY <1>1, LenProperties
<1>3. PICK vs \in Seq(Order) :
        /\ vs = ts \o us /\ Len(vs) = m + n
        /\ \A i \in 1..(m + n) : vs[i] = IF i <= m THEN ts[i] ELSE us[i - m]
  <2>1. /\ ts \o us \in Seq(Order) /\ Len(ts \o us) = Len(ts) + Len(us)
        /\ \A i \in 1..Len(ts) + Len(us) : (ts \o us)[i] = IF i <= Len(ts) THEN ts[i] ELSE us[i - Len(ts)]
    BY <1>1, ConcatProperties
  <2>. QED BY <1>2, <2>1
<1>4. /\ \A i \in 1..m : Len(ts[i].data) <= FifoBound
      /\ \A i \in 1..n : Len(us[i].data) <= FifoBound
  BY <1>2 DEF Short
<1>5. \A i \in 1..(m + n) : Len(vs[i].data) <= FifoBound
  <2>. TAKE i \in 1..(m + n)
  <2>1. IF i <= m THEN i \in 1..m ELSE i - m \in 1..n
    OBVIOUS
  <2>. QED BY <1>3, <1>4, <2>1
<1>. QED BY <1>3, <1>5 DEF Short

(* Commands of bytes are those of the bus. *)
LEMMA OrdersAreCommands ==
  ASSUME NEW ts \in Seq(Order)
  PROVE  ts \in Seq(B!Command)
<1>1. Seq(Datum) \subseteq Seq(Int)
  <2>1. Datum \subseteq Int
    BY DEF Datum
  <2>. QED BY <2>1, SeqMonotonic
<1>2. Order \subseteq B!Command
  <2>. SUFFICES ASSUME NEW t \in Order PROVE t \in B!Command
    OBVIOUS
  <2>1. t.cmd \in Int /\ t.data \in Seq(Int) /\ t.plane \in BOOLEAN
    <3>1. t.cmd \in Datum /\ t.data \in Seq(Datum) /\ t.plane \in BOOLEAN
      BY DEF Order
    <3>2. t.cmd \in Int
      <4>1. \A b \in Datum : b \in Int
        BY DEF Datum
      <4>. QED BY <3>1, <4>1, Zenon
    <3>. QED BY <1>1, <3>1, <3>2
  <2>2. t = [cmd |-> t.cmd, data |-> t.data, plane |-> t.plane]
    BY DEF Order
  <2>. QED BY <2>1, <2>2 DEF B!Command
<1>. QED BY <1>2, SeqMonotonic

(* What is sent by two calls, one after the other *)
LEMMA SentBoth ==
  ASSUME NEW ts \in Seq(Order), NEW us \in Seq(Order)
  PROVE  B!AllSent(ts \o us) = B!AllSent(ts) \o B!AllSent(us)
BY OrdersAreCommands, B!AllSentConcat, BusSizes

LEMMA SentOne ==
  ASSUME NEW t \in Order
  PROVE  B!AllSent(<<t>>) = Says(t)
<1>1. <<t>> \in Seq(Order)
  OBVIOUS
<1>2. <<t>> \in Seq(B!Command)
  BY <1>1, OrdersAreCommands
<1>3. t \in B!Command
  <2>1. Len(<<t>>) = 1 /\ <<t>>[1] = t /\ 1 \in 1..1
    OBVIOUS
  <2>. QED BY <1>2, <2>1, ElementOfSeq
<1>. QED BY <1>3, B!AllSentOne, BusSizes, SaysIs

(* epd_flush(): the planes of a picture, then the refresh *)
Picture == [0..(EpdRamSize - 1) -> Byte]

LEMMA PlaneIs ==
  ASSUME NEW f \in Picture, NEW mask \in {1, 2}, NEW c \in Datum
  PROVE  Sized(Plane(c, DisplayRam(f, mask)))
<1>1. f \in B!Picture
  BY SameCalls DEF Picture, Byte, B!Picture, B!Byte
<1>2. B!DisplayRam(f, mask) \in Seq(B!Byte) /\ Len(B!DisplayRam(f, mask)) = B!EpdPartRamSize
  BY <1>1, B!DisplayRamIs, BusSizes
<1>3. DisplayRam(f, mask) \in Seq(Datum) /\ Len(DisplayRam(f, mask)) = EpdPartRamSize
  BY <1>2, SameCalls DEF B!Byte, Datum
<1>4. PICK d \in Seq(Datum) : d = DisplayRam(f, mask) /\ Len(d) = EpdPartRamSize
  BY <1>3
<1>. QED BY <1>4 DEF Sized, Plane, Order

LEMMA FlushMoves ==
  ASSUME soft \in BOOLEAN, NEW f \in Picture
  PROVE  /\ FlushCmds(f) \in Seq(Order)
         /\ Moves(soft, Idle, Flush(f), B!AllSent(FlushCmds(f)), Idle)
<1>1. PICK bw, red : /\ bw = Plane(36, DisplayRam(f, 1)) /\ red = Plane(38, DisplayRam(f, 2))
                     /\ Sized(bw) /\ Sized(red) /\ bw \in Order /\ red \in Order
  <2>1. 36 \in Datum /\ 38 \in Datum /\ 1 \in {1, 2} /\ 2 \in {1, 2}
    BY DEF Datum
  <2>2. Sized(Plane(36, DisplayRam(f, 1))) /\ Sized(Plane(38, DisplayRam(f, 2)))
    BY <2>1, PlaneIs
  <2>. QED BY <2>2 DEF Sized
<1>2. PICK c \in Order, d \in Order : c = Cmd(34, <<247>>) /\ d = Cmd(32, <<>>)
                                      /\ Len(c.data) = 1 /\ Len(d.data) = 0
  <2>1. 34 \in Datum /\ 32 \in Datum /\ <<247>> \in Seq(Datum) /\ <<>> \in Seq(Datum)
        /\ Len(<<247>>) = 1 /\ Len(<<>>) = 0
    BY DEF Datum
  <2>2. Cmd(34, <<247>>) \in Order /\ Cmd(32, <<>>) \in Order
    BY <2>1 DEF Cmd, Order
  <2>. QED BY <2>1, <2>2 DEF Cmd
<1>3. PICK ts : ts = FlushCmds(f)
  OBVIOUS
<1>4. ts = <<bw, red, c, d>>
  BY <1>1, <1>2, <1>3 DEF FlushCmds, WRITE_RAM_BW, WRITE_RAM_RED, DISPLAY_UPDATE_CTRL2, MASTER_ACTIVATION,
                          COLOR_MASK_BW, COLOR_MASK_RED
<1>5. PICK us : us = <<c, d>> /\ us \in Seq(Order) /\ Len(us) = 2 /\ us[1] = c /\ us[2] = d
  <2>1. <<c, d>> \in Seq(Order) /\ Len(<<c, d>>) = 2 /\ <<c, d>>[1] = c /\ <<c, d>>[2] = d
    OBVIOUS
  <2>. QED BY <2>1
<1>6. Short(us)
  <2>1. \A i \in 1..2 : i = 1 \/ i = 2
    OBVIOUS
  <2>2. 0 <= FifoBound /\ 1 <= FifoBound
    BY FifoBoundIs
  <2>3. Len(us[1].data) <= FifoBound /\ Len(us[2].data) <= FifoBound
    BY <1>2, <1>5, <2>2
  <2>4. \A i \in 1..2 : Len(us[i].data) <= FifoBound
    BY <2>1, <2>3
  <2>. QED BY <1>5, <2>4 DEF Short
<1>7. /\ ts[1] = bw /\ ts[2] = red /\ ts \in Seq(Order)
      /\ SubSeq(ts, 3, Len(ts)) = us /\ ts = (<<bw>> \o <<red>>) \o us
      /\ <<bw>> \in Seq(Order) /\ <<red>> \in Seq(Order)
  <2>1. PICK x \in Order, y \in Order : x = bw /\ y = red
    BY <1>1
  <2>2. PICK vs \in Seq(Order) : vs = <<x, y, c, d>>
    <3>1. <<x, y, c, d>> \in Seq(Order)
      OBVIOUS
    <3>. QED BY <3>1
  <2>3. Len(vs) = 4 /\ vs[1] = x /\ vs[2] = y /\ vs[3] = c /\ vs[4] = d
    BY <2>2
  <2>4. SubSeq(vs, 3, 4) = us
    <3>1. 3 \in 1..Len(vs) /\ 4 \in 3..Len(vs) /\ 4 \in 1..Len(vs) /\ 4 \in 4..Len(vs) /\ 4 - 1 = 3 /\ 3 \in 3..Len(vs) /\ 3 - 1 = 2
      BY <2>3
    <3>2. SubSeq(vs, 3, 4) = SubSeq(vs, 3, 3) \o <<vs[4]>>
      BY <3>1, SubSeqRecursiveSecond
    <3>3. SubSeq(vs, 3, 3) = SubSeq(vs, 3, 2) \o <<vs[3]>>
      BY <3>1, SubSeqRecursiveSecond
    <3>4. SubSeq(vs, 3, 2) = <<>>
      BY SubSeqEmpty
    <3>5. <<>> \o <<c>> = <<c>>
      OBVIOUS
    <3>6. <<c>> \o <<d>> = <<c, d>>
      BY Pair
    <3>. QED BY <1>5, <2>3, <3>2, <3>3, <3>4, <3>5, <3>6
  <2>5. vs = (<<x>> \o <<y>>) \o us
    <3>1. 1 \in 1..Len(vs) + 1 /\ 2 \in (1 - 1)..Len(vs) /\ 4 \in 2..Len(vs) /\ 2 + 1 = 3
      BY <2>3
    <3>2. SubSeq(vs, 1, 2) \o SubSeq(vs, 2 + 1, 4) = SubSeq(vs, 1, 4)
      BY <3>1, ConcatAdjacentSubSeq
    <3>3. SubSeq(vs, 1, 4) = vs
      BY <2>3, SubSeqFull
    <3>4. SubSeq(vs, 1, 2) = <<x, y>>
      <4>1. 1 \in 1..Len(vs) /\ 2 \in 1..Len(vs) /\ 2 - 1 = 1 /\ 1 \in 1..Len(vs) /\ 1 - 1 = 0
        BY <2>3
      <4>2. SubSeq(vs, 1, 2) = SubSeq(vs, 1, 1) \o <<vs[2]>>
        BY <4>1, SubSeqRecursiveSecond
      <4>3. SubSeq(vs, 1, 1) = SubSeq(vs, 1, 0) \o <<vs[1]>>
        BY <4>1, SubSeqRecursiveSecond
      <4>4. SubSeq(vs, 1, 0) = <<>>
        BY SubSeqEmpty
      <4>5. <<>> \o <<x>> = <<x>>
        OBVIOUS
      <4>6. <<x>> \o <<y>> = <<x, y>>
        BY Pair
      <4>. QED BY <2>3, <4>2, <4>3, <4>4, <4>5, <4>6
    <3>5. <<x>> \o <<y>> = <<x, y>>
      BY Pair
    <3>. QED BY <2>4, <3>1, <3>2, <3>3, <3>4, <3>5
  <2>6. <<x>> \in Seq(Order) /\ <<y>> \in Seq(Order)
    OBVIOUS
  <2>. QED BY <1>4, <2>1, <2>2, <2>3, <2>4, <2>5, <2>6
<1>8. B!AllSent(ts) = (Says(bw) \o Says(red)) \o B!AllSent(us)
  <2>1. PICK a \in Seq(Order), b \in Seq(Order), e \in Seq(Order) : a = <<bw>> /\ b = <<red>> /\ e = a \o b
    <3>1. <<bw>> \o <<red>> \in Seq(Order)
      BY <1>7, ConcatProperties
    <3>. QED BY <1>7, <3>1
  <2>2. B!AllSent(e \o us) = B!AllSent(e) \o B!AllSent(us) /\ B!AllSent(a \o b) = B!AllSent(a) \o B!AllSent(b)
    BY <1>5, SentBoth
  <2>3. B!AllSent(a) = Says(bw) /\ B!AllSent(b) = Says(red)
    BY <1>1, <2>1, SentOne
  <2>. QED BY <1>7, <2>1, <2>2, <2>3
<1>9. Moves(soft, Idle, Commands(us), B!AllSent(us), Idle)
  BY <1>6, CommandsMove
<1>10. Moves(soft, Idle, Planes(bw, red), Says(bw) \o Says(red), Idle)
  <2>1. CASE soft
    BY <1>1, <2>1, SoftPlanesMove DEF Planes
  <2>2. CASE ~soft
    <3>1. Moves(FALSE, Idle, SspPlane(bw), Says(bw), Idle) /\ Moves(FALSE, Idle, SspPlane(red), Says(red), Idle)
      BY <1>1, SspPlaneMoves
    <3>2. Moves(FALSE, Idle, SspPlane(bw) \o SspPlane(red), Says(bw) \o Says(red), Idle)
      BY <3>1, MovesBoth
    <3>. QED BY <2>2, <3>2 DEF Planes
  <2>. QED BY <2>1, <2>2
<1>11. Flush(f) = Planes(bw, red) \o Commands(us)
  BY <1>3, <1>7 DEF Flush
<1>12. Moves(soft, Idle, Planes(bw, red) \o Commands(us), (Says(bw) \o Says(red)) \o B!AllSent(us), Idle)
  BY <1>9, <1>10, MovesBoth
<1>. QED BY <1>3, <1>7, <1>8, <1>11, <1>12

(* The calls *)
LEMMA CallsMove ==
  ASSUME soft \in BOOLEAN
  PROVE  /\ Moves(soft, Idle, Commands(SleepCmds), B!AllSent(SleepCmds), Idle)
         /\ Moves(soft, Idle, Commands(OpenCmds \o SleepCmds), B!AllSent(OpenCmds \o SleepCmds), Idle)
         /\ Moves(soft, Idle, Commands(OpenCmds) \o <<>>, B!AllSent(OpenCmds \o <<>>), Idle)
         /\ \A f \in Picture : Moves(soft, Idle, Commands(OpenCmds) \o Flush(f), B!AllSent(OpenCmds \o FlushCmds(f)), Idle)
<1>1. Moves(soft, Idle, Commands(OpenCmds), B!AllSent(OpenCmds), Idle)
  BY OpenIsShort, CommandsMove
<1>2. Moves(soft, Idle, Commands(SleepCmds), B!AllSent(SleepCmds), Idle)
  BY SleepIsShort, CommandsMove
<1>3. Moves(soft, Idle, Commands(OpenCmds \o SleepCmds), B!AllSent(OpenCmds \o SleepCmds), Idle)
  BY OpenIsShort, SleepIsShort, ShortBoth, CommandsMove
<1>4. Moves(soft, Idle, Commands(OpenCmds) \o <<>>, B!AllSent(OpenCmds \o <<>>), Idle)
  <2>1. OpenCmds \o <<>> = OpenCmds
    BY OpenIsShort, WithNone
  <2>2. PICK a \in Idle : TRUE
    <3>1. [dc |-> 1, cs |-> 0, n |-> 0] \in Idle
      BY DEF Idle, Lines
    <3>. QED BY <3>1
  <2>3. Commands(OpenCmds) \in Seq(Steps)
    BY <1>1, <2>2, MovesTyped
  <2>4. Commands(OpenCmds) \o <<>> = Commands(OpenCmds)
    BY <2>3, WithNone
  <2>. QED BY <1>1, <2>1, <2>4
<1>5. ASSUME NEW f \in Picture
      PROVE  Moves(soft, Idle, Commands(OpenCmds) \o Flush(f), B!AllSent(OpenCmds \o FlushCmds(f)), Idle)
  <2>1. FlushCmds(f) \in Seq(Order) /\ Moves(soft, Idle, Flush(f), B!AllSent(FlushCmds(f)), Idle)
    BY FlushMoves
  <2>2. B!AllSent(OpenCmds \o FlushCmds(f)) = B!AllSent(OpenCmds) \o B!AllSent(FlushCmds(f))
    BY <2>1, OpenIsShort, SentBoth
  <2>3. Moves(soft, Idle, Commands(OpenCmds) \o Flush(f), B!AllSent(OpenCmds) \o B!AllSent(FlushCmds(f)), Idle)
    BY <1>1, <2>1, MovesBoth
  <2>. QED BY <2>2, <2>3
<1>. QED BY <1>2, <1>3, <1>4, <1>5

(* Bit k of a byte, the highest first.  Eight of them are the byte again. *)
Bit(v, k) == (v \div 2^(7 - k)) % 2

LEMMA BitsAre ==
  ASSUME NEW v \in Datum
  PROVE  /\ \A k \in 0..7 : Bit(v, k) \in {0, 1}
         /\ v = 128 * Bit(v, 0) + 64 * Bit(v, 1) + 32 * Bit(v, 2) + 16 * Bit(v, 3)
                + 8 * Bit(v, 4) + 4 * Bit(v, 5) + 2 * Bit(v, 6) + Bit(v, 7)
<1>1. 2^0 = 1 /\ 2^1 = 2 /\ 2^2 = 4 /\ 2^3 = 8 /\ 2^4 = 16 /\ 2^5 = 32 /\ 2^6 = 64 /\ 2^7 = 128
  BY B!Powers, BusSizes
<1>2. 7 - 0 = 7 /\ 7 - 1 = 6 /\ 7 - 2 = 5 /\ 7 - 3 = 4 /\ 7 - 4 = 3 /\ 7 - 5 = 2 /\ 7 - 6 = 1 /\ 7 - 7 = 0
  OBVIOUS
<1>3. PICK x \in 0..255 : x = v
  BY DEF Datum
<1>4. /\ Bit(v, 0) = (x \div 128) % 2 /\ Bit(v, 1) = (x \div 64) % 2 /\ Bit(v, 2) = (x \div 32) % 2
      /\ Bit(v, 3) = (x \div 16) % 2 /\ Bit(v, 4) = (x \div 8) % 2 /\ Bit(v, 5) = (x \div 4) % 2
      /\ Bit(v, 6) = (x \div 2) % 2 /\ Bit(v, 7) = (x \div 1) % 2
  BY <1>1, <1>2, <1>3 DEF Bit
<1>5. \A y \in Nat : y % 2 \in {0, 1}
  OBVIOUS
<1>6. /\ x \div 128 \in Nat /\ x \div 64 \in Nat /\ x \div 32 \in Nat /\ x \div 16 \in Nat
      /\ x \div 8 \in Nat /\ x \div 4 \in Nat /\ x \div 2 \in Nat /\ x \div 1 \in Nat
  OBVIOUS
<1>7. \A k \in 0..7 : k = 0 \/ k = 1 \/ k = 2 \/ k = 3 \/ k = 4 \/ k = 5 \/ k = 6 \/ k = 7
  OBVIOUS
<1>8. \A k \in 0..7 : Bit(v, k) \in {0, 1}
  BY <1>4, <1>5, <1>6, <1>7
<1>9. x = 128 * ((x \div 128) % 2) + 64 * ((x \div 64) % 2) + 32 * ((x \div 32) % 2) + 16 * ((x \div 16) % 2)
          + 8 * ((x \div 8) % 2) + 4 * ((x \div 4) % 2) + 2 * ((x \div 2) % 2) + ((x \div 1) % 2)
  BY SMTT(60)
<1>. QED BY <1>3, <1>4, <1>8, <1>9

-----------------------------------------------------------------------------
(***************************************************************************)
(* The invariant of the link.                                              *)
(***************************************************************************)

(* Types, with those of the sequences *)
Types ==
  /\ soft \in BOOLEAN
  /\ frame \in Frames \cup {ZeroFrame}
  /\ status \in {"IDLE", "BUSY"}
  /\ wires \in [dc : {0, 1}, cs : {0, 1}, sclk : {0, 1}, mosi : {0, 1}]
  /\ prog \in Seq(Steps)
  /\ fifo \in Seq(Meant)
  /\ latch \in Seq({0, 1})
  /\ count \in 0..7 /\ Len(latch) = count
  /\ low \in BOOLEAN /\ on \in BOOLEAN

(* Program p can run from these lines, after which it leaves none put. *)
Can(sf, p, v, c, n) ==
  \E a \in Lines, b \in Idle :
    Runs(sf, p, a, b) /\ a.dc = v /\ a.cs = c /\ n <= a.n /\ a.n <= FifoBound

(* D/C and CS are where the rest of the program needs them, and no more    *)
(* waits in the FIFO than was put since the last wait.                     *)
Lined == Can(soft, prog, wires.dc, wires.cs, Len(fifo))

(* What is in the FIFO is what D/C says. *)
Queued == \A i \in 1..Len(fifo) : fifo[i].dc = wires.dc

(* The panel has the first bits of the byte that is shifted out. *)
Shifting ==
  /\ Head1 = "shift" =>
       /\ \A i \in 1..count : latch[i] = Bit(prog[1][2].byte, i - 1)
       /\ low => wires.mosi = Bit(prog[1][2].byte, count)
  /\ Head1 # "shift" => count = 0 /\ ~low

(* softspi.c does not use the SSP, nor the SSP the wires of softspi.c. *)
Apart ==
  /\ soft => fifo = <<>> /\ ~on
  /\ ~soft => latch = <<>> /\ ~low

LinkInv == Types /\ Lined /\ Queued /\ Shifting /\ Apart

(* A program that is not over *)
LEMMA HeadIs ==
  ASSUME prog \in Seq(Steps), Head1 # "none"
  PROVE  /\ prog # <<>> /\ Head1 = prog[1][1] /\ prog[1] \in Steps
         /\ Tail(prog) \in Seq(Steps)
         /\ prog = <<prog[1]>> \o Tail(prog)
         /\ Bytes(prog) = Given(prog[1]) \o Bytes(Tail(prog))
<1>1. prog # <<>> /\ Head1 = prog[1][1]
  BY DEF Head1
<1>2. prog[1] \in Steps /\ Tail(prog) \in Seq(Steps) /\ Len(prog) \in Nat \ {0}
  <2>1. Len(prog) \in Nat \ {0}
    BY <1>1, LenProperties, EmptySeq
  <2>2. 1 \in 1..Len(prog)
    BY <2>1
  <2>. QED BY <1>1, <2>1, <2>2, ElementOfSeq, HeadTailProperties
<1>3. prog = <<prog[1]>> \o Tail(prog)
  <2>1. PICK n \in Nat \ {0} : n = Len(prog)
    BY <1>2
  <2>2. SubSeq(prog, 1, n) = prog
    BY <2>1, SubSeqFull
  <2>3. SubSeq(prog, 1, n) = <<prog[1]>> \o SubSeq(prog, 1 + 1, n)
    <3>1. 1 \in 1..Len(prog) /\ n \in 1..Len(prog)
      BY <2>1
    <3>. QED BY <3>1, SubSeqRecursiveFirst
  <2>4. Tail(prog) = SubSeq(prog, 2, n)
    BY <1>1, <2>1, TailIsSubSeq
  <2>. QED BY <2>2, <2>3, <2>4
<1>4. PICK s \in Steps, r \in Seq(Steps) : s = prog[1] /\ r = Tail(prog)
  BY <1>2
<1>5. Bytes(<<s>> \o r) = Given(s) \o Bytes(r)
  <2>1. <<s>> \in Seq(Steps)
    OBVIOUS
  <2>. QED BY <2>1, BytesBoth, BytesOne
<1>. QED BY <1>1, <1>2, <1>3, <1>4, <1>5

(* The step that is next *)
LEMMA NextStep ==
  ASSUME Types, Lined, Head1 # "none"
  PROVE  \E a \in Lines, c \in Lines, b \in Idle :
           /\ Does(soft, a, prog[1], c) /\ Runs(soft, Tail(prog), c, b)
           /\ a.dc = wires.dc /\ a.cs = wires.cs /\ Len(fifo) <= a.n /\ a.n <= FifoBound
<1>1. prog \in Seq(Steps) /\ prog # <<>>
  BY HeadIs DEF Types
<1>2. PICK a \in Lines, b \in Idle :
        Runs(soft, prog, a, b) /\ a.dc = wires.dc /\ a.cs = wires.cs /\ Len(fifo) <= a.n /\ a.n <= FifoBound
  BY DEF Lined, Can
<1>3. PICK c \in Lines : Does(soft, a, prog[1], c) /\ Runs(soft, Tail(prog), c, b)
  BY <1>1, <1>2, RunsOn
<1>. QED BY <1>2, <1>3

(* A program goes on from where a step leaves the lines. *)
LEMMA CanGoOn ==
  ASSUME NEW sf, NEW p, NEW c \in Lines, NEW b \in Idle, NEW v, NEW s, NEW n,
         Runs(sf, p, c, b), c.dc = v, c.cs = s, n <= c.n, c.n <= FifoBound
  PROVE  Can(sf, p, v, s, n)
BY DEF Can

(* A call that is over *)
LEMMA CallOver ==
  ASSUME LinkInv, prog = <<>>
  PROVE  fifo = <<>> /\ count = 0 /\ low = FALSE /\ latch = <<>> /\ Remaining = <<>>
<1>1. PICK a \in Lines, b \in Idle : Runs(soft, <<>>, a, b) /\ Len(fifo) <= a.n
  BY DEF LinkInv, Lined, Can
<1>2. a = b /\ a.n = 0
  BY <1>1, RunsEnd DEF Idle
<1>3. fifo = <<>>
  <2>1. fifo \in Seq(Meant) /\ Len(fifo) \in Nat
    BY LenProperties DEF LinkInv, Types
  <2>. QED BY <1>1, <1>2, <2>1, EmptySeq
<1>4. Head1 # "shift"
  BY DEF Head1
<1>5. count = 0 /\ low = FALSE
  BY <1>4 DEF LinkInv, Shifting, Types
<1>6. latch = <<>>
  BY <1>5, EmptySeq DEF LinkInv, Types
<1>7. Remaining = <<>>
  BY <1>3, BytesNone, Pair, RemainingIs
<1>. QED BY <1>3, <1>5, <1>6, <1>7

(* A program that begins *)
LEMMA CallBegins ==
  ASSUME NEW sf, NEW p, NEW x, Moves(sf, Idle, p, x, Idle), NEW v \in {0, 1}, NEW c \in {0, 1}
  PROVE  p \in Seq(Steps) /\ Bytes(p) = x /\ Can(sf, p, v, c, 0)
<1>1. PICK a \in Idle : a.dc = v /\ a.cs = c /\ a.n = 0
  <2>1. [dc |-> v, cs |-> c, n |-> 0] \in Idle
    BY DEF Idle, Lines
  <2>. QED BY <2>1
<1>2. PICK b \in Idle : Prog(sf, p, a, b, x)
  BY DEF Moves
<1>3. 0 <= 0 /\ 0 <= FifoBound
  BY FifoBoundIs
<1>. QED BY <1>1, <1>2, <1>3 DEF Prog, Can

-----------------------------------------------------------------------------
(***************************************************************************)
(* Every step keeps the invariant, and the bus sees a byte or nothing.     *)
(***************************************************************************)

(* What remains after a step *)
LEMMA RemainingNext == Remaining' = fifo' \o Bytes(prog')
BY DEF Remaining, Bytes

(* A call that begins with nothing in the FIFO sends what it should. *)
LEMMA CallSends ==
  ASSUME NEW p, NEW q, p = <<>>, Bytes(q) \in Seq(Meant)
  PROVE  p \o Bytes(q) = Bytes(q)
BY WithNone

(* The empty sequence *)
LEMMA NoneTyped == <<>> \in Seq(Meant) /\ <<>> \in Seq({0, 1}) /\ <<>> \in Seq(Steps) /\ Len(<<>>) = 0
BY EmptySeq

(* The initial states *)
LEMMA InitLinked == Init => LinkInv /\ B!Init
<1>. SUFFICES ASSUME Init PROVE LinkInv /\ B!Init
  OBVIOUS
<1>1. soft \in BOOLEAN
  BY BuildsAssumption DEF Init
<1>2. Moves(soft, Idle, prog, B!AllSent(OpenCmds \o SleepCmds), Idle)
  BY <1>1, CallsMove DEF Init
<1>3. wires.dc = 1 /\ wires.cs = 1 /\ wires \in [dc : {0, 1}, cs : {0, 1}, sclk : {0, 1}, mosi : {0, 1}]
  BY DEF Init
<1>4. prog \in Seq(Steps) /\ Bytes(prog) = B!AllSent(OpenCmds \o SleepCmds) /\ Can(soft, prog, 1, 1, 0)
  <2>1. 1 \in {0, 1}
    OBVIOUS
  <2>. QED BY <1>2, <2>1, CallBegins
<1>5. Types
  <2>1. /\ frame \in Frames \cup {ZeroFrame} /\ status \in {"IDLE", "BUSY"}
        /\ fifo = <<>> /\ latch = <<>> /\ count = 0 /\ low = FALSE /\ on = FALSE
    BY DEF Init
  <2>2. fifo \in Seq(Meant) /\ latch \in Seq({0, 1}) /\ Len(latch) = count
    BY <2>1, NoneTyped
  <2>3. low \in BOOLEAN /\ on \in BOOLEAN
    BY <2>1, Zenon
  <2>4. count \in 0..7
    BY <2>1
  <2>. QED BY <1>1, <1>3, <1>4, <2>1, <2>2, <2>3, <2>4 DEF Types
<1>6. Lined
  BY <1>3, <1>4, NoneTyped DEF Init, Lined
<1>7. Queued
  BY NoneTyped DEF Init, Queued
<1>8. Shifting
  BY DEF Init, Shifting
<1>9. Apart
  BY DEF Init, Apart
<1>10. Remaining = B!AllSent(OpenCmds \o SleepCmds)
  <2>1. fifo = <<>> /\ Bytes(prog) \in Seq(Meant)
    BY <1>4, BytesTyped DEF Init
  <2>. QED BY <1>4, <2>1, WithNone, RemainingIs
<1>11. B!Init
  BY <1>10, SameCalls, SamePanel DEF Init, B!Init
<1>. QED BY <1>5, <1>6, <1>7, <1>8, <1>9, <1>11 DEF LinkInv

(* Steps that the bus does not see *)
LEMMA StepSetDc ==
  ASSUME LinkInv, SetDc
  PROVE  LinkInv' /\ UNCHANGED B!bus
<1>0. Types /\ Lined /\ Queued /\ Shifting /\ Apart
  BY DEF LinkInv
<1>1. PICK s \in Steps, r \in Seq(Steps) :
        /\ s = prog[1] /\ r = Tail(prog) /\ s[1] = "dc" /\ Bytes(prog) = Given(s) \o Bytes(r)
  BY <1>0, HeadIs DEF SetDc, Types
<1>2. PICK a \in Lines, c \in Lines, b \in Idle :
        /\ Does(soft, a, s, c) /\ Runs(soft, r, c, b)
        /\ a.dc = wires.dc /\ a.cs = wires.cs /\ Len(fifo) <= a.n /\ a.n <= FifoBound
  BY <1>0, <1>1, NextStep DEF SetDc
<1>3. s[2] \in {0, 1} /\ Given(s) = <<>>
  BY <1>1, StepKinds DEF Given
<1>4. a.n = 0 /\ c = [dc |-> s[2], cs |-> a.cs, n |-> 0]
  BY <1>1, <1>2 DEF Does
<1>5. fifo = <<>>
  <2>1. fifo \in Seq(Meant) /\ Len(fifo) \in Nat
    BY <1>0, LenProperties DEF Types
  <2>. QED BY <1>2, <1>4, <2>1, EmptySeq
<1>6. wires' \in [dc : {0, 1}, cs : {0, 1}, sclk : {0, 1}, mosi : {0, 1}] /\ wires'.dc = s[2] /\ wires'.cs = wires.cs
  BY <1>0, <1>1, <1>3 DEF SetDc, Types
<1>7. count = 0 /\ low = FALSE
  BY <1>0 DEF SetDc, Shifting, Types
<1>8. Types'
  BY <1>0, <1>1, <1>6 DEF SetDc, Types
<1>9. Lined'
  <2>1. Can(soft, r, s[2], wires.cs, 0)
    <3>1. c.dc = s[2] /\ c.cs = wires.cs /\ c.n = 0 /\ 0 <= c.n /\ c.n <= FifoBound
      BY <1>2, <1>4, FifoBoundIs
    <3>. QED BY <1>2, <3>1, CanGoOn
  <2>. QED BY <1>1, <1>5, <1>6, <2>1, NoneTyped DEF SetDc, Lined
<1>10. Queued'
  BY <1>5, NoneTyped DEF SetDc, Queued
<1>11. Shifting'
  BY <1>7 DEF SetDc, Shifting
<1>12. Apart'
  BY <1>0 DEF SetDc, Apart
<1>13. Remaining' = Remaining
  <2>1. Bytes(prog) = Bytes(r)
    BY <1>1, <1>3, BytesTyped, WithNone
  <2>. QED BY <1>1, <2>1, RemainingIs, RemainingNext DEF SetDc
<1>. QED BY <1>8, <1>9, <1>10, <1>11, <1>12, <1>13 DEF LinkInv, SetDc, B!bus

LEMMA StepSetCs ==
  ASSUME LinkInv, SetCs
  PROVE  LinkInv' /\ UNCHANGED B!bus
<1>0. Types /\ Lined /\ Queued /\ Shifting /\ Apart
  BY DEF LinkInv
<1>1. PICK s \in Steps, r \in Seq(Steps) :
        /\ s = prog[1] /\ r = Tail(prog) /\ s[1] = "cs" /\ Bytes(prog) = Given(s) \o Bytes(r)
  BY <1>0, HeadIs DEF SetCs, Types
<1>2. PICK a \in Lines, c \in Lines, b \in Idle :
        /\ Does(soft, a, s, c) /\ Runs(soft, r, c, b)
        /\ a.dc = wires.dc /\ a.cs = wires.cs /\ Len(fifo) <= a.n /\ a.n <= FifoBound
  BY <1>0, <1>1, NextStep DEF SetCs
<1>3. s[2] \in {0, 1} /\ Given(s) = <<>>
  BY <1>1, StepKinds DEF Given
<1>4. soft /\ c = [dc |-> a.dc, cs |-> s[2], n |-> a.n]
  BY <1>1, <1>2 DEF Does
<1>6. /\ wires' \in [dc : {0, 1}, cs : {0, 1}, sclk : {0, 1}, mosi : {0, 1}]
      /\ wires'.dc = wires.dc /\ wires'.cs = s[2]
  BY <1>0, <1>1, <1>3 DEF SetCs, Types
<1>7. count = 0 /\ low = FALSE
  BY <1>0 DEF SetCs, Shifting, Types
<1>5. latch = <<>> /\ latch' = <<>>
  BY <1>0, <1>7, EmptySeq DEF SetCs, Types
<1>8. Types'
  BY <1>0, <1>1, <1>5, <1>6 DEF SetCs, Types
<1>9. Lined'
  <2>1. Can(soft, r, wires.dc, s[2], Len(fifo))
    <3>1. c.dc = wires.dc /\ c.cs = s[2] /\ c.n = a.n
      BY <1>2, <1>4
    <3>. QED BY <1>2, <3>1, CanGoOn
  <2>. QED BY <1>1, <1>6, <2>1 DEF SetCs, Lined
<1>10. Queued'
  BY <1>0, <1>6 DEF SetCs, Queued
<1>11. Shifting'
  BY <1>7 DEF SetCs, Shifting
<1>12. Apart'
  BY <1>0, <1>4 DEF SetCs, Apart
<1>13. Remaining' = Remaining
  <2>1. Bytes(prog) = Bytes(r)
    BY <1>1, <1>3, BytesTyped, WithNone
  <2>. QED BY <1>1, <2>1, RemainingIs, RemainingNext DEF SetCs
<1>. QED BY <1>8, <1>9, <1>10, <1>11, <1>12, <1>13 DEF LinkInv, SetCs, B!bus

LEMMA StepSetEnable ==
  ASSUME LinkInv, SetEnable
  PROVE  LinkInv' /\ UNCHANGED B!bus
<1>0. Types /\ Lined /\ Queued /\ Shifting /\ Apart
  BY DEF LinkInv
<1>1. PICK s \in Steps, r \in Seq(Steps) :
        /\ s = prog[1] /\ r = Tail(prog) /\ s[1] \in {"enable", "disable"} /\ Bytes(prog) = Given(s) \o Bytes(r)
  BY <1>0, HeadIs DEF SetEnable, Types
<1>2. PICK a \in Lines, c \in Lines, b \in Idle :
        /\ Does(soft, a, s, c) /\ Runs(soft, r, c, b)
        /\ a.dc = wires.dc /\ a.cs = wires.cs /\ Len(fifo) <= a.n /\ a.n <= FifoBound
  BY <1>0, <1>1, NextStep DEF SetEnable
<1>3. Given(s) = <<>>
  BY <1>1 DEF Given
<1>4. ~soft /\ c = a
  BY <1>1, <1>2 DEF Does
<1>7. count = 0 /\ low = FALSE
  BY <1>0 DEF SetEnable, Shifting, Types
<1>8. Types'
  BY <1>0, <1>1 DEF SetEnable, Types
<1>9. Lined'
  <2>1. Can(soft, r, wires.dc, wires.cs, Len(fifo))
    BY <1>2, <1>4, CanGoOn
  <2>. QED BY <1>1, <2>1 DEF SetEnable, Lined
<1>10. Queued'
  BY <1>0 DEF SetEnable, Queued
<1>11. Shifting'
  BY <1>7 DEF SetEnable, Shifting
<1>12. Apart'
  BY <1>0, <1>4 DEF SetEnable, Apart
<1>13. Remaining' = Remaining
  <2>1. Bytes(prog) = Bytes(r)
    BY <1>1, <1>3, BytesTyped, WithNone
  <2>. QED BY <1>1, <2>1, RemainingIs, RemainingNext DEF SetEnable
<1>. QED BY <1>8, <1>9, <1>10, <1>11, <1>12, <1>13 DEF LinkInv, SetEnable, B!bus

LEMMA StepWaitBusyBit ==
  ASSUME LinkInv, WaitBusyBit
  PROVE  LinkInv' /\ UNCHANGED B!bus
<1>0. Types /\ Lined /\ Queued /\ Shifting /\ Apart
  BY DEF LinkInv
<1>1. PICK s \in Steps, r \in Seq(Steps) :
        /\ s = prog[1] /\ r = Tail(prog) /\ s[1] = "wait" /\ Bytes(prog) = Given(s) \o Bytes(r)
  BY <1>0, HeadIs DEF WaitBusyBit, Types
<1>2. PICK a \in Lines, c \in Lines, b \in Idle :
        /\ Does(soft, a, s, c) /\ Runs(soft, r, c, b)
        /\ a.dc = wires.dc /\ a.cs = wires.cs /\ Len(fifo) <= a.n /\ a.n <= FifoBound
  BY <1>0, <1>1, NextStep DEF WaitBusyBit
<1>3. Given(s) = <<>>
  BY <1>1 DEF Given
<1>4. ~soft /\ c = [dc |-> a.dc, cs |-> a.cs, n |-> 0]
  BY <1>1, <1>2 DEF Does
<1>5. fifo = <<>> /\ fifo' = <<>>
  BY DEF WaitBusyBit
<1>7. count = 0 /\ low = FALSE
  BY <1>0 DEF WaitBusyBit, Shifting, Types
<1>8. Types'
  BY <1>0, <1>1 DEF WaitBusyBit, Types
<1>9. Lined'
  <2>1. Can(soft, r, wires.dc, wires.cs, 0)
    <3>1. c.dc = wires.dc /\ c.cs = wires.cs /\ c.n = 0 /\ 0 <= c.n /\ c.n <= FifoBound
      BY <1>2, <1>4, FifoBoundIs
    <3>. QED BY <1>2, <3>1, CanGoOn
  <2>. QED BY <1>1, <1>5, <2>1, NoneTyped DEF WaitBusyBit, Lined
<1>10. Queued'
  BY <1>0 DEF WaitBusyBit, Queued
<1>11. Shifting'
  BY <1>7 DEF WaitBusyBit, Shifting
<1>12. Apart'
  BY <1>0, <1>4 DEF WaitBusyBit, Apart
<1>13. Remaining' = Remaining
  <2>1. Bytes(prog) = Bytes(r)
    BY <1>1, <1>3, BytesTyped, WithNone
  <2>. QED BY <1>1, <2>1, RemainingIs, RemainingNext DEF WaitBusyBit
<1>. QED BY <1>8, <1>9, <1>10, <1>11, <1>12, <1>13 DEF LinkInv, WaitBusyBit, B!bus

(* SCLK falls: the bus sees nothing. *)
LEMMA StepLowerSclk ==
  ASSUME LinkInv, LowerSclk
  PROVE  LinkInv' /\ UNCHANGED B!bus
<1>0. Types /\ Lined /\ Queued /\ Shifting /\ Apart
  BY DEF LinkInv
<1>1. PICK s \in Steps : s = prog[1] /\ s[1] = "shift" /\ s[2] \in Meant
  BY <1>0, HeadIs, StepKinds DEF LowerSclk, Types
<1>2. PICK a \in Lines, c \in Lines : Does(soft, a, s, c)
  BY <1>0, <1>1, NextStep DEF LowerSclk
<1>3. soft
  BY <1>1, <1>2 DEF Does
<1>4. Bit(s[2].byte, count) \in {0, 1}
  <2>1. s[2].byte \in Datum
    BY <1>1 DEF Meant, Datum
  <2>. QED BY <1>0, <2>1, BitsAre DEF Types
<1>5. wires' = [wires EXCEPT !.sclk = 0, !.mosi = Bit(s[2].byte, count)]
  BY <1>1 DEF LowerSclk, Bit
<1>6. /\ wires' \in [dc : {0, 1}, cs : {0, 1}, sclk : {0, 1}, mosi : {0, 1}]
      /\ wires'.dc = wires.dc /\ wires'.cs = wires.cs /\ wires'.mosi = Bit(s[2].byte, count)
  <2>1. PICK m \in {0, 1}, z \in {0, 1} : m = Bit(s[2].byte, count) /\ z = 0
    BY <1>4
  <2>2. wires' = [wires EXCEPT !.sclk = z, !.mosi = m]
    BY <1>5, <2>1
  <2>. QED BY <1>0, <2>1, <2>2 DEF Types
<1>7. Types'
  BY <1>0, <1>6 DEF LowerSclk, Types
<1>8. Lined'
  BY <1>0, <1>6 DEF LowerSclk, Lined
<1>9. Queued'
  BY <1>0, <1>6 DEF LowerSclk, Queued
<1>10. Shifting'
  <2>1. Head1' = Head1 /\ Head1 = "shift"
    BY DEF LowerSclk, Head1
  <2>. QED BY <1>0, <1>1, <1>6, <2>1 DEF LowerSclk, Shifting
<1>11. Apart'
  BY <1>0, <1>3 DEF LowerSclk, Apart
<1>12. Remaining' = Remaining
  BY RemainingIs, RemainingNext DEF LowerSclk
<1>. QED BY <1>7, <1>8, <1>9, <1>10, <1>11, <1>12 DEF LinkInv, LowerSclk, B!bus

(* A byte goes from the program to the FIFO: it still remains. *)
LEMMA StepPutByte ==
  ASSUME LinkInv, PutByte
  PROVE  LinkInv' /\ UNCHANGED B!bus
<1>0. Types /\ Lined /\ Queued /\ Shifting /\ Apart
  BY DEF LinkInv
<1>1. PICK s \in Steps, r \in Seq(Steps) :
        /\ s = prog[1] /\ r = Tail(prog) /\ s[1] = "put" /\ s[2] \in Meant /\ Bytes(prog) = Given(s) \o Bytes(r)
  BY <1>0, HeadIs, StepKinds DEF PutByte, Types
<1>2. PICK a \in Lines, c \in Lines, b \in Idle :
        /\ Does(soft, a, s, c) /\ Runs(soft, r, c, b)
        /\ a.dc = wires.dc /\ a.cs = wires.cs /\ Len(fifo) <= a.n /\ a.n <= FifoBound
  BY <1>0, <1>1, NextStep DEF PutByte
<1>3. Given(s) = <<s[2]>>
  BY <1>1 DEF Given
<1>4. ~soft /\ s[2].dc = a.dc /\ a.n < FifoBound /\ c = [dc |-> a.dc, cs |-> a.cs, n |-> a.n + 1]
  BY <1>1, <1>2 DEF Does
<1>5. PICK m \in Meant, q \in Seq(Meant), n \in Nat : m = s[2] /\ q = fifo /\ n = Len(q)
  BY <1>0, <1>1, LenProperties DEF Types
<1>6. PICK o \in Seq(Meant) :
        /\ o = Append(q, m) /\ Len(o) = n + 1 /\ o[n + 1] = m /\ \A i \in 1..n : o[i] = q[i]
  <2>1. /\ Append(q, m) \in Seq(Meant) /\ Len(Append(q, m)) = Len(q) + 1
        /\ \A i \in 1..Len(q) : Append(q, m)[i] = q[i]
        /\ Append(q, m)[Len(q) + 1] = m
    BY AppendProperties
  <2>. QED BY <1>5, <2>1
<1>7. fifo' = o /\ prog' = r
  BY <1>1, <1>5, <1>6 DEF PutByte
<1>8. count = 0 /\ low = FALSE
  BY <1>0 DEF PutByte, Shifting, Types
<1>9. Types'
  BY <1>0, <1>7 DEF PutByte, Types
<1>10. Lined'
  <2>1. c.dc = wires.dc /\ c.cs = wires.cs /\ n + 1 <= c.n /\ c.n <= FifoBound
    <3>1. a.n \in Nat /\ n <= a.n
      BY <1>2, <1>5 DEF Lines
    <3>2. c.n = a.n + 1 /\ c.dc = a.dc /\ c.cs = a.cs
      BY <1>4
    <3>. QED BY <1>2, <1>4, <3>1, <3>2, FifoBoundIs
  <2>2. Can(soft, r, wires.dc, wires.cs, n + 1)
    BY <1>2, <2>1, CanGoOn
  <2>. QED BY <1>6, <1>7, <2>2 DEF PutByte, Lined
<1>11. Queued'
  <2>1. \A i \in 1..(n + 1) : i \in 1..n \/ i = n + 1
    OBVIOUS
  <2>2. m.dc = wires.dc /\ \A i \in 1..n : q[i].dc = wires.dc
    BY <1>0, <1>2, <1>4, <1>5 DEF Queued
  <2>3. \A i \in 1..(n + 1) : o[i].dc = wires.dc
    BY <1>6, <2>1, <2>2
  <2>. QED BY <1>6, <1>7, <2>3 DEF PutByte, Queued
<1>12. Shifting'
  BY <1>8 DEF PutByte, Shifting
<1>13. Apart'
  BY <1>0, <1>4 DEF PutByte, Apart
<1>14. Remaining' = Remaining
  <2>1. PICK x \in Seq(Meant), y \in Seq(Meant) : x = <<m>> /\ y = Bytes(r)
    <3>1. <<m>> \in Seq(Meant)
      OBVIOUS
    <3>. QED BY <3>1, BytesTyped
  <2>2. o = q \o x
    BY <1>6, <2>1, AppendIsConcat
  <2>3. (q \o x) \o y = q \o (x \o y)
    BY ConcatAssociative
  <2>4. Remaining = q \o (x \o y)
    BY <1>1, <1>3, <1>5, <2>1, RemainingIs
  <2>. QED BY <1>7, <2>1, <2>2, <2>3, <2>4, RemainingNext
<1>. QED BY <1>9, <1>10, <1>11, <1>12, <1>13, <1>14 DEF LinkInv, PutByte, B!bus

(* The bus delivers its first byte. *)
LEMMA FirstOf ==
  ASSUME NEW T, NEW m \in T, NEW y \in Seq(T)
  PROVE  /\ <<m>> \o y # <<>> /\ Head(<<m>> \o y) = m /\ Tail(<<m>> \o y) = y
         /\ <<m>> \o y \in Seq(T)
<1>1. PICK x \in Seq(T), n \in Nat : x = <<m>> /\ Len(x) = 1 /\ x[1] = m /\ n = Len(y)
  <2>1. <<m>> \in Seq(T) /\ Len(<<m>>) = 1 /\ <<m>>[1] = m
    OBVIOUS
  <2>. QED BY <2>1, LenProperties
<1>2. PICK z \in Seq(T) : z = x \o y /\ Len(z) = 1 + n /\ \A i \in 1..(1 + n) : z[i] = IF i <= 1 THEN x[i] ELSE y[i - 1]
  <2>1. /\ x \o y \in Seq(T) /\ Len(x \o y) = Len(x) + Len(y)
        /\ \A i \in 1..Len(x) + Len(y) : (x \o y)[i] = IF i <= Len(x) THEN x[i] ELSE y[i - Len(x)]
    BY ConcatProperties
  <2>. QED BY <1>1, <2>1
<1>3. z # <<>>
  BY <1>2, EmptySeq
<1>4. z[1] = m
  <2>1. 1 \in 1..(1 + n) /\ 1 <= 1
    OBVIOUS
  <2>. QED BY <1>1, <1>2, <2>1
<1>5. Head(z) = m
  BY <1>3, <1>4
<1>6. PICK t \in Seq(T) : t = Tail(z) /\ Len(t) = n /\ \A i \in 1..n : t[i] = z[i + 1]
  <2>1. Tail(z) \in Seq(T) /\ Len(Tail(z)) = Len(z) - 1 /\ \A i \in 1..Len(Tail(z)) : Tail(z)[i] = z[i + 1]
    BY <1>3, HeadTailProperties
  <2>2. Len(z) - 1 = n
    BY <1>2
  <2>. QED BY <2>1, <2>2
<1>7. \A i \in 1..n : t[i] = y[i]
  <2>. TAKE i \in 1..n
  <2>1. i + 1 \in 1..(1 + n) /\ ~(i + 1 <= 1) /\ (i + 1) - 1 = i
    OBVIOUS
  <2>. QED BY <1>2, <1>6, <2>1
<1>8. t = y
  BY <1>1, <1>6, <1>7, SeqEqual
<1>. QED BY <1>1, <1>2, <1>3, <1>5, <1>6, <1>8

(* SCLK rises: with the eighth bit the bus delivers a byte. *)
LEMMA StepRaiseSclk ==
  ASSUME LinkInv, RaiseSclk
  PROVE  LinkInv' /\ [B!Next]_B!bus
<1>0. Types /\ Lined /\ Queued /\ Shifting /\ Apart
  BY DEF LinkInv
<1>1. PICK s \in Steps, r \in Seq(Steps) :
        /\ s = prog[1] /\ r = Tail(prog) /\ s[1] = "shift" /\ s[2] \in Meant /\ Bytes(prog) = Given(s) \o Bytes(r)
  BY <1>0, HeadIs, StepKinds DEF RaiseSclk, Types
<1>2. PICK a \in Lines, c \in Lines, b \in Idle :
        /\ Does(soft, a, s, c) /\ Runs(soft, r, c, b)
        /\ a.dc = wires.dc /\ a.cs = wires.cs /\ Len(fifo) <= a.n /\ a.n <= FifoBound
  BY <1>0, <1>1, NextStep DEF RaiseSclk
<1>3. Given(s) = <<s[2]>>
  BY <1>1 DEF Given
<1>4. soft /\ a.cs = 0 /\ s[2].dc = a.dc /\ c = a
  BY <1>1, <1>2 DEF Does
<1>5. PICK m \in Meant, v \in Datum : m = s[2] /\ v = m.byte /\ m.dc = wires.dc
  <2>1. s[2].byte \in Datum
    BY <1>1 DEF Meant, Datum
  <2>. QED BY <1>1, <1>2, <1>4, <2>1
<1>6. PICK k \in 0..7 : k = count /\ Len(latch) = k
  BY <1>0 DEF Types
<1>7. wires.mosi = Bit(v, k) /\ \A i \in 1..k : latch[i] = Bit(v, i - 1)
  BY <1>0, <1>1, <1>5, <1>6 DEF RaiseSclk, Shifting
<1>8. Bit(v, k) \in {0, 1}
  BY BitsAre
<1>9. PICK bits \in Seq({0, 1}) :
        bits = Append(latch, wires.mosi) /\ Len(bits) = k + 1 /\ \A i \in 1..(k + 1) : bits[i] = Bit(v, i - 1)
  <2>1. PICK l \in Seq({0, 1}), x \in {0, 1} : l = latch /\ x = wires.mosi
    BY <1>0, <1>7, <1>8 DEF Types
  <2>2. /\ Append(l, x) \in Seq({0, 1}) /\ Len(Append(l, x)) = Len(l) + 1
        /\ \A i \in 1..Len(l) : Append(l, x)[i] = l[i]
        /\ Append(l, x)[Len(l) + 1] = x
    BY AppendProperties
  <2>3. \A i \in 1..(k + 1) : i \in 1..k \/ (i = k + 1 /\ i - 1 = k)
    OBVIOUS
  <2>4. \A i \in 1..(k + 1) : Append(l, x)[i] = Bit(v, i - 1)
    BY <1>6, <1>7, <2>1, <2>2, <2>3
  <2>. QED BY <1>6, <2>1, <2>2, <2>4
<1>10. bits = IF wires.cs = 0 THEN Append(latch, wires.mosi) ELSE <<>>
  BY <1>2, <1>4, <1>9
<1>11. /\ latch' = IF Len(bits) = 8 THEN <<>> ELSE bits
       /\ panel' = IF Len(bits) = 8 THEN PanelTakes(panel, wires.dc, Value(bits)) ELSE panel
  BY <1>10 DEF RaiseSclk
<1>12. /\ wires' \in [dc : {0, 1}, cs : {0, 1}, sclk : {0, 1}, mosi : {0, 1}]
       /\ wires'.dc = wires.dc /\ wires'.cs = wires.cs
  BY <1>0 DEF RaiseSclk, Types
<1>13. low' = FALSE /\ count' = (k + 1) % 8 /\ fifo' = fifo /\ soft' = soft /\ frame' = frame
       /\ status' = status /\ on' = on
  BY <1>6 DEF RaiseSclk
<1>14. Queued'
  BY <1>0, <1>12, <1>13 DEF Queued
<1>15. Apart'
  BY <1>0, <1>4, <1>13 DEF Apart
<1>16. CASE k = 7
  <2>1. Len(bits) = 8 /\ count' = 0 /\ prog' = r /\ latch' = <<>>
    <3>1. (7 + 1) % 8 = 0
      OBVIOUS
    <3>. QED BY <1>1, <1>6, <1>9, <1>11, <1>13, <1>16, <3>1 DEF RaiseSclk
  <2>2. Value(bits) = v
    <3>1. /\ bits[1] = Bit(v, 0) /\ bits[2] = Bit(v, 1) /\ bits[3] = Bit(v, 2) /\ bits[4] = Bit(v, 3)
          /\ bits[5] = Bit(v, 4) /\ bits[6] = Bit(v, 5) /\ bits[7] = Bit(v, 6) /\ bits[8] = Bit(v, 7)
      BY <1>9, <1>16
    <3>2. v = 128 * Bit(v, 0) + 64 * Bit(v, 1) + 32 * Bit(v, 2) + 16 * Bit(v, 3)
                + 8 * Bit(v, 4) + 4 * Bit(v, 5) + 2 * Bit(v, 6) + Bit(v, 7)
      BY BitsAre
    <3>. QED BY <3>1, <3>2 DEF Value
  <2>3. panel' = PanelTakes(panel, m.dc, m.byte)
    BY <1>5, <1>11, <2>1, <2>2
  <2>4. Types'
    <3>1. latch' \in Seq({0, 1}) /\ Len(latch') = count'
      BY <2>1, NoneTyped
    <3>2. low' \in BOOLEAN /\ on' \in BOOLEAN
      BY <1>0, <1>13 DEF Types
    <3>3. count' \in 0..7
      BY <2>1
    <3>. QED BY <1>0, <1>1, <1>12, <1>13, <2>1, <3>1, <3>2, <3>3 DEF Types
  <2>5. Lined'
    <3>1. Can(soft, r, wires.dc, wires.cs, Len(fifo))
      BY <1>2, <1>4, CanGoOn
    <3>. QED BY <1>12, <1>13, <2>1, <3>1 DEF Lined
  <2>6. Shifting'
    BY <1>13, <2>1 DEF Shifting
  <2>7. Remaining = <<m>> \o Bytes(r) /\ Remaining' = Bytes(r) /\ Bytes(r) \in Seq(Meant)
    <3>1. fifo = <<>> /\ fifo' = <<>>
      BY <1>0, <1>4, <1>13 DEF Apart
    <3>2. Bytes(r) \in Seq(Meant) /\ <<m>> \o Bytes(r) \in Seq(Meant)
      BY BytesTyped, FirstOf
    <3>3. Bytes(prog) = <<m>> \o Bytes(r)
      BY <1>1, <1>3, <1>5
    <3>4. Remaining = <<>> \o (<<m>> \o Bytes(r))
      BY <3>1, <3>3, RemainingIs
    <3>5. Remaining' = <<>> \o Bytes(r)
      BY <2>1, <3>1, RemainingNext
    <3>. QED BY <3>2, <3>4, <3>5, WithNone
  <2>8. Remaining # <<>> /\ Head(Remaining) = m /\ Remaining' = Tail(Remaining)
    <3>1. <<m>> \o Bytes(r) # <<>> /\ Head(<<m>> \o Bytes(r)) = m /\ Tail(<<m>> \o Bytes(r)) = Bytes(r)
      BY <2>7, FirstOf
    <3>. QED BY <2>7, <3>1
  <2>9. B!Next
    <3>1. panel' = B!PanelTakes(panel, Head(Remaining).dc, Head(Remaining).byte)
      BY <2>3, <2>8, SamePanel
    <3>2. B!Delivers
      BY <1>13, <2>8, <3>1 DEF B!Delivers
    <3>. QED BY <3>2 DEF B!Next
  <2>. QED BY <1>14, <1>15, <2>4, <2>5, <2>6, <2>9 DEF LinkInv
<1>17. CASE k # 7
  <2>1. Len(bits) # 8 /\ count' = k + 1 /\ k + 1 \in 0..7 /\ prog' = prog /\ latch' = bits /\ panel' = panel
    <3>1. k \in 0..6 /\ (k + 1) % 8 = k + 1
      BY <1>17
    <3>2. Len(bits) # 8
      BY <1>9, <3>1
    <3>. QED BY <1>6, <1>11, <1>13, <3>1, <3>2 DEF RaiseSclk
  <2>2. Types'
    BY <1>0, <1>9, <1>12, <1>13, <2>1 DEF Types
  <2>3. Lined'
    BY <1>0, <1>12, <1>13, <2>1 DEF Lined
  <2>4. Head1' = Head1 /\ Head1 = "shift"
    BY <2>1 DEF RaiseSclk, Head1
  <2>5. Shifting'
    <3>1. \A i \in 1..(k + 1) : bits[i] = Bit(prog[1][2].byte, i - 1)
      BY <1>1, <1>5, <1>9
    <3>. QED BY <1>13, <2>1, <2>4, <3>1 DEF Shifting
  <2>6. Remaining' = Remaining
    BY <1>13, <2>1, RemainingIs, RemainingNext
  <2>7. UNCHANGED B!bus
    BY <1>13, <2>1, <2>6 DEF B!bus
  <2>. QED BY <1>14, <1>15, <2>2, <2>3, <2>5, <2>7 DEF LinkInv
<1>. QED BY <1>16, <1>17

(* The SSP delivers the first byte of its FIFO. *)
LEMMA StepSspShifts ==
  ASSUME LinkInv, SspShifts
  PROVE  LinkInv' /\ [B!Next]_B!bus
<1>0. Types /\ Lined /\ Queued /\ Shifting /\ Apart
  BY DEF LinkInv
<1>1. PICK q \in Seq(Meant), n \in Nat : q = fifo /\ n + 1 = Len(q) /\ q # <<>>
  <2>1. fifo \in Seq(Meant) /\ fifo # <<>>
    BY <1>0 DEF SspShifts, Types
  <2>2. Len(fifo) - 1 \in Nat /\ (Len(fifo) - 1) + 1 = Len(fifo)
    BY <2>1, LenProperties, EmptySeq
  <2>. QED BY <2>1, <2>2
<1>2. PICK m \in Meant, t \in Seq(Meant) :
        /\ m = Head(q) /\ m = q[1] /\ t = Tail(q) /\ Len(t) = n /\ \A i \in 1..n : t[i] = q[i + 1]
  <2>1. /\ Head(q) \in Meant /\ Tail(q) \in Seq(Meant) /\ Len(Tail(q)) = Len(q) - 1
        /\ \A i \in 1..Len(Tail(q)) : Tail(q)[i] = q[i + 1]
    BY <1>1, HeadTailProperties
  <2>2. Head(q) = q[1] /\ Len(q) - 1 = n
    BY <1>1
  <2>. QED BY <2>1, <2>2
<1>3. q = <<m>> \o t
  <2>1. 1 \in 1..Len(q) /\ n + 1 \in 1..Len(q) /\ 1 + 1 = 2
    BY <1>1
  <2>2. SubSeq(q, 1, n + 1) = <<q[1]>> \o SubSeq(q, 1 + 1, n + 1)
    BY <2>1, SubSeqRecursiveFirst
  <2>3. SubSeq(q, 1, n + 1) = q
    BY <1>1, SubSeqFull
  <2>4. t = SubSeq(q, 2, n + 1)
    BY <1>1, <1>2, TailIsSubSeq
  <2>. QED BY <1>2, <2>1, <2>2, <2>3, <2>4
<1>4. fifo' = t /\ panel' = PanelTakes(panel, wires.dc, m.byte)
  BY <1>1, <1>2 DEF SspShifts
<1>5. m.dc = wires.dc
  <2>1. 1 \in 1..Len(fifo)
    BY <1>1
  <2>. QED BY <1>0, <1>1, <1>2, <2>1 DEF Queued
<1>6. ~soft
  BY <1>0 DEF Apart, SspShifts
<1>7. Types'
  BY <1>0, <1>4 DEF SspShifts, Types
<1>8. Lined'
  <2>1. PICK a \in Lines, b \in Idle :
          Runs(soft, prog, a, b) /\ a.dc = wires.dc /\ a.cs = wires.cs /\ Len(fifo) <= a.n /\ a.n <= FifoBound
    BY <1>0 DEF Lined, Can
  <2>2. n <= a.n
    <3>1. a.n \in Nat /\ n + 1 <= a.n
      BY <1>1, <2>1 DEF Lines
    <3>. QED BY <3>1
  <2>3. Can(soft, prog, wires.dc, wires.cs, n)
    BY <2>1, <2>2, CanGoOn
  <2>. QED BY <1>2, <1>4, <2>3 DEF SspShifts, Lined
<1>9. Queued'
  <2>1. \A i \in 1..n : i + 1 \in 1..Len(fifo)
    BY <1>1
  <2>2. \A i \in 1..n : t[i].dc = wires.dc
    BY <1>0, <1>1, <1>2, <2>1 DEF Queued
  <2>. QED BY <1>2, <1>4, <2>2 DEF SspShifts, Queued
<1>10. Shifting'
  <2>1. Head1' = Head1
    BY DEF SspShifts, Head1
  <2>. QED BY <1>0, <2>1 DEF SspShifts, Shifting
<1>11. Apart'
  BY <1>0, <1>6 DEF SspShifts, Apart
<1>12. Remaining # <<>> /\ Head(Remaining) = m /\ Remaining' = Tail(Remaining)
  <2>1. prog \in Seq(Steps) /\ prog' = prog
    BY <1>0 DEF SspShifts, Types
  <2>2. PICK x \in Seq(Meant), y \in Seq(Meant) : x = <<m>> /\ y = Bytes(prog)
    <3>1. <<m>> \in Seq(Meant)
      OBVIOUS
    <3>. QED BY <2>1, <3>1, BytesTyped
  <2>3. (x \o t) \o y = x \o (t \o y)
    BY ConcatAssociative
  <2>4. PICK z \in Seq(Meant) : z = t \o y
    <3>1. t \o y \in Seq(Meant)
      BY ConcatProperties
    <3>. QED BY <3>1
  <2>5. Remaining = <<m>> \o z /\ Remaining' = z
    BY <1>1, <1>3, <1>4, <2>1, <2>2, <2>3, <2>4, RemainingIs, RemainingNext
  <2>6. <<m>> \o z # <<>> /\ Head(<<m>> \o z) = m /\ Tail(<<m>> \o z) = z
    BY FirstOf
  <2>. QED BY <2>5, <2>6
<1>13. B!Next
  <2>1. panel' = B!PanelTakes(panel, Head(Remaining).dc, Head(Remaining).byte)
    BY <1>4, <1>5, <1>12, SamePanel
  <2>2. B!Delivers
    BY <1>12, <2>1 DEF B!Delivers, SspShifts
  <2>. QED BY <2>2 DEF B!Next
<1>. QED BY <1>7, <1>8, <1>9, <1>10, <1>11, <1>13 DEF LinkInv

(* The frame buffer is a picture. *)
LEMMA FrameIsPicture ==
  ASSUME frame \in Frames \cup {ZeroFrame}
  PROVE  frame \in Picture
<1>1. ZeroFrame \in Picture
  <2>1. 0 \in Byte
    BY DEF Byte
  <2>. QED BY <2>1 DEF ZeroFrame, Picture
<1>. QED BY <1>1, SizeAssumption DEF Picture

(* epd_write() leaves the wires alone. *)
LEMMA StepEpdWrite ==
  ASSUME LinkInv, EpdWrite
  PROVE  LinkInv' /\ [B!Next]_B!bus
<1>0. Types /\ Lined /\ Queued /\ Shifting /\ Apart
  BY DEF LinkInv
<1>1. UNCHANGED <<soft, prog, wires, count, low, latch, on, fifo, panel, status>>
  BY DEF EpdWrite, link
<1>2. Types'
  BY <1>0, <1>1 DEF EpdWrite, Types
<1>3. Lined'
  BY <1>0, <1>1 DEF Lined
<1>4. Queued'
  BY <1>0, <1>1 DEF Queued
<1>5. Shifting'
  BY <1>0, <1>1 DEF Shifting, Head1
<1>6. Apart'
  BY <1>0, <1>1 DEF Apart
<1>7. Remaining = <<>> /\ Remaining' = Remaining
  BY <1>1, CallOver, RemainingIs, RemainingNext DEF EpdWrite
<1>8. B!EpdWrite
  BY <1>1, <1>7 DEF EpdWrite, B!EpdWrite
<1>. QED BY <1>2, <1>3, <1>4, <1>5, <1>6, <1>8 DEF LinkInv, B!Next

(* A call begins, on quiet lines. *)
LEMMA CallStarts ==
  ASSUME NEW x, Moves(soft', Idle, prog', x, Idle),
         soft' \in BOOLEAN, frame' \in Frames \cup {ZeroFrame}, status' \in {"IDLE", "BUSY"}, on' \in BOOLEAN,
         wires' \in [dc : {0, 1}, cs : {0, 1}, sclk : {0, 1}, mosi : {0, 1}],
         fifo' = <<>>, latch' = <<>>, count' = 0, low' = FALSE, soft' => ~on'
  PROVE  LinkInv' /\ Remaining' = x
<1>1. prog' \in Seq(Steps) /\ Bytes(prog') = x /\ Can(soft', prog', wires'.dc, wires'.cs, 0)
  <2>1. wires'.dc \in {0, 1} /\ wires'.cs \in {0, 1}
    OBVIOUS
  <2>. QED BY <2>1, CallBegins
<1>2. Types'
  <2>1. fifo' \in Seq(Meant) /\ latch' \in Seq({0, 1}) /\ Len(latch') = count'
    BY NoneTyped
  <2>2. low' \in BOOLEAN
    BY Zenon
  <2>3. count' \in 0..7
    OBVIOUS
  <2>. QED BY <1>1, <2>1, <2>2, <2>3 DEF Types
<1>3. Lined'
  BY <1>1, NoneTyped DEF Lined
<1>4. Queued'
  BY NoneTyped DEF Queued
<1>5. Shifting'
  BY DEF Shifting
<1>6. Apart'
  BY DEF Apart
<1>7. Remaining' = x
  <2>1. Bytes(prog') \in Seq(Meant)
    BY <1>1, BytesTyped
  <2>. QED BY <1>1, <2>1, WithNone, RemainingNext
<1>. QED BY <1>2, <1>3, <1>4, <1>5, <1>6, <1>7 DEF LinkInv

(* epd_open() and epd_flush() *)
LEMMA StepOpenAndFlush ==
  ASSUME LinkInv, OpenAndFlush
  PROVE  LinkInv' /\ [B!Next]_B!bus
<1>0. Types /\ Lined /\ Queued /\ Shifting /\ Apart
  BY DEF LinkInv
<1>1. fifo = <<>> /\ count = 0 /\ low = FALSE /\ latch = <<>> /\ Remaining = <<>>
  BY CallOver DEF OpenAndFlush
<1>2. soft \in BOOLEAN /\ frame \in Frames \cup {ZeroFrame} /\ on \in BOOLEAN /\ (soft => ~on)
  BY <1>0 DEF Types, Apart
<1>3. frame \in Picture
  BY <1>2, FrameIsPicture
<1>4. PICK cs : cs = IF status = "IDLE" THEN FlushCmds(frame) ELSE <<>>
  OBVIOUS
<1>5. Moves(soft, Idle, prog', B!AllSent(OpenCmds \o cs), Idle)
  <2>1. CASE status = "IDLE"
    BY <1>2, <1>3, <1>4, <2>1, CallsMove DEF OpenAndFlush
  <2>2. CASE status # "IDLE"
    BY <1>2, <1>4, <2>2, CallsMove DEF OpenAndFlush
  <2>. QED BY <2>1, <2>2
<1>6. soft' = soft /\ frame' = frame /\ count' = 0 /\ low' = FALSE /\ status' = "BUSY"
  BY <1>1 DEF OpenAndFlush
<1>7. fifo' = <<>> /\ latch' = <<>> /\ on' \in BOOLEAN /\ (soft' => ~on')
  <2>1. CASE soft
    BY <1>1, <1>2, <1>6, <2>1 DEF OpenAndFlush
  <2>2. CASE ~soft
    BY <1>1, <1>2, <1>6, <2>2 DEF OpenAndFlush
  <2>. QED BY <2>1, <2>2
<1>8. wires' \in [dc : {0, 1}, cs : {0, 1}, sclk : {0, 1}, mosi : {0, 1}]
  <2>1. CASE soft
    BY <2>1 DEF OpenAndFlush, WiresInit
  <2>2. CASE ~soft
    BY <1>0, <2>2 DEF OpenAndFlush, WiresInit, Types
  <2>. QED BY <2>1, <2>2
<1>9. LinkInv' /\ Remaining' = B!AllSent(OpenCmds \o cs)
  <2>1. soft' \in BOOLEAN /\ frame' \in Frames \cup {ZeroFrame} /\ status' \in {"IDLE", "BUSY"}
    BY <1>2, <1>6
  <2>2. Moves(soft', Idle, prog', B!AllSent(OpenCmds \o cs), Idle)
    BY <1>5, <1>6
  <2>. QED BY <1>6, <1>7, <1>8, <2>1, <2>2, CallStarts
<1>10. B!OpenAndFlush
  BY <1>1, <1>4, <1>6, <1>9, SameCalls, SamePanel DEF OpenAndFlush, B!OpenAndFlush
<1>. QED BY <1>9, <1>10 DEF B!Next

(* epd_timer_callback() *)
LEMMA StepEpdTimerEnds ==
  ASSUME LinkInv, EpdTimerEnds
  PROVE  LinkInv' /\ [B!Next]_B!bus
<1>0. Types /\ Lined /\ Queued /\ Shifting /\ Apart
  BY DEF LinkInv
<1>1. fifo = <<>> /\ count = 0 /\ low = FALSE /\ latch = <<>> /\ Remaining = <<>>
  BY CallOver DEF EpdTimerEnds
<1>2. soft \in BOOLEAN /\ frame \in Frames \cup {ZeroFrame} /\ on \in BOOLEAN /\ (soft => ~on)
      /\ wires \in [dc : {0, 1}, cs : {0, 1}, sclk : {0, 1}, mosi : {0, 1}]
  BY <1>0 DEF Types, Apart
<1>3. Moves(soft, Idle, prog', B!AllSent(SleepCmds), Idle)
  BY <1>2, CallsMove DEF EpdTimerEnds
<1>4. /\ soft' = soft /\ frame' = frame /\ wires' = wires /\ latch' = <<>> /\ count' = 0 /\ low' = FALSE
      /\ status' = "IDLE"
  BY <1>1 DEF EpdTimerEnds
<1>5. fifo' = <<>> /\ on' \in BOOLEAN /\ (soft' => ~on')
  <2>1. CASE soft
    BY <1>1, <1>2, <1>4, <2>1 DEF EpdTimerEnds
  <2>2. CASE ~soft
    BY <1>1, <1>2, <1>4, <2>2 DEF EpdTimerEnds
  <2>. QED BY <2>1, <2>2
<1>6. LinkInv' /\ Remaining' = B!AllSent(SleepCmds)
  <2>1. soft' \in BOOLEAN /\ frame' \in Frames \cup {ZeroFrame} /\ status' \in {"IDLE", "BUSY"}
        /\ wires' \in [dc : {0, 1}, cs : {0, 1}, sclk : {0, 1}, mosi : {0, 1}]
    BY <1>2, <1>4
  <2>2. Moves(soft', Idle, prog', B!AllSent(SleepCmds), Idle)
    BY <1>3, <1>4
  <2>. QED BY <1>4, <1>5, <2>1, <2>2, CallStarts
<1>7. B!EpdTimerEnds
  BY <1>1, <1>6, SameCalls DEF EpdTimerEnds, B!EpdTimerEnds
<1>. QED BY <1>6, <1>7 DEF B!Next

(* Power comes back: epd_init(), epd_open() and epd_sleep(). *)
LEMMA StepPowerLoss ==
  ASSUME LinkInv, PowerLoss
  PROVE  LinkInv' /\ [B!Next]_B!bus
<1>1. soft \in BOOLEAN
  BY DEF LinkInv, Types
<1>2. Moves(soft, Idle, prog', B!AllSent(OpenCmds \o SleepCmds), Idle)
  BY <1>1, CallsMove DEF PowerLoss
<1>3. /\ soft' = soft /\ frame' = ZeroFrame /\ fifo' = <<>> /\ latch' = <<>> /\ count' = 0 /\ low' = FALSE
      /\ on' = FALSE /\ status' = "IDLE" /\ wires' = [dc |-> 1, cs |-> 1, sclk |-> 0, mosi |-> 0]
  BY DEF PowerLoss
<1>4. LinkInv' /\ Remaining' = B!AllSent(OpenCmds \o SleepCmds)
  <2>1. soft' \in BOOLEAN /\ frame' \in Frames \cup {ZeroFrame} /\ status' \in {"IDLE", "BUSY"}
    BY <1>1, <1>3
  <2>2. wires' \in [dc : {0, 1}, cs : {0, 1}, sclk : {0, 1}, mosi : {0, 1}]
    BY <1>3
  <2>3. on' \in BOOLEAN /\ (soft' => ~on')
    BY <1>3, Zenon
  <2>4. Moves(soft', Idle, prog', B!AllSent(OpenCmds \o SleepCmds), Idle)
    BY <1>2, <1>3
  <2>. QED BY <1>3, <2>1, <2>2, <2>3, <2>4, CallStarts
<1>5. B!PowerLoss
  BY <1>4, SameCalls, SamePanel DEF PowerLoss, B!PowerLoss
<1>. QED BY <1>4, <1>5 DEF B!Next

(* All steps *)
LEMMA StepLinked == LinkInv /\ [Next]_vars => LinkInv' /\ [B!Next]_B!bus
<1>. SUFFICES ASSUME LinkInv, [Next]_vars PROVE LinkInv' /\ [B!Next]_B!bus
  OBVIOUS
<1>1. CASE SetDc
  BY <1>1, StepSetDc
<1>2. CASE SetCs
  BY <1>2, StepSetCs
<1>3. CASE LowerSclk
  BY <1>3, StepLowerSclk
<1>4. CASE RaiseSclk
  BY <1>4, StepRaiseSclk
<1>5. CASE PutByte
  BY <1>5, StepPutByte
<1>6. CASE SetEnable
  BY <1>6, StepSetEnable
<1>7. CASE WaitBusyBit
  BY <1>7, StepWaitBusyBit
<1>8. CASE SspShifts
  BY <1>8, StepSspShifts
<1>9. CASE EpdWrite
  BY <1>9, StepEpdWrite
<1>10. CASE OpenAndFlush
  BY <1>10, StepOpenAndFlush
<1>11. CASE EpdTimerEnds
  BY <1>11, StepEpdTimerEnds
<1>12. CASE PowerLoss
  BY <1>12, StepPowerLoss
<1>13. CASE UNCHANGED vars
  <2>1. UNCHANGED <<frame, status, panel, soft, prog, wires, count, low, latch, on, fifo>>
    BY <1>13 DEF vars, link
  <2>2. LinkInv'
    BY <2>1 DEF LinkInv, Types, Lined, Queued, Shifting, Head1, Apart
  <2>3. UNCHANGED B!bus
    BY <2>1, RemainingIs, RemainingNext DEF B!bus
  <2>. QED BY <2>2, <2>3
<1>. QED BY <1>1, <1>2, <1>3, <1>4, <1>5, <1>6, <1>7, <1>8, <1>9, <1>10, <1>11, <1>12, <1>13 DEF Next, Processor

(* The invariant holds, and the link is a bus. *)
LEMMA Linked == Spec => []LinkInv /\ B!Spec
<1>1. Init => LinkInv /\ B!Init
  BY InitLinked
<1>2. LinkInv /\ [Next]_vars => LinkInv' /\ [B!Next]_B!bus
  BY StepLinked
<1>. QED BY <1>1, <1>2, PTL DEF Spec, B!Spec

(* The variables have their types, no more waits in the FIFO than is put    *)
(* between two waits, and of the two ways to the panel only one is used    *)
(* (epd_write_cmd() and epd_flush() of ssd1680.c, in both builds).         *)
THEOREM LinkIsTyped == Spec => []TypeOK
<1>1. LinkInv => TypeOK
  <2>. SUFFICES ASSUME LinkInv PROVE TypeOK
    OBVIOUS
  <2>1. Types /\ Lined /\ Apart
    BY DEF LinkInv
  <2>2. Len(fifo) <= FifoBound
    <3>1. PICK a \in Lines : Len(fifo) <= a.n /\ a.n <= FifoBound
      BY <2>1 DEF Lined, Can
    <3>2. a.n \in Nat /\ Len(fifo) \in Nat
      BY <2>1, LenProperties DEF Lines, Types
    <3>. QED BY <3>1, <3>2, FifoBoundIs
  <2>. QED BY <2>1, <2>2 DEF TypeOK, Types, Apart
<1>. QED BY <1>1, Linked, PTL

-----------------------------------------------------------------------------
(***************************************************************************)
(* The theorems.                                                           *)
(***************************************************************************)

(* The bus of PanelLink has the same commands and the same panel. *)
LEMMA BusCalls ==
  /\ Bus!OpenCmds = OpenCmds /\ Bus!SleepCmds = SleepCmds
  /\ \A f : Bus!FlushCmds(f) = FlushCmds(f)
  /\ \A f, mask : Bus!DisplayRam(f, mask) = DisplayRam(f, mask)
  /\ Bus!EpdPartRamSize = EpdPartRamSize /\ Bus!EpdRamSize = EpdRamSize
  /\ Bus!ZeroFrame = ZeroFrame
<1>. USE DEF EpdPartRamSize, EpdRamSize, Bus!EpdPartRamSize, Bus!EpdRamSize
<1>1. \A f, mask : Bus!DisplayRam(f, mask) = DisplayRam(f, mask)
  BY DEF DisplayRam, BitScale, MaskedBit, Pixel, COLOR_MASK_BW,
         Bus!DisplayRam, Bus!BitScale, Bus!MaskedBit, Bus!Pixel, Bus!COLOR_MASK_BW
<1>2. \A c, d : Bus!Cmd(c, d) = Cmd(c, d) /\ Bus!Plane(c, d) = Plane(c, d)
  BY DEF Cmd, Plane, Bus!Cmd, Bus!Plane
<1>3. Bus!OpenCmds = OpenCmds
  BY <1>2 DEF OpenCmds, Bus!OpenCmds,
    SW_RESET, DRIVER_OUTPUT_CTRL, DATA_ENTRY_MODE, SET_RAM_X_ADDR, SET_RAM_Y_ADDR,
    BORDER_WAVEFORM_CTRL, TEMP_SENSOR_CTRL, DISP_UPDATE_CTRL, SET_RAM_X_COUNTER, SET_RAM_Y_COUNTER,
    Bus!SW_RESET, Bus!DRIVER_OUTPUT_CTRL, Bus!DATA_ENTRY_MODE, Bus!SET_RAM_X_ADDR, Bus!SET_RAM_Y_ADDR,
    Bus!BORDER_WAVEFORM_CTRL, Bus!TEMP_SENSOR_CTRL, Bus!DISP_UPDATE_CTRL, Bus!SET_RAM_X_COUNTER, Bus!SET_RAM_Y_COUNTER
<1>4. Bus!SleepCmds = SleepCmds
  BY <1>2 DEF SleepCmds, Bus!SleepCmds, DEEP_SLP_MODE, Bus!DEEP_SLP_MODE
<1>5. \A f : Bus!FlushCmds(f) = FlushCmds(f)
  BY <1>1, <1>2 DEF FlushCmds, Bus!FlushCmds, WRITE_RAM_BW, WRITE_RAM_RED, DISPLAY_UPDATE_CTRL2, MASTER_ACTIVATION,
    COLOR_MASK_BW, COLOR_MASK_RED, Bus!COLOR_MASK_BW, Bus!COLOR_MASK_RED,
    Bus!WRITE_RAM_BW, Bus!WRITE_RAM_RED, Bus!DISPLAY_UPDATE_CTRL2, Bus!MASTER_ACTIVATION
<1>6. Bus!ZeroFrame = ZeroFrame
  BY DEF ZeroFrame, Bus!ZeroFrame
<1>. QED BY <1>1, <1>3, <1>4, <1>5, <1>6

LEMMA BusPanel ==
  /\ Bus!PoweredOff = PoweredOff
  /\ \A p : Bus!HardwareReset(p) = HardwareReset(p) /\ Bus!Unpowered(p) = Unpowered(p)
  /\ \A p, v, b : Bus!PanelTakes(p, v, b) = PanelTakes(p, v, b)
<1>0. Bus!Registers = Registers /\ Bus!NoRam = NoRam /\ Bus!Lost = Lost
  BY DEF Registers, NoRam, Cell, Lost, Bus!Registers, Bus!NoRam, Bus!Cell, Bus!Lost
<1>1. Bus!PoweredOff = PoweredOff
  BY <1>0 DEF PoweredOff, Bus!PoweredOff
<1>2. \A p : Bus!HardwareReset(p) = HardwareReset(p) /\ Bus!Unpowered(p) = Unpowered(p)
  BY <1>0, <1>1 DEF HardwareReset, Bus!HardwareReset, Unpowered, Bus!Unpowered
<1>3. \A r : Bus!Stepped(r) = Stepped(r)
  BY DEF Stepped, Bus!Stepped
<1>4. \A r, b : Bus!High(r, b) = High(r, b)
  BY DEF High, Bus!High
<1>5. \A p, b : Bus!TakesCommand(p, b) = TakesCommand(p, b)
  BY <1>0 DEF TakesCommand, Bus!TakesCommand, SW_RESET, MASTER_ACTIVATION, Bus!SW_RESET, Bus!MASTER_ACTIVATION
<1>6. \A p, b : Bus!TakesData(p, b) = TakesData(p, b)
  BY DEF TakesData, Bus!TakesData, Stepped, Bus!Stepped, High, Bus!High, NoRam, Bus!NoRam, Cell, Bus!Cell, Lost, Bus!Lost,
    WRITE_RAM_BW, WRITE_RAM_RED, SET_RAM_X_ADDR, SET_RAM_Y_ADDR, SET_RAM_X_COUNTER, SET_RAM_Y_COUNTER, DEEP_SLP_MODE,
    Bus!WRITE_RAM_BW, Bus!WRITE_RAM_RED, Bus!SET_RAM_X_ADDR, Bus!SET_RAM_Y_ADDR, Bus!SET_RAM_X_COUNTER, Bus!SET_RAM_Y_COUNTER, Bus!DEEP_SLP_MODE
<1>7. \A p, v, b : Bus!PanelTakes(p, v, b) = PanelTakes(p, v, b)
  BY <1>5, <1>6 DEF PanelTakes, Bus!PanelTakes
<1>. QED BY <1>1, <1>2, <1>7

LEMMA BusShows == \A s, f : Bus!Shows(s, f) = Shows(s, f)
<1>1. \A f, p : Bus!Pixel(f, p) = Pixel(f, p)
  BY DEF Pixel, Bus!Pixel
<1>2. \A s, p : Bus!ShownColor(s, p) = ShownColor(s, p)
  BY DEF ShownColor, Bus!ShownColor
<1>3. \A x : Bus!Color(x) = Color(x)
  BY DEF Color, Bus!Color
<1>. QED BY <1>1, <1>2, <1>3 DEF Shows, Bus!Shows, EpdPartRamSize, EpdRamSize, Bus!EpdPartRamSize, Bus!EpdRamSize

(* The bus that was proved of is the bus of PanelLink. *)
LEMMA BusIsB == B!Spec => Bus!Spec
<1>1. \A ts : Bus!AllSent(ts) = B!AllSent(ts)
  BY DEF Bus!AllSent, B!AllSent, Bus!Sent, B!Sent, Bus!FlattenSeq, B!FlattenSeq
<1>2. B!Init => Bus!Init
  BY <1>1, SameCalls, SamePanel, BusCalls, BusPanel DEF B!Init, Bus!Init
<1>3. [B!Next]_B!bus => [Bus!Next]_Bus!bus
  <2>. SUFFICES ASSUME [B!Next]_B!bus PROVE [Bus!Next]_Bus!bus
    OBVIOUS
  <2>1. CASE B!Delivers
    BY <2>1, SamePanel, BusPanel DEF B!Delivers, Bus!Delivers, Bus!Next
  <2>2. CASE B!EpdWrite
    BY <2>2 DEF B!EpdWrite, Bus!EpdWrite, Bus!Next
  <2>3. CASE B!OpenAndFlush
    BY <2>3, <1>1, SameCalls, SamePanel, BusCalls, BusPanel DEF B!OpenAndFlush, Bus!OpenAndFlush, Bus!Next
  <2>4. CASE B!EpdTimerEnds
    BY <2>4, <1>1, SameCalls, BusCalls DEF B!EpdTimerEnds, Bus!EpdTimerEnds, Bus!Next
  <2>5. CASE B!PowerLoss
    BY <2>5, <1>1, SameCalls, SamePanel, BusCalls, BusPanel DEF B!PowerLoss, Bus!PowerLoss, Bus!Next
  <2>6. CASE UNCHANGED B!bus
    BY <2>6 DEF B!bus, Bus!bus
  <2>. QED BY <2>1, <2>2, <2>3, <2>4, <2>5, <2>6 DEF B!Next
<1>. QED BY <1>2, <1>3, PTL DEF B!Spec, Bus!Spec

(* In both builds every byte that the driver sends arrives once, in order, *)
(* complete, and as the command or the data it was meant to be             *)
(* (softspi_write(), epd_write_cmd(), epd_flush()): the wires implement    *)
(* the bus, for every size of panel and every picture.                     *)
THEOREM LinkImplementsBus == Spec => ImplementsPanelBus
BY Linked, BusIsB, PTL DEF ImplementsPanelBus

(* When a call of a busy driver is over and its bytes have gone over the   *)
(* wires, the panel shows the frame buffer (epd_open() and epd_flush()).   *)
THEOREM PictureAlwaysArrives == Spec => []PictureArrives
<1>1. B!PictureArrives => PictureArrives
  BY SameShows, BusShows DEF B!PictureArrives, PictureArrives, Bus!PictureArrives
<1>2. B!Spec => []B!PictureArrives
  BY BusSizes, B!PictureAlwaysArrives
<1>. QED BY Linked, <1>1, <1>2, PTL

(* When a call of an idle driver is over and its bytes have gone over the  *)
(* wires, the panel is in deep sleep (epd_sleep()).                        *)
THEOREM IdleAlwaysSleeps == Spec => []IdleSleeps
<1>1. B!IdleSleeps => IdleSleeps
  BY DEF B!IdleSleeps, IdleSleeps, Bus!IdleSleeps
<1>2. B!Spec => []B!IdleSleeps
  BY BusSizes, B!IdleAlwaysSleeps
<1>. QED BY Linked, <1>1, <1>2, PTL
=============================================================================
