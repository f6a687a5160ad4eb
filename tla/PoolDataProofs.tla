---------------------------- MODULE PoolDataProofs ----------------------------
(***************************************************************************)
(* Proofs about PoolData: what finished calls wrote is what files read as, *)
(* on every replica, for any disks, files, payloads and faults, until a    *)
(* restart has lost the end of the data or a power loss that of the log.   *)
(*                                                                         *)
(* The first part is about what the model computes with recursive          *)
(* functions: the content of a file out of its pieces, and the positions   *)
(* at which the recovery scan stops.  Both need induction, which is had    *)
(* from the library's theorem that < is well-founded on Nat.               *)
(***************************************************************************)
EXTENDS PoolData, SequenceTheorems, WellFoundedInduction, TLAPS

(* The clock of a prover also runs while the next obligation is prepared.   *)
USE SMTT(20)

(* What a cell may hold: a byte, a header or neither.                       *)
Data      == [kind : {"byte"}, write : Nat]
Headers   == [kind : {"header"}, bytes : Seq(Data)]
CellValue == Data \cup Headers \cup {Garbage}

(* Induction over the natural numbers, for a set instead of a predicate.    *)
LEMMA SetInduction ==
  ASSUME NEW S, 0 \in S, \A n \in Nat : n \in S => n + 1 \in S
  PROVE  Nat \subseteq S
<1> DEFINE T == Nat \ S
           R == OpToRel(<, Nat)
<1> SUFFICES ASSUME T # {} PROVE FALSE
  BY Zenon
<1>1. IsWellFoundedOn(R, Nat)
  BY Zenon, NatLessThanWellFounded
<1>2. \A x, y \in Nat : x < y => <<x, y>> \in R
  BY Zenon DEF OpToRel
<1> HIDE DEF R
<1>3. PICK x \in T : \A y \in T : ~(<<y, x>> \in R)
  BY Zenon, <1>1, WFMin
<1>4. x - 1 \in Nat
  BY <1>3
<1>5. <<x - 1, x>> \in R
  BY <1>2, <1>3, <1>4
<1>6. x - 1 \in S
  BY Zenon, <1>3, <1>4, <1>5
<1> QED BY <1>3, <1>4, <1>6

(* g takes the step F from each value to the next, n times from base on.    *)
Iterates(g, n, S, base, F) ==
    /\ g \in [0 .. n -> S]
    /\ g[0] = base
    /\ \A i \in 1 .. n : g[i] = F[<<i, g[i - 1]>>]

LEMMA FiniteRecursion ==
  ASSUME NEW n \in Nat, NEW S, NEW base \in S, NEW F \in [(1 .. n) \X S -> S]
  PROVE  \E g : Iterates(g, n, S, base, F)
<1> DEFINE Upto(g, k) == /\ g \in [0 .. k -> S]
                         /\ g[0] = base
                         /\ \A i \in 1 .. k : g[i] = F[<<i, g[i - 1]>>]
           I == {k \in Nat : k <= n => \E g : Upto(g, k)}
<1>1. 0 \in I
  <2>1. Upto([i \in 0 .. 0 |-> base], 0)
    OBVIOUS
  <2> QED BY Zenon, <2>1
<1>2. ASSUME NEW k \in Nat, k \in I PROVE k + 1 \in I
  <2> SUFFICES ASSUME k + 1 <= n PROVE \E g : Upto(g, k + 1)
    OBVIOUS
  <2>1. PICK g : Upto(g, k)
    BY <1>2
  <2> DEFINE h == [i \in 0 .. k + 1 |-> IF i = k + 1 THEN F[<<k + 1, g[k]>>] ELSE g[i]]
  <2>2. F[<<k + 1, g[k]>>] \in S
    BY <2>1
  <2>3. h \in [0 .. k + 1 -> S] /\ h[0] = base
    BY <2>1, <2>2
  <2>4. ASSUME NEW i \in 1 .. k + 1 PROVE h[i] = F[<<i, h[i - 1]>>]
    <3>1. i - 1 \in 0 .. k /\ h[i - 1] = g[i - 1]
      OBVIOUS
    <3>2. CASE i = k + 1
      <4>1. h[i] = F[<<k + 1, g[k]>>] /\ i - 1 = k
        BY <3>2
      <4> QED BY Zenon, <3>1, <3>2, <4>1
    <3>3. CASE i # k + 1
      <4>1. i \in 1 .. k /\ h[i] = g[i]
        BY <3>3
      <4> QED BY Zenon, <3>1, <4>1, <2>1
    <3> QED BY Zenon, <3>2, <3>3
  <2>5. Upto(h, k + 1)
    BY Zenon, <2>3, <2>4
  <2> QED BY Zenon, <2>5
<1>3. Nat \subseteq I
  <2>1. \A k \in Nat : k \in I => k + 1 \in I
    BY Zenon, <1>2
  <2> HIDE DEF I
  <2> QED BY Zenon, <1>1, <2>1, SetInduction
<1>4. PICK g : Upto(g, n)
  BY <1>3
<1> QED BY Zenon, <1>4 DEF Iterates

-----------------------------------------------------------------------------
(* FlattenSeq, one sequence after another.                                  *)

(* g[i] is the concatenation of the first i of the n sequences s.           *)
FlatUpto(s, n, g) == g = [i \in 1 .. n |-> IF i = 1 THEN s[i] ELSE g[i - 1] \o s[i]]
Concats(s, n, g)  == g[1] = s[1] /\ \A i \in 2 .. n : g[i] = g[i - 1] \o s[i]
Begins(s, n, t)   == \A i \in 1 .. n : s[i] = t[i]

LEMMA FlatUptoConcats ==
  ASSUME NEW n \in Nat \ {0}, NEW s, NEW g, FlatUpto(s, n, g)
  PROVE  Concats(s, n, g)
<1>1. \A i \in 1 .. n : g[i] = IF i = 1 THEN s[i] ELSE g[i - 1] \o s[i]
  BY Zenon DEF FlatUpto
<1>2. g[1] = s[1]
  BY <1>1
<1>3. ASSUME NEW i \in 2 .. n PROVE g[i] = g[i - 1] \o s[i]
  <2>1. i \in 1 .. n /\ i # 1
    OBVIOUS
  <2> QED BY Zenon, <1>1, <2>1
<1> QED BY Zenon, <1>2, <1>3 DEF Concats

LEMMA FlattenExists ==
  ASSUME NEW S, NEW s \in Seq(Seq(S))
  PROVE  \E g : FlatUpto(s, Len(s), g) /\ g \in [1 .. Len(s) -> Seq(S)]
<1> DEFINE n == Len(s)
           T == Seq(S)
           F == [x \in (1 .. n) \X T |-> x[2] \o s[x[1]]]
<1>0. n \in Nat /\ \A i \in 1 .. n : s[i] \in T
  OBVIOUS
<1>c. /\ <<>> \in T
      /\ \A x, y \in T : x \o y \in T
      /\ \A x \in T : <<>> \o x = x
  BY ConcatEmptySeq
<1> HIDE DEF n, T
<1>1. F \in [(1 .. n) \X T -> T]
  BY Zenon, <1>0, <1>c
<1>2. \A i \in 1 .. n, x \in T : F[<<i, x>>] = x \o s[i]
  BY Zenon
<1> HIDE DEF F
<1>3. PICK g : Iterates(g, n, T, <<>>, F)
  BY Zenon, <1>0, <1>1, <1>c, FiniteRecursion
<1>t. g \in [0 .. n -> T] /\ g[0] = <<>> /\ \A i \in 1 .. n : g[i] = F[<<i, g[i - 1]>>]
  BY Zenon, <1>3 DEF Iterates
<1> DEFINE h == [i \in 1 .. n |-> g[i]]
<1>4. h \in [1 .. n -> T]
  BY <1>0, <1>t
<1>5. ASSUME NEW i \in 1 .. n
      PROVE  h[i] = IF i = 1 THEN s[i] ELSE h[i - 1] \o s[i]
  <2>1. i - 1 \in 0 .. n /\ g[i - 1] \in T
    BY <1>0, <1>t
  <2>2. h[i] = g[i - 1] \o s[i]
    BY Zenon, <1>t, <1>2, <2>1
  <2>3. CASE i = 1
    <3>1. g[i - 1] = <<>> /\ s[i] \in T
      BY <2>3, <1>t, <1>0
    <3>2. h[i] = s[i]
      BY Zenon, <2>2, <3>1, <1>c
    <3> QED BY Zenon, <2>3, <3>2
  <2>4. CASE i # 1
    <3>1. i - 1 \in 1 .. n
      BY <1>0, <2>4
    <3> QED BY Zenon, <2>2, <2>4, <3>1
  <2> QED BY Zenon, <2>3, <2>4
<1>6. FlatUpto(s, Len(s), h)
  <2>1. h = [i \in 1 .. n |-> IF i = 1 THEN s[i] ELSE h[i - 1] \o s[i]]
    BY Zenon, <1>5
  <2> HIDE DEF h
  <2> QED BY Zenon, <2>1 DEF FlatUpto, n
<1> HIDE DEF h
<1> QED BY Zenon, <1>4, <1>6 DEF n, T

(* Concatenations of sequences that begin alike begin alike.                *)
LEMMA FlattenAgree ==
  ASSUME NEW m \in Nat, NEW n \in Nat, m <= n, NEW s, NEW t, NEW g, NEW h,
         Concats(s, m, g), Concats(t, n, h), Begins(s, m, t)
  PROVE  Begins(g, m, h)
<1>0. /\ g[1] = s[1] /\ \A i \in 2 .. m : g[i] = g[i - 1] \o s[i]
      /\ h[1] = t[1] /\ \A i \in 2 .. n : h[i] = h[i - 1] \o t[i]
      /\ \A i \in 1 .. m : s[i] = t[i]
  BY Zenon DEF Concats, Begins
<1> DEFINE I == {k \in Nat : k \in 1 .. m => g[k] = h[k]}
<1>1. 0 \in I
  OBVIOUS
<1>2. ASSUME NEW k \in Nat, k \in I, k + 1 \in 1 .. m PROVE g[k + 1] = h[k + 1]
  <2>1. CASE k = 0
    BY <1>0, <1>2, <2>1
  <2>2. CASE k # 0
    <3>1. k \in 1 .. m /\ k + 1 \in 2 .. m /\ k + 1 \in 2 .. n /\ (k + 1) - 1 = k
      BY <1>2, <2>2
    <3>2. g[k] = h[k] /\ s[k + 1] = t[k + 1]
      BY Zenon, <1>0, <1>2, <3>1
    <3>3. g[k + 1] = g[k] \o s[k + 1] /\ h[k + 1] = h[k] \o t[k + 1]
      BY Zenon, <1>0, <3>1
    <3> QED BY Zenon, <3>2, <3>3
  <2> QED BY Zenon, <2>1, <2>2
<1>3. Nat \subseteq I
  <2>1. \A k \in Nat : k \in I => k + 1 \in I
    BY <1>2
  <2> HIDE DEF I
  <2> QED BY Zenon, <1>1, <2>1, SetInduction
<1> QED BY <1>3 DEF Begins

(* The definition of FlattenSeq has a value, and it is that concatenation.  *)
LEMMA FlattenIs ==
  ASSUME NEW S, NEW s \in Seq(Seq(S)), s # <<>>
  PROVE  /\ Len(s) \in Nat \ {0}
         /\ \E g : /\ Concats(s, Len(s), g)
                  /\ FlattenSeq(s) = g[Len(s)]
                  /\ FlattenSeq(s) \in Seq(S)
<1> DEFINE g == CHOOSE g : FlatUpto(s, Len(s), g)
<1>0. Len(s) \in Nat \ {0}
  OBVIOUS
<1>1. PICK h : FlatUpto(s, Len(s), h) /\ h \in [1 .. Len(s) -> Seq(S)]
  BY Zenon, FlattenExists
<1>2. FlatUpto(s, Len(s), g)
  BY Zenon, <1>1
<1>3. FlattenSeq(s) = g[Len(s)]
  BY Zenon, <1>0 DEF FlattenSeq, FlatUpto
<1> HIDE DEF g
<1>4. Concats(s, Len(s), g) /\ Concats(s, Len(s), h)
  BY Zenon, <1>0, <1>1, <1>2, FlatUptoConcats
<1>5. Begins(g, Len(s), h)
  <2>1. Begins(s, Len(s), s) /\ Len(s) <= Len(s)
    BY <1>0 DEF Begins
  <2> QED BY Zenon, <1>0, <1>4, <2>1, FlattenAgree
<1>6. g[Len(s)] = h[Len(s)] /\ h[Len(s)] \in Seq(S)
  BY <1>0, <1>1, <1>5 DEF Begins
<1> QED BY Zenon, <1>0, <1>3, <1>4, <1>6

LEMMA FlattenType ==
  ASSUME NEW S, NEW s \in Seq(Seq(S))
  PROVE  FlattenSeq(s) \in Seq(S)
<1>1. CASE s = <<>>
  BY <1>1 DEF FlattenSeq
<1>2. CASE s # <<>>
  BY Zenon, <1>2, FlattenIs
<1> QED BY Zenon, <1>1, <1>2

LEMMA FlattenAppend ==
  ASSUME NEW S, NEW s \in Seq(Seq(S)), NEW x \in Seq(S)
  PROVE  FlattenSeq(Append(s, x)) = FlattenSeq(s) \o x
<1> DEFINE t == Append(s, x)
           n == Len(s)
<1>1. /\ t \in Seq(Seq(S)) /\ t # <<>> /\ Len(t) = n + 1 /\ t[n + 1] = x /\ n \in Nat
      /\ \A i \in 1 .. n : s[i] = t[i]
  BY AppendProperties
<1> HIDE DEF t
<1>2. PICK h : Concats(t, n + 1, h) /\ FlattenSeq(t) = h[n + 1]
  BY Zenon, <1>1, FlattenIs
<1>4. CASE s = <<>>
  <2>1. FlattenSeq(s) = <<>> /\ n = 0
    BY Zenon, <1>4 DEF FlattenSeq
  <2>2. <<>> \o x = x
    BY Zenon, ConcatEmptySeq
  <2>3. h[n + 1] = t[n + 1]
    BY <1>2, <2>1 DEF Concats
  <2> QED BY Zenon, <2>1, <2>2, <2>3, <1>1, <1>2 DEF t
<1>5. CASE s # <<>>
  <2>1. PICK g : Concats(s, n, g) /\ FlattenSeq(s) = g[n]
    BY Zenon, <1>5, FlattenIs
  <2>2. n \in Nat \ {0}
    BY <1>5
  <2>3. Begins(s, n, t)
    BY Zenon, <1>1 DEF Begins
  <2> HIDE DEF n
  <2>4. Begins(g, n, h)
    BY <1>1, <1>2, <2>1, <2>2, <2>3, FlattenAgree
  <2>5. h[n] = FlattenSeq(s)
    BY <2>1, <2>2, <2>4 DEF Begins
  <2>6. h[n + 1] = h[n] \o t[n + 1]
    <3>1. n + 1 \in 2 .. n + 1 /\ (n + 1) - 1 = n
      BY <2>2
    <3>2. \A i \in 2 .. n + 1 : h[i] = h[i - 1] \o t[i]
      BY Zenon, <1>2 DEF Concats
    <3> QED BY Zenon, <3>1, <3>2
  <2> QED BY Zenon, <1>1, <1>2, <2>5, <2>6 DEF t
<1> QED BY Zenon, <1>4, <1>5

SameLengths(s, n, t, S) ==
    \A i \in 1 .. n : s[i] \in Seq(S) /\ t[i] \in Seq(S) /\ Len(s[i]) = Len(t[i])

LEMMA ConcatsLen ==
  ASSUME NEW S, NEW n \in Nat \ {0}, NEW s, NEW t, NEW g, NEW h,
         SameLengths(s, n, t, S), Concats(s, n, g), Concats(t, n, h)
  PROVE  Len(g[n]) = Len(h[n])
<1> DEFINE Same(k) == g[k] \in Seq(S) /\ h[k] \in Seq(S) /\ Len(g[k]) = Len(h[k])
           I == {k \in Nat : k \in 1 .. n => Same(k)}
<1>0. /\ g[1] = s[1] /\ \A i \in 2 .. n : g[i] = g[i - 1] \o s[i]
      /\ h[1] = t[1] /\ \A i \in 2 .. n : h[i] = h[i - 1] \o t[i]
      /\ \A i \in 1 .. n : s[i] \in Seq(S) /\ t[i] \in Seq(S) /\ Len(s[i]) = Len(t[i])
  BY Zenon DEF Concats, SameLengths
<1>1. 0 \in I
  OBVIOUS
<1>2. ASSUME NEW k \in Nat, k \in I, k + 1 \in 1 .. n PROVE Same(k + 1)
  <2>1. CASE k = 0
    BY <1>0, <1>2, <2>1
  <2>2. CASE k # 0
    <3>1. k \in 1 .. n /\ k + 1 \in 2 .. n /\ (k + 1) - 1 = k
      BY <1>2, <2>2
    <3>2. Same(k)
      BY Zenon, <1>2, <3>1
    <3>3. g[k + 1] = g[k] \o s[k + 1] /\ h[k + 1] = h[k] \o t[k + 1]
      BY Zenon, <1>0, <3>1
    <3>4. /\ s[k + 1] \in Seq(S) /\ t[k + 1] \in Seq(S)
          /\ Len(s[k + 1]) = Len(t[k + 1])
      BY Zenon, <1>0, <1>2
    <3>5. /\ g[k] \o s[k + 1] \in Seq(S) /\ h[k] \o t[k + 1] \in Seq(S)
          /\ Len(g[k] \o s[k + 1]) = Len(g[k]) + Len(s[k + 1])
          /\ Len(h[k] \o t[k + 1]) = Len(h[k]) + Len(t[k + 1])
      BY Zenon, <3>2, <3>4, ConcatProperties
    <3> QED BY Zenon, <3>2, <3>3, <3>4, <3>5
  <2> QED BY Zenon, <2>1, <2>2
<1>3. Nat \subseteq I
  <2>1. \A k \in Nat : k \in I => k + 1 \in I
    BY <1>2
  <2> HIDE DEF I
  <2> QED BY Zenon, <1>1, <2>1, SetInduction
<1> QED BY <1>3

LEMMA FlattenLen ==
  ASSUME NEW S, NEW s \in Seq(Seq(S)), NEW t \in Seq(Seq(S)), Len(s) = Len(t),
         SameLengths(s, Len(s), t, S)
  PROVE  Len(FlattenSeq(s)) = Len(FlattenSeq(t))
<1>1. CASE s = <<>>
  <2>1. t = <<>>
    BY <1>1
  <2> QED BY Zenon, <1>1, <2>1
<1>2. CASE s # <<>>
  <2>1. t # <<>>
    BY <1>2
  <2>2. PICK g : Concats(s, Len(s), g) /\ FlattenSeq(s) = g[Len(s)]
    BY Zenon, <1>2, FlattenIs
  <2>3. PICK h : Concats(t, Len(s), h) /\ FlattenSeq(t) = h[Len(s)]
    BY Zenon, <2>1, FlattenIs
  <2>4. Len(s) \in Nat \ {0}
    BY <1>2
  <2>5. Len(g[Len(s)]) = Len(h[Len(s)])
    BY <2>2, <2>3, <2>4, ConcatsLen
  <2> QED BY Zenon, <2>2, <2>3, <2>5
<1> QED BY Zenon, <1>1, <1>2

-----------------------------------------------------------------------------
(* The recovery scan.  Its stops are the least set of cells that holds the  *)
(* first one and what lies behind each record that starts at one of them.   *)
Row == [Cell -> CellValue]

After(row, c) == c + 1 + Len(row[c].bytes)

RecordIn(row, c) ==
    /\ c + 1 <= SegmentCells
    /\ row[c].kind = "header"
    /\ After(row, c) <= SegmentCells
    /\ \A i \in 1 .. Len(row[c].bytes) : row[c + i] = row[c].bytes[i]

Follows(row, S) == \A c \in S : RecordIn(row, c) => After(row, c) \in S

Stops(row, from) ==
    {c \in 0 .. MaxCells : \A S \in SUBSET (0 .. MaxCells) : from \in S /\ Follows(row, S) => c \in S}

LEMMA CellKinds ==
  ASSUME NEW v \in CellValue
  PROVE  v.kind = "header" => v.bytes \in Seq(Data) /\ Len(v.bytes) \in Nat
<1>1. CASE v \in Data
  BY Zenon, <1>1 DEF Data
<1>2. CASE v \in Headers
  BY <1>2 DEF Headers
<1>3. CASE v = Garbage
  BY Zenon, <1>3 DEF Garbage
<1> QED BY Zenon, <1>1, <1>2, <1>3 DEF CellValue

LEMMA Bounds == MaxCells \in Nat /\ SegmentCells \in Nat /\ SegmentCells <= MaxCells
BY Zenon, PoolAssumption

(* The scan goes forward and stays inside the segment.                      *)
LEMMA AfterIsBehind ==
  ASSUME NEW row \in Row, NEW c \in 0 .. MaxCells, RecordIn(row, c)
  PROVE  c \in Cell /\ After(row, c) \in 0 .. MaxCells /\ c < After(row, c)
<1>1. c \in Cell
  BY Bounds DEF RecordIn, Cell
<1>2. Len(row[c].bytes) \in Nat
  BY Zenon, <1>1, CellKinds DEF RecordIn, Row
<1>3. c + 1 + Len(row[c].bytes) <= SegmentCells
  BY Zenon DEF RecordIn, After
<1> DEFINE l == Len(row[c].bytes)
<1>4. l \in Nat /\ c + 1 + l <= SegmentCells
  BY Zenon, <1>2, <1>3
<1> HIDE DEF l
<1>5. c + 1 + l \in 0 .. MaxCells /\ c < c + 1 + l
  BY <1>4, Bounds
<1> QED BY Zenon, <1>1, <1>5 DEF After, l

LEMMA StopsFollow ==
  ASSUME NEW row \in Row, NEW c \in 0 .. MaxCells
  PROVE  c \in Stops(row, c) /\ Follows(row, Stops(row, c))
<1>1. c \in Stops(row, c)
  BY Zenon DEF Stops
<1>2. ASSUME NEW x \in Stops(row, c), RecordIn(row, x) PROVE After(row, x) \in Stops(row, c)
  <2>1. x \in 0 .. MaxCells
    BY Zenon DEF Stops
  <2>2. After(row, x) \in 0 .. MaxCells
    BY Zenon, <1>2, <2>1, AfterIsBehind
  <2>3. ASSUME NEW S \in SUBSET (0 .. MaxCells), c \in S, Follows(row, S)
        PROVE  After(row, x) \in S
    <3>1. x \in S
      BY Zenon, <2>3 DEF Stops
    <3> QED BY Zenon, <1>2, <2>3, <3>1 DEF Follows
  <2> QED BY Zenon, <2>2, <2>3 DEF Stops
<1> QED BY Zenon, <1>1, <1>2 DEF Follows

LEMMA StopsIn ==
  ASSUME NEW row, NEW c, NEW S \in SUBSET (0 .. MaxCells), c \in S, Follows(row, S)
  PROVE  Stops(row, c) \subseteq S
BY Zenon DEF Stops

(* The equation the model's scan is defined by.                             *)
LEMMA StopsEquation ==
  ASSUME NEW row \in Row, NEW c \in 0 .. MaxCells
  PROVE  Stops(row, c) =
           {c} \cup (IF RecordIn(row, c) THEN Stops(row, After(row, c)) ELSE {})
<1> DEFINE a == After(row, c)
           S == {c} \cup (IF RecordIn(row, c) THEN Stops(row, a) ELSE {})
<1>1. c \in Stops(row, c) /\ Follows(row, Stops(row, c))
  BY Zenon, StopsFollow
<1>2. Stops(row, c) \in SUBSET (0 .. MaxCells)
  BY Zenon DEF Stops
<1>3. CASE ~RecordIn(row, c)
  <2>1. {c} \in SUBSET (0 .. MaxCells) /\ Follows(row, {c})
    BY Zenon, <1>3 DEF Follows
  <2>2. Stops(row, c) \subseteq {c}
    BY Zenon, <2>1, StopsIn
  <2> QED BY Zenon, <1>1, <1>3, <2>2
<1>4. CASE RecordIn(row, c)
  <2>1. a \in 0 .. MaxCells
    BY Zenon, <1>4, AfterIsBehind
  <2> HIDE DEF a
  <2>2. a \in Stops(row, a) /\ Follows(row, Stops(row, a))
    BY Zenon, <2>1, StopsFollow
  <2>3. a \in Stops(row, c)
    BY Zenon, <1>1, <1>4 DEF Follows, a
  <2>4. Stops(row, a) \subseteq Stops(row, c)
    BY Zenon, <1>1, <1>2, <2>3, StopsIn
  <2> DEFINE T == {c} \cup Stops(row, a)
  <2>5. T \in SUBSET (0 .. MaxCells) /\ c \in T
    BY Zenon, <1>2, <2>4
  <2>6. Follows(row, T)
    BY Zenon, <2>2 DEF Follows, a
  <2>7. Stops(row, c) \subseteq T
    <3> HIDE DEF T
    <3> QED BY Zenon, <2>5, <2>6, StopsIn
  <2>8. Stops(row, c) = T
    BY Zenon, <1>1, <2>4, <2>7
  <2> QED BY Zenon, <1>4, <2>8 DEF a
<1> QED BY Zenon, <1>3, <1>4

ScanFrom(row, g) ==
    g = [c \in 0 .. MaxCells |-> {c} \cup (IF RecordIn(row, c) THEN g[After(row, c)] ELSE {})]

LEMMA ScanFromIs ==
  ASSUME NEW row \in Row, NEW g, ScanFrom(row, g)
  PROVE  \A c \in 0 .. MaxCells : g[c] = Stops(row, c)
<1> DEFINE I == {k \in Nat : \A c \in 0 .. MaxCells : MaxCells - k <= c => g[c] = Stops(row, c)}
<1>0. \A c \in 0 .. MaxCells :
          g[c] = {c} \cup (IF RecordIn(row, c) THEN g[After(row, c)] ELSE {})
  BY Zenon DEF ScanFrom
<1>1. ASSUME NEW c \in 0 .. MaxCells,
             \A x \in 0 .. MaxCells : c < x => g[x] = Stops(row, x)
      PROVE  g[c] = Stops(row, c)
  <2>1. CASE RecordIn(row, c)
    <3>1. After(row, c) \in 0 .. MaxCells /\ c < After(row, c)
      BY Zenon, <2>1, AfterIsBehind
    <3>2. g[After(row, c)] = Stops(row, After(row, c))
      BY Zenon, <1>1, <3>1
    <3> QED BY Zenon, <1>0, <2>1, <3>2, StopsEquation
  <2>2. CASE ~RecordIn(row, c)
    BY Zenon, <1>0, <2>2, StopsEquation
  <2> QED BY Zenon, <2>1, <2>2
<1>2. 0 \in I
  BY <1>1, Bounds
<1>3. ASSUME NEW k \in Nat, k \in I PROVE k + 1 \in I
  <2> SUFFICES ASSUME NEW c \in 0 .. MaxCells, MaxCells - (k + 1) <= c PROVE g[c] = Stops(row, c)
    OBVIOUS
  <2>1. \A x \in 0 .. MaxCells : c < x => MaxCells - k <= x
    BY Bounds
  <2>2. \A x \in 0 .. MaxCells : c < x => g[x] = Stops(row, x)
    BY Zenon, <1>3, <2>1
  <2> QED BY Zenon, <1>1, <2>2
<1>4. Nat \subseteq I
  <2>1. \A k \in Nat : k \in I => k + 1 \in I
    BY Zenon, <1>3
  <2> HIDE DEF I
  <2> QED BY Zenon, <1>2, <2>1, SetInduction
<1>5. MaxCells \in I
  BY Zenon, <1>4, Bounds
<1> QED BY <1>5, Bounds

(* ScanStops, a recursive function, is the least set.                       *)
LEMMA ScanIs ==
  ASSUME NEW d \in Disks, cells[d] \in Row
  PROVE  ScanStops(d) = Stops(cells[d], 0)
<1> DEFINE row == cells[d]
           g == CHOOSE g : ScanFrom(row, g)
<1>1. ScanStops(d) = g[0]
  BY Zenon DEF ScanStops, ScanFrom, RecordAt, RecordIn, After
<1>2. ScanFrom(row, [c \in 0 .. MaxCells |-> Stops(row, c)])
  <2>1. ASSUME NEW c \in 0 .. MaxCells
        PROVE  Stops(row, c) = {c} \cup (IF RecordIn(row, c)
                 THEN [x \in 0 .. MaxCells |-> Stops(row, x)][After(row, c)] ELSE {})
    <3>1. RecordIn(row, c) => After(row, c) \in 0 .. MaxCells
      BY Zenon, AfterIsBehind
    <3> QED BY Zenon, <3>1, StopsEquation
  <2> QED BY Zenon, <2>1 DEF ScanFrom
<1>3. ScanFrom(row, g)
  BY Zenon, <1>2
<1> HIDE DEF g
<1>4. 0 \in 0 .. MaxCells
  BY Bounds
<1> QED BY Zenon, <1>1, <1>3, <1>4, ScanFromIs

LEMMA Greatest ==
  ASSUME NEW n \in Nat, NEW T \in SUBSET (0 .. n), T # {}
  PROVE  Max(T) \in T /\ \A x \in T : x <= Max(T)
<1> DEFINE I == {k \in Nat : \A U \in SUBSET (0 .. k) : U # {} => \E x \in U : \A y \in U : x >= y}
<1>1. 0 \in I
  <2> SUFFICES ASSUME NEW U \in SUBSET (0 .. 0), U # {}
               PROVE  \E x \in U : \A y \in U : x >= y
    BY Zenon
  <2>1. \A y \in U : y = 0
    OBVIOUS
  <2>2. PICK z : z \in U
    BY Zenon
  <2>3. 0 \in U
    BY Zenon, <2>1, <2>2
  <2> QED BY <2>1, <2>3
<1>2. ASSUME NEW k \in Nat, k \in I PROVE k + 1 \in I
  <2> SUFFICES ASSUME NEW U \in SUBSET (0 .. k + 1), U # {}
               PROVE  \E x \in U : \A y \in U : x >= y
    OBVIOUS
  <2>1. CASE k + 1 \in U
    BY <2>1
  <2>2. CASE k + 1 \notin U
    <3>1. U \in SUBSET (0 .. k)
      BY <2>2
    <3> QED BY Zenon, <1>2, <3>1
  <2> QED BY Zenon, <2>1, <2>2
<1>3. Nat \subseteq I
  <2>1. \A k \in Nat : k \in I => k + 1 \in I
    BY Zenon, <1>2
  <2> HIDE DEF I
  <2> QED BY Zenon, <1>1, <2>1, SetInduction
<1>4. \E x \in T : \A y \in T : x >= y
  BY Zenon, <1>3
<1>5. Max(T) \in T /\ \A y \in T : Max(T) >= y
  BY Zenon, <1>4 DEF Max
<1>6. \A x \in T : x \in Int
  OBVIOUS
<1> QED BY Zenon, <1>5, <1>6

(* open resumes at a stop, behind all others.                               *)
LEMMA ResumeIs ==
  ASSUME NEW d \in Disks, cells[d] \in Row
  PROVE  /\ ResumeAt(d) \in ScanStops(d)
         /\ ResumeAt(d) \in 0 .. MaxCells
         /\ \A c \in ScanStops(d) : c <= ResumeAt(d)
<1>1. ScanStops(d) \in SUBSET (0 .. MaxCells)
  BY Zenon, ScanIs DEF Stops
<1>2. ScanStops(d) # {}
  <2>1. 0 \in 0 .. MaxCells
    BY Bounds
  <2> QED BY Zenon, <2>1, ScanIs, StopsFollow
<1>3. /\ Max(ScanStops(d)) \in ScanStops(d)
      /\ \A x \in ScanStops(d) : x <= Max(ScanStops(d))
  BY Zenon, <1>1, <1>2, Bounds, Greatest
<1> QED BY Zenon, <1>1, <1>3 DEF ResumeAt

(* What lies behind a stop has no part in how the scan gets there.          *)
LEMMA StopsKept ==
  ASSUME NEW r1 \in Row, NEW r2 \in Row, NEW e \in Stops(r1, 0),
         \A c \in Cell : c < e => r1[c] = r2[c]
  PROVE  e \in Stops(r2, 0)
<1>0. e \in 0 .. MaxCells
  BY Zenon DEF Stops
<1> SUFFICES ASSUME NEW T \in SUBSET (0 .. MaxCells), 0 \in T, Follows(r2, T)
             PROVE  e \in T
  BY Zenon, <1>0 DEF Stops
<1> DEFINE S == {x \in 0 .. MaxCells : x <= e => x \in T}
<1>1. 0 \in S /\ S \in SUBSET (0 .. MaxCells)
  BY Zenon, Bounds
<1>2. ASSUME NEW x \in S, RecordIn(r1, x) PROVE After(r1, x) \in S
  <2>1. x \in Cell /\ After(r1, x) \in 0 .. MaxCells /\ x < After(r1, x)
    BY Zenon, <1>2, AfterIsBehind
  <2> SUFFICES ASSUME After(r1, x) <= e PROVE After(r1, x) \in T
    BY Zenon, <2>1
  <2>2. x < e /\ x \in T
    BY <1>0, <2>1
  <2>3. r1[x] = r2[x]
    BY Zenon, <2>1, <2>2
  <2>4. After(r2, x) = After(r1, x)
    BY Zenon, <2>3 DEF After
  <2>5. Len(r1[x].bytes) \in Nat
    BY Zenon, <1>2, <2>1, CellKinds DEF RecordIn, Row
  <2>6. ASSUME NEW i \in 1 .. Len(r1[x].bytes) PROVE r1[x + i] = r2[x + i]
    <3> DEFINE l == Len(r1[x].bytes)
    <3>1. l \in Nat /\ i \in 1 .. l /\ x + 1 + l <= e
      BY Zenon, <2>5 DEF After
    <3> HIDE DEF l
    <3>2. x + i \in Cell /\ x + i < e
      BY <3>1, <2>1, <1>0, Bounds DEF Cell
    <3> QED BY Zenon, <3>2
  <2>7. RecordIn(r2, x)
    BY Zenon, <1>2, <2>3, <2>4, <2>6 DEF RecordIn
  <2> QED BY Zenon, <2>2, <2>4, <2>7 DEF Follows
<1>3. Follows(r1, S)
  BY Zenon, <1>2 DEF Follows
<1>4. e \in S
  <2> HIDE DEF S
  <2> QED BY Zenon, <1>1, <1>3, StopsIn
<1> QED BY <1>0, <1>4

-----------------------------------------------------------------------------
(* The inductive invariant.                                                 *)
Modes   == {"AppendOnly", "Converting", "Writable"}
Spot    == Disks \X (0 .. MaxCells)
Pieces  == [replicas : Seq(Spot), bytes : Seq(CellValue)]
Flights == [op : {"AppendChunk", "CompleteConvert", "UpdateExtents"}, file : Files,
            bytes : Seq(CellValue), want : Seq(Data), disks : Places,
            done : Seq(Spot), stage : {"write", "sync", "commit"}]

PoolType ==
    /\ cells \in [Disks -> Row] /\ stable \in [Disks -> Row]
    /\ up \in BOOLEAN /\ cursor \in [Disks -> 0 .. MaxCells]
    /\ meta \in [Files -> [mode : Modes, pieces : Seq(Pieces)]]
    /\ flight \in Flights \cup {NoFlight} /\ limbo \in Flights \cup {NoFlight}
    /\ content \in [Files -> Seq(Data)]
    /\ dataEnd \in {"scan", "memory", "lost"}
    /\ writes \in 0 .. MaxWrites

(* Something that was written ends at cell e of disk d: all before it is    *)
(* synced, the cursor of a running pool is not before it, and as long as    *)
(* only records were written the scan stops there.                          *)
Ended(d, e) ==
    /\ dataEnd # "lost" =>
          /\ \A c \in Cell : c < e => cells[d][c] = stable[d][c]
          /\ up => e <= cursor[d]
    /\ dataEnd = "scan" => e \in ScanStops(d)

(* The bytes are at spot r, behind a header of h cells.                     *)
Placed(r, h, bytes) ==
    LET e == r[2] + h + Len(bytes) IN
    /\ e <= MaxCells
    /\ Ended(r[1], e)
    /\ dataEnd # "lost" =>
          \A i \in 1 .. Len(bytes) : cells[r[1]][r[2] + h + i - 1] = bytes[i]

PiecePlaced(p, h) ==
    /\ Len(p.replicas) = Replicas
    /\ \A k \in 1 .. Replicas : Placed(p.replicas[k], h, p.bytes)

PiecesPlaced ==
    \A f \in Files : \A i \in 1 .. Len(meta[f].pieces) :
        PiecePlaced(meta[f].pieces[i], HeaderLen(meta[f].mode))

(* The bytes of a file by its metadata, and what they should be.            *)
FlatBytes(pieces) == FlattenSeq([i \in 1 .. Len(pieces) |-> pieces[i].bytes])

ContentOK ==
    \A f \in Files :
        /\ Len(FlatBytes(meta[f].pieces)) = Len(content[f])
        /\ Len(content[f]) <= MaxSize
        /\ dataEnd # "lost" => FlatBytes(meta[f].pieces) = content[f]

OpHeader(fl) == IF fl.op = "AppendChunk" THEN 1 ELSE 0

(* What a call that is under way, or that may turn up, has written so far   *)
(* and would make of its file.                                              *)
CallOK(fl) ==
    /\ fl.op = "AppendChunk" =>
          /\ meta[fl.file].mode # "Writable"
          /\ fl.bytes \in Seq(Data) /\ fl.bytes # <<>>
          /\ fl.want = content[fl.file] \o fl.bytes
    /\ fl.op # "AppendChunk" =>
          /\ Len(fl.bytes) = Len(fl.want)
          /\ dataEnd # "lost" => fl.bytes = fl.want
    /\ Len(fl.want) <= MaxSize
    /\ IF fl.stage = "commit" THEN fl.bytes = <<>> \/ Len(fl.done) = Replicas
                              ELSE fl.bytes # <<>> /\ Len(fl.done) < Replicas
    /\ \A k \in 1 .. Len(fl.done) : Placed(fl.done[k], OpHeader(fl), fl.bytes)

(* The disks an extent is still to be written to have room for it.          *)
ExtentRoom ==
    flight # NoFlight /\ flight.op # "AppendChunk" =>
        \A k \in Len(flight.done) + 1 .. Replicas :
            cursor[flight.disks[k]] + Len(flight.bytes) <= MaxCells

(* Between the write and the sync the frame is at the cursor.               *)
FrameWritten ==
    flight # NoFlight /\ flight.stage = "sync" =>
        /\ Fits
        /\ \A i \in 1 .. Len(Frame(flight)) :
              cells[Target][cursor[Target] + i - 1] = Frame(flight)[i]

CursorStops == up /\ dataEnd = "scan" => \A d \in Disks : cursor[d] \in ScanStops(d)

IInv ==
    /\ PoolType /\ PiecesPlaced /\ ContentOK /\ ExtentRoom /\ FrameWritten /\ CursorStops
    /\ ~up => flight = NoFlight
    /\ flight # NoFlight => CallOK(flight)
    /\ limbo # NoFlight => limbo.stage = "commit" /\ CallOK(limbo)

-----------------------------------------------------------------------------
(* Reading what is placed.                                                  *)
LEMMA HeaderLens ==
  ASSUME NEW mode \in Modes
  PROVE  HeaderLen(mode) \in {0, 1}
BY Zenon DEF HeaderLen

LEMMA PieceReads ==
  ASSUME PoolType, NEW mode \in Modes, NEW p \in Pieces, NEW r \in Spot,
         Placed(r, HeaderLen(mode), p.bytes)
  PROVE  /\ ReadReplica(cells, mode, p, r) \in Seq(CellValue)
         /\ Len(ReadReplica(cells, mode, p, r)) = Len(p.bytes)
         /\ dataEnd # "lost" => /\ ReadReplica(cells, mode, p, r) = p.bytes
                                /\ ReadReplica(stable, mode, p, r) = p.bytes
<1> DEFINE h == HeaderLen(mode)
           n == Len(p.bytes)
           read == ReadReplica(cells, mode, p, r)
<1>0. h \in {0, 1} /\ n \in Nat /\ p.bytes \in Seq(CellValue) /\ r[1] \in Disks /\ r[2] \in 0 .. MaxCells
  BY HeaderLens DEF Pieces, Spot
<1>1. /\ r[2] + h + n <= MaxCells
      /\ dataEnd # "lost" =>
            /\ \A i \in 1 .. n : cells[r[1]][r[2] + h + i - 1] = p.bytes[i]
            /\ \A c \in Cell : c < r[2] + h + n => cells[r[1]][c] = stable[r[1]][c]
  BY Zenon DEF Placed, Ended
<1>2. /\ read = [i \in 1 .. n |-> cells[r[1]][r[2] + h + i - 1]]
      /\ ReadReplica(stable, mode, p, r) = [i \in 1 .. n |-> stable[r[1]][r[2] + h + i - 1]]
  BY Zenon DEF ReadReplica
<1>3. p.bytes = [i \in 1 .. n |-> p.bytes[i]]
  BY <1>0
<1> HIDE DEF h, n, read
<1>4. \A i \in 1 .. n : r[2] + h + i - 1 \in Cell /\ r[2] + h + i - 1 < r[2] + h + n
  BY <1>0, <1>1, Bounds DEF Cell
<1>5. \A i \in 1 .. n : cells[r[1]][r[2] + h + i - 1] \in CellValue
  BY <1>0, <1>4 DEF PoolType, Row
<1>6. read \in Seq(CellValue) /\ Len(read) = n
  BY <1>0, <1>2, <1>5
<1>7. ASSUME dataEnd # "lost" PROVE read = p.bytes
  BY Zenon, <1>1, <1>2, <1>3, <1>7
<1>8. ASSUME dataEnd # "lost" PROVE ReadReplica(stable, mode, p, r) = p.bytes
  <2>1. \A i \in 1 .. n : stable[r[1]][r[2] + h + i - 1] = p.bytes[i]
    BY Zenon, <1>1, <1>4, <1>8
  <2> QED BY Zenon, <1>2, <1>3, <2>1
<1> QED BY Zenon, <1>6, <1>7, <1>8 DEF n, read

(* A file reads as what its calls wrote, and as long in any case.           *)
LEMMA ReadFullIs ==
  ASSUME PoolType, PiecesPlaced, ContentOK, NEW f \in Files, Readable(f)
  PROVE  /\ ReadFull(f) \in Seq(CellValue)
         /\ Len(ReadFull(f)) = Len(content[f])
         /\ dataEnd # "lost" => ReadFull(f) = content[f]
<1> DEFINE pieces == meta[f].pieces
           mode == meta[f].mode
           n == Len(pieces)
           reads == [i \in 1 .. n |-> ReadReplica(cells, mode, pieces[i], pieces[i].replicas[1])]
           bytes == [i \in 1 .. n |-> pieces[i].bytes]
<1>0. mode \in Modes /\ pieces \in Seq(Pieces) /\ n \in Nat
  BY DEF PoolType
<1>1. ReadFull(f) = FlattenSeq(reads) /\ FlatBytes(pieces) = FlattenSeq(bytes)
  BY Zenon DEF ReadFull, FlatBytes
<1>2. ASSUME NEW i \in 1 .. n
      PROVE  /\ bytes[i] \in Seq(CellValue)
             /\ reads[i] \in Seq(CellValue)
             /\ Len(reads[i]) = Len(bytes[i])
             /\ dataEnd # "lost" => reads[i] = bytes[i]
  <2> DEFINE p == pieces[i]
  <2>1. p \in Pieces
    BY <1>0
  <2>2. PiecePlaced(p, HeaderLen(mode)) /\ p.replicas # <<>>
    BY Zenon DEF PiecesPlaced, Readable
  <2> HIDE DEF p
  <2>3. p.replicas \in Seq(Spot) /\ Len(p.replicas) = Replicas /\ 1 \in 1 .. Replicas
        /\ p.bytes \in Seq(CellValue)
    BY <2>1, <2>2, PoolAssumption DEF Pieces, PiecePlaced
  <2>4. p.replicas[1] \in Spot /\ Placed(p.replicas[1], HeaderLen(mode), p.bytes)
    BY <2>2, <2>3 DEF PiecePlaced
  <2> DEFINE rd == ReadReplica(cells, mode, p, p.replicas[1])
  <2>5. /\ rd \in Seq(CellValue)
        /\ Len(rd) = Len(p.bytes)
        /\ dataEnd # "lost" => rd = p.bytes
    <3> HIDE DEF mode
    <3> QED BY Zenon, <1>0, <2>1, <2>4, PieceReads
  <2>6. reads[i] = rd /\ bytes[i] = p.bytes
    BY Zenon DEF p
  <2> HIDE DEF rd, reads, bytes
  <2> QED BY Zenon, <2>3, <2>5, <2>6
<1>3. reads \in Seq(Seq(CellValue)) /\ bytes \in Seq(Seq(CellValue))
      /\ Len(reads) = n /\ Len(bytes) = n /\ DOMAIN reads = 1 .. n /\ DOMAIN bytes = 1 .. n
  <2>1. reads \in [1 .. n -> Seq(CellValue)] /\ bytes \in [1 .. n -> Seq(CellValue)]
    BY Zenon, <1>2
  <2> DEFINE T == Seq(CellValue)
  <2> HIDE DEF reads, bytes, n, T
  <2>2. reads \in Seq(T) /\ bytes \in Seq(T) /\ Len(reads) = n /\ Len(bytes) = n
    BY <1>0, <2>1 DEF T
  <2> QED BY Zenon, <2>1, <2>2 DEF T
<1>e. dataEnd # "lost" => reads = bytes
  BY Zenon, <1>2
<1> HIDE DEF reads, bytes, n
<1>4. SameLengths(reads, n, bytes, CellValue)
  BY Zenon, <1>2 DEF SameLengths
<1>5. Len(FlattenSeq(reads)) = Len(FlattenSeq(bytes))
  BY Zenon, <1>3, <1>4, FlattenLen
<1>6. FlattenSeq(reads) \in Seq(CellValue)
  BY Zenon, <1>3, FlattenType
<1>8. /\ Len(FlatBytes(pieces)) = Len(content[f])
      /\ dataEnd # "lost" => FlatBytes(pieces) = content[f]
  BY Zenon DEF ContentOK
<1> QED BY Zenon, <1>1, <1>5, <1>6, <1>e, <1>8

-----------------------------------------------------------------------------
(* A step keeps what was written: it changes nothing before its end, and    *)
(* the end stays one.                                                       *)
Steady ==
    /\ dataEnd' # "lost" => dataEnd # "lost"
    /\ \A d \in Disks, e \in 0 .. MaxCells :
          Ended(d, e) =>
              /\ Ended(d, e)'
              /\ dataEnd' # "lost" => \A c \in Cell : c < e => cells'[d][c] = cells[d][c]

LEMMA CellOf ==
  ASSUME NEW a \in Nat, NEW h \in {0, 1}, NEW n \in Nat, a + h + n <= MaxCells, NEW i \in 1 .. n
  PROVE  a + h + i - 1 \in Cell /\ a + h + i - 1 < a + h + n
BY Bounds DEF Cell

LEMMA PlacedKept ==
  ASSUME PoolType, Steady, NEW r \in Spot, NEW h \in {0, 1}, NEW bytes \in Seq(CellValue),
         Placed(r, h, bytes)
  PROVE  Placed(r, h, bytes)'
<1> DEFINE d == r[1]
           n == Len(bytes)
           e == r[2] + h + n
<1>0. d \in Disks /\ r[2] \in 0 .. MaxCells /\ n \in Nat
  BY DEF Spot
<1>1. /\ e <= MaxCells /\ Ended(d, e)
      /\ dataEnd # "lost" => \A i \in 1 .. n : cells[d][r[2] + h + i - 1] = bytes[i]
  BY Zenon DEF Placed
<1> HIDE DEF d, n
<1>2. e \in 0 .. MaxCells
  BY <1>0, <1>1, Bounds
<1>3. /\ Ended(d, e)'
      /\ dataEnd' # "lost" => \A c \in Cell : c < e => cells'[d][c] = cells[d][c]
  BY Zenon, <1>0, <1>1, <1>2 DEF Steady
<1>4. ASSUME dataEnd' # "lost", NEW i \in 1 .. n PROVE cells'[d][r[2] + h + i - 1] = bytes[i]
  <2>1. r[2] + h + i - 1 \in Cell /\ r[2] + h + i - 1 < e
    <3>1. r[2] \in Nat /\ e <= MaxCells
      BY <1>0, <1>1
    <3> QED BY Zenon, <1>0, <3>1, CellOf
  <2>2. dataEnd # "lost"
    BY Zenon, <1>4 DEF Steady
  <2> QED BY Zenon, <1>1, <1>3, <1>4, <2>1, <2>2
<1> QED BY Zenon, <1>1, <1>3, <1>4 DEF Placed, d, n

LEMMA PieceKept ==
  ASSUME PoolType, Steady, NEW p \in Pieces, NEW h \in {0, 1}, PiecePlaced(p, h)
  PROVE  PiecePlaced(p, h)'
<1>1. p.replicas \in Seq(Spot) /\ p.bytes \in Seq(CellValue) /\ Len(p.replicas) = Replicas
  BY Zenon DEF Pieces, PiecePlaced
<1>2. ASSUME NEW k \in 1 .. Replicas PROVE Placed(p.replicas[k], h, p.bytes)'
  <2>1. p.replicas[k] \in Spot /\ Placed(p.replicas[k], h, p.bytes)
    BY <1>1 DEF PiecePlaced
  <2> QED BY Zenon, <1>1, <2>1, PlacedKept
<1> QED BY Zenon, <1>1, <1>2 DEF PiecePlaced

LEMMA PiecesKept ==
  ASSUME PoolType, Steady, PiecesPlaced, NEW f \in Files,
         meta'[f].pieces = meta[f].pieces, HeaderLen(meta'[f].mode) = HeaderLen(meta[f].mode)
  PROVE  \A i \in 1 .. Len(meta'[f].pieces) :
             PiecePlaced(meta[f].pieces[i], HeaderLen(meta[f].mode))'
<1>1. meta[f].mode \in Modes /\ meta[f].pieces \in Seq(Pieces)
  BY Zenon DEF PoolType
<1>2. ASSUME NEW i \in 1 .. Len(meta[f].pieces)
      PROVE  PiecePlaced(meta[f].pieces[i], HeaderLen(meta[f].mode))'
  <2> DEFINE p == meta[f].pieces[i]
             h == HeaderLen(meta[f].mode)
  <2>1. p \in Pieces /\ h \in {0, 1} /\ PiecePlaced(p, h)
    BY <1>1, HeaderLens DEF PiecesPlaced
  <2>2. p' = p /\ h' = h
    BY Zenon
  <2> HIDE DEF p, h
  <2>3. PICK q \in Pieces, g \in {0, 1} : q = p /\ g = h
    BY Zenon, <2>1
  <2>4. PiecePlaced(q, g)'
    BY Zenon, <2>1, <2>3, PieceKept
  <2>5. p' = q /\ h' = g
    BY Zenon, <2>2, <2>3
  <2>6. PiecePlaced(p, h)'
    BY Zenon, <2>4, <2>5
  <2> QED BY Zenon, <2>6 DEF p, h
<1> QED BY Zenon, <1>2

LEMMA CallsKept ==
  ASSUME PoolType, Steady, NEW fl \in Flights, CallOK(fl),
         fl.op = "AppendChunk" =>
             content'[fl.file] = content[fl.file] /\ meta'[fl.file].mode # "Writable"
  PROVE  CallOK(fl)'
<1>1. /\ fl.bytes \in Seq(CellValue) /\ fl.done \in Seq(Spot)
      /\ OpHeader(fl) \in {0, 1}
  BY Zenon DEF Flights, OpHeader
<1>2. ASSUME NEW k \in 1 .. Len(fl.done) PROVE Placed(fl.done[k], OpHeader(fl), fl.bytes)'
  <2>1. fl.done[k] \in Spot /\ Placed(fl.done[k], OpHeader(fl), fl.bytes)
    BY <1>1 DEF CallOK
  <2>2. \A h \in {0, 1} : Placed(fl.done[k], h, fl.bytes) => Placed(fl.done[k], h, fl.bytes)'
    BY Zenon, <1>1, <2>1, PlacedKept
  <2> QED BY Zenon, <1>1, <2>1, <2>2
<1>3. dataEnd' # "lost" => dataEnd # "lost"
  BY Zenon DEF Steady
<1> QED BY Zenon, <1>2, <1>3 DEF CallOK

-----------------------------------------------------------------------------
(* Which steps are steady.                                                  *)
LEMMA ScanStopsIs == \A d \in Disks : cells[d] \in Row => ScanStops(d) = Stops(cells[d], 0)
BY Zenon, ScanIs

LEMMA ScanStopsNext == (\A d \in Disks : cells[d] \in Row => ScanStops(d) = Stops(cells[d], 0))'
BY ScanStopsIs, PTL

LEMMA ScanKept ==
  ASSUME cells \in [Disks -> Row], cells' \in [Disks -> Row], NEW d \in Disks,
         NEW e \in ScanStops(d), \A c \in Cell : c < e => cells'[d][c] = cells[d][c]
  PROVE  e \in ScanStops(d)'
<1>1. cells[d] \in Row /\ cells'[d] \in Row
  BY Zenon
<1>2. e \in Stops(cells[d], 0)
  BY Zenon, <1>1, ScanStopsIs
<1>3. e \in Stops(cells'[d], 0)
  BY Zenon, <1>1, <1>2, StopsKept
<1> QED BY Zenon, <1>1, <1>3, ScanStopsNext

Keeps(d, e) ==
    /\ \A c \in Cell : c < e => cells'[d][c] = cells[d][c] /\ stable'[d][c] = cells[d][c]
    /\ up' => e <= cursor'[d]

LEMMA SteadyStep ==
  ASSUME PoolType, cells' \in [Disks -> Row],
         dataEnd' # "lost" => dataEnd # "lost", dataEnd' = "scan" => dataEnd = "scan",
         dataEnd' # "lost" =>
             \A d \in Disks, e \in 0 .. MaxCells : Ended(d, e) => Keeps(d, e)
  PROVE  Steady
<1> SUFFICES ASSUME NEW d \in Disks, NEW e \in 0 .. MaxCells, Ended(d, e)
             PROVE  /\ Ended(d, e)'
                    /\ dataEnd' # "lost" => \A c \in Cell : c < e => cells'[d][c] = cells[d][c]
  BY Zenon DEF Steady
<1>1. CASE dataEnd' = "lost"
  BY Zenon, <1>1 DEF Ended
<1>2. CASE dataEnd' # "lost"
  <2>1. Keeps(d, e)
    BY Zenon, <1>2
  <2>2. \A c \in Cell : c < e => cells'[d][c] = cells[d][c] /\ cells'[d][c] = stable'[d][c]
    BY Zenon, <2>1 DEF Keeps
  <2>3. dataEnd' = "scan" => e \in ScanStops(d)'
    <3> SUFFICES ASSUME dataEnd' = "scan" PROVE e \in ScanStops(d)'
      BY Zenon
    <3>1. e \in ScanStops(d) /\ cells \in [Disks -> Row]
      BY Zenon DEF Ended, PoolType
    <3> QED BY Zenon, <2>2, <3>1, ScanKept
  <2> QED BY Zenon, <2>1, <2>2, <2>3 DEF Ended, Keeps
<1> QED BY Zenon, <1>1, <1>2

(* Writing at or behind the cursors of a running pool, or not at all.       *)
LEMMA WriteSteady ==
  ASSUME PoolType, cells' \in [Disks -> Row], up, UNCHANGED <<stable, up, cursor, dataEnd>>,
         \A d \in Disks, c \in Cell : c < cursor[d] => cells'[d][c] = cells[d][c]
  PROVE  Steady
<1>1. ASSUME dataEnd # "lost", NEW d \in Disks, NEW e \in 0 .. MaxCells, Ended(d, e)
      PROVE  Keeps(d, e)
  <2>1. e <= cursor[d] /\ \A c \in Cell : c < e => cells[d][c] = stable[d][c]
    BY Zenon, <1>1 DEF Ended
  <2>2. cursor[d] \in 0 .. MaxCells
    BY Zenon DEF PoolType
  <2>3. \A c \in Cell : c < e => c < cursor[d]
    BY <2>1, <2>2, Bounds DEF Cell
  <2> QED BY Zenon, <2>1, <2>3 DEF Keeps
<1> QED BY Zenon, <1>1, SteadyStep

LEMMA QuietSteady ==
  ASSUME PoolType, UNCHANGED <<cells, stable, up, cursor, dataEnd>>
  PROVE  Steady
<1>1. ASSUME dataEnd # "lost", NEW d \in Disks, NEW e \in 0 .. MaxCells, Ended(d, e)
      PROVE  Keeps(d, e)
  BY Zenon, <1>1 DEF Ended, Keeps
<1>2. cells' \in [Disks -> Row]
  BY Zenon DEF PoolType
<1> QED BY Zenon, <1>1, <1>2, SteadyStep

LEMMA SyncSteady ==
  ASSUME PoolType, UNCHANGED <<cells, up>>,
         dataEnd' # "lost" => dataEnd # "lost", dataEnd' = "scan" => dataEnd = "scan",
         \A d \in Disks : stable'[d] \in {stable[d], cells[d]},
         \A d \in Disks : cursor'[d] \in Nat /\ cursor[d] <= cursor'[d]
  PROVE  Steady
<1>1. ASSUME dataEnd' # "lost", NEW d \in Disks, NEW e \in 0 .. MaxCells, Ended(d, e)
      PROVE  Keeps(d, e)
  <2>1. \A c \in Cell : c < e => stable'[d][c] = cells[d][c]
    BY Zenon, <1>1 DEF Ended
  <2>2. up => e <= cursor[d]
    BY Zenon, <1>1 DEF Ended
  <2>3. cursor[d] \in 0 .. MaxCells /\ cursor'[d] \in Nat /\ cursor[d] <= cursor'[d]
    BY Zenon DEF PoolType
  <2>4. up' => e <= cursor'[d]
    BY <2>2, <2>3
  <2> QED BY Zenon, <2>1, <2>4 DEF Keeps
<1>2. cells' \in [Disks -> Row]
  BY Zenon DEF PoolType
<1> QED BY Zenon, <1>1, <1>2, SteadyStep

LEMMA DownSteady ==
  ASSUME PoolType, cells' \in [Disks -> Row], ~up', UNCHANGED dataEnd,
         \A d \in Disks, c \in Cell :
             cells[d][c] = stable[d][c] => cells'[d][c] = cells[d][c] /\ stable'[d][c] = cells[d][c]
  PROVE  Steady
<1>1. ASSUME dataEnd' # "lost", NEW d \in Disks, NEW e \in 0 .. MaxCells, Ended(d, e)
      PROVE  Keeps(d, e)
  BY Zenon, <1>1 DEF Ended, Keeps
<1> QED BY Zenon, <1>1, SteadyStep

LEMMA OpenSteady ==
  ASSUME PoolType, UNCHANGED <<cells, stable>>,
         dataEnd' # "lost" => dataEnd # "lost", dataEnd' \in {"scan", "lost"},
         dataEnd' = "scan" => dataEnd = "scan" /\ cursor' = [d \in Disks |-> ResumeAt(d)]
  PROVE  Steady
<1>1. ASSUME dataEnd' # "lost", NEW d \in Disks, NEW e \in 0 .. MaxCells, Ended(d, e)
      PROVE  Keeps(d, e)
  <2>1. e \in ScanStops(d) /\ cursor'[d] = ResumeAt(d) /\ cells[d] \in Row
    BY Zenon, <1>1 DEF Ended, PoolType
  <2>2. e <= ResumeAt(d)
    BY Zenon, <2>1, ResumeIs
  <2> QED BY Zenon, <1>1, <2>1, <2>2 DEF Ended, Keeps
<1>2. cells' \in [Disks -> Row]
  BY Zenon DEF PoolType
<1> QED BY Zenon, <1>1, <1>2, SteadyStep

-----------------------------------------------------------------------------
(* Steps that leave the metadata alone.                                     *)
LEMMA StoreKept ==
  ASSUME IInv, Steady, UNCHANGED <<meta, content>>
  PROVE  PiecesPlaced' /\ ContentOK'
<1>1. PoolType /\ PiecesPlaced /\ ContentOK
  BY Zenon DEF IInv
<1>2. ASSUME NEW f \in Files
      PROVE  \A i \in 1 .. Len(meta'[f].pieces) :
                 PiecePlaced(meta[f].pieces[i], HeaderLen(meta[f].mode))'
  BY Zenon, <1>1, PiecesKept
<1>3. PiecesPlaced'
  BY Zenon, <1>2 DEF PiecesPlaced
<1>4. ContentOK'
  BY Zenon, <1>1 DEF ContentOK, Steady
<1> QED BY Zenon, <1>3, <1>4

LEMMA CallKept ==
  ASSUME IInv, Steady, UNCHANGED <<meta, content>>, NEW fl \in Flights, CallOK(fl)
  PROVE  CallOK(fl)'
<1>1. fl.op = "AppendChunk" =>
          content'[fl.file] = content[fl.file] /\ meta'[fl.file].mode # "Writable"
  BY Zenon DEF CallOK
<1> QED BY Zenon, <1>1, CallsKept DEF IInv

LimboStep == limbo' \in {limbo, NoFlight} \/ (Writing("commit") /\ limbo' = flight)
LimboNext == limbo' # NoFlight => limbo'.stage = "commit" /\ CallOK(limbo)'

LEMMA LimboKept ==
  ASSUME IInv, Steady, UNCHANGED <<meta, content>>, LimboStep
  PROVE  LimboNext
<1> SUFFICES ASSUME limbo' # NoFlight PROVE limbo'.stage = "commit" /\ CallOK(limbo)'
  BY Zenon DEF LimboNext
<1>1. CASE limbo' = limbo
  <2>1. limbo \in Flights /\ limbo.stage = "commit" /\ CallOK(limbo)
    BY Zenon, <1>1 DEF IInv, PoolType
  <2>2. PICK fl \in Flights : fl = limbo
    BY Zenon, <2>1
  <2>3. CallOK(fl)'
    BY Zenon, <2>1, <2>2, CallKept
  <2>4. limbo' = fl
    BY Zenon, <1>1, <2>2
  <2> QED BY Zenon, <1>1, <2>1, <2>3, <2>4
<1>2. CASE Writing("commit") /\ limbo' = flight
  <2>1. flight \in Flights /\ flight.stage = "commit" /\ CallOK(flight)
    BY Zenon, <1>2 DEF IInv, PoolType, Writing
  <2>2. PICK fl \in Flights : fl = flight
    BY Zenon, <2>1
  <2>3. CallOK(fl)'
    BY Zenon, <2>1, <2>2, CallKept
  <2>4. limbo' = fl
    BY Zenon, <1>2, <2>2
  <2> QED BY Zenon, <1>2, <2>1, <2>3, <2>4
<1> QED BY Zenon, <1>1, <1>2 DEF LimboStep

(* A step after which no call is under way.                                 *)
LEMMA CallEnds ==
  ASSUME PoolType', CursorStops', flight' = NoFlight, PiecesPlaced', ContentOK', LimboNext
  PROVE  IInv'
<1>1. ExtentRoom' /\ FrameWritten'
  BY Zenon DEF ExtentRoom, FrameWritten
<1> QED BY Zenon, <1>1 DEF IInv, LimboNext

LEMMA CursorStopsQuiet ==
  ASSUME PoolType, CursorStops, UNCHANGED <<cells, up, cursor, dataEnd>>
  PROVE  CursorStops'
<1>1. ASSUME NEW d \in Disks, cursor[d] \in ScanStops(d) PROVE cursor[d] \in ScanStops(d)'
  <2>1. cells \in [Disks -> Row] /\ cells' \in [Disks -> Row]
    BY Zenon DEF PoolType
  <2> QED BY Zenon, <1>1, <2>1, ScanKept
<1> QED BY Zenon, <1>1 DEF CursorStops

(* A step that writes nothing and changes no metadata.                      *)
LEMMA QuietEnd ==
  ASSUME IInv, UNCHANGED <<cells, stable, up, cursor, dataEnd, meta, content, writes>>,
         flight' = NoFlight, LimboStep
  PROVE  IInv'
<1>1. Steady
  BY Zenon, QuietSteady DEF IInv
<1>2. PiecesPlaced' /\ ContentOK' /\ LimboNext
  BY Zenon, <1>1, StoreKept, LimboKept
<1>3. PoolType'
  BY Zenon DEF IInv, PoolType, LimboStep
<1>4. CursorStops'
  BY Zenon, CursorStopsQuiet DEF IInv
<1> QED BY Zenon, <1>2, <1>3, <1>4, CallEnds

LEMMA SegmentFullOK == ASSUME IInv, SegmentFull PROVE IInv'
BY Zenon, QuietEnd DEF SegmentFull, LimboStep

LEMMA SyncFailsOK == ASSUME IInv, SyncFails PROVE IInv'
BY Zenon, QuietEnd DEF SyncFails, LimboStep

LEMMA CommitFailsOK == ASSUME IInv, CommitFails PROVE IInv'
BY Zenon, QuietEnd DEF CommitFails, LimboStep

-----------------------------------------------------------------------------
(* A call begins.                                                           *)
LEMMA CallStarts ==
  ASSUME IInv, Idle, UNCHANGED <<cells, stable, up, cursor, dataEnd, meta, content, limbo>>,
         writes' \in 0 .. MaxWrites, NEW fl \in Flights, flight' = fl, CallOK(fl),
         fl.stage # "sync", fl.op # "AppendChunk" => Roomy(Len(fl.bytes))
  PROVE  IInv'
<1>1. Steady
  BY Zenon, QuietSteady DEF IInv
<1>2. PiecesPlaced' /\ ContentOK' /\ LimboNext /\ CallOK(fl)'
  BY Zenon, <1>1, StoreKept, LimboKept, CallKept DEF LimboStep
<1>3. PoolType'
  BY Zenon DEF IInv, PoolType
<1>4. CursorStops'
  BY Zenon, CursorStopsQuiet DEF IInv
<1>5. ExtentRoom'
  <2> SUFFICES ASSUME fl.op # "AppendChunk", NEW k \in Len(fl.done) + 1 .. Replicas
               PROVE  cursor[fl.disks[k]] + Len(fl.bytes) <= MaxCells
    BY Zenon DEF ExtentRoom
  <2>1. Len(fl.done) \in Nat /\ fl.disks \in [1 .. Replicas -> Disks]
    BY DEF Flights, Places
  <2>2. k \in 1 .. Replicas
    BY <2>1
  <2>3. fl.disks[k] \in Disks
    BY Zenon, <2>1, <2>2
  <2> QED BY Zenon, <2>3 DEF Roomy
<1>6. FrameWritten'
  BY Zenon DEF FrameWritten
<1>7. CallOK(flight)'
  BY Zenon, <1>2
<1>8. up'
  BY Zenon DEF Idle
<1> QED BY Zenon, <1>2, <1>3, <1>4, <1>5, <1>6, <1>7, <1>8 DEF IInv, LimboNext

(* Start's call; without content or slots it has nothing to place.          *)
LEMMA StartIs ==
  ASSUME NEW o \in {"AppendChunk", "CompleteConvert", "UpdateExtents"}, NEW f \in Files,
         NEW bytes \in Seq(CellValue), NEW want \in Seq(Data), Start(o, f, bytes, want)
  PROVE  \E fl \in Flights :
            /\ flight' = fl
            /\ fl.op = o /\ fl.file = f /\ fl.bytes = bytes /\ fl.want = want
            /\ fl.done = <<>>
            /\ fl.stage = IF bytes = <<>> \/ Replicas = 0 THEN "commit" ELSE "write"
<1>1. PICK p \in Places :
        flight' = [op |-> o, file |-> f, bytes |-> bytes, want |-> want, disks |-> p,
                   done |-> <<>>, stage |-> IF bytes = <<>> \/ Replicas = 0 THEN "commit" ELSE "write"]
  BY Zenon DEF Start
<1> DEFINE fl == [op |-> o, file |-> f, bytes |-> bytes, want |-> want, disks |-> p,
                   done |-> <<>>, stage |-> IF bytes = <<>> \/ Replicas = 0 THEN "commit" ELSE "write"]
<1>2. fl \in Flights
  <2>1. <<>> \in Seq(Spot)
    OBVIOUS
  <2> QED BY Zenon, <2>1 DEF Flights
<1>3. /\ fl.op = o /\ fl.file = f /\ fl.bytes = bytes /\ fl.want = want
      /\ fl.done = <<>>
      /\ fl.stage = IF bytes = <<>> \/ Replicas = 0 THEN "commit" ELSE "write"
  BY Zenon
<1> HIDE DEF fl
<1> QED BY Zenon, <1>1, <1>2, <1>3 DEF fl

LEMMA StartOK ==
  ASSUME IInv, Idle, UNCHANGED <<cells, stable, up, cursor, dataEnd, meta, content, limbo>>,
         writes' \in 0 .. MaxWrites,
         NEW o \in {"AppendChunk", "CompleteConvert", "UpdateExtents"}, NEW f \in Files,
         NEW bytes \in Seq(CellValue), NEW want \in Seq(Data), Start(o, f, bytes, want),
         Len(want) <= MaxSize,
         o = "AppendChunk" =>
             /\ meta[f].mode # "Writable"
             /\ bytes \in Seq(Data) /\ bytes # <<>> /\ want = content[f] \o bytes,
         o # "AppendChunk" =>
             /\ Len(bytes) = Len(want) /\ Roomy(MaxSize)
             /\ dataEnd # "lost" => bytes = want
  PROVE  IInv'
<1>1. PICK fl \in Flights :
            /\ flight' = fl
            /\ fl.op = o /\ fl.file = f /\ fl.bytes = bytes /\ fl.want = want
            /\ fl.done = <<>>
            /\ fl.stage = IF bytes = <<>> \/ Replicas = 0 THEN "commit" ELSE "write"
  BY StartIs
<1>2. CallOK(fl)
  <2>1. Len(fl.done) = 0 /\ (Replicas = 0 \/ 0 < Replicas)
    BY <1>1, PoolAssumption
  <2> QED BY <1>1, <2>1 DEF CallOK
<1>3. ASSUME fl.op # "AppendChunk" PROVE Roomy(Len(fl.bytes))
  <2> DEFINE n == Len(bytes)
  <2>1. n \in Nat /\ n <= MaxSize /\ Len(fl.bytes) = n /\ MaxSize \in Nat /\ Roomy(MaxSize)
    BY <1>1, <1>3, PoolAssumption
  <2> HIDE DEF n
  <2>2. \A d \in Disks : cursor[d] \in 0 .. MaxCells
    BY Zenon DEF IInv, PoolType
  <2> QED BY <2>1, <2>2, Bounds DEF Roomy
<1>4. fl.stage # "sync"
  BY Zenon, <1>1
<1> QED BY Zenon, <1>1, <1>2, <1>3, <1>4, CallStarts

LEMMA AppendCallOK ==
  ASSUME IInv, NEW f \in Files, NEW n \in 1 .. MaxPayload, AppendCall(f, n)
  PROVE  IInv'
<1> DEFINE new == [i \in 1 .. n |-> Byte(writes + 1)]
<1>1. writes \in 0 .. MaxWrites /\ MaxWrites \in Nat /\ MaxPayload \in Nat /\ MaxSize \in Nat
      /\ content[f] \in Seq(Data)
  BY Zenon, PoolAssumption DEF IInv, PoolType
<1>2. writes' \in 0 .. MaxWrites
  BY <1>1 DEF AppendCall
<1>3. Byte(writes + 1) \in Data
  BY <1>1 DEF Byte, Data
<1>4. n \in Nat
  BY <1>1
<1>5. new \in Seq(Data) /\ Len(new) = n
  BY <1>3, <1>4
<1> DEFINE want == content[f] \o new
<1>6. want \in Seq(Data) /\ Len(want) = Len(content[f]) + n
  <2> HIDE DEF new
  <2> QED BY <1>1, <1>5
<1>7. new \in Seq(CellValue) /\ new # <<>>
  BY <1>1, <1>3, <1>5 DEF CellValue
<1>8. Start("AppendChunk", f, new, want) /\ Len(want) <= MaxSize /\ meta[f].mode # "Writable"
  BY Zenon, <1>6 DEF AppendCall
<1>9. Idle /\ UNCHANGED <<cells, stable, up, cursor, dataEnd, meta, content, limbo>>
  BY Zenon DEF AppendCall
<1> HIDE DEF new
<1>10. PICK b \in Seq(CellValue) : b = new
  BY Zenon, <1>7
<1>11. PICK w \in Seq(Data) : w = want
  BY Zenon, <1>6
<1> HIDE DEF want
<1>12. w = content[f] \o b
  BY Zenon, <1>10, <1>11 DEF want
<1> QED BY Zenon, <1>2, <1>5, <1>7, <1>8, <1>9, <1>10, <1>11, <1>12, StartOK

LEMMA CompleteConvertOK ==
  ASSUME IInv, NEW f \in Files, CompleteConvert(f)
  PROVE  IInv'
<1>1. /\ ReadFull(f) \in Seq(CellValue)
      /\ Len(ReadFull(f)) = Len(content[f])
      /\ dataEnd # "lost" => ReadFull(f) = content[f]
  BY Zenon, ReadFullIs DEF IInv, CompleteConvert
<1>2. content[f] \in Seq(Data) /\ Len(content[f]) <= MaxSize /\ writes \in 0 .. MaxWrites
  BY Zenon DEF IInv, PoolType, ContentOK
<1>3. /\ Idle /\ UNCHANGED <<cells, stable, up, cursor, dataEnd, meta, content, limbo, writes>>
      /\ Roomy(MaxSize) /\ Start("CompleteConvert", f, ReadFull(f), content[f])
  BY Zenon DEF CompleteConvert
<1> QED BY Zenon, <1>1, <1>2, <1>3, StartOK

LEMMA PairMax ==
  ASSUME NEW a \in Nat, NEW b \in Nat
  PROVE  Max({a, b}) = IF a >= b THEN a ELSE b
<1> DEFINE m == IF a >= b THEN a ELSE b
<1>1. m \in {a, b} /\ \A x \in {a, b} : m >= x
  OBVIOUS
<1>2. \A x \in {a, b} : (\A y \in {a, b} : x >= y) => x = m
  OBVIOUS
<1> QED BY Zenon, <1>1, <1>2 DEF Max

LEMMA PatchedIs ==
  ASSUME NEW T, NEW bytes \in Seq(T), NEW offset \in Nat, NEW b \in T, Zero \in T
  PROVE  /\ Patched(bytes, offset, b) \in Seq(T)
         /\ Len(Patched(bytes, offset, b)) =
               IF Len(bytes) >= offset + 1 THEN Len(bytes) ELSE offset + 1
<1> DEFINE n == Len(bytes)
           m == IF n >= offset + 1 THEN n ELSE offset + 1
<1>0. n \in Nat /\ \A i \in 1 .. n : bytes[i] \in T
  OBVIOUS
<1> HIDE DEF n
<1>1. m \in Nat /\ Max({n, offset + 1}) = m
  BY <1>0, PairMax
<1> HIDE DEF m
<1>2. Patched(bytes, offset, b) =
        [i \in 1 .. m |-> IF i = offset + 1 THEN b ELSE IF i <= n THEN bytes[i] ELSE Zero]
  BY Zenon, <1>1 DEF Patched, n
<1>3. \A i \in 1 .. m : (IF i = offset + 1 THEN b ELSE IF i <= n THEN bytes[i] ELSE Zero) \in T
  BY <1>0, <1>1
<1>4. Patched(bytes, offset, b) \in Seq(T) /\ Len(Patched(bytes, offset, b)) = m
  BY <1>1, <1>2, <1>3
<1> QED BY Zenon, <1>4 DEF m, n

LEMMA WriteCallOK ==
  ASSUME IInv, NEW f \in Files, NEW offset \in 0 .. MaxSize - 1, WriteCall(f, offset)
  PROVE  IInv'
<1> DEFINE b == Byte(writes + 1)
           bytes == Patched(ReadFull(f), offset, b)
           want == Patched(content[f], offset, b)
<1>1. /\ ReadFull(f) \in Seq(CellValue)
      /\ Len(ReadFull(f)) = Len(content[f])
      /\ dataEnd # "lost" => ReadFull(f) = content[f]
  BY Zenon, ReadFullIs DEF IInv, WriteCall
<1>2. /\ content[f] \in Seq(Data) /\ Len(content[f]) <= MaxSize /\ writes \in 0 .. MaxWrites
      /\ MaxSize \in Nat /\ MaxWrites \in Nat
  BY Zenon, PoolAssumption DEF IInv, PoolType, ContentOK
<1>3. /\ Idle /\ UNCHANGED <<cells, stable, up, cursor, dataEnd, meta, content, limbo>>
      /\ Roomy(MaxSize) /\ Start("UpdateExtents", f, bytes, want)
      /\ writes' = writes + 1 /\ writes < MaxWrites
  BY Zenon DEF WriteCall
<1>4. writes' \in 0 .. MaxWrites
  BY <1>2, <1>3
<1>5. b \in Data /\ Zero \in Data /\ Data \subseteq CellValue /\ offset \in Nat
  BY <1>2 DEF Byte, Data, Zero, CellValue
<1>6. dataEnd # "lost" => bytes = want
  BY Zenon, <1>1
<1> HIDE DEF b
<1> DEFINE m == IF Len(content[f]) >= offset + 1 THEN Len(content[f]) ELSE offset + 1
<1>7. bytes \in Seq(CellValue) /\ Len(bytes) = m
  <2>1. b \in CellValue /\ Zero \in CellValue
    BY Zenon, <1>5
  <2> QED BY Zenon, <1>1, <1>5, <2>1, PatchedIs
<1>8. want \in Seq(Data) /\ Len(want) = m
  BY Zenon, <1>2, <1>5, PatchedIs
<1>9. m <= MaxSize
  BY <1>2
<1> HIDE DEF bytes, want, m
<1> QED BY Zenon, <1>3, <1>4, <1>6, <1>7, <1>8, <1>9, StartOK

LEMMA BeginConvertOK ==
  ASSUME IInv, NEW f \in Files, BeginConvert(f)
  PROVE  IInv'
<1>1. Steady
  BY Zenon, QuietSteady DEF IInv, BeginConvert
<1>2. ASSUME NEW g \in Files
      PROVE  /\ meta'[g].pieces = meta[g].pieces
             /\ HeaderLen(meta'[g].mode) = HeaderLen(meta[g].mode)
             /\ meta'[g] \in [mode : Modes, pieces : Seq(Pieces)]
  <2>1. meta[g] \in [mode : Modes, pieces : Seq(Pieces)] /\ DOMAIN meta = Files
    BY Zenon DEF IInv, PoolType
  <2>2. meta'[g] = IF g = f THEN [meta[f] EXCEPT !.mode = "Converting"] ELSE meta[g]
    BY Zenon, <2>1 DEF BeginConvert
  <2>3. CASE g # f
    BY Zenon, <2>1, <2>2, <2>3
  <2>4. CASE g = f
    <3>1. "Converting" \in Modes /\ meta[f].mode = "AppendOnly"
      BY Zenon DEF Modes, BeginConvert
    <3>2. meta'[g] = [meta[f] EXCEPT !.mode = "Converting"]
      BY Zenon, <2>2, <2>4
    <3>3. meta'[g].mode = "Converting" /\ meta'[g].pieces = meta[g].pieces
      BY Zenon, <2>1, <2>4, <3>2
    <3>4. meta'[g] \in [mode : Modes, pieces : Seq(Pieces)]
      BY Zenon, <2>1, <2>4, <3>1, <3>2
    <3> QED BY Zenon, <2>4, <3>1, <3>3, <3>4 DEF HeaderLen
  <2> QED BY Zenon, <2>3, <2>4
<1>3. PoolType'
  <2>1. meta' = [g \in Files |-> meta'[g]]
    BY Zenon DEF BeginConvert, IInv, PoolType
  <2>2. meta' \in [Files -> [mode : Modes, pieces : Seq(Pieces)]]
    BY Zenon, <1>2, <2>1
  <2> QED BY Zenon, <2>2 DEF IInv, PoolType, BeginConvert
<1>4. PiecesPlaced'
  <2>1. ASSUME NEW g \in Files
        PROVE  \A i \in 1 .. Len(meta'[g].pieces) :
                   PiecePlaced(meta[g].pieces[i], HeaderLen(meta[g].mode))'
    BY Zenon, <1>1, <1>2, PiecesKept DEF IInv
  <2> QED BY Zenon, <2>1 DEF PiecesPlaced
<1>5. ContentOK'
  BY Zenon, <1>1, <1>2 DEF IInv, ContentOK, Steady, BeginConvert
<1>6. CursorStops'
  BY Zenon, CursorStopsQuiet DEF IInv, BeginConvert
<1>7. flight' = NoFlight /\ LimboNext
  BY Zenon DEF BeginConvert, Idle, LimboNext
<1> QED BY Zenon, <1>3, <1>4, <1>5, <1>6, <1>7, CallEnds

-----------------------------------------------------------------------------
(* Writing to a disk.                                                       *)
LEMMA FrameIs ==
  ASSUME NEW fl \in Flights, fl.op = "AppendChunk" => fl.bytes \in Seq(Data)
  PROVE  /\ Frame(fl) \in Seq(CellValue)
         /\ Len(Frame(fl)) = OpHeader(fl) + Len(fl.bytes)
         /\ \A i \in 1 .. Len(fl.bytes) : Frame(fl)[OpHeader(fl) + i] = fl.bytes[i]
         /\ fl.op = "AppendChunk" => Frame(fl)[1] = Header(fl.bytes)
<1>0. fl.bytes \in Seq(CellValue)
  BY Zenon DEF Flights
<1>1. CASE fl.op = "AppendChunk"
  <2> DEFINE v == Header(fl.bytes)
             bytes == fl.bytes
  <2>1. v \in CellValue
    BY Zenon, <1>1 DEF Header, Headers, CellValue
  <2>2. Frame(fl) = <<v>> \o bytes /\ OpHeader(fl) = 1 /\ bytes \in Seq(CellValue)
    BY Zenon, <1>0, <1>1 DEF Frame, OpHeader
  <2> HIDE DEF v, bytes
  <2>3. <<v>> \in Seq(CellValue) /\ Len(<<v>>) = 1
    BY <2>1
  <2>4. /\ Frame(fl) \in Seq(CellValue) /\ Len(Frame(fl)) = 1 + Len(bytes)
        /\ \A i \in 1 .. Len(bytes) : Frame(fl)[1 + i] = bytes[i]
        /\ Frame(fl)[1] = v
    BY <2>2, <2>3
  <2> QED BY Zenon, <2>2, <2>4 DEF v, bytes
<1>2. CASE fl.op # "AppendChunk"
  BY <1>0, <1>2 DEF Frame, OpHeader
<1> QED BY Zenon, <1>1, <1>2

LEMMA WriteAtIs ==
  ASSUME NEW disk \in [Disks -> Row], NEW d \in Disks, NEW c \in Nat, NEW data \in Seq(CellValue)
  PROVE  /\ WriteAt(disk, d, c, data) \in [Disks -> Row]
         /\ \A e \in Disks, x \in Cell :
               e # d \/ x < c => WriteAt(disk, d, c, data)[e][x] = disk[e][x]
         /\ \A i \in 1 .. Len(data) :
               c + i - 1 \in Cell => WriteAt(disk, d, c, data)[d][c + i - 1] = data[i]
<1> DEFINE new == WriteAt(disk, d, c, data)
           n == Len(data)
           row == [x \in Cell |-> IF x \in c .. c + n - 1 THEN data[x - c + 1] ELSE disk[d][x]]
<1>0. n \in Nat /\ \A i \in 1 .. n : data[i] \in CellValue
  OBVIOUS
<1>1. new = [disk EXCEPT ![d] = row]
  BY Zenon DEF WriteAt
<1> HIDE DEF n
<1>2. \A x \in Cell : x \in Int
  BY DEF Cell
<1>3. ASSUME NEW x \in Cell PROVE row[x] \in CellValue
  <2>1. x \in c .. c + n - 1 => x - c + 1 \in 1 .. n
    BY <1>0, <1>2
  <2>2. disk[d][x] \in CellValue
    BY Zenon DEF Row
  <2> QED BY Zenon, <1>0, <2>1, <2>2
<1>4. row \in Row
  BY Zenon, <1>3 DEF Row
<1>5. \A x \in Cell : x < c => row[x] = disk[d][x]
  BY <1>2
<1>6. \A i \in 1 .. n : c + i - 1 \in Cell => row[c + i - 1] = data[i]
  <2> SUFFICES ASSUME NEW i \in 1 .. n, c + i - 1 \in Cell PROVE row[c + i - 1] = data[i]
    BY Zenon
  <2>1. c + i - 1 \in c .. c + n - 1 /\ (c + i - 1) - c + 1 = i
    BY <1>0
  <2> QED BY Zenon, <2>1
<1> HIDE DEF row
<1>7. new \in [Disks -> Row] /\ new[d] = row /\ \A e \in Disks : e # d => new[e] = disk[e]
  BY Zenon, <1>1, <1>4
<1> HIDE DEF new
<1>8. \A e \in Disks, x \in Cell : e # d \/ x < c => new[e][x] = disk[e][x]
  BY Zenon, <1>5, <1>7
<1>9. \A i \in 1 .. n : c + i - 1 \in Cell => new[d][c + i - 1] = data[i]
  BY Zenon, <1>6, <1>7
<1> QED BY Zenon, <1>7, <1>8, <1>9 DEF new, n

(* The call under way, the disk it writes to next and the room there.       *)
LEMMA CallIs ==
  ASSUME IInv, flight # NoFlight
  PROVE  flight \in Flights /\ CallOK(flight) /\ up
BY Zenon DEF IInv, PoolType

LEMMA TargetIs ==
  ASSUME IInv, flight # NoFlight, flight.stage # "commit"
  PROVE  /\ Target \in Disks /\ cursor[Target] \in 0 .. MaxCells
         /\ Len(flight.done) \in Nat /\ Len(flight.done) + 1 \in 1 .. Replicas
         /\ Fits => cursor[Target] + Len(Frame(flight)) <= MaxCells
<1>1. flight \in Flights /\ CallOK(flight)
  BY Zenon, CallIs
<1> DEFINE k == Len(flight.done)
           n == Len(Frame(flight))
           m == Len(flight.bytes)
<1>2. k \in Nat /\ k < Replicas /\ Replicas \in Nat /\ flight.disks \in [1 .. Replicas -> Disks]
  BY <1>1, PoolAssumption DEF Flights, Places, CallOK
<1>3. n = OpHeader(flight) + m /\ m \in Nat
  <2>1. flight.op = "AppendChunk" => flight.bytes \in Seq(Data)
    BY Zenon, <1>1 DEF CallOK
  <2>2. n = OpHeader(flight) + m
    BY Zenon, <1>1, <2>1, FrameIs
  <2>3. flight.bytes \in Seq(CellValue)
    BY Zenon, <1>1 DEF Flights
  <2> QED BY <2>2, <2>3
<1>4. Target = flight.disks[k + 1]
  BY Zenon DEF Target
<1>5. flight.op = "AppendChunk" /\ Fits => cursor[Target] + n <= SegmentCells
  BY Zenon DEF Fits
<1>6. flight.op # "AppendChunk" =>
          \A j \in k + 1 .. Replicas : cursor[flight.disks[j]] + m <= MaxCells
  BY Zenon DEF IInv, ExtentRoom
<1> HIDE DEF k, n, m
<1>7. k + 1 \in 1 .. Replicas /\ k + 1 \in k + 1 .. Replicas
  BY <1>2
<1>8. Target \in Disks
  BY Zenon, <1>2, <1>4, <1>7
<1>9. cursor[Target] \in 0 .. MaxCells
  BY Zenon, <1>8 DEF IInv, PoolType
<1>10. CASE flight.op = "AppendChunk"
  <2>1. Fits => cursor[Target] + n <= MaxCells
    <3>1. n \in Nat
      BY <1>3 DEF OpHeader
    <3> QED BY <1>5, <1>9, <1>10, <3>1, Bounds
  <2> QED BY Zenon, <1>2, <1>7, <1>8, <1>9, <2>1 DEF k, n
<1>11. CASE flight.op # "AppendChunk"
  <2>1. cursor[Target] + m <= MaxCells
    BY Zenon, <1>4, <1>6, <1>7, <1>11
  <2>2. n = m
    BY <1>3, <1>11 DEF OpHeader
  <2> QED BY Zenon, <1>2, <1>7, <1>8, <1>9, <2>1, <2>2 DEF k, n
<1> QED BY Zenon, <1>10, <1>11

(* Whatever is written at the target's cursor.                              *)
LEMMA WriteKeeps ==
  ASSUME IInv, Writing("write"), NEW data \in Seq(CellValue),
         cells' = WriteAt(cells, Target, cursor[Target], data),
         UNCHANGED <<stable, up, cursor, dataEnd>>
  PROVE  cells' \in [Disks -> Row] /\ Steady /\ CursorStops'
<1>1. PoolType /\ cells \in [Disks -> Row] /\ up /\ cursor \in [Disks -> 0 .. MaxCells]
  BY Zenon, CallIs DEF IInv, PoolType, Writing
<1>2. Target \in Disks /\ cursor[Target] \in Nat
  BY TargetIs, Bounds DEF Writing
<1>3. PICK t \in Disks, c \in Nat : t = Target /\ c = cursor[Target]
  BY Zenon, <1>2
<1>4. cells' = WriteAt(cells, t, c, data)
  BY Zenon, <1>3
<1>5. /\ cells' \in [Disks -> Row]
      /\ \A e \in Disks, x \in Cell : e # t \/ x < c => cells'[e][x] = cells[e][x]
  BY <1>1, <1>3, <1>4, WriteAtIs
<1>6. \A d \in Disks, x \in Cell : x < cursor[d] => cells'[d][x] = cells[d][x]
  BY Zenon, <1>3, <1>5
<1>7. Steady
  BY Zenon, <1>1, <1>5, <1>6, WriteSteady
<1>8. CursorStops'
  <2>1. ASSUME NEW d \in Disks, cursor[d] \in ScanStops(d) PROVE cursor[d] \in ScanStops(d)'
    <3>1. PICK e \in ScanStops(d) : e = cursor[d]
      BY Zenon, <2>1
    <3>2. \A x \in Cell : x < e => cells'[d][x] = cells[d][x]
      BY Zenon, <1>6, <3>1
    <3> QED BY Zenon, <1>1, <1>5, <3>1, <3>2, ScanKept
  <2>2. CursorStops
    BY Zenon DEF IInv
  <2> QED BY Zenon, <2>1, <2>2 DEF CursorStops
<1> QED BY Zenon, <1>5, <1>7, <1>8

LEMMA WriteFailsOK == ASSUME IInv, WriteFails PROVE IInv'
<1>1. Writing("write") /\ UNCHANGED <<dataEnd, stable, up, cursor, meta, limbo, content, writes>>
  BY Zenon DEF WriteFails
<1>2. PICK n \in 0 .. Len(Frame(flight)) :
          cells' = WriteAt(cells, Target, cursor[Target], SubSeq(Frame(flight), 1, n))
  BY Zenon DEF WriteFails
<1>3. Frame(flight) \in Seq(CellValue)
  <2>1. flight \in Flights /\ (flight.op = "AppendChunk" => flight.bytes \in Seq(Data))
    BY Zenon, <1>1, CallIs DEF CallOK, Writing
  <2> QED BY Zenon, <2>1, FrameIs
<1>4. SubSeq(Frame(flight), 1, n) \in Seq(CellValue)
  BY <1>3, <1>2
<1>5. PICK data \in Seq(CellValue) : data = SubSeq(Frame(flight), 1, n)
  BY Zenon, <1>4
<1>6. cells' \in [Disks -> Row] /\ Steady /\ CursorStops'
  BY Zenon, <1>1, <1>2, <1>5, WriteKeeps
<1>7. flight' = NoFlight /\ LimboStep
  BY Zenon, <1>1 DEF WriteFails, LimboStep
<1>8. PoolType'
  BY Zenon, <1>1, <1>6, <1>7 DEF IInv, PoolType
<1>9. PiecesPlaced' /\ ContentOK' /\ LimboNext
  BY Zenon, <1>1, <1>6, <1>7, StoreKept, LimboKept
<1> QED BY Zenon, <1>6, <1>7, <1>8, <1>9, CallEnds

LEMMA WriteReplicaOK == ASSUME IInv, WriteReplica PROVE IInv'
<1>1. /\ Writing("write") /\ Fits /\ cells' = WriteAt(cells, Target, cursor[Target], Frame(flight))
      /\ UNCHANGED <<dataEnd, stable, up, cursor, meta, limbo, content, writes>>
      /\ flight' = [flight EXCEPT !.stage = "sync"]
  BY Zenon DEF WriteReplica
<1>2. flight \in Flights /\ CallOK(flight) /\ up /\ flight.stage = "write" /\ flight # NoFlight
  BY Zenon, <1>1, CallIs DEF Writing
<1>3. Frame(flight) \in Seq(CellValue)
  BY Zenon, <1>2, FrameIs DEF CallOK
<1>4. PICK data \in Seq(CellValue) : data = Frame(flight)
  BY Zenon, <1>3
<1>5. cells' \in [Disks -> Row] /\ Steady /\ CursorStops'
  BY Zenon, <1>1, <1>4, WriteKeeps
<1>6. PICK fl \in Flights : fl = [flight EXCEPT !.stage = "sync"]
  BY Zenon, <1>2 DEF Flights
<1>7. /\ flight' = fl /\ fl.stage = "sync" /\ fl.op = flight.op /\ fl.file = flight.file
      /\ fl.bytes = flight.bytes /\ fl.want = flight.want /\ fl.done = flight.done
      /\ fl.disks = flight.disks
  BY Zenon, <1>1, <1>2, <1>6 DEF Flights
<1>8. CallOK(fl)
  BY Zenon, <1>2, <1>7 DEF CallOK, OpHeader
<1>9. CallOK(fl)'
  BY Zenon, <1>1, <1>5, <1>8, CallKept
<1>10. PiecesPlaced' /\ ContentOK' /\ LimboNext
  BY Zenon, <1>1, <1>5, StoreKept, LimboKept DEF LimboStep
<1>11. Target' = Target /\ Frame(flight)' = Frame(flight)
  BY Zenon, <1>7 DEF Target, Frame
<1>12. FrameWritten'
  <2>1. /\ Target \in Disks /\ cursor[Target] \in 0 .. MaxCells
        /\ cursor[Target] + Len(Frame(flight)) <= MaxCells
    BY Zenon, <1>1, <1>2, TargetIs
  <2>2. PICK t \in Disks, c \in 0 .. MaxCells : t = Target /\ c = cursor[Target]
    BY Zenon, <2>1
  <2>3. cells' = WriteAt(cells, t, c, data) /\ c + Len(data) <= MaxCells /\ c \in Nat
        /\ Len(data) \in Nat
    BY <1>1, <1>4, <2>1, <2>2, Bounds
  <2>4. \A i \in 1 .. Len(data) : c + i - 1 \in Cell
    BY <2>3, Bounds DEF Cell
  <2>5. \A i \in 1 .. Len(data) : cells'[t][c + i - 1] = data[i]
    <3>1. cells \in [Disks -> Row]
      BY Zenon DEF IInv, PoolType
    <3> QED BY <2>3, <2>4, <3>1, WriteAtIs
  <2>6. Fits'
    BY Zenon, <1>1, <1>7, <1>11 DEF Fits
  <2>7. \A i \in 1 .. Len(Frame(flight)') :
            cells'[Target'][cursor'[Target'] + i - 1] = Frame(flight)'[i]
    BY Zenon, <1>1, <1>4, <1>11, <2>2, <2>5
  <2> QED BY Zenon, <2>6, <2>7 DEF FrameWritten
<1>13. ExtentRoom'
  BY Zenon, <1>1, <1>2, <1>7 DEF IInv, ExtentRoom
<1>14. PoolType'
  BY Zenon, <1>1, <1>5, <1>7 DEF IInv, PoolType
<1>15. CallOK(flight)'
  BY Zenon, <1>7, <1>9
<1> QED BY Zenon, <1>1, <1>2, <1>5, <1>10, <1>12, <1>13, <1>14, <1>15 DEF IInv,
           LimboNext

-----------------------------------------------------------------------------
(* Syncing what was written.  The scan goes on behind a record that starts  *)
(* where it stops.                                                          *)
LEMMA RecordScanned ==
  ASSUME NEW row \in Row, NEW c \in Stops(row, 0), NEW bytes \in Seq(Data),
         c + 1 + Len(bytes) <= SegmentCells, row[c] = Header(bytes),
         \A i \in 1 .. Len(bytes) : row[c + i] = bytes[i]
  PROVE  c + 1 + Len(bytes) \in Stops(row, 0)
<1>1. row[c].kind = "header" /\ row[c].bytes = bytes
  <2>1. Header(bytes).kind = "header" /\ Header(bytes).bytes = bytes
    BY Zenon DEF Header
  <2> QED BY Zenon, <2>1
<1>2. After(row, c) = c + 1 + Len(bytes)
  BY Zenon, <1>1 DEF After
<1>3. c + 1 <= SegmentCells
  <2>1. c \in 0 .. MaxCells
    BY Zenon DEF Stops
  <2> DEFINE n == Len(bytes)
  <2>2. n \in Nat /\ c + 1 + n <= SegmentCells
    OBVIOUS
  <2> HIDE DEF n
  <2> QED BY <2>1, <2>2, Bounds
<1>4. RecordIn(row, c)
  BY Zenon, <1>1, <1>2, <1>3 DEF RecordIn
<1>5. Follows(row, Stops(row, 0))
  <2>1. 0 \in 0 .. MaxCells
    BY Bounds
  <2> QED BY Zenon, <2>1, StopsFollow
<1> QED BY Zenon, <1>2, <1>4, <1>5 DEF Follows

(* The state of the target before the sync.                                 *)
LEMMA Synced ==
  ASSUME IInv, SyncReplica, NEW t, t = Target, NEW c, c = cursor[Target],
         NEW h, h = OpHeader(flight), NEW bytes, bytes = flight.bytes
  PROVE  /\ t \in Disks /\ c \in 0 .. MaxCells /\ h \in {0, 1} /\ bytes \in Seq(CellValue)
         /\ c + h + Len(bytes) <= MaxCells
         /\ Len(Frame(flight)) = h + Len(bytes)
         /\ \A i \in 1 .. Len(bytes) : cells[t][c + h + i - 1] = bytes[i]
         /\ flight.op = "AppendChunk" =>
               /\ h = 1 /\ bytes \in Seq(Data) /\ cells[t][c] = Header(bytes)
               /\ c + 1 + Len(bytes) <= SegmentCells
<1>1. flight \in Flights /\ CallOK(flight) /\ flight.stage = "sync" /\ flight # NoFlight
  BY Zenon, CallIs DEF SyncReplica, Writing
<1> DEFINE fr == Frame(flight)
           n == Len(bytes)
<1>2. fr \in Seq(CellValue) /\ Len(fr) = h + n
      /\ (\A i \in 1 .. n : fr[h + i] = bytes[i])
      /\ (flight.op = "AppendChunk" => fr[1] = Header(bytes))
  BY Zenon, <1>1, FrameIs DEF CallOK
<1>3. bytes \in Seq(CellValue) /\ n \in Nat /\ h \in {0, 1}
  BY <1>1 DEF Flights, OpHeader
<1>4. Fits /\ \A i \in 1 .. Len(fr) : cells[t][c + i - 1] = fr[i]
  BY Zenon, <1>1 DEF IInv, FrameWritten
<1>5. t \in Disks /\ c \in 0 .. MaxCells /\ c + Len(fr) <= MaxCells
  BY Zenon, <1>1, <1>4, TargetIs
<1>6. flight.op = "AppendChunk" => h = 1 /\ bytes \in Seq(Data) /\ c + Len(fr) <= SegmentCells
  BY Zenon, <1>1, <1>4 DEF CallOK, Fits, OpHeader
<1> HIDE DEF fr, n
<1>7. c + h + n <= MaxCells
  BY <1>2, <1>3, <1>5, Bounds
<1>8. ASSUME NEW i \in 1 .. n PROVE cells[t][c + h + i - 1] = bytes[i]
  <2>1. h + i \in 1 .. Len(fr) /\ c + (h + i) - 1 = c + h + i - 1
    <3>1. Len(fr) = h + n /\ n \in Nat /\ h \in {0, 1} /\ c \in Nat
      BY <1>2, <1>3, <1>5
    <3> QED BY ONLY SMTT(20), <3>1, i \in 1 .. n
  <2>2. cells[t][c + (h + i) - 1] = fr[h + i]
    BY Zenon, <1>4, <2>1
  <2> QED BY Zenon, <1>2, <2>1, <2>2
<1>9. ASSUME flight.op = "AppendChunk" PROVE cells[t][c] = Header(bytes) /\ c + 1 + n <= SegmentCells
  <2>1. h = 1 /\ 1 \in 1 .. Len(fr) /\ c + 1 - 1 = c /\ c + 1 + n <= SegmentCells
    BY <1>2, <1>3, <1>5, <1>6, <1>9, Bounds
  <2> QED BY Zenon, <1>2, <1>4, <1>9, <2>1
<1> QED BY Zenon, <1>2, <1>3, <1>5, <1>6, <1>7, <1>8, <1>9 DEF fr, n

(* The replica is where the call will say it is.                            *)
LEMMA SyncPlaces ==
  ASSUME IInv, SyncReplica, NEW t, t = Target, NEW c, c = cursor[Target],
         NEW h, h = OpHeader(flight), NEW bytes, bytes = flight.bytes
  PROVE  /\ cursor'[t] = c + h + Len(bytes)
         /\ \A d \in Disks : d # t => cursor'[d] = cursor[d]
         /\ cursor' \in [Disks -> 0 .. MaxCells]
         /\ dataEnd' = "scan" => c + h + Len(bytes) \in ScanStops(t)'
         /\ Placed(<<t, c>>, h, bytes)'
<1> DEFINE n == Len(bytes)
           e == c + h + n
<1>1. /\ t \in Disks /\ c \in 0 .. MaxCells /\ h \in {0, 1} /\ bytes \in Seq(CellValue)
      /\ e <= MaxCells /\ Len(Frame(flight)) = h + n
      /\ \A i \in 1 .. n : cells[t][c + h + i - 1] = bytes[i]
      /\ flight.op = "AppendChunk" =>
               /\ h = 1 /\ bytes \in Seq(Data) /\ cells[t][c] = Header(bytes)
               /\ c + 1 + n <= SegmentCells
  BY Synced
<1>2. n \in Nat
  BY <1>1
<1>3. /\ UNCHANGED <<cells, up>> /\ stable' = [stable EXCEPT ![t] = cells[t]]
      /\ cursor' = [cursor EXCEPT ![t] = c + (h + n)]
      /\ dataEnd' = IF dataEnd = "scan" /\ flight.op # "AppendChunk" THEN "memory" ELSE dataEnd
  BY Zenon, <1>1 DEF SyncReplica, NoteExtent
<1>4. cells \in [Disks -> Row] /\ cells' \in [Disks -> Row] /\ stable \in [Disks -> Row]
      /\ cursor \in [Disks -> 0 .. MaxCells] /\ up
  BY Zenon, <1>3, CallIs DEF IInv, PoolType, SyncReplica, Writing
<1>5. dataEnd' = "scan" => e \in ScanStops(t)'
  <2> SUFFICES ASSUME dataEnd' = "scan" PROVE e \in ScanStops(t)'
    BY Zenon
  <2>1. dataEnd = "scan" /\ flight.op = "AppendChunk"
    BY Zenon, <1>3
  <2>2. c \in ScanStops(t) /\ cells[t] \in Row /\ cells'[t] \in Row
    BY Zenon, <1>1, <1>4, <2>1 DEF IInv, CursorStops
  <2>3. c \in Stops(cells[t], 0)
    BY Zenon, <1>1, <2>2, ScanStopsIs
  <2>4. h = 1 /\ bytes \in Seq(Data) /\ cells[t][c] = Header(bytes) /\ c + 1 + n <= SegmentCells
    BY Zenon, <1>1, <2>1
  <2>5. \A i \in 1 .. n : cells[t][c + i] = bytes[i]
    <3>1. \A i \in 1 .. n : c + h + i - 1 = c + i
      BY <1>1, <1>2, <2>4, Bounds
    <3> QED BY Zenon, <1>1, <3>1
  <2>6. c + 1 + n \in Stops(cells[t], 0)
    BY Zenon, <2>2, <2>3, <2>4, <2>5, RecordScanned
  <2>7. cells'[t] = cells[t]
    BY Zenon, <1>3
  <2> QED BY Zenon, <1>1, <2>2, <2>4, <2>6, <2>7, ScanStopsNext
<1> HIDE DEF n
<1>6. cursor'[t] = e /\ e \in 0 .. MaxCells /\ \A d \in Disks : d # t => cursor'[d] = cursor[d]
  BY <1>1, <1>2, <1>3, <1>4, Bounds
<1>7. cursor' \in [Disks -> 0 .. MaxCells]
  BY Zenon, <1>3, <1>4, <1>6
<1>8. Ended(t, e)'
  <2>1. \A x \in Cell : cells'[t][x] = stable'[t][x]
    BY Zenon, <1>1, <1>3, <1>4
  <2>2. e <= cursor'[t]
    BY <1>6
  <2> QED BY Zenon, <1>5, <2>1, <2>2 DEF Ended
<1>9. \A i \in 1 .. n : cells'[t][c + h + i - 1] = bytes[i]
  BY Zenon, <1>1, <1>3
<1>10. Placed(<<t, c>>, h, bytes)'
  <2>1. <<t, c>>[1] = t /\ <<t, c>>[2] = c
    BY Zenon
  <2> QED BY Zenon, <1>1, <1>8, <1>9, <2>1 DEF Placed, n
<1> QED BY Zenon, <1>5, <1>6, <1>7, <1>10 DEF n

(* The call after the sync.                                                 *)
LEMMA SyncCall ==
  ASSUME IInv, SyncReplica, NEW t, t = Target, NEW c, c = cursor[Target]
  PROVE  \E fl \in Flights :
            /\ flight' = fl /\ fl.stage # "sync"
            /\ fl.op = flight.op /\ fl.file = flight.file /\ fl.bytes = flight.bytes
            /\ fl.want = flight.want /\ fl.disks = flight.disks
            /\ fl.done = Append(flight.done, <<t, c>>)
            /\ fl.stage = "commit" => Len(fl.done) = Replicas
            /\ fl.stage # "commit" => Len(fl.done) < Replicas
<1>1. flight \in Flights /\ CallOK(flight) /\ flight.stage = "sync" /\ flight # NoFlight
  BY Zenon, CallIs DEF SyncReplica, Writing
<1> DEFINE stage == IF Len(flight.done) + 1 = Replicas THEN "commit" ELSE "write"
           done == Append(flight.done, <<t, c>>)
           fl == [flight EXCEPT !.done = done, !.stage = stage]
<1>2. flight' = fl
  BY Zenon DEF SyncReplica
<1>3. t \in Disks /\ c \in 0 .. MaxCells /\ Len(flight.done) + 1 \in 1 .. Replicas
      /\ Len(flight.done) \in Nat
  BY Zenon, <1>1, TargetIs
<1>4. <<t, c>> \in Spot /\ flight.done \in Seq(Spot)
  BY Zenon, <1>1, <1>3 DEF Spot, Flights
<1>5. done \in Seq(Spot) /\ Len(done) = Len(flight.done) + 1
  BY <1>4
<1>6. stage \in {"commit", "write"} /\ (stage = "commit" <=> Len(done) = Replicas)
      /\ (stage # "commit" => Len(done) < Replicas)
  BY <1>3, <1>5, PoolAssumption
<1> HIDE DEF stage, done
<1>7. /\ fl \in Flights /\ fl.op = flight.op /\ fl.file = flight.file /\ fl.bytes = flight.bytes
      /\ fl.want = flight.want /\ fl.disks = flight.disks /\ fl.done = done /\ fl.stage = stage
  BY Zenon, <1>1, <1>5, <1>6 DEF Flights
<1> HIDE DEF fl
<1> QED BY Zenon, <1>2, <1>6, <1>7 DEF done

LEMMA SyncReplicaOK == ASSUME IInv, SyncReplica PROVE IInv'
<1>0. flight \in Flights /\ CallOK(flight) /\ flight.stage = "sync" /\ flight # NoFlight /\ up
  BY Zenon, CallIs DEF SyncReplica, Writing
<1>1. PICK t, c, h, bytes : t = Target /\ c = cursor[Target] /\ h = OpHeader(flight)
                            /\ bytes = flight.bytes
  BY Zenon
<1>2. /\ t \in Disks /\ c \in 0 .. MaxCells /\ h \in {0, 1} /\ bytes \in Seq(CellValue)
  BY Zenon, <1>1, Synced
<1>3. /\ cursor'[t] = c + h + Len(bytes)
      /\ \A d \in Disks : d # t => cursor'[d] = cursor[d]
      /\ cursor' \in [Disks -> 0 .. MaxCells]
      /\ dataEnd' = "scan" => c + h + Len(bytes) \in ScanStops(t)'
      /\ Placed(<<t, c>>, h, bytes)'
  BY <1>1, SyncPlaces
<1>4. PICK fl \in Flights :
            /\ flight' = fl /\ fl.stage # "sync"
            /\ fl.op = flight.op /\ fl.file = flight.file /\ fl.bytes = flight.bytes
            /\ fl.want = flight.want /\ fl.disks = flight.disks
            /\ fl.done = Append(flight.done, <<t, c>>)
            /\ fl.stage = "commit" => Len(fl.done) = Replicas
            /\ fl.stage # "commit" => Len(fl.done) < Replicas
  BY <1>1, SyncCall
<1>5. /\ UNCHANGED <<cells, up, meta, limbo, content, writes>>
      /\ stable' = [stable EXCEPT ![t] = cells[t]]
      /\ dataEnd' = IF dataEnd = "scan" /\ flight.op # "AppendChunk" THEN "memory" ELSE dataEnd
  BY Zenon, <1>1 DEF SyncReplica, NoteExtent
<1>6. PoolType'
  <2>1. stable' \in [Disks -> Row]
    BY Zenon, <1>2, <1>5 DEF IInv, PoolType
  <2>2. dataEnd' \in {"scan", "memory", "lost"}
    BY Zenon, <1>5 DEF IInv, PoolType
  <2> QED BY Zenon, <1>3, <1>4, <1>5, <2>1, <2>2 DEF IInv, PoolType
<1>7. Steady
  <2>1. \A d \in Disks : stable'[d] \in {stable[d], cells[d]}
    BY Zenon, <1>2, <1>5 DEF IInv, PoolType
  <2>2. ASSUME NEW d \in Disks PROVE cursor'[d] \in Nat /\ cursor[d] <= cursor'[d]
    <3>1. cursor[d] \in 0 .. MaxCells /\ cursor'[d] \in 0 .. MaxCells
      BY Zenon, <1>3 DEF IInv, PoolType
    <3>2. CASE d = t
      <4> DEFINE n == Len(bytes)
      <4>1. n \in Nat /\ cursor'[d] = c + h + n /\ cursor[d] = c
        BY <1>1, <1>2, <1>3, <3>2
      <4> HIDE DEF n
      <4> QED BY <1>2, <3>1, <4>1, Bounds
    <3>3. CASE d # t
      BY <1>3, <3>1, <3>3, Bounds
    <3> QED BY Zenon, <3>2, <3>3
  <2>3. (dataEnd' # "lost" => dataEnd # "lost") /\ (dataEnd' = "scan" => dataEnd = "scan")
    BY Zenon, <1>5
  <2> QED BY Zenon, <1>5, <2>1, <2>2, <2>3, SyncSteady DEF IInv
<1>8. PiecesPlaced' /\ ContentOK' /\ LimboNext
  BY Zenon, <1>5, <1>7, StoreKept, LimboKept DEF LimboStep
<1>9. CallOK(fl)'
  <2>1. PICK old \in Flights : old = flight
    BY Zenon, <1>0
  <2>2. CallOK(old)'
    BY Zenon, <1>0, <1>5, <1>7, <2>1, CallKept
  <2>3. fl.op = old.op /\ fl.file = old.file /\ fl.bytes = old.bytes /\ fl.want = old.want
        /\ fl.done = Append(old.done, <<t, c>>) /\ old.done \in Seq(Spot)
        /\ old.stage = "sync" /\ OpHeader(fl) = h /\ OpHeader(old) = h /\ fl.bytes = bytes
    BY Zenon, <1>0, <1>1, <1>4, <2>1 DEF Flights, OpHeader
  <2>4. ASSUME NEW k \in 1 .. Len(fl.done) PROVE Placed(fl.done[k], h, bytes)'
    <3> DEFINE m == Len(old.done)
    <3>1. m \in Nat /\ Len(fl.done) = m + 1
      BY <2>3
    <3>2. CASE k = m + 1
      <4>1. fl.done[k] = <<t, c>>
        BY <2>3, <3>2
      <4> QED BY Zenon, <1>3, <4>1
    <3>3. CASE k # m + 1
      <4>1. k \in 1 .. m
        BY <3>1, <3>3
      <4>2. fl.done[k] = old.done[k]
        BY <2>3, <4>1
      <4>3. Placed(old.done[k], OpHeader(old), old.bytes)'
        BY Zenon, <2>2, <4>1 DEF CallOK
      <4> QED BY Zenon, <2>3, <4>2, <4>3
    <3> QED BY Zenon, <3>2, <3>3
  <2> QED BY Zenon, <1>4, <2>2, <2>3, <2>4 DEF CallOK
<1>10. ExtentRoom'
  <2> SUFFICES ASSUME fl.op # "AppendChunk", NEW k \in Len(fl.done) + 1 .. Replicas
               PROVE  cursor'[fl.disks[k]] + Len(fl.bytes) <= MaxCells
    BY Zenon, <1>4 DEF ExtentRoom
  <2> DEFINE m == Len(flight.done)
  <2>1. m \in Nat /\ Len(fl.done) = m + 1 /\ m + 1 \in 1 .. Replicas
    BY <1>0, <1>4, TargetIs DEF Flights
  <2>2. k \in m + 1 .. Replicas /\ k \in 1 .. Replicas /\ k # m + 1
    BY <2>1
  <2>3. t = flight.disks[m + 1] /\ flight.disks \in Places
    BY Zenon, <1>0, <1>1 DEF Target, Flights
  <2>4. flight.disks[k] \in Disks /\ flight.disks[k] # t
    BY Zenon, <2>1, <2>2, <2>3 DEF Places
  <2>5. cursor[flight.disks[k]] + Len(flight.bytes) <= MaxCells
    BY Zenon, <1>0, <1>4, <2>2 DEF IInv, ExtentRoom
  <2> QED BY Zenon, <1>3, <1>4, <2>4, <2>5
<1>11. CursorStops'
  <2> SUFFICES ASSUME dataEnd' = "scan", NEW d \in Disks PROVE cursor'[d] \in ScanStops(d)'
    BY Zenon DEF CursorStops
  <2>1. CASE d = t
    BY Zenon, <1>3, <2>1
  <2>2. CASE d # t
    <3>1. PICK e \in ScanStops(d) : e = cursor[d]
      BY Zenon, <1>0, <1>5 DEF IInv, CursorStops
    <3>2. cells \in [Disks -> Row] /\ cells' \in [Disks -> Row]
      BY Zenon, <1>5 DEF IInv, PoolType
    <3>3. e \in ScanStops(d)'
      BY Zenon, <1>5, <3>1, <3>2, ScanKept
    <3> QED BY Zenon, <1>3, <2>2, <3>1, <3>3
  <2> QED BY Zenon, <2>1, <2>2
<1>12. FrameWritten'
  BY Zenon, <1>4 DEF FrameWritten
<1>13. CallOK(flight)' /\ up'
  BY Zenon, <1>0, <1>4, <1>5, <1>9
<1> QED BY Zenon, <1>6, <1>8, <1>10, <1>11, <1>12, <1>13 DEF IInv, LimboNext

-----------------------------------------------------------------------------
(* The metadata operation.                                                  *)
LEMMA FlatNone == FlatBytes(<<>>) = <<>>
BY DEF FlatBytes, FlattenSeq

LEMMA FlatAppend ==
  ASSUME NEW pieces \in Seq(Pieces), NEW p \in Pieces
  PROVE  FlatBytes(Append(pieces, p)) = FlatBytes(pieces) \o p.bytes
<1> DEFINE n == Len(pieces)
           T == Seq(CellValue)
           s == [i \in 1 .. n |-> pieces[i].bytes]
           new == Append(pieces, p)
<1>1. n \in Nat /\ p.bytes \in T /\ \A i \in 1 .. n : pieces[i].bytes \in T
  <2>1. n \in Nat /\ \A i \in 1 .. n : pieces[i] \in Pieces
    OBVIOUS
  <2> HIDE DEF n
  <2> QED BY Zenon, <2>1 DEF Pieces
<1>2. /\ Len(new) = n + 1 /\ new[n + 1] = p /\ \A i \in 1 .. n : new[i] = pieces[i]
  OBVIOUS
<1>3. s \in [1 .. n -> T]
  BY Zenon, <1>1
<1> HIDE DEF T, new
<1>4. s \in Seq(T) /\ Len(s) = n
  BY <1>1, <1>3
<1>5. Append(s, p.bytes) = [i \in 1 .. n + 1 |-> new[i].bytes]
  <2>1. Append(s, p.bytes) = [i \in 1 .. n + 1 |-> IF i = n + 1 THEN p.bytes ELSE s[i]]
    BY <1>1, <1>4
  <2>2. ASSUME NEW i \in 1 .. n + 1
        PROVE  (IF i = n + 1 THEN p.bytes ELSE s[i]) = new[i].bytes
    BY <1>1, <1>2
  <2> QED BY Zenon, <2>1, <2>2
<1>6. FlatBytes(new) = FlattenSeq(Append(s, p.bytes)) /\ FlatBytes(pieces) = FlattenSeq(s)
  BY Zenon, <1>2, <1>5 DEF FlatBytes
<1> HIDE DEF s
<1> QED BY Zenon, <1>1, <1>4, <1>6, FlattenAppend DEF T, new

LEMMA FlatOne ==
  ASSUME NEW p \in Pieces
  PROVE  FlatBytes(<<p>>) = p.bytes
<1>1. <<>> \in Seq(Pieces) /\ Append(<<>>, p) = <<p>>
  OBVIOUS
<1>2. FlatBytes(Append(<<>>, p)) = FlatBytes(<<>>) \o p.bytes
  BY Zenon, <1>1, FlatAppend
<1>3. p.bytes \in Seq(CellValue)
  BY Zenon DEF Pieces
<1>4. <<>> \o p.bytes = p.bytes
  BY <1>3
<1> QED BY Zenon, <1>1, <1>2, <1>4, FlatNone

(* The file's record after the operation: its pieces are placed and make up *)
(* what the call wanted.                                                    *)
LEMMA AppliedIs ==
  ASSUME IInv, Steady, NEW fl \in Flights, fl.stage = "commit", CallOK(fl),
         NEW rec, rec = Applied(meta[fl.file], fl)
  PROVE  /\ rec \in [mode : Modes, pieces : Seq(Pieces)]
         /\ \A i \in 1 .. Len(rec.pieces) : PiecePlaced(rec.pieces[i], HeaderLen(rec.mode))'
         /\ Len(FlatBytes(rec.pieces)) = Len(fl.want)
         /\ dataEnd # "lost" => FlatBytes(rec.pieces) = fl.want
<1> DEFINE f == fl.file
           p == Piece(fl.done, fl.bytes)
           h == OpHeader(fl)
<1>1. f \in Files /\ p \in Pieces /\ p.bytes = fl.bytes /\ p.replicas = fl.done /\ h \in {0, 1}
      /\ fl.bytes \in Seq(CellValue) /\ fl.done \in Seq(Spot)
  BY Zenon DEF Flights, Piece, Pieces, OpHeader
<1>2. meta[f] \in [mode : Modes, pieces : Seq(Pieces)] /\ content[f] \in Seq(Data)
  BY Zenon, <1>1 DEF IInv, PoolType
<1>3. ASSUME fl.bytes # <<>> PROVE PiecePlaced(p, h)'
  <2>1. Len(p.replicas) = Replicas /\ \A k \in 1 .. Replicas : Placed(p.replicas[k], h, p.bytes)
    BY Zenon, <1>1, <1>3 DEF CallOK
  <2>2. PiecePlaced(p, h)
    BY Zenon, <2>1 DEF PiecePlaced
  <2> HIDE DEF p, h
  <2> QED BY Zenon, <1>1, <2>2, PieceKept DEF IInv
<1>4. CASE fl.op = "AppendChunk"
  <2>1. PICK mode \in Modes, pieces \in Seq(Pieces) : meta[f] = [mode |-> mode, pieces |-> pieces]
    BY Zenon, <1>2
  <2>m. meta[f].mode = mode /\ meta[f].pieces = pieces
    BY <2>1
  <2>2. rec = [mode |-> mode, pieces |-> Append(pieces, p)]
    <3>1. rec = [meta[f] EXCEPT !.pieces = Append(@, p)]
      BY Zenon, <1>4 DEF Applied
    <3> HIDE DEF p
    <3> QED BY <2>1, <3>1
  <2>3. mode # "Writable" /\ fl.bytes # <<>> /\ fl.want = content[f] \o fl.bytes
        /\ fl.bytes \in Seq(Data)
    <3>1. meta[f].mode # "Writable" /\ fl.bytes # <<>> /\ fl.want = content[f] \o fl.bytes
          /\ fl.bytes \in Seq(Data)
      BY Zenon, <1>4 DEF CallOK
    <3> QED BY Zenon, <2>m, <3>1
  <2>4. h = 1 /\ HeaderLen(mode) = 1
    BY Zenon, <1>4, <2>3 DEF OpHeader, HeaderLen
  <2> DEFINE n == Len(pieces)
             new == Append(pieces, p)
  <2>5. new \in Seq(Pieces) /\ n \in Nat /\ Len(new) = n + 1 /\ new[n + 1] = p
        /\ \A i \in 1 .. n : new[i] = pieces[i] /\ pieces[i] \in Pieces
    BY <1>1
  <2>6. ASSUME NEW i \in 1 .. n + 1 PROVE PiecePlaced(new[i], 1)'
    <3>1. CASE i = n + 1
      BY Zenon, <1>3, <2>3, <2>4, <2>5, <3>1
    <3>2. CASE i # n + 1
      <4>1. i \in 1 .. n /\ pieces[i] \in Pieces /\ new[i] = pieces[i]
        BY <2>5, <3>2
      <4>2. PiecePlaced(pieces[i], 1)
        <5>1. \A j \in 1 .. Len(meta[f].pieces) :
                  PiecePlaced(meta[f].pieces[j], HeaderLen(meta[f].mode))
          BY Zenon, <1>1 DEF IInv, PiecesPlaced
        <5> QED BY Zenon, <2>4, <2>m, <4>1, <5>1
      <4>3. PiecePlaced(pieces[i], 1)'
        BY Zenon, <4>1, <4>2, PieceKept DEF IInv
      <4> QED BY Zenon, <4>1, <4>3
    <3> QED BY Zenon, <3>1, <3>2
  <2>7. FlatBytes(new) = FlatBytes(pieces) \o fl.bytes
    BY Zenon, <1>1, <2>1, FlatAppend
  <2>8. /\ Len(FlatBytes(pieces)) = Len(content[f])
        /\ dataEnd # "lost" => FlatBytes(pieces) = content[f]
    <3>1. /\ Len(FlatBytes(meta[f].pieces)) = Len(content[f])
          /\ dataEnd # "lost" => FlatBytes(meta[f].pieces) = content[f]
      BY Zenon, <1>1 DEF IInv, ContentOK
    <3> QED BY Zenon, <2>m, <3>1
  <2>9. FlatBytes(pieces) \in Seq(CellValue)
    <3> DEFINE T == Seq(CellValue)
               s == [i \in 1 .. n |-> pieces[i].bytes]
    <3>1. \A i \in 1 .. n : pieces[i].bytes \in T
      <4> HIDE DEF n
      <4> QED BY Zenon, <2>5 DEF Pieces
    <3>2. s \in [1 .. n -> T]
      BY Zenon, <3>1
    <3>3. FlatBytes(pieces) = FlattenSeq(s)
      BY Zenon DEF FlatBytes
    <3> HIDE DEF s, T, n
    <3>4. s \in Seq(T)
      BY <2>5, <3>2
    <3> QED BY Zenon, <3>3, <3>4, FlattenType DEF T
  <2>10. Len(FlatBytes(pieces) \o fl.bytes) = Len(content[f] \o fl.bytes)
    <3> DEFINE flat == FlatBytes(pieces)
               bytes == fl.bytes
               old == content[f]
    <3>0. /\ flat \in Seq(CellValue) /\ bytes \in Seq(CellValue) /\ bytes \in Seq(Data)
          /\ old \in Seq(Data) /\ Len(flat) = Len(old)
      BY Zenon, <1>1, <1>2, <2>3, <2>8, <2>9
    <3> HIDE DEF flat, bytes, old
    <3>1. Len(flat \o bytes) = Len(flat) + Len(bytes)
      BY <3>0
    <3>2. Len(old \o bytes) = Len(old) + Len(bytes)
      BY <3>0
    <3> QED BY Zenon, <3>0, <3>1, <3>2 DEF flat, bytes, old
  <2> HIDE DEF new, n, p
  <2>11. rec \in [mode : Modes, pieces : Seq(Pieces)] /\ rec.pieces = new /\ rec.mode = mode
    BY <2>1, <2>2, <2>5 DEF new
  <2> QED BY Zenon, <2>3, <2>4, <2>5, <2>6, <2>7, <2>8, <2>10, <2>11
<1>5. ASSUME fl.op # "AppendChunk"
      PROVE  h = 0 /\ HeaderLen("Writable") = 0 /\ "Writable" \in Modes
             /\ Len(fl.bytes) = Len(fl.want) /\ (dataEnd # "lost" => fl.bytes = fl.want)
  BY Zenon, <1>5 DEF CallOK, OpHeader, HeaderLen, Modes
<1>6. CASE fl.op # "AppendChunk" /\ fl.bytes = <<>>
  <2>1. rec = [mode |-> "Writable", pieces |-> <<>>]
    BY Zenon, <1>6 DEF Applied
  <2>2. rec \in [mode : Modes, pieces : Seq(Pieces)] /\ rec.pieces = <<>> /\ Len(<<>>) = 0
    BY <1>5, <1>6, <2>1
  <2> QED BY <1>5, <1>6, <2>2, FlatNone
<1>7. CASE fl.op # "AppendChunk" /\ fl.bytes # <<>>
  <2>1. rec = [mode |-> "Writable", pieces |-> <<p>>]
    BY Zenon, <1>7 DEF Applied
  <2>2. <<p>> \in Seq(Pieces) /\ Len(<<p>>) = 1 /\ <<p>>[1] = p
    BY <1>1
  <2> HIDE DEF p
  <2>3. rec \in [mode : Modes, pieces : Seq(Pieces)] /\ rec.pieces = <<p>> /\ rec.mode = "Writable"
    BY <1>5, <1>7, <2>1, <2>2
  <2>4. FlatBytes(<<p>>) = fl.bytes
    BY Zenon, <1>1, FlatOne
  <2>5. PiecePlaced(p, 0)'
    BY Zenon, <1>3, <1>5, <1>7
  <2>6. \A i \in 1 .. Len(<<p>>) : PiecePlaced(<<p>>[i], 0)'
    BY <2>2, <2>5
  <2> QED BY Zenon, <1>5, <1>7, <2>3, <2>4, <2>6
<1> QED BY Zenon, <1>4, <1>6, <1>7

LEMMA ApplyKeeps ==
  ASSUME IInv, Steady, NEW fl \in Flights, fl.stage = "commit", CallOK(fl),
         meta' = [meta EXCEPT ![fl.file] = Applied(@, fl)], content' = Expected(fl)
  PROVE  /\ meta' \in [Files -> [mode : Modes, pieces : Seq(Pieces)]]
         /\ content' \in [Files -> Seq(Data)]
         /\ PiecesPlaced' /\ ContentOK'
<1>1. PICK rec : rec = Applied(meta[fl.file], fl)
  BY Zenon
<1>2. /\ rec \in [mode : Modes, pieces : Seq(Pieces)]
      /\ \A i \in 1 .. Len(rec.pieces) : PiecePlaced(rec.pieces[i], HeaderLen(rec.mode))'
      /\ Len(FlatBytes(rec.pieces)) = Len(fl.want)
      /\ dataEnd # "lost" => FlatBytes(rec.pieces) = fl.want
  BY Zenon, <1>1, AppliedIs
<1>3. fl.file \in Files /\ fl.want \in Seq(Data) /\ Len(fl.want) <= MaxSize
  BY Zenon DEF Flights, CallOK
<1>4. /\ meta \in [Files -> [mode : Modes, pieces : Seq(Pieces)]]
      /\ content \in [Files -> Seq(Data)]
  BY Zenon DEF IInv, PoolType
<1>5. /\ meta' = [meta EXCEPT ![fl.file] = rec]
      /\ content' = [content EXCEPT ![fl.file] = fl.want]
  BY Zenon, <1>1, <1>3, <1>4 DEF Expected
<1>6. /\ meta' \in [Files -> [mode : Modes, pieces : Seq(Pieces)]]
      /\ content' \in [Files -> Seq(Data)]
      /\ meta'[fl.file] = rec /\ content'[fl.file] = fl.want
      /\ \A f \in Files : f # fl.file => meta'[f] = meta[f] /\ content'[f] = content[f]
  <2> DEFINE R == [mode : Modes, pieces : Seq(Pieces)]
             T == Seq(Data)
             w == fl.want
  <2>1. /\ fl.file \in Files /\ rec \in R /\ w \in T /\ meta \in [Files -> R] /\ content \in [Files -> T]
        /\ meta' = [meta EXCEPT ![fl.file] = rec] /\ content' = [content EXCEPT ![fl.file] = w]
    BY Zenon, <1>2, <1>3, <1>4, <1>5
  <2> HIDE DEF R, T, w
  <2>2. /\ meta' \in [Files -> R] /\ content' \in [Files -> T]
        /\ meta'[fl.file] = rec /\ content'[fl.file] = w
        /\ \A f \in Files : f # fl.file => meta'[f] = meta[f] /\ content'[f] = content[f]
    BY Zenon, <2>1
  <2> QED BY Zenon, <2>2 DEF R, T, w
<1>7. ASSUME NEW f \in Files
      PROVE  \A i \in 1 .. Len(meta'[f].pieces) :
                 PiecePlaced(meta[f].pieces[i], HeaderLen(meta[f].mode))'
  <2>1. CASE f = fl.file
    <3>1. rec = meta[f]'
      BY Zenon, <1>6, <2>1
    <3> QED BY Zenon, <1>2, <3>1
  <2>2. CASE f # fl.file
    <3>1. meta'[f] = meta[f]
      BY Zenon, <1>6, <2>2
    <3> QED BY Zenon, <3>1, PiecesKept DEF IInv
  <2> QED BY Zenon, <2>1, <2>2
<1>8. PiecesPlaced'
  BY Zenon, <1>7 DEF PiecesPlaced
<1>9. ContentOK'
  <2> SUFFICES ASSUME NEW f \in Files
               PROVE  /\ Len(FlatBytes(meta'[f].pieces)) = Len(content'[f])
                      /\ Len(content'[f]) <= MaxSize
                      /\ dataEnd' # "lost" => FlatBytes(meta'[f].pieces) = content'[f]
    BY Zenon DEF ContentOK
  <2>0. dataEnd' # "lost" => dataEnd # "lost"
    BY Zenon DEF Steady
  <2>1. CASE f = fl.file
    BY Zenon, <1>2, <1>3, <1>6, <2>0, <2>1
  <2>2. CASE f # fl.file
    BY Zenon, <1>6, <2>0, <2>2 DEF IInv, ContentOK
  <2> QED BY Zenon, <2>1, <2>2
<1> QED BY Zenon, <1>6, <1>8, <1>9

LEMMA CommitCallOK == ASSUME IInv, CommitCall PROVE IInv'
<1>1. flight \in Flights /\ CallOK(flight) /\ flight.stage = "commit"
  BY Zenon, CallIs DEF CommitCall, Writing
<1>2. Steady
  BY Zenon, QuietSteady DEF IInv, CommitCall
<1>3. PICK fl \in Flights : fl = flight
  BY Zenon, <1>1
<1>4. /\ meta' = [meta EXCEPT ![fl.file] = Applied(@, fl)] /\ content' = Expected(fl)
      /\ fl.stage = "commit" /\ CallOK(fl)
  BY Zenon, <1>1, <1>3 DEF CommitCall
<1>5. /\ meta' \in [Files -> [mode : Modes, pieces : Seq(Pieces)]]
      /\ content' \in [Files -> Seq(Data)]
      /\ PiecesPlaced' /\ ContentOK'
  BY Zenon, <1>2, <1>4, ApplyKeeps
<1>6. PoolType'
  BY Zenon, <1>5 DEF IInv, PoolType, CommitCall
<1>7. CursorStops'
  BY Zenon, CursorStopsQuiet DEF IInv, CommitCall
<1>8. flight' = NoFlight /\ LimboNext
  BY Zenon DEF CommitCall, LimboNext
<1> QED BY Zenon, <1>5, <1>6, <1>7, <1>8, CallEnds

-----------------------------------------------------------------------------
(* The process ends and the pool is opened again.                           *)
LEMMA DownOK ==
  ASSUME IInv, Down, Steady, cells' \in [Disks -> Row], stable' \in [Disks -> Row]
  PROVE  IInv'
<1>1. LimboStep /\ flight' = NoFlight /\ ~up' /\ UNCHANGED <<meta, content>>
  BY Zenon DEF Down, LimboStep
<1>2. PiecesPlaced' /\ ContentOK' /\ LimboNext
  BY Zenon, <1>1, StoreKept, LimboKept
<1>3. PoolType'
  <2>1. cursor' \in [Disks -> 0 .. MaxCells]
    BY Bounds DEF Down
  <2>2. limbo' \in Flights \cup {NoFlight}
    BY Zenon, <1>1 DEF IInv, PoolType, LimboStep
  <2> QED BY Zenon, <2>1, <2>2 DEF Down, IInv, PoolType
<1>4. CursorStops'
  BY Zenon, <1>1 DEF CursorStops
<1> QED BY Zenon, <1>1, <1>2, <1>3, <1>4, CallEnds

LEMMA KillOK == ASSUME IInv, Kill PROVE IInv'
<1>1. cells' \in [Disks -> Row] /\ stable' \in [Disks -> Row]
  BY Zenon DEF Kill, IInv, PoolType
<1>2. Steady
  <2>1. \A d \in Disks, c \in Cell :
             cells[d][c] = stable[d][c] => cells'[d][c] = cells[d][c] /\ stable'[d][c] = cells[d][c]
    BY Zenon DEF Kill
  <2> QED BY Zenon, <1>1, <2>1, DownSteady DEF Kill, Down, IInv
<1> QED BY Zenon, <1>1, <1>2, DownOK DEF Kill

LEMMA PowerLossOK == ASSUME IInv, PowerLoss PROVE IInv'
<1>1. PICK lost \in SUBSET Unsynced, torn \in SUBSET {x \in Unsynced : IsHeader(x)},
           part \in {Garbage, Blank} :
          stable' = [d \in Disks |-> [c \in Cell |->
              IF <<d, c>> \in torn THEN part
              ELSE IF <<d, c>> \in lost THEN stable[d][c] ELSE cells[d][c]]]
  BY Zenon DEF PowerLoss
<1>2. part \in CellValue
  <2>1. <<>> \in Seq(Data)
    OBVIOUS
  <2>2. Blank \in Headers
    BY Zenon, <2>1 DEF Blank, Header, Headers
  <2> QED BY Zenon, <1>1, <2>2 DEF CellValue
<1>3. cells \in [Disks -> Row] /\ stable \in [Disks -> Row]
  BY Zenon DEF IInv, PoolType
<1>4. stable' \in [Disks -> Row]
  BY Zenon, <1>1, <1>2, <1>3 DEF Row
<1>5. cells' = stable' /\ Down
  BY Zenon DEF PowerLoss
<1>6. ASSUME NEW d \in Disks, NEW c \in Cell, cells[d][c] = stable[d][c]
      PROVE  cells'[d][c] = cells[d][c] /\ stable'[d][c] = cells[d][c]
  <2>1. <<d, c>> \notin Unsynced
    BY Zenon, <1>6 DEF Unsynced
  <2> QED BY Zenon, <1>1, <1>5, <1>6, <2>1
<1>7. Steady
  BY Zenon, <1>4, <1>5, <1>6, DownSteady DEF Down, IInv
<1> QED BY Zenon, <1>4, <1>5, <1>7, DownOK

LEMMA OpenKeeps ==
  ASSUME IInv, ~up, up', Replayed, limbo' = NoFlight,
         UNCHANGED <<cells, stable, flight, writes>>,
         cursor' \in [Disks -> 0 .. MaxCells], CursorStops', Steady,
         dataEnd' \in {"scan", "memory", "lost"}
  PROVE  IInv'
<1>1. flight' = NoFlight /\ LimboNext
  BY Zenon DEF IInv, LimboNext
<1>2. /\ meta' \in [Files -> [mode : Modes, pieces : Seq(Pieces)]]
      /\ content' \in [Files -> Seq(Data)]
      /\ PiecesPlaced' /\ ContentOK'
  <2>1. CASE UNCHANGED <<meta, content>>
    BY Zenon, <2>1, StoreKept DEF IInv, PoolType
  <2>2. CASE /\ limbo # NoFlight
             /\ meta' = [meta EXCEPT ![limbo.file] = Applied(@, limbo)]
             /\ content' = Expected(limbo)
    <3>1. limbo \in Flights /\ limbo.stage = "commit" /\ CallOK(limbo)
      BY Zenon, <2>2 DEF IInv, PoolType
    <3>2. PICK fl \in Flights : fl = limbo
      BY Zenon, <3>1
    <3>3. /\ meta' = [meta EXCEPT ![fl.file] = Applied(@, fl)] /\ content' = Expected(fl)
          /\ fl.stage = "commit" /\ CallOK(fl)
      BY Zenon, <2>2, <3>1, <3>2
    <3> QED BY Zenon, <3>3, ApplyKeeps
  <2> QED BY Zenon, <2>1, <2>2 DEF Replayed
<1>3. PoolType'
  BY Zenon, <1>1, <1>2 DEF IInv, PoolType
<1> QED BY Zenon, <1>1, <1>2, <1>3, CallEnds

LEMMA OpenOK == ASSUME IInv, Open PROVE IInv'
<1>1. /\ ~up /\ up' /\ Replayed /\ limbo' = NoFlight /\ UNCHANGED <<cells, stable, flight, writes>>
      /\ cursor' = [d \in Disks |-> ResumeAt(d)]
      /\ dataEnd' = IF dataEnd = "memory" THEN "lost" ELSE dataEnd
  BY Zenon DEF Open
<1>2. \A d \in Disks : ResumeAt(d) \in ScanStops(d) /\ ResumeAt(d) \in 0 .. MaxCells
  <2>1. \A d \in Disks : cells[d] \in Row
    BY Zenon DEF IInv, PoolType
  <2> QED BY Zenon, <2>1, ResumeIs
<1>3. cursor' \in [Disks -> 0 .. MaxCells]
  BY Zenon, <1>1, <1>2
<1>4. PoolType /\ dataEnd' \in {"scan", "lost"} /\ (dataEnd' # "lost" => dataEnd # "lost")
      /\ (dataEnd' = "scan" => dataEnd = "scan")
  BY Zenon, <1>1 DEF IInv, PoolType
<1>5. Steady
  BY Zenon, <1>1, <1>4, OpenSteady
<1>6. CursorStops'
  <2>1. ASSUME NEW d \in Disks PROVE cursor'[d] \in ScanStops(d)'
    <3>1. PICK e \in ScanStops(d) : e = cursor'[d]
      BY Zenon, <1>1, <1>2
    <3>2. cells \in [Disks -> Row] /\ cells' \in [Disks -> Row]
      BY Zenon, <1>1 DEF IInv, PoolType
    <3> QED BY Zenon, <1>1, <3>1, <3>2, ScanKept
  <2> QED BY Zenon, <2>1 DEF CursorStops
<1>7. dataEnd' \in {"scan", "memory", "lost"}
  BY Zenon, <1>4
<1> QED BY Zenon, <1>1, <1>3, <1>5, <1>6, <1>7, OpenKeeps

LEMMA OpenReadErrorOK ==
  ASSUME IInv, NEW d \in Disks, OpenReadError(d)
  PROVE  IInv'
<1>1. /\ ~up /\ up' /\ Replayed /\ limbo' = NoFlight /\ UNCHANGED <<cells, stable, flight, writes>>
      /\ dataEnd' = "lost"
  BY Zenon DEF OpenReadError
<1>2. PICK stop \in ScanStops(d) :
          cursor' = [e \in Disks |-> IF e = d THEN stop ELSE ResumeAt(e)]
  BY Zenon DEF OpenReadError
<1>3. \A e \in Disks : cells[e] \in Row
  BY Zenon DEF IInv, PoolType
<1>4. \A e \in Disks : ResumeAt(e) \in 0 .. MaxCells
  BY Zenon, <1>3, ResumeIs
<1>5. stop \in 0 .. MaxCells
  <2>1. stop \in Stops(cells[d], 0)
    BY Zenon, <1>2, <1>3, ScanStopsIs
  <2> QED BY Zenon, <2>1 DEF Stops
<1>6. cursor' \in [Disks -> 0 .. MaxCells]
  BY Zenon, <1>2, <1>4, <1>5
<1>7. Steady
  BY Zenon, <1>1, OpenSteady DEF IInv
<1>8. CursorStops'
  BY Zenon, <1>1 DEF CursorStops
<1> QED BY Zenon, <1>1, <1>6, <1>7, <1>8, OpenKeeps

-----------------------------------------------------------------------------
LEMMA InitOK == ASSUME Init PROVE IInv
<1>1. Zero \in CellValue
  BY Zenon DEF Zero, Byte, CellValue, Data
<1>2. cells \in [Disks -> Row] /\ stable \in [Disks -> Row]
  BY Zenon, <1>1 DEF Init, Row
<1>3. cursor \in [Disks -> 0 .. MaxCells] /\ writes \in 0 .. MaxWrites
  BY PoolAssumption DEF Init
<1>4. /\ meta \in [Files -> [mode : Modes, pieces : Seq(Pieces)]]
      /\ content \in [Files -> Seq(Data)]
      /\ \A f \in Files : meta[f].pieces = <<>> /\ content[f] = <<>>
  BY DEF Init, Modes
<1>5. PoolType
  BY Zenon, <1>2, <1>3, <1>4 DEF Init, PoolType
<1>6. PiecesPlaced
  BY <1>4 DEF PiecesPlaced
<1>7. ContentOK
  <2>1. Len(<<>>) = 0 /\ 0 <= MaxSize
    BY PoolAssumption
  <2> QED BY Zenon, <1>4, <2>1, FlatNone DEF ContentOK
<1>8. CursorStops
  <2>1. ASSUME NEW d \in Disks PROVE 0 \in ScanStops(d)
    <3>1. cells[d] \in Row /\ 0 \in 0 .. MaxCells
      BY <1>2, Bounds
    <3> QED BY Zenon, <3>1, ScanStopsIs, StopsFollow
  <2> QED BY Zenon, <2>1 DEF CursorStops, Init
<1>9. ExtentRoom /\ FrameWritten
  BY Zenon DEF Init, ExtentRoom, FrameWritten
<1> QED BY Zenon, <1>5, <1>6, <1>7, <1>8, <1>9 DEF Init, IInv

LEMMA StutterOK == ASSUME IInv, UNCHANGED vars PROVE IInv'
<1>1. UNCHANGED <<cells, stable, up, cursor, meta, flight, limbo, content, dataEnd, writes>>
  BY Zenon DEF vars
<1>2. Steady
  BY Zenon, <1>1, QuietSteady DEF IInv
<1>3. PiecesPlaced' /\ ContentOK' /\ LimboNext
  BY Zenon, <1>1, <1>2, StoreKept, LimboKept DEF LimboStep
<1>4. PoolType'
  BY Zenon, <1>1 DEF IInv, PoolType
<1>5. CursorStops'
  BY Zenon, <1>1, CursorStopsQuiet DEF IInv
<1>6. CASE flight = NoFlight
  BY Zenon, <1>1, <1>3, <1>4, <1>5, <1>6, CallEnds
<1>7. CASE flight # NoFlight
  <2>1. flight \in Flights /\ CallOK(flight) /\ up
    BY Zenon, <1>7, CallIs
  <2>2. PICK fl \in Flights : fl = flight
    BY Zenon, <2>1
  <2>3. CallOK(fl)'
    BY Zenon, <1>1, <1>2, <2>1, <2>2, CallKept
  <2>4. CallOK(flight)'
    BY Zenon, <1>1, <2>2, <2>3
  <2>5. ExtentRoom'
    BY Zenon, <1>1 DEF IInv, ExtentRoom
  <2>6. FrameWritten'
    BY Zenon, <1>1 DEF IInv, FrameWritten, Fits, Target, Frame
  <2> QED BY Zenon, <1>1, <1>3, <1>4, <1>5, <2>1, <2>4, <2>5, <2>6 DEF IInv, LimboNext
<1> QED BY Zenon, <1>6, <1>7

LEMMA NextOK == ASSUME IInv, Next PROVE IInv'
BY Zenon, AppendCallOK, BeginConvertOK, CompleteConvertOK, WriteCallOK, WriteReplicaOK,
   WriteFailsOK, SegmentFullOK, SyncReplicaOK, SyncFailsOK, CommitCallOK, CommitFailsOK,
   KillOK, PowerLossOK, OpenOK, OpenReadErrorOK DEF Next

(* The inductive invariant: every piece that is committed, or that a call   *)
(* has finished writing, is synced on its disks, ends before their cursors  *)
(* and, as long as only records were written, where the scan stops.         *)
THEOREM PoolInvariant == Spec => []IInv
<1>1. Init => IInv
  BY Zenon, InitOK
<1>2. IInv /\ [Next]_vars => IInv'
  BY Zenon, NextOK, StutterOK
<1> QED BY <1>1, <1>2, PTL DEF Spec

(* Type correctness: cursors stay on the disk, whatever fails.              *)
THEOREM TypeCorrect == Spec => []TypeOK
<1> DEFINE LogEnds == logEnd \in {"synced", "cached", "lost"}
<1>1. IInv /\ LogEnds => TypeOK
  BY Zenon DEF IInv, PoolType, TypeOK, Modes
<1>2. Init => LogEnds
  BY Zenon DEF Init
<1>3. LogEnds /\ [Next]_vars => LogEnds'
  BY Zenon DEF Next, vars, AppendCall, BeginConvert, CompleteConvert, WriteCall, WriteReplica,
     WriteFails, SegmentFull, SyncReplica, SyncFails, CommitCall, CommitFails, Kill, PowerLoss,
     Open, OpenReadError, LogSynced
<1> QED BY <1>1, <1>2, <1>3, PoolInvariant, PTL DEF Spec

(* Pool::read returns what the finished append, convert and write calls     *)
(* wrote, after any failed writes and syncs, kills, power losses and        *)
(* replays, unless a restart has lost the end of the data, a power loss     *)
(* that of the log, or the scheme has no slot.                              *)
THEOREM ContentReadable == Spec => []CommittedReadable
<1>1. IInv => CommittedReadable
  <2> SUFFICES ASSUME IInv, EndsKnown, 0 < Replicas, NEW f \in Files
               PROVE  Readable(f) /\ ReadFull(f) = content[f]
    BY Zenon DEF CommittedReadable, ReadsBack
  <2>1. Readable(f)
    <3> SUFFICES ASSUME NEW i \in 1 .. Len(meta[f].pieces)
                 PROVE  meta[f].pieces[i].replicas # <<>>
      BY Zenon DEF Readable
    <3>1. Len(meta[f].pieces[i].replicas) = Replicas
      BY Zenon DEF IInv, PiecesPlaced, PiecePlaced
    <3> QED BY <3>1
  <2> QED BY Zenon, <2>1, ReadFullIs DEF IInv, EndsKnown
<1> QED BY <1>1, PoolInvariant, PTL

LEMMA LivePlaced ==
  ASSUME IInv, NEW x \in Live, NEW mode, mode = meta[x[1]].mode,
         NEW p, p = meta[x[1]].pieces[x[2]], NEW r, r = p.replicas[x[3]]
  PROVE  mode \in Modes /\ p \in Pieces /\ r \in Spot /\ Placed(r, HeaderLen(mode), p.bytes)
<1>1. PICK f \in Files, i \in 1 .. MaxWrites, k \in 1 .. Replicas : x = <<f, i, k>>
  BY DEF Live
<1>2. mode = meta[f].mode /\ p = meta[f].pieces[i] /\ r = p.replicas[k]
      /\ i <= Len(meta[f].pieces)
  BY Zenon, <1>1 DEF Live
<1>3. mode \in Modes /\ meta[f].pieces \in Seq(Pieces)
      /\ \A j \in 1 .. Len(meta[f].pieces) : PiecePlaced(meta[f].pieces[j], HeaderLen(mode))
  BY Zenon, <1>2 DEF IInv, PoolType, PiecesPlaced
<1>4. i \in 1 .. Len(meta[f].pieces)
  BY <1>1, <1>2, <1>3
<1>5. p \in Pieces /\ PiecePlaced(p, HeaderLen(mode))
  BY <1>2, <1>3, <1>4
<1>6. p.replicas \in Seq(Spot) /\ Len(p.replicas) = Replicas
  BY Zenon, <1>5 DEF Pieces, PiecePlaced
<1>7. r \in Spot
  BY <1>1, <1>2, <1>6
<1>8. Placed(r, HeaderLen(mode), p.bytes)
  BY Zenon, <1>1, <1>2, <1>5 DEF PiecePlaced
<1> QED BY Zenon, <1>3, <1>5, <1>7, <1>8

(* append and write_whole_file_extent sync every replica before they        *)
(* commit, so each replica of a committed piece holds its bytes, synced.    *)
THEOREM Replicated == Spec => []ReplicasHold
<1>1. ASSUME IInv PROVE ReplicasHold
  <2> SUFFICES ASSUME EndsKnown, NEW x \in Live, NEW mode, mode = meta[x[1]].mode,
                      NEW p, p = meta[x[1]].pieces[x[2]], NEW r, r = p.replicas[x[3]]
               PROVE  /\ ReadReplica(stable, mode, p, r) = p.bytes
                      /\ ReadReplica(cells, mode, p, r) = p.bytes
    BY Zenon DEF ReplicasHold
  <2>1. mode \in Modes /\ p \in Pieces /\ r \in Spot /\ Placed(r, HeaderLen(mode), p.bytes)
    BY Zenon, <1>1, LivePlaced
  <2> QED BY Zenon, <1>1, <2>1, PieceReads DEF IInv, EndsKnown
<1> QED BY <1>1, PoolInvariant, PTL

(* DiskHandle.cursor is free: no committed piece lies at or behind it, in a *)
(* running pool and after a restart whose scan could see all there is.      *)
THEOREM FreeCursor == Spec => []CursorIsFree
<1>1. ASSUME IInv PROVE CursorIsFree
  <2> SUFFICES ASSUME up, EndsKnown, NEW x \in Live, NEW mode, mode = meta[x[1]].mode,
                      NEW p, p = meta[x[1]].pieces[x[2]], NEW r, r = p.replicas[x[3]]
               PROVE  r[2] + HeaderLen(mode) + Len(p.bytes) <= cursor[r[1]]
    BY Zenon DEF CursorIsFree
  <2>1. Placed(r, HeaderLen(mode), p.bytes)
    BY Zenon, <1>1, LivePlaced
  <2> QED BY Zenon, <2>1 DEF Placed, Ended, EndsKnown
<1> QED BY <1>1, PoolInvariant, PTL
=============================================================================
