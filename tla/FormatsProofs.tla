--------------------------- MODULE FormatsProofs ---------------------------
(***************************************************************************)
(* What module Formats' run checks on short packets of a few bytes, for    *)
(* every packet a frame can have.  Encoder, decoder and checksum are       *)
(* folds; what a fold does for one element more is proved first.           *)
(***************************************************************************)
EXTENDS Formats, SequenceTheorems, WellFoundedInduction, TLAPS

-----------------------------------------------------------------------------
(* Induction, with the property as a set. *)

LEMMA LessThan ==
  \E R : R = {ss \in Nat \X Nat : ss[1] < ss[2]} /\ IsWellFoundedOn(R, Nat)
<1>1. OpToRel(<, Nat) = {ss \in Nat \X Nat : ss[1] < ss[2]}
  BY Zenon DEF OpToRel
<1> QED
  BY <1>1, NatLessThanWellFounded

LEMMA LeastNumber ==
  ASSUME NEW T \in SUBSET Nat, T # {}
  PROVE  \E x \in T : \A y \in T : x <= y
<1>1. PICK R : R = {ss \in Nat \X Nat : ss[1] < ss[2]} /\ IsWellFoundedOn(R, Nat)
  BY LessThan
<1>2. PICK x \in T : \A y \in T : ~ (<<y, x>> \in R)
  BY <1>1, WFMin
<1>3. \A y \in T : y < x => <<y, x>> \in R
  BY <1>1
<1>4. ASSUME NEW y \in T PROVE x <= y
  <2>1. x \in Nat /\ y \in Nat /\ ~(y < x)
    BY <1>2, <1>3
  <2> QED
    BY <2>1
<1> QED
  BY <1>4

LEMMA InductionNat ==
  ASSUME NEW P, 0 \in P, \A n \in Nat : n \in P => n + 1 \in P
  PROVE  Nat \subseteq P
<1> SUFFICES ASSUME NEW m \in Nat, m \notin P
             PROVE  FALSE
  OBVIOUS
<1> DEFINE T == {n \in Nat : n \notin P}
<1>1. PICK x \in T : \A y \in T : x <= y
  <2>1. T \in SUBSET Nat /\ T # {}
    OBVIOUS
  <2> QED
    BY <2>1, LeastNumber
<1>2. x \in Nat /\ x # 0 /\ x - 1 \in Nat /\ (x - 1) + 1 = x
  OBVIOUS
<1> QED
  BY <1>1, <1>2

LEMMA InductionSeq ==
  ASSUME NEW E, NEW P, <<>> \in P,
         \A s \in Seq(E) : \A e \in E : s \in P => Append(s, e) \in P
  PROVE  Seq(E) \subseteq P
<1> DEFINE Q == {n \in Nat : \A s \in Seq(E) : Len(s) = n => s \in P}
<1>1. 0 \in Q
  OBVIOUS
<1>2. ASSUME NEW n \in Nat, n \in Q PROVE n + 1 \in Q
  <2> SUFFICES ASSUME NEW s \in Seq(E), Len(s) = n + 1 PROVE s \in P
    OBVIOUS
  <2>1. PICK t \in Seq(E), e \in E : s = Append(t, e)
    BY SequenceEmptyOrAppend, EmptySeq
  <2>2. Len(t) = n
    BY <2>1
  <2> QED
    BY <1>2, <2>1, <2>2
<1>3. Nat \subseteq Q
  <2> HIDE DEF Q
  <2> QED
    BY <1>1, <1>2, InductionNat
<1> QED
  BY <1>3

-----------------------------------------------------------------------------
(* Folds.  FoldLeft goes through the sets of positions. *)

LEMMA MaxOfSet ==
  ASSUME NEW n \in Nat, NEW T \in SUBSET (1 .. n), T # {}
  PROVE  Max(T) \in T /\ \A x \in T : x <= Max(T)
<1> DEFINE D == {d \in Nat : n - d \in T}
<1>1. D \in SUBSET Nat /\ D # {}
  <2>1. PICK x \in T : TRUE
    OBVIOUS
  <2>2. n - x \in D
    BY <2>1
  <2> QED
    BY <2>2
<1>2. PICK d \in D : \A y \in D : d <= y
  BY <1>1, LeastNumber
<1>3. \A x \in T : n - x \in D
  OBVIOUS
<1>4. n - d \in T /\ \A x \in T : x <= n - d
  BY <1>2, <1>3
<1>5. \E m \in T : \A x \in T : m >= x
  BY <1>4
<1> QED
  BY <1>5 DEF Max

LEMMA MaxTo ==
  ASSUME NEW n \in Nat
  PROVE  /\ Max(1 .. n + 1) = n + 1 /\ (1 .. n + 1) \ {n + 1} = 1 .. n
         /\ n + 1 \in 1 .. n + 1
<1>1. 1 .. n + 1 \in SUBSET (1 .. n + 1) /\ 1 .. n + 1 # {} /\ n + 1 \in 1 .. n + 1
  OBVIOUS
<1>2. n + 1 \in Nat
  OBVIOUS
<1>3. Max(1 .. n + 1) \in 1 .. n + 1 /\ n + 1 <= Max(1 .. n + 1)
  BY <1>1, <1>2, MaxOfSet
<1> QED
  BY <1>3

(* The recursion by which FoldLeft is defined, for the values V and the    *)
(* elements E.                                                             *)
Folding(g, c, step, s) ==
  g = [T \in SUBSET (1 .. Len(s)) |->
         IF T = {} THEN c ELSE step[<<g[T \ {Max(T)}], s[Max(T)]>>]]

LEMMA FoldingExists ==
  ASSUME NEW V, NEW E, NEW c \in V, NEW step \in [V \X E -> V], NEW s \in Seq(E)
  PROVE  \E g \in [SUBSET (1 .. Len(s)) -> V] : Folding(g, c, step, s)
<1> DEFINE Good(g, m) == \A T \in SUBSET (1 .. m) :
              g[T] = IF T = {} THEN c ELSE step[<<g[T \ {Max(T)}], s[Max(T)]>>]
           Q == {m \in Nat : m <= Len(s) => \E g \in [SUBSET (1 .. m) -> V] : Good(g, m)}
<1>1. 0 \in Q
  <2> DEFINE g == [T \in SUBSET (1 .. 0) |-> c]
  <2>1. g \in [SUBSET (1 .. 0) -> V] /\ Good(g, 0)
    OBVIOUS
  <2> QED
    BY <2>1
<1>2. ASSUME NEW m \in Nat, m \in Q PROVE m + 1 \in Q
  <2>0. m + 1 \in Nat
    OBVIOUS
  <2> SUFFICES ASSUME m + 1 <= Len(s)
               PROVE  \E g \in [SUBSET (1 .. m + 1) -> V] : Good(g, m + 1)
    BY <2>0
  <2>1. PICK g \in [SUBSET (1 .. m) -> V] : Good(g, m)
    <3>1. m <= Len(s) /\ m + 1 \in Nat
      OBVIOUS
    <3> QED
      BY <1>2, <3>1
  <2> DEFINE h == [T \in SUBSET (1 .. m + 1) |->
                     IF m + 1 \in T THEN step[<<g[T \ {m + 1}], s[m + 1]>>] ELSE g[T]]
  <2>2. \A T \in SUBSET (1 .. m + 1) : /\ T \ {m + 1} \in SUBSET (1 .. m)
                                       /\ m + 1 \notin T => T \in SUBSET (1 .. m)
    OBVIOUS
  <2>3. s[m + 1] \in E
    OBVIOUS
  <2>4. h \in [SUBSET (1 .. m + 1) -> V]
    BY <2>2, <2>3
  <2>5. ASSUME NEW T \in SUBSET (1 .. m + 1)
        PROVE  h[T] = IF T = {} THEN c ELSE step[<<h[T \ {Max(T)}], s[Max(T)]>>]
    <3>1. CASE m + 1 \in T
      <4>1. Max(T) = m + 1
        <5>0. m + 1 \in Nat /\ T # {}
          BY <3>1
        <5>1. Max(T) \in T /\ \A x \in T : x <= Max(T)
          BY <5>0, MaxOfSet
        <5>2. Max(T) \in 1 .. m + 1 /\ m + 1 <= Max(T)
          BY <3>1, <5>1
        <5> QED
          BY <5>2
      <4>2. h[T \ {m + 1}] = g[T \ {m + 1}]
        BY <2>2
      <4> QED
        BY <3>1, <4>1, <4>2
    <3>2. CASE m + 1 \notin T
      <4>1. h[T] = g[T] /\ T \in SUBSET (1 .. m)
        BY <2>2, <3>2
      <4>2. T # {} => /\ T \ {Max(T)} \in SUBSET (1 .. m)
                      /\ h[T \ {Max(T)}] = g[T \ {Max(T)}]
        BY <3>2, <4>1
      <4>3. g[T] = IF T = {} THEN c ELSE step[<<g[T \ {Max(T)}], s[Max(T)]>>]
        BY <2>1, <4>1
      <4> QED
        BY <4>1, <4>2, <4>3
    <3> QED
      BY <3>1, <3>2
  <2> QED
    <3> HIDE DEF h
    <3> QED
      BY <2>4, <2>5
<1>3. Nat \subseteq Q
  <2> HIDE DEF Q
  <2> QED
    BY <1>1, <1>2, InductionNat
<1>4. PICK g \in [SUBSET (1 .. Len(s)) -> V] : Good(g, Len(s))
  <2>1. Len(s) \in Nat /\ Len(s) <= Len(s)
    OBVIOUS
  <2>2. Len(s) \in Q
    BY <1>3, <2>1
  <2> QED
    BY <2>1, <2>2
<1> QED
  BY <1>4 DEF Folding

(* v is what step makes of c and the elements of s, one after the other. *)
Chain(h, c, step, s) == /\ h[0] = c
                        /\ \A i \in 1 .. Len(s) : h[i] = step[<<h[i - 1], s[i]>>]

IsFold(v, V, c, step, s) ==
  \E h \in [0 .. Len(s) -> V] : Chain(h, c, step, s) /\ v = h[Len(s)]

LEMMA FoldEmpty ==
  ASSUME NEW V, NEW c \in V, NEW step
  PROVE  IsFold(c, V, c, step, <<>>)
<1> DEFINE h == [i \in 0 .. 0 |-> c]
<1>1. h \in [0 .. Len(<<>>) -> V] /\ Chain(h, c, step, <<>>) /\ c = h[Len(<<>>)]
  BY DEF Chain
<1> QED
  BY <1>1 DEF IsFold

LEMMA FoldAppend ==
  ASSUME NEW V, NEW E, NEW c \in V, NEW step \in [V \X E -> V], NEW s \in Seq(E),
         NEW e \in E, NEW v, IsFold(v, V, c, step, s)
  PROVE  v \in V /\ IsFold(step[<<v, e>>], V, c, step, Append(s, e))
<1>1. PICK h \in [0 .. Len(s) -> V] : Chain(h, c, step, s) /\ v = h[Len(s)]
  BY DEF IsFold
<1> DEFINE n == Len(s)
           t == Append(s, e)
           k == [i \in 0 .. n + 1 |-> IF i = n + 1 THEN step[<<v, e>>] ELSE h[i]]
<1>2. n \in Nat /\ Len(t) = n + 1 /\ v \in V /\ step[<<v, e>>] \in V
  BY <1>1
<1>3. k \in [0 .. n + 1 -> V]
  BY <1>1, <1>2
<1>4. k[0] = c /\ k[n + 1] = step[<<v, e>>]
  BY <1>1, <1>2 DEF Chain
<1>5. ASSUME NEW i \in 1 .. n + 1 PROVE k[i] = step[<<k[i - 1], t[i]>>]
  <2>1. CASE i = n + 1
    <3>1. t[i] = e /\ i - 1 = n /\ n \in 0 .. n + 1 /\ n # n + 1
      BY <1>2, <2>1
    <3>2. k[i - 1] = v
      BY <1>1, <3>1
    <3> QED
      BY <1>4, <2>1, <3>1, <3>2
  <2>2. CASE i # n + 1
    <3>1. i \in 1 .. n /\ i - 1 \in 0 .. n + 1 /\ i - 1 # n + 1
      BY <1>2, <2>2
    <3>2. t[i] = s[i]
      BY <1>2, <3>1
    <3>3. k[i] = h[i] /\ k[i - 1] = h[i - 1]
      BY <2>2, <3>1
    <3> QED
      BY <1>1, <3>1, <3>2, <3>3 DEF Chain
  <2> QED
    BY <2>1, <2>2
<1> HIDE DEF k, t
<1>6. Chain(k, c, step, t)
  BY <1>2, <1>4, <1>5 DEF Chain
<1> QED
  BY <1>2, <1>3, <1>4, <1>6 DEF IsFold, t

LEMMA FoldUnique ==
  ASSUME NEW V, NEW c, NEW step, NEW s, Len(s) \in Nat, NEW v, NEW w,
         IsFold(v, V, c, step, s), IsFold(w, V, c, step, s)
  PROVE  v = w
<1>1. PICK h \in [0 .. Len(s) -> V] : Chain(h, c, step, s) /\ v = h[Len(s)]
  BY DEF IsFold
<1>2. PICK k \in [0 .. Len(s) -> V] : Chain(k, c, step, s) /\ w = k[Len(s)]
  BY DEF IsFold
<1> DEFINE Q == {i \in Nat : i <= Len(s) => h[i] = k[i]}
<1>3. 0 \in Q
  BY <1>1, <1>2 DEF Chain
<1>4. ASSUME NEW i \in Nat, i \in Q PROVE i + 1 \in Q
  <2> SUFFICES ASSUME i + 1 <= Len(s) PROVE h[i + 1] = k[i + 1]
    OBVIOUS
  <2>1. i + 1 \in 1 .. Len(s) /\ (i + 1) - 1 = i /\ i <= Len(s)
    OBVIOUS
  <2>2. h[i] = k[i]
    BY <1>4, <2>1
  <2>3. h[i + 1] = step[<<h[i], s[i + 1]>>] /\ k[i + 1] = step[<<k[i], s[i + 1]>>]
    BY <1>1, <1>2, <2>1 DEF Chain
  <2> QED
    BY <2>2, <2>3
<1>5. Nat \subseteq Q
  <2> HIDE DEF Q
  <2> QED
    BY <1>3, <1>4, InductionNat
<1>6. Len(s) \in Q
  BY <1>5
<1> QED
  BY <1>1, <1>2, <1>6

(* A function on the sets of positions that is like step where its value   *)
(* before is in V.                                                         *)
LEMMA FoldFromSets ==
  ASSUME NEW V, NEW c \in V, NEW step, NEW s, Len(s) \in Nat,
         \A v \in V : \A i \in 1 .. Len(s) : step[<<v, s[i]>>] \in V,
         NEW g, g[{}] = c,
         \A T \in SUBSET (1 .. Len(s)) :
            T # {} /\ g[T \ {Max(T)}] \in V =>
               g[T] = step[<<g[T \ {Max(T)}], s[Max(T)]>>]
  PROVE  IsFold(g[1 .. Len(s)], V, c, step, s)
<1> DEFINE h == [i \in 0 .. Len(s) |-> g[1 .. i]]
           Q == {i \in Nat : i <= Len(s) =>
                   g[1 .. i] \in V /\ (i # 0 => g[1 .. i] = step[<<g[1 .. i - 1], s[i]>>])}
<1>1. 0 \in Q
  <2>1. 1 .. 0 = {}
    OBVIOUS
  <2> QED
    BY <2>1
<1>2. ASSUME NEW i \in Nat, i \in Q PROVE i + 1 \in Q
  <2>0. i + 1 \in Nat /\ i + 1 # 0 /\ (i + 1) - 1 = i
    OBVIOUS
  <2> SUFFICES ASSUME i + 1 <= Len(s)
               PROVE  g[1 .. i + 1] \in V /\ g[1 .. i + 1] = step[<<g[1 .. i], s[i + 1]>>]
    BY <2>0
  <2> DEFINE T == 1 .. i + 1
  <2>1. Max(T) = i + 1 /\ T \ {i + 1} = 1 .. i /\ i + 1 \in T
    BY MaxTo
  <2>2. Len(s) \in Nat /\ i + 1 \in 1 .. Len(s)
    OBVIOUS
  <2>3. \A x \in T : x \in 1 .. Len(s)
    BY <2>2
  <2>4. T \in SUBSET (1 .. Len(s)) /\ T # {}
    BY <2>1, <2>3
  <2>5. g[1 .. i] \in V
    <3>1. i <= Len(s)
      BY <2>2
    <3> QED
      BY <1>2, <3>1
  <2> HIDE DEF T
  <2>6. g[T] = step[<<g[1 .. i], s[i + 1]>>]
    BY <2>1, <2>4, <2>5
  <2> QED
    BY <2>2, <2>5, <2>6 DEF T
<1>3. Nat \subseteq Q
  <2> HIDE DEF Q
  <2> QED
    BY <1>1, <1>2, InductionNat
<1>4. ASSUME NEW i \in 0 .. Len(s)
      PROVE  h[i] \in V /\ (i # 0 => h[i] = step[<<h[i - 1], s[i]>>])
  <2>1. i \in Nat /\ i <= Len(s) /\ i \in Q
    BY <1>3
  <2>2. i # 0 => i - 1 \in 0 .. Len(s)
    OBVIOUS
  <2> QED
    BY <2>1, <2>2
<1>5. Len(s) \in 0 .. Len(s) /\ 0 \in 0 .. Len(s) /\ 1 .. 0 = {}
  OBVIOUS
<1>6. h \in [0 .. Len(s) -> V] /\ h[0] = c /\ h[Len(s)] = g[1 .. Len(s)]
  BY <1>4, <1>5
<1> HIDE DEF h
<1>7. Chain(h, c, step, s)
  BY <1>4, <1>6 DEF Chain
<1> QED
  BY <1>6, <1>7 DEF IsFold

LEMMA LastOf ==
  ASSUME NEW E, NEW s \in Seq(E), NEW T \in SUBSET (1 .. Len(s)), T # {}
  PROVE  T \ {Max(T)} \in SUBSET (1 .. Len(s)) /\ s[Max(T)] \in E
<1>1. Len(s) \in Nat
  OBVIOUS
<1>2. Max(T) \in 1 .. Len(s)
  BY <1>1, MaxOfSet
<1>3. s[Max(T)] \in E
  BY <1>2
<1>4. T \ {Max(T)} \in SUBSET (1 .. Len(s))
  OBVIOUS
<1> QED
  BY <1>3, <1>4

-----------------------------------------------------------------------------
(* The sum. *)

Byte == 0 .. 255

AddByte == [x \in Byte \X Byte |-> (x[1] + x[2]) % 256]

LEMMA AddByteType ==
  /\ AddByte \in [Byte \X Byte -> Byte] /\ 0 \in Byte
  /\ \A v \in Byte : \A b \in Byte : AddByte[<<v, b>>] = (v + b) % 256
<1>1. \A v, b \in Byte : (v + b) % 256 \in Byte
  BY DEF Byte
<1>2. 0 \in Byte
  BY DEF Byte
<1> QED
  BY <1>1, <1>2 DEF AddByte

LEMMA Sum8Fold ==
  ASSUME NEW s \in Seq(Byte)
  PROVE  IsFold(Sum8(s), Byte, 0, AddByte, s)
<1> DEFINE P(g) == g = [T \in SUBSET (DOMAIN s) |->
                          IF T = {} THEN 0 ELSE (g[T \ {Max(T)}] + s[Max(T)]) % 256]
           f == CHOOSE g : P(g)
<1>1. Sum8(s) = f[DOMAIN s]
  BY DEF Sum8, FoldLeft, MapThenFoldSet
<1>2. DOMAIN s = 1 .. Len(s) /\ Len(s) \in Nat
  OBVIOUS
<1>3. /\ AddByte \in [Byte \X Byte -> Byte] /\ 0 \in Byte
      /\ \A v \in Byte : \A b \in Byte : AddByte[<<v, b>>] = (v + b) % 256
  BY AddByteType
<1>4. \E g : P(g)
  <2>1. PICK g \in [SUBSET (1 .. Len(s)) -> Byte] : Folding(g, 0, AddByte, s)
    BY <1>3, FoldingExists
  <2>2. \A T \in SUBSET (1 .. Len(s)) :
           T # {} => AddByte[<<g[T \ {Max(T)}], s[Max(T)]>>] = (g[T \ {Max(T)}] + s[Max(T)]) % 256
    BY <1>3, LastOf
  <2>3. P(g)
    BY <1>2, <2>1, <2>2 DEF Folding
  <2> QED
    BY <2>3
<1>5. P(f)
  BY <1>4
<1> HIDE DEF f
<1>6. f[{}] = 0
  BY <1>5
<1>7. ASSUME NEW T \in SUBSET (1 .. Len(s)), T # {}, f[T \ {Max(T)}] \in Byte
      PROVE  f[T] = AddByte[<<f[T \ {Max(T)}], s[Max(T)]>>]
  <2>1. f[T] = (f[T \ {Max(T)}] + s[Max(T)]) % 256
    BY <1>2, <1>5, <1>7
  <2>2. s[Max(T)] \in Byte
    BY <1>7, LastOf
  <2> QED
    BY ZenonT(60), <1>3, <1>7, <2>1, <2>2
<1>8. \A v \in Byte : \A i \in 1 .. Len(s) : AddByte[<<v, s[i]>>] \in Byte
  BY <1>3
<1>9. IsFold(f[1 .. Len(s)], Byte, 0, AddByte, s)
  BY ZenonT(60), <1>2, <1>3, <1>6, <1>7, <1>8, FoldFromSets
<1> QED
  BY <1>1, <1>2, <1>9

LEMMA Sum8Next ==
  /\ Sum8(<<>>) = 0
  /\ \A s \in Seq(Byte) : Sum8(s) \in Byte
  /\ \A s \in Seq(Byte) : \A b \in Byte : Sum8(Append(s, b)) = (Sum8(s) + b) % 256
<1>1. AddByte \in [Byte \X Byte -> Byte] /\ 0 \in Byte
  BY AddByteType
<1>2. Sum8(<<>>) = 0
  <2>1. <<>> \in Seq(Byte) /\ Len(<<>>) \in Nat
    OBVIOUS
  <2>2. IsFold(Sum8(<<>>), Byte, 0, AddByte, <<>>) /\ IsFold(0, Byte, 0, AddByte, <<>>)
    BY <1>1, <2>1, Sum8Fold, FoldEmpty
  <2> QED
    BY <2>1, <2>2, FoldUnique
<1>3. ASSUME NEW s \in Seq(Byte), NEW b \in Byte
      PROVE  Sum8(s) \in Byte /\ Sum8(Append(s, b)) = (Sum8(s) + b) % 256
  <2>1. Append(s, b) \in Seq(Byte) /\ Len(Append(s, b)) \in Nat
    OBVIOUS
  <2>2. IsFold(Sum8(s), Byte, 0, AddByte, s)
    BY Sum8Fold
  <2>3. Sum8(s) \in Byte /\ IsFold(AddByte[<<Sum8(s), b>>], Byte, 0, AddByte, Append(s, b))
    BY <1>1, <2>2, FoldAppend
  <2>4. IsFold(Sum8(Append(s, b)), Byte, 0, AddByte, Append(s, b))
    BY <2>1, Sum8Fold
  <2>5. Sum8(Append(s, b)) = AddByte[<<Sum8(s), b>>]
    BY <2>1, <2>3, <2>4, FoldUnique
  <2> QED
    BY <2>3, <2>5, AddByteType
<1>4. \E b : b \in Byte
  BY DEF Byte
<1> QED
  BY <1>2, <1>3, <1>4

-----------------------------------------------------------------------------
(* Escaping and its undoing. *)

LEMMA Glue ==
  ASSUME NEW S, NEW s \in Seq(S), NEW a \in S, NEW b \in S
  PROVE  /\ <<a>> \in Seq(S) /\ <<a, b>> \in Seq(S)
         /\ s \o <<a>> = Append(s, a)
         /\ s \o <<a, b>> = Append(Append(s, a), b)
<1>1. <<a>> \in Seq(S) /\ <<b>> \in Seq(S) /\ <<a, b>> \in Seq(S) /\ <<a, b>> = <<a>> \o <<b>>
  <2>1. <<a>> \in Seq(S) /\ <<b>> \in Seq(S)
    OBVIOUS
  <2>2. <<a>> \o <<b>> = Append(<<a>>, b)
    BY <2>1, AppendIsConcat
  <2>3. Append(<<a>>, b) = <<a, b>>
    <3>1. /\ <<a, b>> \in Seq(S) /\ Len(<<a, b>>) = 2
          /\ <<a, b>>[1] = a /\ <<a, b>>[2] = b /\ Len(<<a>>) = 1 /\ <<a>>[1] = a
      OBVIOUS
    <3>2. /\ Append(<<a>>, b) \in Seq(S) /\ Len(Append(<<a>>, b)) = 2
          /\ Append(<<a>>, b)[1] = a /\ Append(<<a>>, b)[2] = b
      BY <2>1, <3>1, AppendProperties
    <3>3. \A i \in 1 .. 2 : i = 1 \/ i = 2
      OBVIOUS
    <3> QED
      BY <3>1, <3>2, <3>3, SeqEqual
  <2>4. Append(<<a>>, b) \in Seq(S)
    BY <2>1, AppendProperties
  <2> QED
    BY <2>1, <2>2, <2>3, <2>4
<1>2. s \o <<a>> = Append(s, a) /\ Append(s, a) \in Seq(S)
  BY AppendIsConcat
<1>3. Append(s, a) \o <<b>> = Append(Append(s, a), b)
  BY <1>2, AppendIsConcat
<1>4. (s \o <<a>>) \o <<b>> = s \o (<<a>> \o <<b>>)
  BY <1>1, ConcatAssociative
<1> QED
  BY <1>1, <1>2, <1>3, <1>4

LEMMA AppendConcat ==
  ASSUME NEW s \in Seq(Byte), NEW t \in Seq(Byte), NEW e \in Byte
  PROVE  Append(s \o t, e) = s \o Append(t, e)
<1>1. <<e>> \in Seq(Byte)
  OBVIOUS
<1>2. s \o t \in Seq(Byte) /\ Append(t, e) \in Seq(Byte)
  BY ConcatProperties, AppendProperties
<1>3. Append(t, e) = t \o <<e>> /\ Append(s \o t, e) = (s \o t) \o <<e>>
  BY <1>2, AppendIsConcat
<1> QED
  BY <1>1, <1>2, <1>3, ConcatAssociative

LEMMA Bytes ==
  ASSUME NEW b \in Byte
  PROVE  /\ Flip(b) \in Byte /\ Flip(Flip(b)) = b
         /\ Sync \in Byte /\ Esc \in Byte
         /\ NeedsEscape(b) => ~NeedsEscape(Flip(b))
         /\ ~NeedsEscape(b) => b # Esc /\ b # Sync
         /\ Escaped(b) = IF NeedsEscape(b) THEN <<Esc, Flip(b)>> ELSE <<b>>
<1>1. b \in Int /\ 0 <= b /\ b <= 255
  BY DEF Byte
<1>2. Flip(b) \in Byte /\ Flip(Flip(b)) = b
  BY <1>1 DEF Flip, Byte
<1>3. NeedsEscape(b) => ~NeedsEscape(Flip(b))
  BY <1>1 DEF Flip, NeedsEscape, Sync, Esc, XOn, XOff
<1> QED
  BY <1>2, <1>3 DEF NeedsEscape, Sync, Esc, XOn, XOff, Escaped, Byte

AddEscaped == [x \in Seq(Byte) \X Byte |-> x[1] \o Escaped(x[2])]

LEMMA AddEscapedType ==
  /\ AddEscaped \in [Seq(Byte) \X Byte -> Seq(Byte)] /\ <<>> \in Seq(Byte)
  /\ \A v \in Seq(Byte) : \A b \in Byte : AddEscaped[<<v, b>>] = v \o Escaped(b)
<1>1. ASSUME NEW b \in Byte PROVE Escaped(b) \in Seq(Byte)
  <2>1. Esc \in Byte /\ Flip(b) \in Byte
    BY Bytes
  <2>2. <<b>> \in Seq(Byte) /\ <<Esc, Flip(b)>> \in Seq(Byte)
    BY <2>1, Glue, EmptySeq
  <2> QED
    BY <2>2, Bytes
<1>2. ASSUME NEW v \in Seq(Byte), NEW b \in Byte
      PROVE  v \o Escaped(b) \in Seq(Byte)
  BY <1>1, ConcatProperties
<1>3. <<>> \in Seq(Byte)
  OBVIOUS
<1>4. AddEscaped \in [Seq(Byte) \X Byte -> Seq(Byte)]
  BY <1>2 DEF AddEscaped
<1>5. ASSUME NEW v \in Seq(Byte), NEW b \in Byte PROVE AddEscaped[<<v, b>>] = v \o Escaped(b)
  <2>1. <<v, b>> \in Seq(Byte) \X Byte /\ <<v, b>>[1] = v /\ <<v, b>>[2] = b
    OBVIOUS
  <2> QED
    BY <2>1 DEF AddEscaped
<1> QED
  BY <1>3, <1>4, <1>5

Undone == [out : Seq(Byte), esc : BOOLEAN]

UndoOne == [x \in Undone \X Byte |-> Undo(x[1], x[2])]

LEMMA UndoOneType ==
  /\ UndoOne \in [Undone \X Byte -> Undone] /\ [out |-> <<>>, esc |-> FALSE] \in Undone
  /\ \A v \in Undone : \A b \in Byte : UndoOne[<<v, b>>] = Undo(v, b)
<1>1. ASSUME NEW v \in Undone, NEW b \in Byte PROVE Undo(v, b) \in Undone
  <2>1. v.out \in Seq(Byte) /\ Flip(b) \in Byte
    BY Bytes DEF Undone
  <2>2. Append(v.out, b) \in Seq(Byte) /\ Append(v.out, Flip(b)) \in Seq(Byte)
    BY <2>1
  <2> QED
    BY <2>1, <2>2 DEF Undone, Undo
<1>2. [out |-> <<>>, esc |-> FALSE] \in Undone
  BY DEF Undone
<1> QED
  BY <1>1, <1>2 DEF UndoOne

LEMMA StuffedFold ==
  ASSUME NEW s \in Seq(Byte)
  PROVE  IsFold(Stuffed(s), Seq(Byte), <<>>, AddEscaped, s)
<1> DEFINE P(g) == g = [T \in SUBSET (DOMAIN s) |->
                          IF T = {} THEN <<>> ELSE g[T \ {Max(T)}] \o Escaped(s[Max(T)])]
           f == CHOOSE g : P(g)
<1>1. Stuffed(s) = f[DOMAIN s]
  BY DEF Stuffed, FoldLeft, MapThenFoldSet
<1>2. DOMAIN s = 1 .. Len(s) /\ Len(s) \in Nat
  OBVIOUS
<1>3. /\ AddEscaped \in [Seq(Byte) \X Byte -> Seq(Byte)] /\ <<>> \in Seq(Byte)
      /\ \A v \in Seq(Byte) : \A b \in Byte : AddEscaped[<<v, b>>] = v \o Escaped(b)
  BY AddEscapedType
<1>4. \E g : P(g)
  <2>1. PICK g \in [SUBSET (1 .. Len(s)) -> Seq(Byte)] : Folding(g, <<>>, AddEscaped, s)
    BY <1>3, FoldingExists
  <2>2. \A T \in SUBSET (1 .. Len(s)) :
           T # {} => AddEscaped[<<g[T \ {Max(T)}], s[Max(T)]>>] = g[T \ {Max(T)}] \o Escaped(s[Max(T)])
    BY <1>3, LastOf
  <2>3. P(g)
    BY <1>2, <2>1, <2>2 DEF Folding
  <2> QED
    BY <2>3
<1>5. P(f)
  BY <1>4
<1> HIDE DEF f
<1>6. f[{}] = <<>>
  BY <1>5
<1>7. ASSUME NEW T \in SUBSET (1 .. Len(s)), T # {}, f[T \ {Max(T)}] \in Seq(Byte)
      PROVE  f[T] = AddEscaped[<<f[T \ {Max(T)}], s[Max(T)]>>]
  <2>1. f[T] = f[T \ {Max(T)}] \o Escaped(s[Max(T)])
    BY <1>2, <1>5, <1>7
  <2>2. s[Max(T)] \in Byte
    BY <1>7, LastOf
  <2> QED
    BY <1>3, <1>7, <2>1, <2>2
<1>8. \A v \in Seq(Byte) : \A i \in 1 .. Len(s) : AddEscaped[<<v, s[i]>>] \in Seq(Byte)
  BY <1>3
<1>9. IsFold(f[1 .. Len(s)], Seq(Byte), <<>>, AddEscaped, s)
  BY <1>2, <1>3, <1>6, <1>7, <1>8, FoldFromSets
<1> QED
  BY <1>1, <1>2, <1>9

LEMMA StuffedNext ==
  /\ Stuffed(<<>>) = <<>>
  /\ \A s \in Seq(Byte) : Stuffed(s) \in Seq(Byte)
  /\ \A s \in Seq(Byte) : \A b \in Byte : Stuffed(Append(s, b)) = Stuffed(s) \o Escaped(b)
<1>1. AddEscaped \in [Seq(Byte) \X Byte -> Seq(Byte)] /\ <<>> \in Seq(Byte)
  BY AddEscapedType
<1>2. Stuffed(<<>>) = <<>>
  <2>1. <<>> \in Seq(Byte) /\ Len(<<>>) \in Nat
    OBVIOUS
  <2>2. IsFold(Stuffed(<<>>), Seq(Byte), <<>>, AddEscaped, <<>>) /\ IsFold(<<>>, Seq(Byte), <<>>, AddEscaped, <<>>)
    BY <1>1, <2>1, StuffedFold, FoldEmpty
  <2> QED
    BY <2>1, <2>2, FoldUnique
<1>3. ASSUME NEW s \in Seq(Byte), NEW b \in Byte
      PROVE  Stuffed(s) \in Seq(Byte) /\ Stuffed(Append(s, b)) = Stuffed(s) \o Escaped(b)
  <2>1. Append(s, b) \in Seq(Byte) /\ Len(Append(s, b)) \in Nat
    OBVIOUS
  <2>2. IsFold(Stuffed(s), Seq(Byte), <<>>, AddEscaped, s)
    BY StuffedFold
  <2>3. Stuffed(s) \in Seq(Byte) /\ IsFold(AddEscaped[<<Stuffed(s), b>>], Seq(Byte), <<>>, AddEscaped, Append(s, b))
    BY <1>1, <2>2, FoldAppend
  <2>4. IsFold(Stuffed(Append(s, b)), Seq(Byte), <<>>, AddEscaped, Append(s, b))
    BY <2>1, StuffedFold
  <2>5. Stuffed(Append(s, b)) = AddEscaped[<<Stuffed(s), b>>]
    BY <2>1, <2>3, <2>4, FoldUnique
  <2> QED
    BY <2>3, <2>5, AddEscapedType
<1>4. \E b : b \in Byte
  BY DEF Byte
<1> QED
  BY <1>2, <1>3, <1>4

LEMMA UnstuffFold ==
  ASSUME NEW s \in Seq(Byte)
  PROVE  IsFold(Unstuff(s), Undone, [out |-> <<>>, esc |-> FALSE], UndoOne, s)
<1> DEFINE P(g) == g = [T \in SUBSET (DOMAIN s) |->
                          IF T = {} THEN [out |-> <<>>, esc |-> FALSE] ELSE Undo(g[T \ {Max(T)}], s[Max(T)])]
           f == CHOOSE g : P(g)
<1>1. Unstuff(s) = f[DOMAIN s]
  BY DEF Unstuff, FoldLeft, MapThenFoldSet
<1>2. DOMAIN s = 1 .. Len(s) /\ Len(s) \in Nat
  OBVIOUS
<1>3. /\ UndoOne \in [Undone \X Byte -> Undone] /\ [out |-> <<>>, esc |-> FALSE] \in Undone
      /\ \A v \in Undone : \A b \in Byte : UndoOne[<<v, b>>] = Undo(v, b)
  BY UndoOneType
<1>4. \E g : P(g)
  <2>1. PICK g \in [SUBSET (1 .. Len(s)) -> Undone] : Folding(g, [out |-> <<>>, esc |-> FALSE], UndoOne, s)
    BY <1>3, FoldingExists
  <2>2. \A T \in SUBSET (1 .. Len(s)) :
           T # {} => UndoOne[<<g[T \ {Max(T)}], s[Max(T)]>>] = Undo(g[T \ {Max(T)}], s[Max(T)])
    BY <1>3, LastOf
  <2>3. P(g)
    BY <1>2, <2>1, <2>2 DEF Folding
  <2> QED
    BY <2>3
<1>5. P(f)
  BY <1>4
<1> HIDE DEF f
<1>6. f[{}] = [out |-> <<>>, esc |-> FALSE]
  BY <1>5
<1>7. ASSUME NEW T \in SUBSET (1 .. Len(s)), T # {}, f[T \ {Max(T)}] \in Undone
      PROVE  f[T] = UndoOne[<<f[T \ {Max(T)}], s[Max(T)]>>]
  <2>1. f[T] = Undo(f[T \ {Max(T)}], s[Max(T)])
    BY <1>2, <1>5, <1>7
  <2>2. s[Max(T)] \in Byte
    BY <1>7, LastOf
  <2> QED
    BY <1>3, <1>7, <2>1, <2>2
<1>8. \A v \in Undone : \A i \in 1 .. Len(s) : UndoOne[<<v, s[i]>>] \in Undone
  BY <1>3
<1>9. IsFold(f[1 .. Len(s)], Undone, [out |-> <<>>, esc |-> FALSE], UndoOne, s)
  BY <1>2, <1>3, <1>6, <1>7, <1>8, FoldFromSets
<1> QED
  BY <1>1, <1>2, <1>9

LEMMA UnstuffNext ==
  /\ Unstuff(<<>>) = [out |-> <<>>, esc |-> FALSE]
  /\ \A s \in Seq(Byte) : Unstuff(s) \in Undone
  /\ \A s \in Seq(Byte) : \A b \in Byte : Unstuff(Append(s, b)) = Undo(Unstuff(s), b)
<1>1. UndoOne \in [Undone \X Byte -> Undone] /\ [out |-> <<>>, esc |-> FALSE] \in Undone
  BY UndoOneType
<1>2. Unstuff(<<>>) = [out |-> <<>>, esc |-> FALSE]
  <2>1. <<>> \in Seq(Byte) /\ Len(<<>>) \in Nat
    OBVIOUS
  <2>2. IsFold(Unstuff(<<>>), Undone, [out |-> <<>>, esc |-> FALSE], UndoOne, <<>>) /\ IsFold([out |-> <<>>, esc |-> FALSE], Undone, [out |-> <<>>, esc |-> FALSE], UndoOne, <<>>)
    BY <1>1, <2>1, UnstuffFold, FoldEmpty
  <2> QED
    BY <2>1, <2>2, FoldUnique
<1>3. ASSUME NEW s \in Seq(Byte), NEW b \in Byte
      PROVE  Unstuff(s) \in Undone /\ Unstuff(Append(s, b)) = Undo(Unstuff(s), b)
  <2>1. Append(s, b) \in Seq(Byte) /\ Len(Append(s, b)) \in Nat
    OBVIOUS
  <2>2. IsFold(Unstuff(s), Undone, [out |-> <<>>, esc |-> FALSE], UndoOne, s)
    BY UnstuffFold
  <2>3. Unstuff(s) \in Undone /\ IsFold(UndoOne[<<Unstuff(s), b>>], Undone, [out |-> <<>>, esc |-> FALSE], UndoOne, Append(s, b))
    BY <1>1, <2>2, FoldAppend
  <2>4. IsFold(Unstuff(Append(s, b)), Undone, [out |-> <<>>, esc |-> FALSE], UndoOne, Append(s, b))
    BY <2>1, UnstuffFold
  <2>5. Unstuff(Append(s, b)) = UndoOne[<<Unstuff(s), b>>]
    BY <2>1, <2>3, <2>4, FoldUnique
  <2> QED
    BY <2>3, <2>5, UndoOneType
<1>4. \E b : b \in Byte
  BY DEF Byte
<1> QED
  BY <1>2, <1>3, <1>4

(* What was escaped comes out again. *)
LEMMA UnstuffStuffed ==
  ASSUME NEW s \in Seq(Byte)
  PROVE  Unstuff(Stuffed(s)) = [out |-> s, esc |-> FALSE]
<1> DEFINE P == {t \in Seq(Byte) : Unstuff(Stuffed(t)) = [out |-> t, esc |-> FALSE]}
<1>1. <<>> \in P
  BY StuffedNext, UnstuffNext
<1>2. ASSUME NEW t \in Seq(Byte), NEW b \in Byte, t \in P PROVE Append(t, b) \in P
  <2>0. Append(t, b) \in Seq(Byte) /\ Stuffed(t) \in Seq(Byte)
    BY StuffedNext
  <2>1. Stuffed(Append(t, b)) = Stuffed(t) \o Escaped(b)
    BY StuffedNext
  <2>2. Unstuff(Stuffed(t) \o Escaped(b)) = [out |-> Append(t, b), esc |-> FALSE]
    <3>0. Esc \in Byte /\ Flip(b) \in Byte /\ Flip(Flip(b)) = b
      BY Bytes
    <3>1. CASE NeedsEscape(b)
      <4>1. Escaped(b) = <<Esc, Flip(b)>>
        BY <3>1, Bytes
      <4>2. Stuffed(t) \o Escaped(b) = Append(Append(Stuffed(t), Esc), Flip(b))
        BY <2>0, <3>0, <4>1, Glue
      <4>3. Unstuff(Append(Stuffed(t), Esc)) = [out |-> t, esc |-> TRUE]
        BY <1>2, <2>0, <3>0, UnstuffNext DEF Undo
      <4>4. Append(Stuffed(t), Esc) \in Seq(Byte)
        BY <2>0, <3>0, AppendProperties
      <4>5. Unstuff(Append(Append(Stuffed(t), Esc), Flip(b)))
              = Undo([out |-> t, esc |-> TRUE], Flip(b))
        BY <3>0, <4>3, <4>4, UnstuffNext
      <4>6. Undo([out |-> t, esc |-> TRUE], Flip(b)) = [out |-> Append(t, b), esc |-> FALSE]
        BY <3>0 DEF Undo
      <4> QED
        BY <4>2, <4>5, <4>6
    <3>2. CASE ~NeedsEscape(b)
      <4>1. Escaped(b) = <<b>> /\ b # Esc
        BY <3>2, Bytes
      <4>2. Stuffed(t) \o Escaped(b) = Append(Stuffed(t), b)
        BY <2>0, <4>1, Glue
      <4>3. Unstuff(Append(Stuffed(t), b)) = Undo([out |-> t, esc |-> FALSE], b)
        BY <1>2, <2>0, UnstuffNext
      <4> QED
        BY <4>1, <4>2, <4>3 DEF Undo
    <3> QED
      BY <3>1, <3>2
  <2> QED
    BY <2>0, <2>1, <2>2
<1>3. Seq(Byte) \subseteq P
  <2> HIDE DEF P
  <2> QED
    BY <1>1, <1>2, InductionSeq
<1> QED
  BY <1>3

(* What was read only grows, and every byte counts. *)
Weight(u) == 2 * Len(u.out) + (IF u.esc THEN 1 ELSE 0)

LEMMA WeightOf ==
  ASSUME NEW u, Len(u.out) \in Nat
  PROVE  /\ Weight(u) \in Nat
         /\ u.esc => Weight(u) = 2 * Len(u.out) + 1
         /\ ~u.esc => Weight(u) = 2 * Len(u.out)
<1>1. CASE u.esc
  <2>1. Weight(u) = 2 * Len(u.out) + 1
    BY <1>1 DEF Weight
  <2> QED
    BY <1>1, <2>1
<1>2. CASE ~u.esc
  <2>1. Weight(u) = 2 * Len(u.out) + 0
    BY <1>2 DEF Weight
  <2> QED
    BY <1>2, <2>1
<1> QED
  BY <1>1, <1>2

LEMMA Continue ==
  ASSUME NEW p \in Seq(Byte), NEW q \in Seq(Byte)
  PROVE  /\ \E r \in Seq(Byte) : Unstuff(p \o q).out = Unstuff(p).out \o r
         /\ Weight(Unstuff(p \o q)) >= Weight(Unstuff(p)) + Len(q)
<1> DEFINE P == {t \in Seq(Byte) :
                   /\ \E r \in Seq(Byte) : Unstuff(p \o t).out = Unstuff(p).out \o r
                   /\ Weight(Unstuff(p \o t)) >= Weight(Unstuff(p)) + Len(t)}
<1>0. /\ Unstuff(p) \in Undone /\ Unstuff(p).out \in Seq(Byte) /\ Unstuff(p).esc \in BOOLEAN
      /\ Weight(Unstuff(p)) \in Nat
  <2>1. Unstuff(p) \in Undone
    BY UnstuffNext
  <2>2. Unstuff(p).out \in Seq(Byte) /\ Unstuff(p).esc \in BOOLEAN
    BY <2>1 DEF Undone
  <2>3. Len(Unstuff(p).out) \in Nat
    BY <2>2
  <2>4. Weight(Unstuff(p)) \in Nat
    BY <2>3, WeightOf
  <2> QED
    BY <2>1, <2>2, <2>4
<1>1. <<>> \in P
  <2>1. <<>> \in Seq(Byte) /\ p \o <<>> = p /\ Len(<<>>) = 0
    BY EmptySeq, ConcatEmptySeq
  <2>2. Unstuff(p).out = Unstuff(p).out \o <<>>
    BY <1>0, ConcatEmptySeq
  <2>3. Weight(Unstuff(p)) >= Weight(Unstuff(p)) + 0
    BY <1>0
  <2> QED
    BY <2>1, <2>2, <2>3
<1>2. ASSUME NEW t \in Seq(Byte), NEW b \in Byte, t \in P PROVE Append(t, b) \in P
  <2>1. PICK r \in Seq(Byte) : Unstuff(p \o t).out = Unstuff(p).out \o r
    BY <1>2
  <2>2. /\ Append(t, b) \in Seq(Byte) /\ Len(Append(t, b)) = Len(t) + 1 /\ Len(t) \in Nat
        /\ p \o t \in Seq(Byte)
    BY AppendProperties, ConcatProperties, LenProperties
  <2>3. p \o Append(t, b) = Append(p \o t, b)
    BY AppendConcat
  <2> DEFINE u == Unstuff(p \o t)
  <2>4. u \in Undone /\ u.out \in Seq(Byte) /\ u.esc \in BOOLEAN
    <3>1. u \in Undone
      BY <2>2, UnstuffNext
    <3> QED
      BY <3>1 DEF Undone
  <2>5. Unstuff(p \o Append(t, b)) = Undo(u, b)
    BY <2>2, <2>3, UnstuffNext
  <2>6. Flip(b) \in Byte
    BY Bytes
  <2>7. \A e \in Byte : Len(Append(u.out, e)) = Len(u.out) + 1 /\ Len(u.out) \in Nat
    BY <2>4, AppendProperties, LenProperties
  <2>8. \A e \in Byte : /\ Append(u.out, e) = Unstuff(p).out \o Append(r, e)
                        /\ Append(r, e) \in Seq(Byte)
    <3> SUFFICES ASSUME NEW e \in Byte
                 PROVE  /\ Append(u.out, e) = Unstuff(p).out \o Append(r, e)
                        /\ Append(r, e) \in Seq(Byte)
      OBVIOUS
    <3>1. Append(Unstuff(p).out \o r, e) = Unstuff(p).out \o Append(r, e)
      BY <1>0, AppendConcat
    <3>2. Append(r, e) \in Seq(Byte)
      BY AppendProperties
    <3> QED
      BY <2>1, <3>1, <3>2
  <2>9. Weight(u) >= Weight(Unstuff(p)) + Len(t)
    BY <1>2
  <2>10. \/ \E e \in Byte : Undo(u, b).out = Append(u.out, e) /\ ~Undo(u, b).esc
         \/ ~u.esc /\ Undo(u, b).out = u.out /\ Undo(u, b).esc
    BY <2>6 DEF Undo
  <2> HIDE DEF u
  <2>11. PICK n \in Nat : n = Len(u.out)
    BY <2>4
  <2>12. Weight(Undo(u, b)) >= Weight(u) + 1 /\ Weight(u) \in Nat /\ Weight(Undo(u, b)) \in Nat
    <3>1. Weight(u) \in Nat /\ Weight(u) <= 2 * n + 1 /\ (~u.esc => Weight(u) = 2 * n)
      BY <2>11, WeightOf
    <3>2. CASE \E e \in Byte : Undo(u, b).out = Append(u.out, e) /\ ~Undo(u, b).esc
      <4>1. Len(Undo(u, b).out) = n + 1 /\ n + 1 \in Nat
        BY <2>7, <2>11, <3>2
      <4>2. Weight(Undo(u, b)) = 2 * (n + 1)
        BY <3>2, <4>1, WeightOf
      <4> QED
        BY <3>1, <4>2
    <3>3. CASE ~u.esc /\ Undo(u, b).out = u.out /\ Undo(u, b).esc
      <4>1. Weight(Undo(u, b)) = 2 * n + 1
        BY <2>11, <3>3, WeightOf
      <4> QED
        BY <3>1, <3>3, <4>1
    <3> QED
      BY <2>10, <3>2, <3>3
  <2>13. \E w \in Seq(Byte) : Undo(u, b).out = Unstuff(p).out \o w
    BY <2>1, <2>8, <2>10 DEF u
  <2>14. Weight(Undo(u, b)) >= Weight(Unstuff(p)) + Len(Append(t, b))
    BY <1>0, <2>2, <2>9, <2>12
  <2> QED
    BY <2>2, <2>5, <2>13, <2>14
<1>3. Seq(Byte) \subseteq P
  <2> HIDE DEF P
  <2> QED
    BY <1>1, <1>2, InductionSeq
<1> QED
  BY <1>3

(* Two readers that agree on whether they are inside an escape take the    *)
(* same from the same bytes.                                               *)
Agree(u, v, x, y, r) == x.out = u.out \o r /\ y.out = v.out \o r /\ x.esc = y.esc

LEMMA SameRest ==
  ASSUME NEW p \in Seq(Byte), NEW s \in Seq(Byte), NEW q \in Seq(Byte),
         Unstuff(p).esc = Unstuff(s).esc
  PROVE  \E r \in Seq(Byte) :
            Agree(Unstuff(p), Unstuff(s), Unstuff(p \o q), Unstuff(s \o q), r)
<1> DEFINE P == {t \in Seq(Byte) : \E r \in Seq(Byte) :
                   Agree(Unstuff(p), Unstuff(s), Unstuff(p \o t), Unstuff(s \o t), r)}
<1>0. Unstuff(p).out \in Seq(Byte) /\ Unstuff(s).out \in Seq(Byte)
  <2>1. Unstuff(p) \in Undone /\ Unstuff(s) \in Undone
    BY UnstuffNext
  <2> QED
    BY <2>1 DEF Undone
<1>1. <<>> \in P
  <2>1. <<>> \in Seq(Byte) /\ p \o <<>> = p /\ s \o <<>> = s
    BY EmptySeq, ConcatEmptySeq
  <2>2. Unstuff(p).out = Unstuff(p).out \o <<>> /\ Unstuff(s).out = Unstuff(s).out \o <<>>
    BY <1>0, ConcatEmptySeq
  <2>3. Agree(Unstuff(p), Unstuff(s), Unstuff(p \o <<>>), Unstuff(s \o <<>>), <<>>)
    BY <2>1, <2>2 DEF Agree
  <2> QED
    BY <2>1, <2>3
<1>2. ASSUME NEW t \in Seq(Byte), NEW b \in Byte, t \in P PROVE Append(t, b) \in P
  <2>1. PICK r \in Seq(Byte) :
           Agree(Unstuff(p), Unstuff(s), Unstuff(p \o t), Unstuff(s \o t), r)
    BY <1>2
  <2>2. /\ Append(t, b) \in Seq(Byte) /\ <<b>> \in Seq(Byte)
        /\ p \o t \in Seq(Byte) /\ s \o t \in Seq(Byte)
    BY AppendProperties, ConcatProperties, Glue
  <2>3. p \o Append(t, b) = Append(p \o t, b) /\ s \o Append(t, b) = Append(s \o t, b)
    BY AppendConcat
  <2> DEFINE u == Unstuff(p \o t)
             v == Unstuff(s \o t)
  <2>4. Unstuff(p \o Append(t, b)) = Undo(u, b) /\ Unstuff(s \o Append(t, b)) = Undo(v, b)
    BY <2>2, <2>3, UnstuffNext
  <2>5. \A e \in Byte : /\ Append(u.out, e) = Unstuff(p).out \o Append(r, e)
                        /\ Append(v.out, e) = Unstuff(s).out \o Append(r, e)
                        /\ Append(r, e) \in Seq(Byte)
    <3> SUFFICES ASSUME NEW e \in Byte
                 PROVE  /\ Append(u.out, e) = Unstuff(p).out \o Append(r, e)
                        /\ Append(v.out, e) = Unstuff(s).out \o Append(r, e)
                        /\ Append(r, e) \in Seq(Byte)
      OBVIOUS
    <3>1. Append(Unstuff(p).out \o r, e) = Unstuff(p).out \o Append(r, e)
      BY ZenonT(60), <1>0, AppendConcat
    <3>2. Append(Unstuff(s).out \o r, e) = Unstuff(s).out \o Append(r, e)
      BY ZenonT(60), <1>0, AppendConcat
    <3>3. Append(r, e) \in Seq(Byte)
      BY AppendProperties
    <3> QED
      BY <2>1, <3>1, <3>2, <3>3 DEF Agree
  <2>6. u.esc = v.esc /\ Flip(b) \in Byte
    BY <2>1, Bytes DEF Agree
  <2>7. CASE u.esc
    <3>1. Agree(Unstuff(p), Unstuff(s), Undo(u, b), Undo(v, b), Append(r, Flip(b)))
      BY <2>5, <2>6, <2>7 DEF Agree, Undo
    <3> QED
      BY <2>2, <2>4, <2>5, <2>6, <3>1
  <2>8. CASE ~u.esc /\ b = Esc
    <3>1. Agree(Unstuff(p), Unstuff(s), Undo(u, b), Undo(v, b), r)
      BY <2>1, <2>6, <2>8 DEF Agree, Undo
    <3> QED
      BY <2>2, <2>4, <3>1
  <2>9. CASE ~u.esc /\ b # Esc
    <3>1. Agree(Unstuff(p), Unstuff(s), Undo(u, b), Undo(v, b), Append(r, b))
      BY <2>5, <2>6, <2>9 DEF Agree, Undo
    <3> QED
      BY <2>2, <2>4, <2>5, <3>1
  <2> QED
    BY <2>7, <2>8, <2>9
<1>3. Seq(Byte) \subseteq P
  <2> HIDE DEF P
  <2> QED
    BY <1>1, <1>2, InductionSeq
<1> QED
  BY <1>3

\* The bytes that follow an escape byte on the wire.
Flipped == {94, 93, 49, 51}

(* A frame has no sync byte but its first, and an escape byte on the wire  *)
(* begins an escape.                                                       *)
LEMMA StuffedBytes ==
  ASSUME NEW s \in Seq(Byte)
  PROVE  \A i \in 1 .. Len(Stuffed(s)) :
            /\ Stuffed(s)[i] # Sync
            /\ Stuffed(s)[i] = Esc => i < Len(Stuffed(s)) /\ Stuffed(s)[i + 1] \in Flipped
<1> DEFINE Fine(t) == \A i \in 1 .. Len(t) : /\ t[i] # Sync
                                             /\ t[i] = Esc => i < Len(t) /\ t[i + 1] \in Flipped
           P == {t \in Seq(Byte) : Fine(Stuffed(t))}
<1>1. <<>> \in P
  BY StuffedNext
<1>2. ASSUME NEW t \in Seq(Byte), NEW b \in Byte, t \in P PROVE Append(t, b) \in P
  <2> DEFINE u == Stuffed(t)
             e == Escaped(b)
  <2>1. Append(t, b) \in Seq(Byte) /\ u \in Seq(Byte) /\ Stuffed(Append(t, b)) = u \o e
    BY StuffedNext, AppendProperties
  <2>2. /\ e \in Seq(Byte) /\ Len(e) \in {1, 2}
        /\ Len(e) = 1 => e[1] # Sync /\ e[1] # Esc
        /\ Len(e) = 2 => e[1] = Esc /\ e[2] \in Flipped
        /\ \A x \in Flipped : x # Sync /\ x # Esc
        /\ Esc # Sync
    <3>1. \A x \in Flipped : x # Sync /\ x # Esc
      BY DEF Flipped, Sync, Esc
    <3>2. CASE NeedsEscape(b)
      <4>1. e = <<Esc, Flip(b)>> /\ Flip(b) \in Byte /\ Esc \in Byte
        BY <3>2, Bytes
      <4>2. Flip(b) \in Flipped
        BY <3>2 DEF NeedsEscape, Flip, Sync, Esc, XOn, XOff, Flipped
      <4>3. Len(e) = 2 /\ e[1] = Esc /\ e[2] = Flip(b) /\ e \in Seq(Byte)
        BY <4>1
      <4> QED
        BY <3>1, <4>2, <4>3 DEF Esc, Sync
    <3>3. CASE ~NeedsEscape(b)
      <4>1. e = <<b>> /\ b # Esc /\ b # Sync
        BY <3>3, Bytes
      <4>2. Len(e) = 1 /\ e[1] = b /\ e \in Seq(Byte)
        BY <4>1
      <4> QED
        BY <3>1, <4>1, <4>2 DEF Esc, Sync
    <3> QED
      BY <3>2, <3>3
  <2>3. Fine(u)
    BY <1>2
  <2> HIDE DEF u, e
  <2> DEFINE w == u \o e
  <2>4. /\ Len(u) \in Nat /\ Len(w) = Len(u) + Len(e)
        /\ \A i \in 1 .. Len(u) + Len(e) : w[i] = IF i <= Len(u) THEN u[i] ELSE e[i - Len(u)]
    BY <2>1, <2>2, ConcatProperties, LenProperties
  <2> HIDE DEF w
  <2>5. ASSUME NEW i \in 1 .. Len(w)
        PROVE  w[i] # Sync /\ (w[i] = Esc => i < Len(w) /\ w[i + 1] \in Flipped)
    <3>1. CASE i <= Len(u)
      <4>1. i \in 1 .. Len(u) /\ i \in 1 .. Len(u) + Len(e) /\ w[i] = u[i]
        BY <2>2, <2>4, <3>1
      <4>2. ASSUME w[i] = Esc PROVE i < Len(w) /\ w[i + 1] \in Flipped
        <5>1. i < Len(u) /\ u[i + 1] \in Flipped
          BY <2>3, <4>1, <4>2
        <5>2. i + 1 \in 1 .. Len(u) + Len(e) /\ i + 1 <= Len(u)
          BY <2>2, <2>4, <5>1
        <5> QED
          BY <2>2, <2>4, <5>1, <5>2
      <4> QED
        BY <2>3, <4>1, <4>2
    <3>2. CASE i = Len(u) + 1
      <4>1. w[i] = e[1]
        BY <2>2, <2>4, <3>2
      <4>2. Len(e) = 2 => i + 1 \in 1 .. Len(w) /\ w[i + 1] = e[2] /\ i < Len(w)
        BY <2>2, <2>4, <3>2
      <4> QED
        BY <2>2, <4>1, <4>2
    <3>3. CASE i = Len(u) + 2
      <4>1. Len(e) = 2 /\ w[i] = e[2]
        BY <2>2, <2>4, <3>3
      <4> QED
        BY <2>2, <4>1
    <3>4. i <= Len(u) \/ i = Len(u) + 1 \/ i = Len(u) + 2
      BY <2>2, <2>4
    <3> QED
      BY <3>1, <3>2, <3>3, <3>4
  <2>6. Fine(w)
    BY <2>5
  <2> QED
    BY <2>1, <2>6 DEF w
<1>3. Seq(Byte) \subseteq P
  <2> HIDE DEF P
  <2> QED
    BY <1>1, <1>2, InductionSeq
<1> QED
  BY <1>3

-----------------------------------------------------------------------------
(* Frames. *)

\* The packets whose length fits its two bytes.
Raw == {r \in Seq(Byte) : Len(r) < 65536}

\* What is in a frame after its sync byte, before escaping.
Whole(raw) == Append(Body(raw), 255 - Sum8(raw))

\* Where is what, for a packet of n bytes.
Parts(raw, n) ==
  /\ raw \in Seq(Byte) /\ n \in Nat /\ 255 - Sum8(raw) \in Byte /\ Sum8(raw) \in Byte
  /\ Body(raw) \in Seq(Byte) /\ Len(Body(raw)) = n + 2
  /\ Body(raw)[1] * 256 + Body(raw)[2] = n
  /\ Whole(raw) \in Seq(Byte) /\ Len(Whole(raw)) = n + 3
  /\ \A i \in 1 .. n + 2 : Whole(raw)[i] = Body(raw)[i]
  /\ \A i \in 1 .. n : Whole(raw)[i + 2] = raw[i]
  /\ Whole(raw)[n + 3] = 255 - Sum8(raw)
  /\ SubSeq(Whole(raw), 3, n + 2) = raw

LEMMA WholeParts ==
  ASSUME NEW raw \in Raw, NEW n, n = Len(raw)
  PROVE  Parts(raw, n)
<1>1. raw \in Seq(Byte) /\ n \in Nat /\ n < 65536
  BY DEF Raw
<1> DEFINE h == n \div 256
           l == n % 256
           head == <<h, l>>
<1>2. h \in Byte /\ l \in Byte /\ h * 256 + l = n
  <2>1. h \in Nat /\ l \in Nat /\ l < 256 /\ n = 256 * h + l
    BY <1>1
  <2>2. \A a, b \in Nat : a < 256 /\ b < 256 => a \in Byte /\ b \in Byte
    BY DEF Byte
  <2> HIDE DEF h, l
  <2>3. h < 256 /\ h * 256 + l = n
    BY <1>1, <2>1
  <2> QED
    BY <2>1, <2>2, <2>3
<1>3. Sum8(raw) \in Byte /\ 255 - Sum8(raw) \in Byte
  <2>1. Sum8(raw) \in Byte
    BY <1>1, Sum8Next
  <2>2. \A b \in Byte : 255 - b \in Byte
    BY DEF Byte
  <2> QED
    BY <2>1, <2>2
<1>4. head \in Seq(Byte) /\ Len(head) = 2 /\ head[1] = h /\ head[2] = l
  BY <1>2
<1>5. Body(raw) = head \o raw
  BY DEF Body
<1> HIDE DEF head, h, l
<1>6. /\ Body(raw) \in Seq(Byte) /\ Len(Body(raw)) = n + 2
      /\ \A i \in 1 .. n + 2 : Body(raw)[i] = IF i <= 2 THEN head[i] ELSE raw[i - 2]
  <2>1. /\ head \o raw \in Seq(Byte) /\ Len(head \o raw) = Len(head) + Len(raw)
        /\ \A i \in 1 .. Len(head) + Len(raw) :
              (head \o raw)[i] = IF i <= Len(head) THEN head[i] ELSE raw[i - Len(head)]
    <3>1. head \in Seq(Byte) /\ raw \in Seq(Byte)
      BY <1>1, <1>4
    <3> QED
      BY Zenon, <3>1, ConcatProperties
  <2>2. Len(head) + Len(raw) = n + 2
    BY <1>1, <1>4
  <2> QED
    BY <1>4, <1>5, <2>1, <2>2
<1>7. /\ Whole(raw) \in Seq(Byte) /\ Len(Whole(raw)) = n + 3
      /\ \A i \in 1 .. n + 2 : Whole(raw)[i] = Body(raw)[i]
      /\ Whole(raw)[n + 3] = 255 - Sum8(raw)
  <2> DEFINE c == 255 - Sum8(raw)
             b == Body(raw)
  <2> HIDE DEF c, b
  <2>1. c \in Byte /\ b \in Seq(Byte) /\ Len(b) = n + 2
    BY <1>3, <1>6 DEF b, c
  <2>2. /\ Append(b, c) \in Seq(Byte) /\ Len(Append(b, c)) = (n + 2) + 1
        /\ \A i \in 1 .. n + 2 : Append(b, c)[i] = b[i]
        /\ Append(b, c)[(n + 2) + 1] = c
    BY <2>1, AppendProperties
  <2>3. (n + 2) + 1 = n + 3
    BY <1>1
  <2> QED
    BY <2>2, <2>3 DEF Whole, b, c
<1>8. Body(raw)[1] = h /\ Body(raw)[2] = l
  BY <1>1, <1>4, <1>6
<1>9. \A i \in 1 .. n : Whole(raw)[i + 2] = raw[i]
  <2> SUFFICES ASSUME NEW i \in 1 .. n PROVE Whole(raw)[i + 2] = raw[i]
    OBVIOUS
  <2>1. i + 2 \in 1 .. n + 2 /\ ~(i + 2 <= 2) /\ (i + 2) - 2 = i
    BY <1>1
  <2> QED
    BY <1>6, <1>7, <2>1
<1>10. SubSeq(Whole(raw), 3, n + 2) = raw
  <2> DEFINE w == Whole(raw)
             z == SubSeq(w, 3, n + 2)
  <2>1. \A i \in 3 .. n + 2 : w[i] \in Byte
    BY <1>1, <1>7
  <2>2. z \in Seq(Byte) /\ Len(z) = n /\ \A i \in 1 .. n : z[i] = w[3 + i - 1]
    <3>1. /\ z \in Seq(Byte) /\ Len(z) = IF 3 <= n + 2 THEN (n + 2) - 3 + 1 ELSE 0
          /\ \A i \in 1 .. (n + 2) - 3 + 1 : z[i] = w[3 + i - 1]
      BY <1>1, <2>1, SubSeqProperties
    <3>2. (n + 2) - 3 + 1 = n /\ (3 <= n + 2 \/ n = 0)
      BY <1>1
    <3> QED
      BY <3>1, <3>2
  <2> HIDE DEF w, z
  <2>3. \A i \in 1 .. n : z[i] = raw[i]
    <3> SUFFICES ASSUME NEW i \in 1 .. n PROVE z[i] = raw[i]
      OBVIOUS
    <3>1. 3 + i - 1 = i + 2
      OBVIOUS
    <3> QED
      BY <1>9, <2>2, <3>1 DEF w
  <2>4. z = raw
    BY <1>1, <2>2, <2>3, SeqEqual
  <2> QED
    BY <2>4 DEF z, w
<1> QED
  BY <1>1, <1>2, <1>3, <1>6, <1>7, <1>8, <1>9, <1>10 DEF Parts

\* What the decoder demands of the bytes it has taken from their escapes.
Right(u) == LET n == Len(u.out) - 3
            IN  /\ ~u.esc
                /\ n >= 0
                /\ u.out[1] * 256 + u.out[2] = n
                /\ u.out[n + 3] = 255 - Sum8(SubSeq(u.out, 3, n + 2))

LEMMA CompleteIs ==
  ASSUME NEW t \in Seq(Byte)
  PROVE  /\ Complete(<<Sync>> \o t) <=> Right(Unstuff(t))
         /\ Payload(<<Sync>> \o t) = SubSeq(Unstuff(t).out, 3, Len(Unstuff(t).out) - 1)
<1>1. Tail(<<Sync>> \o t) = t
  OBVIOUS
<1> QED
  BY <1>1 DEF Complete, Right, Payload

\* The bytes t after the sync byte of a frame, a radio's or src's, of raw.
Framed(t, raw) ==
  /\ t \in Seq(Byte)
  /\ \A i \in 1 .. Len(t) - 1 : t[i] # Sync
  /\ \A i \in 1 .. Len(t) - 1 : t[i] = Esc => t[i + 1] \in Flipped
  /\ \/ Unstuff(t) = [out |-> Whole(raw), esc |-> FALSE]
     \/ Unstuff(t) = [out |-> Body(raw), esc |-> TRUE] /\ 255 - Sum8(raw) = Esc

LEMMA RadioFramed ==
  ASSUME NEW raw \in Raw
  PROVE  \E t : /\ RadioEncode(raw) = <<Sync>> \o t
                /\ Framed(t, raw)
                /\ Unstuff(t) = [out |-> Whole(raw), esc |-> FALSE]
<1> DEFINE w == Whole(raw)
           t == Stuffed(w)
<1>1. Body(raw) \in Seq(Byte) /\ 255 - Sum8(raw) \in Byte /\ w \in Seq(Byte)
  BY ZenonT(60), WholeParts DEF Parts
<1>2. Body(raw) \o <<255 - Sum8(raw)>> = w
  BY <1>1, AppendIsConcat DEF Whole
<1>3. RadioEncode(raw) = <<Sync>> \o t
  BY <1>2 DEF RadioEncode
<1> HIDE DEF w
<1>4. t \in Seq(Byte) /\ Unstuff(t) = [out |-> w, esc |-> FALSE]
  BY <1>1, StuffedNext, UnstuffStuffed
<1>5. /\ \A i \in 1 .. Len(t) - 1 : t[i] # Sync
      /\ \A i \in 1 .. Len(t) - 1 : t[i] = Esc => t[i + 1] \in Flipped
  <2>1. \A i \in 1 .. Len(t) - 1 : i \in 1 .. Len(t)
    BY <1>4
  <2> QED
    BY <1>1, <2>1, StuffedBytes
<1>6. Framed(t, raw)
  BY <1>4, <1>5 DEF Framed, w
<1> QED
  BY <1>3, <1>4, <1>6 DEF w

LEMMA SourceFramed ==
  ASSUME NEW raw \in Raw
  PROVE  \E t : /\ Encode(raw) = <<Sync>> \o t
                /\ Framed(t, raw)
                /\ 255 - Sum8(raw) # Esc => Unstuff(t) = [out |-> Whole(raw), esc |-> FALSE]
                /\ 255 - Sum8(raw) = Esc => Unstuff(t) = [out |-> Body(raw), esc |-> TRUE]
                /\ t # <<>> /\ t[Len(t)] = 255 - Sum8(raw)
<1> DEFINE c == 255 - Sum8(raw)
           s == Stuffed(Body(raw))
           t == Append(s, c)
<1>1. Body(raw) \in Seq(Byte) /\ c \in Byte
  BY ZenonT(60), WholeParts DEF Parts
<1>2. s \in Seq(Byte) /\ Unstuff(s) = [out |-> Body(raw), esc |-> FALSE]
  BY <1>1, StuffedNext, UnstuffStuffed
<1>3. Encode(raw) = <<Sync>> \o t
  <2>1. <<Sync>> \in Seq(Byte) /\ <<c>> \in Seq(Byte) /\ s \o <<c>> = t
    <3>1. Sync \in Byte
      BY <1>1, Bytes
    <3>2. s \o <<c>> = t
      BY <1>1, <1>2, AppendIsConcat
    <3> QED
      BY <1>1, <3>1, <3>2
  <2>2. Encode(raw) = (<<Sync>> \o s) \o <<c>>
    BY DEF Encode
  <2>3. (<<Sync>> \o s) \o <<c>> = <<Sync>> \o (s \o <<c>>)
    BY <1>2, <2>1, ConcatAssociative
  <2> QED
    BY <2>1, <2>2, <2>3
<1>4. Unstuff(t) = Undo([out |-> Body(raw), esc |-> FALSE], c)
  BY ZenonT(60), <1>1, <1>2, UnstuffNext
<1>5. /\ c # Esc => Unstuff(t) = [out |-> Whole(raw), esc |-> FALSE]
      /\ c = Esc => Unstuff(t) = [out |-> Body(raw), esc |-> TRUE]
  BY <1>4 DEF Undo, Whole
<1>6. /\ t \in Seq(Byte) /\ t # <<>> /\ Len(t) = Len(s) + 1 /\ t[Len(t)] = c /\ Len(s) \in Nat
      /\ \A i \in 1 .. Len(s) : t[i] = s[i]
  <2> HIDE DEF s, c
  <2>1. /\ Append(s, c) \in Seq(Byte) /\ Append(s, c) # <<>>
        /\ Len(Append(s, c)) = Len(s) + 1
        /\ \A i \in 1 .. Len(s) : Append(s, c)[i] = s[i]
        /\ Append(s, c)[Len(s) + 1] = c
    BY <1>1, <1>2, AppendProperties
  <2>2. Len(s) \in Nat
    BY <1>2
  <2> QED
    BY <2>1, <2>2
<1>7. \A i \in 1 .. Len(s) : s[i] # Sync /\ (s[i] = Esc => i < Len(s) /\ s[i + 1] \in Flipped)
  BY <1>1, StuffedBytes
<1> HIDE DEF t, s, c
<1>8. /\ \A i \in 1 .. Len(t) - 1 : t[i] # Sync
      /\ \A i \in 1 .. Len(t) - 1 : t[i] = Esc => t[i + 1] \in Flipped
  <2> SUFFICES ASSUME NEW i \in 1 .. Len(t) - 1
               PROVE  t[i] # Sync /\ (t[i] = Esc => t[i + 1] \in Flipped)
    OBVIOUS
  <2>1. i \in 1 .. Len(s) /\ t[i] = s[i]
    BY <1>6
  <2>2. ASSUME t[i] = Esc PROVE t[i + 1] \in Flipped
    <3>1. i < Len(s) /\ s[i + 1] \in Flipped
      BY <1>7, <2>1, <2>2
    <3>2. i + 1 \in 1 .. Len(s)
      BY <1>6, <2>1, <3>1
    <3> QED
      BY <1>6, <3>1, <3>2
  <2> QED
    BY <1>7, <2>1, <2>2
<1>9. Framed(t, raw)
  BY <1>5, <1>6, <1>8 DEF Framed, c
<1> QED
  BY <1>3, <1>5, <1>6, <1>9 DEF c

LEMMA WholeRight ==
  ASSUME NEW raw \in Raw, NEW u, u = [out |-> Whole(raw), esc |-> FALSE]
  PROVE  Right(u) /\ SubSeq(u.out, 3, Len(u.out) - 1) = raw
<1>0. PICK n : n = Len(raw)
  OBVIOUS
<1>0a. Parts(raw, n)
  BY <1>0, WholeParts
<1>1. /\ n \in Nat /\ Len(Whole(raw)) = n + 3 /\ Body(raw)[1] * 256 + Body(raw)[2] = n
      /\ \A i \in 1 .. n + 2 : Whole(raw)[i] = Body(raw)[i]
      /\ Whole(raw)[n + 3] = 255 - Sum8(raw)
      /\ SubSeq(Whole(raw), 3, n + 2) = raw
  BY <1>0a DEF Parts
<1>2. 1 \in 1 .. n + 2 /\ 2 \in 1 .. n + 2 /\ (n + 3) - 3 = n /\ (n + 3) - 1 = n + 2
  BY <1>1
<1>3. Whole(raw)[1] * 256 + Whole(raw)[2] = n
  BY <1>1, <1>2
<1>4. /\ u.out = Whole(raw) /\ ~u.esc
      /\ Len(u.out) - 3 = n /\ Len(u.out) - 1 = n + 2 /\ n >= 0
  BY <1>1, <1>2
<1>5. Right(u)
  BY ZenonT(60), <1>1, <1>3, <1>4 DEF Right
<1> QED
  BY <1>1, <1>4, <1>5

(* What was framed is found again. *)
LEMMA FoundAgain ==
  ASSUME NEW raw \in Raw, NEW t, Framed(t, raw),
         Unstuff(t) = [out |-> Whole(raw), esc |-> FALSE]
  PROVE  Complete(<<Sync>> \o t) /\ Payload(<<Sync>> \o t) = raw
<1>1. t \in Seq(Byte)
  BY DEF Framed
<1>2. Right(Unstuff(t)) /\ SubSeq(Unstuff(t).out, 3, Len(Unstuff(t).out) - 1) = raw
  BY WholeRight
<1> QED
  BY <1>1, <1>2, CompleteIs

(* No proper part of a frame passes for one: every byte counts. *)
LEMMA NotYet ==
  ASSUME NEW raw \in Raw, NEW t, Framed(t, raw),
         NEW p \in Seq(Byte), NEW q \in Seq(Byte), t = p \o q, q # <<>>
  PROVE  ~Right(Unstuff(p))
<1> SUFFICES ASSUME Right(Unstuff(p)) PROVE FALSE
  OBVIOUS
<1>0. PICK n : n = Len(raw)
  OBVIOUS
<1> DEFINE u == Unstuff(p)
           v == Unstuff(t)
<1>0a. Parts(raw, n)
  BY <1>0, WholeParts
<1>1. /\ n \in Nat /\ Len(Whole(raw)) = n + 3 /\ Len(Body(raw)) = n + 2
      /\ Body(raw)[1] * 256 + Body(raw)[2] = n
      /\ \A i \in 1 .. n + 2 : Whole(raw)[i] = Body(raw)[i]
  BY <1>0a DEF Parts
<1>2. /\ (v.out = Whole(raw) /\ ~v.esc) \/ v.out = Body(raw)
      /\ v.out[1] * 256 + v.out[2] = n
  <2>1. 1 \in 1 .. n + 2 /\ 2 \in 1 .. n + 2
    BY <1>1
  <2>2. v = [out |-> Whole(raw), esc |-> FALSE] \/ v = [out |-> Body(raw), esc |-> TRUE]
    BY DEF Framed
  <2> QED
    BY SMTT(30), <1>1, <2>1, <2>2
<1>3. u.out \in Seq(Byte) /\ Len(u.out) \in Nat
  <2>1. u \in Undone
    BY UnstuffNext
  <2> QED
    BY <2>1 DEF Undone
<1>4. PICK r \in Seq(Byte) : v.out = u.out \o r
  BY Continue
<1>5. Weight(v) >= Weight(u) + Len(q) /\ Len(q) \in Nat /\ Len(q) # 0
  BY Continue, EmptySeq
<1>6. ~u.esc /\ Len(u.out) - 3 >= 0 /\ u.out[1] * 256 + u.out[2] = Len(u.out) - 3
  BY DEF Right
<1> HIDE DEF u, v
<1>7. /\ Len(v.out) = Len(u.out) + Len(r) /\ Len(r) \in Nat
      /\ v.out[1] = u.out[1] /\ v.out[2] = u.out[2]
  <2>1. 1 <= Len(u.out) /\ 2 <= Len(u.out) /\ Len(r) \in Nat
    BY <1>3, <1>6
  <2>2. 1 \in 1 .. Len(u.out) + Len(r) /\ 2 \in 1 .. Len(u.out) + Len(r)
    BY <1>3, <2>1
  <2> QED
    BY <1>3, <1>4, <2>1, <2>2, ConcatProperties
<1>8. Len(u.out) = n + 3
  BY <1>1, <1>2, <1>3, <1>6, <1>7
<1>9. v.out = Whole(raw) /\ ~v.esc
  <2>1. ASSUME v.out = Body(raw) PROVE FALSE
    BY <1>1, <1>7, <1>8, <2>1
  <2> QED
    BY <1>2, <2>1
<1>10. Weight(u) = 2 * (n + 3) /\ Weight(v) = 2 * (n + 3)
  <2>1. n + 3 \in Nat /\ Len(v.out) = n + 3
    BY <1>1, <1>9
  <2>2. Len(u.out) \in Nat /\ Len(v.out) \in Nat
    BY <1>8, <2>1
  <2>3. Weight(u) = 2 * Len(u.out) /\ Weight(v) = 2 * Len(v.out)
    BY Zenon, <1>6, <1>9, <2>2, WeightOf
  <2> QED
    BY <1>8, <2>1, <2>3
<1> QED
  BY <1>1, <1>5, <1>10

-----------------------------------------------------------------------------
(* What one byte changes. *)

Plus(x, y) == (x + y) % 256

LEMMA PlusIs ==
  ASSUME NEW x \in Byte, NEW y \in Byte
  PROVE  Plus(x, y) \in Byte /\ (Plus(x, y) = x + y \/ Plus(x, y) = x + y - 256)
<1>1. x \in 0 .. 255 /\ y \in 0 .. 255
  BY DEF Byte
<1>2. CASE x + y < 256
  <2>1. (x + y) % 256 = x + y
    BY <1>1, <1>2
  <2> QED
    BY <1>1, <1>2, <2>1 DEF Plus, Byte
<1>3. CASE x + y >= 256
  <2>1. (x + y) % 256 = x + y - 256
    BY <1>1, <1>3
  <2> QED
    BY <1>1, <1>3, <2>1 DEF Plus, Byte
<1> QED
  BY <1>1, <1>2, <1>3

LEMMA PlusMore ==
  ASSUME NEW x \in Byte, NEW y \in Byte, NEW b \in Byte
  PROVE  /\ Plus(Plus(x, y), b) = Plus(x, Plus(y, b))
         /\ Plus(x, 0) = x /\ Plus(0, x) = x
<1>0. x \in 0 .. 255 /\ y \in 0 .. 255 /\ b \in 0 .. 255 /\ 0 \in Byte
  BY DEF Byte
<1> DEFINE xy == Plus(x, y)
           yb == Plus(y, b)
           l == Plus(xy, b)
           r == Plus(x, yb)
<1>1. xy \in Byte /\ yb \in Byte /\ (xy = x + y \/ xy = x + y - 256)
      /\ (yb = y + b \/ yb = y + b - 256)
  BY PlusIs
<1> HIDE DEF xy, yb
<1>2. l \in Byte /\ r \in Byte /\ (l = xy + b \/ l = xy + b - 256)
      /\ (r = x + yb \/ r = x + yb - 256)
  BY <1>1, PlusIs
<1> HIDE DEF l, r
<1>3. l = r
  <2>1. l \in 0 .. 255 /\ r \in 0 .. 255 /\ xy \in Int /\ yb \in Int
    BY <1>1, <1>2 DEF Byte
  <2> QED
    BY <1>0, <1>1, <1>2, <2>1
<1>4. Plus(x, 0) = x /\ Plus(0, x) = x
  <2>1. (x + 0) % 256 = x /\ (0 + x) % 256 = x
    BY <1>0
  <2> QED
    BY <2>1 DEF Plus
<1> QED
  BY <1>3, <1>4 DEF l, r, xy, yb

LEMMA PlusCancel ==
  ASSUME NEW x \in Byte, NEW y \in Byte, NEW b \in Byte,
         Plus(x, b) = Plus(y, b) \/ Plus(b, x) = Plus(b, y)
  PROVE  x = y
<1>1. x \in 0 .. 255 /\ y \in 0 .. 255 /\ b \in 0 .. 255
  BY DEF Byte
<1>2. CASE Plus(x, b) = Plus(y, b)
  <2>1. /\ Plus(x, b) = x + b \/ Plus(x, b) = x + b - 256
        /\ Plus(y, b) = y + b \/ Plus(y, b) = y + b - 256
    BY PlusIs
  <2> QED
    BY <1>1, <1>2, <2>1
<1>3. CASE Plus(b, x) = Plus(b, y)
  <2>1. /\ Plus(b, x) = b + x \/ Plus(b, x) = b + x - 256
        /\ Plus(b, y) = b + y \/ Plus(b, y) = b + y - 256
    BY PlusIs
  <2> QED
    BY <1>1, <1>3, <2>1
<1> QED
  BY <1>2, <1>3

LEMMA SumAppend ==
  ASSUME NEW s \in Seq(Byte), NEW b \in Byte
  PROVE  Sum8(Append(s, b)) = Plus(Sum8(s), b)
BY Sum8Next DEF Plus

LEMMA SumType ==
  ASSUME NEW s \in Seq(Byte)
  PROVE  Sum8(s) \in Byte
BY Sum8Next

LEMMA SumConcat ==
  ASSUME NEW s \in Seq(Byte), NEW q \in Seq(Byte)
  PROVE  Sum8(s \o q) = Plus(Sum8(s), Sum8(q))
<1> DEFINE P == {t \in Seq(Byte) : Sum8(s \o t) = Plus(Sum8(s), Sum8(t))}
<1>1. <<>> \in P
  <2>1. s \o <<>> = s /\ <<>> \in Seq(Byte) /\ Sum8(<<>>) = 0
    BY ConcatEmptySeq, Sum8Next
  <2>2. Plus(Sum8(s), 0) = Sum8(s)
    BY SumType, PlusMore
  <2> QED
    BY <2>1, <2>2
<1>2. ASSUME NEW t \in Seq(Byte), NEW b \in Byte, t \in P PROVE Append(t, b) \in P
  <2>1. s \o Append(t, b) = Append(s \o t, b)
    BY AppendConcat
  <2>2. Append(t, b) \in Seq(Byte) /\ s \o t \in Seq(Byte)
    BY AppendProperties, ConcatProperties
  <2>3. Sum8(Append(s \o t, b)) = Plus(Sum8(s \o t), b)
    BY <2>2, SumAppend
  <2>4. Sum8(Append(t, b)) = Plus(Sum8(t), b)
    BY SumAppend
  <2>5. Sum8(s \o t) = Plus(Sum8(s), Sum8(t))
    BY <1>2
  <2>6. Plus(Plus(Sum8(s), Sum8(t)), b) = Plus(Sum8(s), Plus(Sum8(t), b))
    BY SumType, PlusMore
  <2>7. Sum8(s \o Append(t, b)) = Plus(Sum8(s), Sum8(Append(t, b)))
    BY <2>1, <2>3, <2>4, <2>5, <2>6
  <2> QED
    BY <2>2, <2>7
<1>3. Seq(Byte) \subseteq P
  <2> HIDE DEF P
  <2> QED
    BY <1>1, <1>2, InductionSeq
<1> QED
  BY <1>3

LEMMA SplitAt ==
  ASSUME NEW s \in Seq(Byte), NEW k \in 1 .. Len(s)
  PROVE  LET p == SubSeq(s, 1, k - 1)
             q == SubSeq(s, k + 1, Len(s))
         IN  /\ p \in Seq(Byte) /\ Len(p) = k - 1 /\ \A i \in 1 .. k - 1 : p[i] = s[i]
             /\ q \in Seq(Byte) /\ Len(q) = Len(s) - k
             /\ \A i \in 1 .. Len(s) - k : q[i] = s[i + k]
             /\ s = Append(p, s[k]) \o q
<1> DEFINE n == Len(s)
           p == SubSeq(s, 1, k - 1)
           q == SubSeq(s, k + 1, n)
<1>0. n \in Nat /\ k \in 1 .. n /\ k \in Nat /\ s[k] \in Byte /\ \A i \in 1 .. n : s[i] \in Byte
  OBVIOUS
<1>1. p \in Seq(Byte) /\ Len(p) = k - 1 /\ \A i \in 1 .. k - 1 : p[i] = s[i]
  <2>1. \A i \in 1 .. k - 1 : s[i] \in Byte /\ 1 + i - 1 = i
    BY <1>0
  <2>2. /\ p \in Seq(Byte) /\ Len(p) = IF 1 <= k - 1 THEN k - 1 - 1 + 1 ELSE 0
        /\ \A i \in 1 .. k - 1 - 1 + 1 : p[i] = s[1 + i - 1]
    BY <1>0, <2>1, SubSeqProperties
  <2>3. k - 1 - 1 + 1 = k - 1 /\ (1 <= k - 1 \/ k - 1 = 0)
    BY <1>0
  <2> QED
    BY <2>1, <2>2, <2>3
<1>2. q \in Seq(Byte) /\ Len(q) = n - k /\ \A i \in 1 .. n - k : q[i] = s[i + k]
  <2>1. /\ \A i \in k + 1 .. n : s[i] \in Byte
        /\ \A i \in 1 .. n - k : (k + 1) + i - 1 = i + k
    BY <1>0
  <2>2. /\ q \in Seq(Byte) /\ Len(q) = IF k + 1 <= n THEN n - (k + 1) + 1 ELSE 0
        /\ \A i \in 1 .. n - (k + 1) + 1 : q[i] = s[(k + 1) + i - 1]
    BY <1>0, <2>1, SubSeqProperties
  <2>3. n - (k + 1) + 1 = n - k /\ (k + 1 <= n \/ n - k = 0)
    BY <1>0
  <2> QED
    BY <2>1, <2>2, <2>3
<1>3. s = Append(p, s[k]) \o q
  <2> HIDE DEF p, q
  <2> DEFINE a == Append(p, s[k])
             z == a \o q
  <2>1. /\ a \in Seq(Byte) /\ Len(a) = k /\ a[k] = s[k]
        /\ \A i \in 1 .. k - 1 : a[i] = s[i]
    <3>1. /\ a \in Seq(Byte) /\ Len(a) = Len(p) + 1 /\ a[Len(p) + 1] = s[k]
          /\ \A i \in 1 .. Len(p) : a[i] = p[i]
      BY <1>0, <1>1, AppendProperties
    <3>2. Len(p) + 1 = k
      BY <1>0, <1>1
    <3> QED
      BY <1>1, <3>1, <3>2
  <2> HIDE DEF a
  <2>2. /\ z \in Seq(Byte) /\ Len(z) = Len(a) + Len(q)
        /\ \A i \in 1 .. Len(a) + Len(q) : z[i] = IF i <= Len(a) THEN a[i] ELSE q[i - Len(a)]
    <3>1. a \in Seq(Byte) /\ q \in Seq(Byte)
      BY <1>2, <2>1
    <3> QED
      BY Zenon, <3>1, ConcatProperties
  <2>3. Len(z) = n
    BY <1>0, <1>2, <2>1, <2>2
  <2> HIDE DEF z
  <2>4. ASSUME NEW i \in 1 .. n PROVE z[i] = s[i]
    <3>1. z[i] = IF i <= k THEN a[i] ELSE q[i - k]
      BY <2>1, <2>2, <2>3
    <3>2. CASE i < k
      BY <2>1, <3>1, <3>2
    <3>3. CASE i = k
      BY <2>1, <3>1, <3>3
    <3>4. CASE i > k
      <4>1. i - k \in 1 .. n - k /\ (i - k) + k = i
        BY <1>0, <3>4
      <4> QED
        BY <1>0, <1>2, <3>1, <3>4, <4>1
    <3> QED
      BY <1>0, <3>2, <3>3, <3>4
  <2>5. z = s
    BY <2>2, <2>3, <2>4, SeqEqual
  <2> QED
    BY <2>5 DEF z, a
<1> QED
  BY <1>1, <1>2, <1>3

LEMMA SumDiffers ==
  ASSUME NEW s \in Seq(Byte), NEW z \in Seq(Byte), Len(z) = Len(s),
         NEW k \in 1 .. Len(s), z[k] # s[k], \A i \in 1 .. Len(s) : i # k => z[i] = s[i]
  PROVE  Sum8(z) # Sum8(s)
<1> DEFINE n == Len(s)
           p == SubSeq(s, 1, k - 1)
           q == SubSeq(s, k + 1, n)
           pz == SubSeq(z, 1, k - 1)
           qz == SubSeq(z, k + 1, n)
<1>0. n \in Nat /\ k \in 1 .. n /\ k \in 1 .. Len(z) /\ s[k] \in Byte /\ z[k] \in Byte
  OBVIOUS
<1>1. /\ p \in Seq(Byte) /\ Len(p) = k - 1 /\ \A i \in 1 .. k - 1 : p[i] = s[i]
      /\ q \in Seq(Byte) /\ Len(q) = n - k /\ \A i \in 1 .. n - k : q[i] = s[i + k]
      /\ s = Append(p, s[k]) \o q
  BY SplitAt
<1>2. /\ pz \in Seq(Byte) /\ Len(pz) = k - 1 /\ \A i \in 1 .. k - 1 : pz[i] = z[i]
      /\ qz \in Seq(Byte) /\ Len(qz) = n - k /\ \A i \in 1 .. n - k : qz[i] = z[i + k]
      /\ z = Append(pz, z[k]) \o qz
  <2>1. /\ SubSeq(z, 1, k - 1) \in Seq(Byte) /\ Len(SubSeq(z, 1, k - 1)) = k - 1
        /\ \A i \in 1 .. k - 1 : SubSeq(z, 1, k - 1)[i] = z[i]
        /\ SubSeq(z, k + 1, Len(z)) \in Seq(Byte) /\ Len(SubSeq(z, k + 1, Len(z))) = Len(z) - k
        /\ \A i \in 1 .. Len(z) - k : SubSeq(z, k + 1, Len(z))[i] = z[i + k]
        /\ z = Append(SubSeq(z, 1, k - 1), z[k]) \o SubSeq(z, k + 1, Len(z))
    BY <1>0, SplitAt
  <2> QED
    BY <2>1
<1> HIDE DEF p, q, pz, qz
<1>3. pz = p
  <2>1. \A i \in 1 .. k - 1 : i \in 1 .. n /\ i # k
    BY <1>0
  <2>2. \A i \in 1 .. Len(p) : pz[i] = p[i]
    BY <1>1, <1>2, <2>1
  <2> QED
    BY <1>1, <1>2, <2>2, SeqEqual
<1>4. qz = q
  <2>1. \A i \in 1 .. n - k : i + k \in 1 .. n /\ i + k # k
    BY <1>0
  <2>2. Len(qz) = Len(q) /\ \A i \in 1 .. Len(qz) : qz[i] = q[i]
    BY <1>1, <1>2, <2>1
  <2> QED
    BY Zenon, <1>1, <1>2, <2>2, SeqEqual
<1>5. ASSUME NEW e \in Byte
      PROVE  Sum8(Append(p, e) \o q) = Plus(Plus(Sum8(p), e), Sum8(q))
  <2>1. Append(p, e) \in Seq(Byte)
    BY <1>1, AppendProperties
  <2>2. Sum8(Append(p, e) \o q) = Plus(Sum8(Append(p, e)), Sum8(q))
    BY <1>1, <2>1, SumConcat
  <2>3. Sum8(Append(p, e)) = Plus(Sum8(p), e)
    BY <1>1, SumAppend
  <2> QED
    BY <2>2, <2>3
<1>6. /\ Sum8(s) = Plus(Plus(Sum8(p), s[k]), Sum8(q))
      /\ Sum8(z) = Plus(Plus(Sum8(p), z[k]), Sum8(q))
  <2>1. s = Append(p, s[k]) \o q /\ z = Append(p, z[k]) \o q
    BY <1>1, <1>2, <1>3, <1>4
  <2> QED
    BY <1>0, <1>5, <2>1
<1>7. Sum8(p) \in Byte /\ Sum8(q) \in Byte
  BY <1>1, SumType
<1>8. Plus(Sum8(p), s[k]) \in Byte /\ Plus(Sum8(p), z[k]) \in Byte
  BY <1>0, <1>7, PlusIs
<1>9. ASSUME Sum8(z) = Sum8(s) PROVE FALSE
  <2>1. Plus(Sum8(p), s[k]) = Plus(Sum8(p), z[k])
    BY <1>6, <1>7, <1>8, <1>9, PlusCancel
  <2>2. s[k] = z[k]
    BY <1>0, <1>7, <2>1, PlusCancel
  <2> QED
    BY <2>2
<1> QED
  BY <1>9

LEMMA SumFront ==
  ASSUME NEW s \in Seq(Byte), NEW e \in Byte
  PROVE  Sum8(<<e>> \o s) = Plus(e, Sum8(s))
<1>1. <<>> \in Seq(Byte) /\ <<e>> \in Seq(Byte) /\ <<e>> = Append(<<>>, e)
  OBVIOUS
<1>2. Sum8(Append(<<>>, e)) = Plus(Sum8(<<>>), e) /\ Sum8(<<>>) = 0
  BY <1>1, SumAppend, Sum8Next
<1>3. Plus(0, e) = e
  BY PlusMore
<1>4. Sum8(<<e>> \o s) = Plus(Sum8(<<e>>), Sum8(s))
  BY <1>1, SumConcat
<1> QED
  BY <1>1, <1>2, <1>3, <1>4

LEMMA Middle ==
  ASSUME NEW o \in Seq(Byte), NEW n \in Nat, Len(o) = n + 3
  PROVE  /\ SubSeq(o, 3, n + 2) \in Seq(Byte)
         /\ Len(SubSeq(o, 3, n + 2)) = n
         /\ \A i \in 1 .. n : SubSeq(o, 3, n + 2)[i] = o[i + 2]
<1> DEFINE z == SubSeq(o, 3, n + 2)
<1>1. \A i \in 3 .. n + 2 : o[i] \in Byte
  OBVIOUS
<1>2. 3 \in Int /\ n + 2 \in Int
  OBVIOUS
<1>3. /\ z \in Seq(Byte) /\ Len(z) = IF 3 <= n + 2 THEN (n + 2) - 3 + 1 ELSE 0
      /\ \A i \in 1 .. (n + 2) - 3 + 1 : z[i] = o[3 + i - 1]
  BY <1>1, <1>2, SubSeqProperties
<1> HIDE DEF z
<1>4. (n + 2) - 3 + 1 = n /\ (3 <= n + 2 \/ n = 0) /\ \A i \in 1 .. n : 3 + i - 1 = i + 2
  OBVIOUS
<1>5. z \in Seq(Byte) /\ Len(z) = n /\ \A i \in 1 .. n : z[i] = o[i + 2]
  BY <1>3, <1>4
<1> QED
  BY <1>5 DEF z

LEMMA RightIs ==
  ASSUME NEW u, NEW n \in Nat, Len(u.out) = n + 3, Right(u)
  PROVE  /\ u.out[1] * 256 + u.out[2] = n
         /\ u.out[n + 3] = 255 - Sum8(SubSeq(u.out, 3, n + 2))
<1>1. (n + 3) - 3 = n
  OBVIOUS
<1> QED
  BY <1>1 DEF Right

(* One byte other than it was sent: a length byte does not match, the      *)
(* checksum is not that of the packet, or the packet's sum has changed.    *)
LEMMA Altered ==
  ASSUME NEW raw \in Raw, NEW n \in Nat, n = Len(raw),
         NEW o \in Seq(Byte), Len(o) = n + 3,
         NEW k \in 1 .. n + 3, o[k] # Whole(raw)[k],
         \A i \in 1 .. n + 3 : i # k => o[i] = Whole(raw)[i],
         NEW u, u.out = o
  PROVE  ~Right(u)
<1> SUFFICES ASSUME Right(u) PROVE FALSE
  OBVIOUS
<1>1. Parts(raw, n)
  BY WholeParts
<1> DEFINE w == Whole(raw)
           z == SubSeq(o, 3, n + 2)
<1>2. /\ raw \in Seq(Byte) /\ w \in Seq(Byte) /\ Len(w) = n + 3
      /\ Sum8(raw) \in Byte
      /\ Body(raw)[1] * 256 + Body(raw)[2] = n
      /\ \A i \in 1 .. n + 2 : w[i] = Body(raw)[i]
      /\ \A i \in 1 .. n : w[i + 2] = raw[i]
      /\ w[n + 3] = 255 - Sum8(raw)
  BY <1>1 DEF Parts
<1>3. o[1] * 256 + o[2] = n /\ o[n + 3] = 255 - Sum8(z)
  BY RightIs
<1>4. z \in Seq(Byte) /\ Len(z) = n /\ \A i \in 1 .. n : z[i] = o[i + 2]
  BY Middle
<1>5. w[1] * 256 + w[2] = n
  <2>1. 1 \in 1 .. n + 2 /\ 2 \in 1 .. n + 2
    OBVIOUS
  <2> QED
    BY <1>2, <2>1
<1>6. 1 \in 1 .. n + 3 /\ 2 \in 1 .. n + 3 /\ n + 3 \in 1 .. n + 3
  OBVIOUS
<1> HIDE DEF w, z
<1>7. \A i \in 1 .. n + 3 : o[i] \in Byte /\ w[i] \in Byte
  BY <1>2, ElementOfSeq
<1>8. o[k] # w[k] /\ \A i \in 1 .. n + 3 : i # k => o[i] = w[i]
  BY DEF w
<1>9. \A i \in 1 .. n : i + 2 # k => z[i] = raw[i]
  <2> SUFFICES ASSUME NEW i \in 1 .. n, i + 2 # k PROVE z[i] = raw[i]
    OBVIOUS
  <2>1. i + 2 \in 1 .. n + 3
    OBVIOUS
  <2>2. o[i + 2] = w[i + 2]
    BY <1>8, <2>1
  <2> QED
    BY <1>2, <1>4, <2>2
<1>10. CASE k = 1 \/ k = 2
  <2>1. o[1] \in Byte /\ o[2] \in Byte /\ w[1] \in Byte /\ w[2] \in Byte
    BY <1>6, <1>7
  <2>2. o[1] = w[1] \/ o[2] = w[2]
    BY <1>6, <1>8, <1>10
  <2>3. o[1] # w[1] \/ o[2] # w[2]
    BY <1>8, <1>10
  <2>4. \A a, b, c, d \in Byte : (a = c \/ b = d) /\ a * 256 + b = c * 256 + d => a = c /\ b = d
    BY DEF Byte
  <2> QED
    BY <1>3, <1>5, <2>1, <2>2, <2>3, <2>4
<1>11. CASE k = n + 3
  <2>1. \A i \in 1 .. n : i + 2 # k
    BY <1>11
  <2>2. Len(z) = Len(raw) /\ \A i \in 1 .. Len(z) : z[i] = raw[i]
    BY <1>4, <1>9, <2>1
  <2>3. z = raw
    BY Zenon, <1>2, <1>4, <2>2, SeqEqual
  <2> QED
    BY <1>2, <1>3, <1>8, <1>11, <2>3
<1>12. CASE k \in 3 .. n + 2
  <2>1. k - 2 \in 1 .. n /\ (k - 2) + 2 = k /\ n + 3 # k
    BY <1>12
  <2>2. z[k - 2] # raw[k - 2]
    BY ZenonT(60), <1>2, <1>4, <1>8, <2>1
  <2>3. \A i \in 1 .. n : i # k - 2 => i + 2 # k
    BY <1>12
  <2>4. Sum8(z) # Sum8(raw)
    <3>1. k - 2 \in 1 .. Len(raw) /\ Len(z) = Len(raw)
      BY <1>4, <2>1
    <3>2. \A i \in 1 .. Len(raw) : i # k - 2 => z[i] = raw[i]
      BY <1>9, <2>3
    <3> QED
      BY Zenon, <1>2, <1>4, <2>2, <3>1, <3>2, SumDiffers
  <2>5. Sum8(z) \in Byte
    BY <1>4, SumType
  <2>6. o[n + 3] = w[n + 3]
    BY <1>6, <1>8, <2>1
  <2>7. 255 - Sum8(z) = 255 - Sum8(raw)
    BY <1>2, <1>3, <2>6
  <2>8. \A a, b \in Byte : 255 - a = 255 - b => a = b
    BY DEF Byte
  <2> QED
    BY <1>2, <2>4, <2>5, <2>7, <2>8
<1>13. k = 1 \/ k = 2 \/ k = n + 3 \/ k \in 3 .. n + 2
  OBVIOUS
<1> QED
  BY <1>10, <1>11, <1>12, <1>13

LEMMA FlippedAre ==
  ASSUME NEW y \in Flipped
  PROVE  /\ y \in Byte /\ Flip(y) \in Byte /\ y # 0 /\ y # Esc
         /\ \A b, f \in Byte : \A n \in Nat : ~(b * 256 + y = n + 1 /\ f * 256 + 0 = n)
<1>1. y = 94 \/ y = 93 \/ y = 49 \/ y = 51
  BY DEF Flipped
<1>2. y \in Byte /\ y # 0 /\ y # Esc
  BY <1>1 DEF Byte, Esc
<1>3. Flip(y) \in Byte
  BY <1>2, Bytes
<1>4. ASSUME NEW b \in Byte, NEW f \in Byte, NEW n \in Nat,
             b * 256 + y = n + 1, f * 256 + 0 = n
      PROVE  FALSE
  <2>0. b \in Int /\ f \in Int /\ y \in Int
    BY <1>2 DEF Byte
  <2>1. (b - f) * 256 + y = 1 /\ b - f \in Int
    BY <1>4, <2>0
  <2>2. \A d \in Int : d * 256 + y # 1
    BY <1>1
  <2> QED
    BY <2>1, <2>2
<1> QED
  BY <1>2, <1>3, <1>4

LEMMA FrontIs ==
  ASSUME NEW s \in Seq(Byte), NEW e \in Byte
  PROVE  /\ <<e>> \o s \in Seq(Byte) /\ Len(<<e>> \o s) = Len(s) + 1
         /\ (<<e>> \o s)[1] = e
         /\ \A i \in 2 .. Len(s) + 1 : (<<e>> \o s)[i] = s[i - 1]
<1> DEFINE p == <<e>>
           f == p \o s
<1>1. p \in Seq(Byte) /\ Len(p) = 1 /\ p[1] = e /\ Len(s) \in Nat
  OBVIOUS
<1> HIDE DEF p
<1>2. /\ f \in Seq(Byte) /\ Len(f) = Len(p) + Len(s)
      /\ \A i \in 1 .. Len(p) + Len(s) : f[i] = IF i <= Len(p) THEN p[i] ELSE s[i - Len(p)]
  BY Zenon, <1>1, ConcatProperties
<1> HIDE DEF f
<1>3. f \in Seq(Byte) /\ Len(f) = Len(s) + 1 /\ f[1] = e
  BY <1>1, <1>2
<1>4. \A i \in 2 .. Len(s) + 1 : f[i] = s[i - 1]
  BY <1>1, <1>2
<1> QED
  BY <1>3, <1>4 DEF f, p

\* c of w became two bytes, b and y.
Inserted(w, o, m, c, b, y) ==
  /\ o \in Seq(Byte) /\ m \in Nat /\ Len(w) \in Nat /\ m < Len(w) /\ Len(o) = Len(w) + 1
  /\ \A i \in 1 .. m : o[i] = w[i]
  /\ w[m + 1] = c /\ o[m + 1] = b /\ o[m + 2] = y
  /\ \A i \in m + 2 .. Len(w) : o[i + 1] = w[i]

LEMMA InsertedAt ==
  ASSUME NEW x \in Seq(Byte), NEW r \in Seq(Byte), NEW c \in Byte, NEW b \in Byte, NEW y \in Byte
  PROVE  Inserted(Append(x, c) \o r, Append(Append(x, b), y) \o r, Len(x), c, b, y)
<1> DEFINE m == Len(x)
           h == Append(x, c)
           a == Append(x, b)
           g == Append(a, y)
           w == h \o r
           o == g \o r
<1>1. m \in Nat /\ Len(r) \in Nat
  OBVIOUS
<1>2. h \in Seq(Byte) /\ Len(h) = m + 1 /\ h[m + 1] = c /\ \A i \in 1 .. m : h[i] = x[i]
  BY AppendProperties
<1>3. a \in Seq(Byte) /\ Len(a) = m + 1 /\ a[m + 1] = b /\ \A i \in 1 .. m : a[i] = x[i]
  BY AppendProperties
<1> HIDE DEF a, h
<1>4. /\ g \in Seq(Byte) /\ Len(g) = Len(a) + 1 /\ g[Len(a) + 1] = y
      /\ \A i \in 1 .. Len(a) : g[i] = a[i]
  BY <1>3, AppendProperties
<1> HIDE DEF g, m
<1>5. /\ g \in Seq(Byte) /\ Len(g) = m + 2 /\ g[m + 1] = b /\ g[m + 2] = y
      /\ \A i \in 1 .. m : g[i] = x[i]
  <2>1. (m + 1) + 1 = m + 2 /\ m + 1 \in 1 .. m + 1 /\ \A i \in 1 .. m : i \in 1 .. m + 1
    BY <1>1
  <2> QED
    BY <1>3, <1>4, <2>1
<1>6. /\ w \in Seq(Byte) /\ Len(w) = Len(h) + Len(r)
      /\ \A i \in 1 .. Len(h) + Len(r) : w[i] = IF i <= Len(h) THEN h[i] ELSE r[i - Len(h)]
  BY Zenon, <1>2, ConcatProperties
<1>7. /\ o \in Seq(Byte) /\ Len(o) = Len(g) + Len(r)
      /\ \A i \in 1 .. Len(g) + Len(r) : o[i] = IF i <= Len(g) THEN g[i] ELSE r[i - Len(g)]
  BY Zenon, <1>5, ConcatProperties
<1> HIDE DEF w, o
<1>8. Len(w) = m + 1 + Len(r) /\ Len(o) = Len(w) + 1
  BY <1>1, <1>2, <1>5, <1>6, <1>7
<1>9. \A i \in 1 .. m : o[i] = w[i]
  <2> SUFFICES ASSUME NEW i \in 1 .. m PROVE o[i] = w[i]
    OBVIOUS
  <2>1. o[i] = g[i]
    BY <1>1, <1>5, <1>7
  <2>2. w[i] = h[i]
    BY <1>1, <1>2, <1>6
  <2> QED
    BY <1>2, <1>5, <2>1, <2>2
<1>10. w[m + 1] = c
  BY <1>1, <1>2, <1>6
<1>11. o[m + 1] = b /\ o[m + 2] = y
  BY <1>1, <1>5, <1>7
<1>12. \A i \in m + 2 .. Len(w) : o[i + 1] = w[i]
  <2> SUFFICES ASSUME NEW i \in m + 2 .. m + 1 + Len(r) PROVE o[i + 1] = w[i]
    BY <1>8
  <2>1. /\ i \in 1 .. (m + 1) + Len(r) /\ ~(i <= m + 1) /\ i + 1 \in 1 .. (m + 2) + Len(r)
        /\ ~(i + 1 <= m + 2) /\ (i + 1) - (m + 2) = i - (m + 1)
    BY <1>1
  <2>2. o[i + 1] = r[(i + 1) - (m + 2)]
    BY <1>5, <1>7, <2>1
  <2>3. w[i] = r[i - (m + 1)]
    BY <1>2, <1>6, <2>1
  <2> QED
    BY <2>1, <2>2, <2>3
<1>13. Len(w) \in Nat /\ m < Len(w)
  BY <1>1, <1>8
<1>14. Inserted(w, o, m, c, b, y)
  BY <1>1, <1>7, <1>8, <1>9, <1>10, <1>11, <1>12, <1>13 DEF Inserted
<1> QED
  BY <1>14 DEF w, o, g, h, a, m

(* An escape undone by damage to its escape byte: one byte more than was   *)
(* sent, and the length does not match, or the damage is to the length     *)
(* bytes and the packet would begin with a byte that changes its sum.      *)
LEMMA Longer ==
  ASSUME NEW raw \in Raw, NEW o, NEW m, NEW y \in Flipped, NEW b \in Byte,
         Inserted(Whole(raw), o, m, Flip(y), b, y), NEW u, u.out = o
  PROVE  ~Right(u)
<1> SUFFICES ASSUME Right(u) PROVE FALSE
  OBVIOUS
<1>0. PICK n : n = Len(raw)
  OBVIOUS
<1>1. Parts(raw, n)
  BY <1>0, WholeParts
<1> DEFINE w == Whole(raw)
           z == SubSeq(o, 3, (n + 1) + 2)
           f == <<o[3]>> \o raw
<1>2. /\ raw \in Seq(Byte) /\ n \in Nat /\ w \in Seq(Byte) /\ Len(w) = n + 3
      /\ Sum8(raw) \in Byte
      /\ Body(raw)[1] * 256 + Body(raw)[2] = n
      /\ \A i \in 1 .. n + 2 : w[i] = Body(raw)[i]
      /\ \A i \in 1 .. n : w[i + 2] = raw[i]
      /\ w[n + 3] = 255 - Sum8(raw)
  BY <1>1 DEF Parts
<1>3. /\ y \in Byte /\ Flip(y) \in Byte /\ y # 0
      /\ \A c, d \in Byte : \A k \in Nat : ~(c * 256 + y = k + 1 /\ d * 256 + 0 = k)
  BY FlippedAre
<1>4. /\ o \in Seq(Byte) /\ m \in Nat /\ m < Len(w) /\ Len(o) = Len(w) + 1
      /\ \A i \in 1 .. m : o[i] = w[i]
      /\ w[m + 1] = Flip(y) /\ o[m + 1] = b /\ o[m + 2] = y
      /\ \A i \in m + 2 .. Len(w) : o[i + 1] = w[i]
  BY DEF Inserted
<1> HIDE DEF w, z, f
<1>5. Len(o) = (n + 1) + 3 /\ n + 1 \in Nat
  BY <1>2, <1>4
<1>6. o[1] * 256 + o[2] = n + 1 /\ o[(n + 1) + 3] = 255 - Sum8(z)
  BY <1>5, RightIs DEF z
<1>7. w[1] * 256 + w[2] = n
  <2>1. 1 \in 1 .. n + 2 /\ 2 \in 1 .. n + 2
    BY <1>2
  <2> QED
    BY <1>2, <2>1
<1>8. CASE m >= 2
  <2>1. 1 \in 1 .. m /\ 2 \in 1 .. m
    BY <1>4, <1>8
  <2>2. o[1] = w[1] /\ o[2] = w[2]
    BY <1>4, <2>1
  <2> QED
    BY <1>2, <1>6, <1>7, <2>2
<1>9. z \in Seq(Byte) /\ Len(z) = n + 1 /\ \A i \in 1 .. n + 1 : z[i] = o[i + 2]
  BY <1>4, <1>5, Middle DEF z
<1>10. ASSUME m <= 1 PROVE o[3] = 0
  <2>1. o[3] \in Byte
    <3>1. 3 \in 1 .. Len(o)
      BY <1>2, <1>5
    <3> QED
      BY <1>4, <3>1, ElementOfSeq
  <2>2. /\ f \in Seq(Byte) /\ Len(f) = n + 1 /\ f[1] = o[3]
        /\ \A i \in 2 .. n + 1 : f[i] = raw[i - 1]
    BY <1>0, <1>2, <2>1, FrontIs DEF f
  <2>3. \A i \in 1 .. n + 1 : z[i] = f[i]
    <3> SUFFICES ASSUME NEW i \in 1 .. n + 1 PROVE z[i] = f[i]
      OBVIOUS
    <3>1. z[i] = o[i + 2]
      BY <1>9
    <3>2. CASE i = 1
      BY <2>2, <3>1, <3>2
    <3>3. CASE i # 1
      <4>0. i \in Nat /\ 2 <= i /\ i <= n + 1 /\ n \in Nat /\ m \in Nat /\ m <= 1
        BY <1>2, <1>4, <1>10, <3>3
      <4>1. /\ i + 1 \in m + 2 .. n + 3 /\ (i + 1) + 1 = i + 2 /\ i + 1 = (i - 1) + 2
            /\ i - 1 \in 1 .. n /\ i \in 2 .. n + 1
        BY <4>0
      <4>2. o[i + 2] = w[i + 1]
        BY <1>2, <1>4, <4>1
      <4>3. w[(i - 1) + 2] = raw[i - 1]
        BY <1>2, <4>1
      <4> QED
        BY <2>2, <3>1, <4>1, <4>2, <4>3
    <3> QED
      BY <3>2, <3>3
  <2>4. z = f
    <3>1. Len(z) = Len(f) /\ \A i \in 1 .. Len(z) : z[i] = f[i]
      BY <1>9, <2>2, <2>3
    <3> QED
      BY Zenon, <1>9, <2>2, <3>1, SeqEqual
  <2>5. Sum8(z) = Plus(o[3], Sum8(raw))
    BY <1>2, <2>1, <2>4, SumFront DEF f
  <2>6. 255 - Sum8(z) = 255 - Sum8(raw)
    <3>1. n + 3 \in m + 2 .. n + 3 /\ (n + 1) + 3 = n + 4 /\ (n + 3) + 1 = n + 4
      BY <1>2, <1>4, <1>10
    <3>2. o[n + 4] = w[n + 3]
      BY <1>2, <1>4, <3>1
    <3> QED
      BY <1>2, <1>6, <3>1, <3>2
  <2>7. Sum8(z) \in Byte
    BY <1>9, SumType
  <2>8. \A c, d \in Byte : 255 - c = 255 - d => c = d
    BY DEF Byte
  <2>9. Plus(o[3], Sum8(raw)) = Plus(0, Sum8(raw)) /\ 0 \in Byte
    <3>1. Plus(0, Sum8(raw)) = Sum8(raw)
      BY <1>2, PlusMore
    <3>2. Sum8(z) = Sum8(raw)
      BY <1>2, <2>6, <2>7, <2>8
    <3> QED
      BY <2>5, <3>1, <3>2 DEF Byte
  <2> QED
    BY <1>2, <2>1, <2>9, PlusCancel
<1>11. CASE m = 1
  <2>1. o[3] = y /\ o[3] = 0
    BY <1>4, <1>10, <1>11
  <2> QED
    BY <1>3, <2>1
<1>12. CASE m = 0
  <2>1. o[1] = b /\ o[2] = y /\ w[1] = Flip(y)
    BY <1>4, <1>12
  <2>2. w[2] = 0
    <3>1. 2 \in m + 2 .. Len(w) /\ 2 + 1 = 3
      BY <1>2, <1>12
    <3>2. o[3] = w[2] /\ o[3] = 0
      BY <1>4, <1>10, <1>12, <3>1
    <3> QED
      BY <3>2
  <2>3. b * 256 + y = n + 1 /\ Flip(y) * 256 + 0 = n
    BY <1>6, <1>7, <2>1, <2>2
  <2>4. b \in Byte /\ Flip(y) \in Byte /\ n \in Nat
    BY <1>2, <1>3
  <2> QED
    BY Zenon, <1>3, <2>3, <2>4
<1> QED
  BY <1>4, <1>8, <1>11, <1>12

LEMMA SplitFront ==
  ASSUME NEW q \in Seq(Byte), q # <<>>
  PROVE  \E c \in Byte : \E s \in Seq(Byte) : q = <<c>> \o s /\ q[1] = c
<1>1. Len(q) \in Nat /\ Len(q) # 0 /\ 1 \in 1 .. Len(q)
  BY EmptySeq
<1>2. q[1] \in Byte /\ Len(q) \in 1 .. Len(q)
  BY <1>1, ElementOfSeq
<1>3. SubSeq(q, 1, Len(q)) = <<q[1]>> \o SubSeq(q, 1 + 1, Len(q))
  BY Zenon, <1>1, <1>2, SubSeqRecursiveFirst
<1>4. SubSeq(q, 1, Len(q)) = q
  BY SubSeqFull
<1>5. SubSeq(q, 1 + 1, Len(q)) \in Seq(Byte)
  BY <1>1
<1> QED
  BY <1>2, <1>3, <1>4, <1>5

LEMMA AppendFront ==
  ASSUME NEW p \in Seq(Byte), NEW c \in Byte, NEW s \in Seq(Byte)
  PROVE  p \o (<<c>> \o s) = Append(p, c) \o s
<1>1. <<c>> \in Seq(Byte) /\ Append(p, c) = p \o <<c>>
  BY AppendIsConcat
<1> QED
  BY <1>1, ConcatAssociative

LEMMA ChangedAt ==
  ASSUME NEW x \in Seq(Byte), NEW r \in Seq(Byte), NEW e \in Byte, NEW f \in Byte
  PROVE  LET m == Len(x)
             w == Append(x, e) \o r
             o == Append(x, f) \o r
         IN  /\ w \in Seq(Byte) /\ Len(w) = m + 1 + Len(r) /\ w[m + 1] = e
             /\ o \in Seq(Byte) /\ Len(o) = m + 1 + Len(r) /\ o[m + 1] = f
             /\ \A i \in 1 .. m + 1 + Len(r) : i # m + 1 => o[i] = w[i]
<1> DEFINE m == Len(x)
<1>0. m \in Nat /\ Len(r) \in Nat
  OBVIOUS
<1>1. ASSUME NEW c \in Byte
      PROVE  /\ Append(x, c) \o r \in Seq(Byte)
             /\ Len(Append(x, c) \o r) = m + 1 + Len(r)
             /\ (Append(x, c) \o r)[m + 1] = c
             /\ \A i \in 1 .. m : (Append(x, c) \o r)[i] = x[i]
             /\ \A i \in m + 2 .. m + 1 + Len(r) : (Append(x, c) \o r)[i] = r[i - (m + 1)]
  <2> DEFINE a == Append(x, c)
             w == a \o r
  <2>1. a \in Seq(Byte) /\ Len(a) = m + 1 /\ a[m + 1] = c /\ \A i \in 1 .. m : a[i] = x[i]
    BY AppendProperties
  <2> HIDE DEF a, m
  <2>2. /\ w \in Seq(Byte) /\ Len(w) = Len(a) + Len(r)
        /\ \A i \in 1 .. Len(a) + Len(r) : w[i] = IF i <= Len(a) THEN a[i] ELSE r[i - Len(a)]
    BY Zenon, <2>1, ConcatProperties
  <2> HIDE DEF w
  <2>3. w \in Seq(Byte) /\ Len(w) = m + 1 + Len(r) /\ w[m + 1] = c
    BY <1>0, <2>1, <2>2
  <2>4. \A i \in 1 .. m : w[i] = x[i]
    BY <1>0, <2>1, <2>2
  <2>5. \A i \in m + 2 .. m + 1 + Len(r) : w[i] = r[i - (m + 1)]
    BY <1>0, <2>1, <2>2
  <2> QED
    BY <2>3, <2>4, <2>5 DEF w, a, m
<1>2. \A i \in 1 .. m + 1 + Len(r) : i # m + 1 => i \in 1 .. m \/ i \in m + 2 .. m + 1 + Len(r)
  BY <1>0
<1>3. \A i \in 1 .. m + 1 + Len(r) : i # m + 1 =>
         (Append(x, f) \o r)[i] = (Append(x, e) \o r)[i]
  BY <1>1, <1>2
<1> QED
  BY <1>1, <1>3

(* One damaged byte of a frame, other than its sync byte and other than    *)
(* into an escape, makes no frame.                                         *)
LEMMA OneByte ==
  ASSUME NEW raw \in Raw, NEW t, Framed(t, raw), NEW p \in Seq(Byte), NEW q \in Seq(Byte),
         NEW a \in Byte, NEW b \in Byte, a # b, b # Esc, t = Append(p, a) \o q
  PROVE  ~Right(Unstuff(Append(p, b) \o q))
<1> DEFINE u == Unstuff(p)
           va == Unstuff(Append(p, a))
           vb == Unstuff(Append(p, b))
           v == Unstuff(t)
           y == Unstuff(Append(p, b) \o q)
<1>1. /\ u \in Undone /\ u.out \in Seq(Byte) /\ va = Undo(u, a) /\ vb = Undo(u, b)
      /\ Append(p, a) \in Seq(Byte) /\ Append(p, b) \in Seq(Byte)
  <2>1. u \in Undone /\ va = Undo(u, a) /\ vb = Undo(u, b)
    BY UnstuffNext
  <2>2. Append(p, a) \in Seq(Byte) /\ Append(p, b) \in Seq(Byte)
    BY AppendProperties
  <2> QED
    BY <2>1, <2>2 DEF Undone
<1>2. PICK n : n = Len(raw)
  OBVIOUS
<1>3. Parts(raw, n)
  BY <1>2, WholeParts
<1>4. /\ n \in Nat /\ Len(Whole(raw)) = n + 3 /\ Whole(raw) \in Seq(Byte)
      /\ Body(raw) \in Seq(Byte) /\ Len(Body(raw)) = n + 2
      /\ \A i \in 1 .. n + 2 : Whole(raw)[i] = Body(raw)[i]
      /\ Whole(raw)[n + 3] = 255 - Sum8(raw)
  BY <1>3 DEF Parts
<1>5. \/ v = [out |-> Whole(raw), esc |-> FALSE]
      \/ v = [out |-> Body(raw), esc |-> TRUE] /\ 255 - Sum8(raw) = Esc
  BY DEF Framed
<1>6. y.esc => ~Right(y)
  BY DEF Right
<1> HIDE DEF u, va, vb, v, y
<1>7. CASE u.esc \/ a # Esc
  <2>1. PICK e, f \in Byte : /\ e # f
                             /\ va.out = Append(u.out, e) /\ vb.out = Append(u.out, f)
                             /\ va.esc = vb.esc
    <3>1. Flip(a) \in Byte /\ Flip(b) \in Byte /\ Flip(a) # Flip(b)
      <4>1. Flip(Flip(a)) = a /\ Flip(Flip(b)) = b
        BY Bytes
      <4>2. Flip(a) \in Byte /\ Flip(b) \in Byte
        BY Bytes
      <4> QED
        BY <4>1, <4>2
    <3>2. CASE u.esc
      <4>1. va = [out |-> Append(u.out, Flip(a)), esc |-> FALSE]
        BY <1>1, <3>2 DEF Undo
      <4>2. vb = [out |-> Append(u.out, Flip(b)), esc |-> FALSE]
        BY <1>1, <3>2 DEF Undo
      <4> QED
        BY <3>1, <4>1, <4>2
    <3>3. CASE ~u.esc
      <4>1. va = [out |-> Append(u.out, a), esc |-> FALSE]
        BY <1>1, <1>7, <3>3 DEF Undo
      <4>2. vb = [out |-> Append(u.out, b), esc |-> FALSE]
        BY <1>1, <3>3 DEF Undo
      <4> QED
        BY <4>1, <4>2
    <3> QED
      BY <3>2, <3>3
  <2>2. PICK r \in Seq(Byte) : v.out = va.out \o r /\ y.out = vb.out \o r /\ v.esc = y.esc
    <3>1. \E r \in Seq(Byte) : Agree(va, vb, v, y, r)
      BY <1>1, <2>1, SameRest DEF va, vb, v, y
    <3> QED
      BY <3>1 DEF Agree
  <2>3. CASE v = [out |-> Whole(raw), esc |-> FALSE]
    <3> DEFINE m == Len(u.out)
               w == Append(u.out, e) \o r
               o == Append(u.out, f) \o r
    <3>1. w = Whole(raw) /\ y.out = o
      BY <2>1, <2>2, <2>3
    <3>2. m \in Nat /\ Len(r) \in Nat
      BY <1>1
    <3>3. /\ w \in Seq(Byte) /\ Len(w) = m + 1 + Len(r) /\ w[m + 1] = e
          /\ o \in Seq(Byte) /\ Len(o) = m + 1 + Len(r) /\ o[m + 1] = f
          /\ \A i \in 1 .. m + 1 + Len(r) : i # m + 1 => o[i] = w[i]
      BY <1>1, ChangedAt
    <3> HIDE DEF m, w, o
    <3>4. /\ o \in Seq(Byte) /\ Len(o) = n + 3 /\ m + 1 \in 1 .. n + 3
          /\ o[m + 1] # Whole(raw)[m + 1]
          /\ \A i \in 1 .. n + 3 : i # m + 1 => o[i] = Whole(raw)[i]
      BY <1>4, <2>1, <3>1, <3>2, <3>3
    <3>5. ~Right(y)
      BY ZenonT(60), <1>2, <1>4, <3>1, <3>4, Altered
    <3> QED
      BY <3>5 DEF y
  <2> QED
    BY <1>5, <1>6, <2>2, <2>3 DEF y
<1>8. CASE ~u.esc /\ a = Esc
  <2>1. va = [out |-> u.out, esc |-> TRUE]
    BY <1>1, <1>8 DEF Undo
  <2>2. vb = [out |-> Append(u.out, b), esc |-> FALSE]
    BY <1>1, <1>8 DEF Undo
  <2>3. CASE q = <<>>
    <3>1. v = va /\ y = vb
      <4>1. Append(p, a) \o q = Append(p, a) /\ Append(p, b) \o q = Append(p, b)
        BY <1>1, <2>3, ConcatEmptySeq
      <4> QED
        BY <4>1 DEF v, va, y, vb
    <3>2. u.out = Body(raw) /\ 255 - Sum8(raw) = Esc
      BY <1>5, <2>1, <3>1
    <3> DEFINE o == Append(Body(raw), b)
    <3>3. /\ o \in Seq(Byte) /\ Len(o) = n + 3 /\ o[n + 3] = b
          /\ \A i \in 1 .. n + 2 : o[i] = Body(raw)[i]
      <4>1. /\ o \in Seq(Byte) /\ Len(o) = (n + 2) + 1 /\ o[(n + 2) + 1] = b
            /\ \A i \in 1 .. n + 2 : o[i] = Body(raw)[i]
        BY <1>4, AppendProperties
      <4>2. (n + 2) + 1 = n + 3
        BY <1>4
      <4> QED
        BY <4>1, <4>2
    <3>4. y.out = o
      BY <2>2, <3>1, <3>2
    <3> HIDE DEF o
    <3>5. n + 3 \in 1 .. n + 3 /\ \A i \in 1 .. n + 3 : i # n + 3 => i \in 1 .. n + 2
      BY <1>4
    <3>6. /\ o[n + 3] # Whole(raw)[n + 3]
          /\ \A i \in 1 .. n + 3 : i # n + 3 => o[i] = Whole(raw)[i]
      BY <1>4, <3>2, <3>3, <3>5
    <3>7. ~Right(y)
      BY ZenonT(60), <1>2, <1>4, <3>3, <3>4, <3>5, <3>6, Altered
    <3> QED
      BY <3>7 DEF y
  <2>4. CASE q # <<>>
    <3>1. PICK c \in Byte, s \in Seq(Byte) : q = <<c>> \o s /\ q[1] = c
      BY <2>4, SplitFront
    <3>2. c \in Flipped
      <4> DEFINE k == Len(p) + 1
      <4>1. Len(p) \in Nat /\ Len(q) \in Nat /\ Len(q) # 0
        BY <2>4, EmptySeq
      <4>2. Len(Append(p, a)) = k /\ Append(p, a)[k] = a
        BY AppendProperties
      <4>3. /\ Len(t) = Len(Append(p, a)) + Len(q)
            /\ \A i \in 1 .. Len(Append(p, a)) + Len(q) :
                  t[i] = IF i <= Len(Append(p, a)) THEN Append(p, a)[i] ELSE q[i - Len(Append(p, a))]
        BY <1>1, ConcatProperties
      <4> HIDE DEF k
      <4>4. k \in Nat /\ k # 0
        BY <4>1 DEF k
      <4>5. k \in 1 .. Len(t) - 1 /\ t[k] = a /\ t[k + 1] = q[1]
        BY <4>1, <4>2, <4>3, <4>4
      <4> QED
        BY <1>8, <3>1, <4>5 DEF Framed
    <3>3. c \in Byte /\ Flip(c) \in Byte /\ c # Esc
      BY <3>2, FlippedAre
    <3> DEFINE pa == Append(Append(p, a), c)
               pb == Append(Append(p, b), c)
    <3>4. pa \in Seq(Byte) /\ pb \in Seq(Byte)
      BY <1>1, AppendProperties
    <3>5. Append(p, a) \o q = pa \o s /\ Append(p, b) \o q = pb \o s
      <4>1. Append(p, a) \o (<<c>> \o s) = pa \o s
        BY <1>1, AppendFront
      <4>2. Append(p, b) \o (<<c>> \o s) = pb \o s
        BY <1>1, AppendFront
      <4> QED
        BY <3>1, <4>1, <4>2
    <3>6. Unstuff(pa) = [out |-> Append(u.out, Flip(c)), esc |-> FALSE]
      <4>1. Unstuff(pa) = Undo(va, c)
        BY <1>1, UnstuffNext DEF va
      <4> QED
        BY <2>1, <4>1 DEF Undo
    <3>7. Unstuff(pb) = [out |-> Append(Append(u.out, b), c), esc |-> FALSE]
      <4>1. Unstuff(pb) = Undo(vb, c)
        BY <1>1, UnstuffNext DEF vb
      <4> QED
        BY <2>2, <3>3, <4>1 DEF Undo
    <3> HIDE DEF pa, pb
    <3>8. PICK r \in Seq(Byte) : /\ v.out = Unstuff(pa).out \o r
                                 /\ y.out = Unstuff(pb).out \o r
                                 /\ v.esc = y.esc
      <4>1. Unstuff(pa).esc = Unstuff(pb).esc
        BY <3>6, <3>7
      <4>2. \E r \in Seq(Byte) :
               Agree(Unstuff(pa), Unstuff(pb), Unstuff(pa \o s), Unstuff(pb \o s), r)
        BY <3>4, <4>1, SameRest
      <4>3. v = Unstuff(pa \o s) /\ y = Unstuff(pb \o s)
        BY <3>5 DEF v, y
      <4> QED
        BY <4>2, <4>3 DEF Agree
    <3>9. CASE v = [out |-> Whole(raw), esc |-> FALSE]
      <4>1. Inserted(Append(u.out, Flip(c)) \o r, Append(Append(u.out, b), c) \o r,
                     Len(u.out), Flip(c), b, c)
        BY <1>1, <3>3, InsertedAt
      <4>2. Whole(raw) = Append(u.out, Flip(c)) \o r /\ y.out = Append(Append(u.out, b), c) \o r
        <5>1. Unstuff(pa).out = Append(u.out, Flip(c))
          BY <3>6
        <5>2. Unstuff(pb).out = Append(Append(u.out, b), c)
          BY <3>7
        <5>3. v.out = Whole(raw)
          BY <3>9
        <5> QED
          BY Zenon, <3>8, <5>1, <5>2, <5>3
      <4>3. Inserted(Whole(raw), y.out, Len(u.out), Flip(c), b, c)
        BY <4>1, <4>2
      <4>4. ~Right(y)
        BY <3>2, <4>3, Longer
      <4> QED
        BY <4>4 DEF y
    <3> QED
      BY <1>5, <1>6, <3>8, <3>9 DEF y
  <2> QED
    BY <2>3, <2>4
<1> QED
  BY <1>7, <1>8

-----------------------------------------------------------------------------
(* The decoder on a buffer. *)

FirstSync(x) == SelectInSeq(x, LAMBDA b : b = Sync)

LEMMA FirstSyncIs ==
  ASSUME NEW x \in Seq(Byte)
  PROVE  \/ FirstSync(x) = 0 /\ \A i \in 1 .. Len(x) : x[i] # Sync
         \/ FirstSync(x) \in 1 .. Len(x) /\ x[FirstSync(x)] = Sync
            /\ \A i \in 1 .. FirstSync(x) - 1 : x[i] # Sync
<1> DEFINE I == {i \in 1 .. Len(x) : x[i] = Sync}
<1>1. FirstSync(x) = IF I # {} THEN Min(I) ELSE 0
  BY DEF FirstSync, SelectInSeq
<1>2. CASE I = {}
  <2>1. FirstSync(x) = 0
    BY <1>1, <1>2
  <2>2. \A i \in 1 .. Len(x) : x[i] # Sync
    BY <1>2
  <2> QED
    BY <2>1, <2>2
<1>3. CASE I # {}
  <2>1. Len(x) \in Nat /\ I \in SUBSET Nat
    OBVIOUS
  <2>2. \E m \in I : \A y \in I : m <= y
    BY <1>3, <2>1, LeastNumber
  <2>3. Min(I) \in I /\ \A y \in I : Min(I) <= y
    BY <2>2 DEF Min
  <2> DEFINE k == Min(I)
  <2> HIDE DEF k
  <2>4. k \in 1 .. Len(x) /\ x[k] = Sync /\ \A y \in I : k <= y
    BY <2>3 DEF k
  <2>5. ASSUME NEW i \in 1 .. k - 1, x[i] = Sync PROVE FALSE
    <3>1. i \in 1 .. Len(x) /\ ~(k <= i)
      BY <2>1, <2>4
    <3> QED
      BY <2>4, <2>5, <3>1
  <2>6. FirstSync(x) = k
    BY <1>1, <1>3 DEF k
  <2> QED
    BY <2>4, <2>5, <2>6
<1> QED
  BY <1>2, <1>3

\* From the first sync byte on, and the bytes that are then there twice.
From(x)  == SubSeq(x, FirstSync(x), Len(x))
Moved(x) == From(x) \o SubSeq(x, Len(From(x)) + 1, Len(x))

LEMMA DecodeIs ==
  ASSUME NEW x
  PROVE  Decode(x) =
           IF Len(x) < FrameLenMin THEN [used |-> 0, raw |-> <<>>, buf |-> x]
           ELSE IF FirstSync(x) = 0 THEN [used |-> Len(x), raw |-> <<>>, buf |-> x]
           ELSE IF Complete(From(x))
                THEN [used |-> Len(From(x)), buf |-> Moved(x),
                      raw |-> IF Accepted(Payload(From(x))) THEN Payload(From(x)) ELSE <<>>]
                ELSE [used |-> 0, raw |-> <<>>, buf |-> Moved(x)]
BY DEF Decode, FirstSync, From, Moved

LEMMA PayloadType ==
  ASSUME NEW x \in Seq(Byte), x # <<>>
  PROVE  Payload(x) \in Seq(Byte)
<1> DEFINE u == Unstuff(Tail(x))
<1>1. u \in Undone
  BY HeadTailProperties, UnstuffNext
<1>2. u.out \in Seq(Byte)
  BY <1>1 DEF Undone
<1> HIDE DEF u
<1>3. Len(u.out) \in Nat /\ \A i \in 3 .. Len(u.out) - 1 : u.out[i] \in Byte
  BY <1>2
<1>4. SubSeq(u.out, 3, Len(u.out) - 1) \in Seq(Byte)
  BY <1>3, SubSeqProperties
<1>5. Payload(x) = SubSeq(u.out, 3, Len(u.out) - 1)
  BY DEF Payload, u
<1> QED
  BY <1>4, <1>5

LEMMA FromIs ==
  ASSUME NEW x \in Seq(Byte), FirstSync(x) # 0
  PROVE  /\ From(x) \in Seq(Byte) /\ Len(From(x)) = Len(x) - FirstSync(x) + 1
         /\ From(x) # <<>> /\ FirstSync(x) \in 1 .. Len(x)
         /\ Moved(x) \in Seq(Byte) /\ Len(Moved(x)) = Len(x)
<1> DEFINE k == FirstSync(x)
           n == Len(x)
           f == From(x)
           z == SubSeq(x, Len(f) + 1, n)
<1>1. k \in 1 .. n /\ n \in Nat
  BY FirstSyncIs
<1> HIDE DEF k
<1>2. \A i \in k .. n : x[i] \in Byte
  BY <1>1
<1>3. f \in Seq(Byte) /\ Len(f) = IF k <= n THEN n - k + 1 ELSE 0
  BY <1>1, <1>2, SubSeqProperties DEF From, k
<1> HIDE DEF f
<1>4. Len(f) = n - k + 1 /\ f # <<>> /\ Len(f) \in 1 .. n
  BY <1>1, <1>3, EmptySeq
<1>5. \A i \in Len(f) + 1 .. n : x[i] \in Byte
  BY <1>1, <1>4
<1>6. z \in Seq(Byte) /\ Len(z) = IF Len(f) + 1 <= n THEN n - (Len(f) + 1) + 1 ELSE 0
  BY <1>1, <1>4, <1>5, SubSeqProperties
<1>7. Len(z) = n - Len(f)
  BY <1>1, <1>4, <1>6
<1> HIDE DEF z
<1>8. f \o z \in Seq(Byte) /\ Len(f \o z) = Len(f) + Len(z)
  BY <1>3, <1>6, ConcatProperties
<1>9. Moved(x) = f \o z
  BY DEF Moved, f, z
<1> QED
  BY <1>1, <1>3, <1>4, <1>7, <1>8, <1>9 DEF f, k

LEMMA DecodeType ==
  ASSUME NEW x \in Seq(Byte)
  PROVE  /\ Decode(x).used \in 0 .. Len(x)
         /\ Decode(x).buf \in Seq(Byte) /\ Len(Decode(x).buf) = Len(x)
         /\ Decode(x).raw \in Seq(Byte)
<1>1. Len(x) \in Nat /\ <<>> \in Seq(Byte)
  OBVIOUS
<1>2. CASE Len(x) < FrameLenMin \/ FirstSync(x) = 0
  <2>1. \/ Decode(x) = [used |-> 0, raw |-> <<>>, buf |-> x]
        \/ Decode(x) = [used |-> Len(x), raw |-> <<>>, buf |-> x]
    BY <1>2, DecodeIs
  <2>2. 0 \in 0 .. Len(x) /\ Len(x) \in 0 .. Len(x)
    BY <1>1
  <2>3. CASE Decode(x) = [used |-> 0, raw |-> <<>>, buf |-> x]
    BY <1>1, <2>2, <2>3
  <2>4. CASE Decode(x) = [used |-> Len(x), raw |-> <<>>, buf |-> x]
    BY <1>1, <2>2, <2>4
  <2> QED
    BY <2>1, <2>3, <2>4
<1>3. CASE ~(Len(x) < FrameLenMin) /\ FirstSync(x) # 0
  <2>1. /\ From(x) \in Seq(Byte) /\ Len(From(x)) = Len(x) - FirstSync(x) + 1
        /\ From(x) # <<>> /\ FirstSync(x) \in 1 .. Len(x)
        /\ Moved(x) \in Seq(Byte) /\ Len(Moved(x)) = Len(x)
    BY <1>3, FromIs
  <2>2. Len(From(x)) \in 0 .. Len(x)
    BY <1>1, <2>1
  <2>3. Payload(From(x)) \in Seq(Byte)
    BY <2>1, PayloadType
  <2>4. CASE Complete(From(x))
    <3>1. Decode(x) = [used |-> Len(From(x)), buf |-> Moved(x),
                       raw |-> IF Accepted(Payload(From(x))) THEN Payload(From(x)) ELSE <<>>]
      BY <1>3, <2>4, DecodeIs
    <3> QED
      BY <1>1, <2>1, <2>2, <2>3, <3>1
  <2>5. CASE ~Complete(From(x))
    <3>1. Decode(x) = [used |-> 0, raw |-> <<>>, buf |-> Moved(x)]
      BY <1>3, <2>5, DecodeIs
    <3> QED
      BY <1>1, <2>1, <3>1
  <2> QED
    BY <2>4, <2>5
<1> QED
  BY <1>2, <1>3

(* A buffer that begins with a sync byte stays as it is. *)
LEMMA DecodeSynced ==
  ASSUME NEW x \in Seq(Byte), x # <<>>, x[1] = Sync
  PROVE  Decode(x) =
           IF Len(x) >= FrameLenMin /\ Complete(x)
           THEN [used |-> Len(x), buf |-> x,
                 raw |-> IF Accepted(Payload(x)) THEN Payload(x) ELSE <<>>]
           ELSE [used |-> 0, raw |-> <<>>, buf |-> x]
<1>1. Len(x) \in Nat /\ Len(x) # 0
  BY EmptySeq
<1>2. FirstSync(x) = 1
  <2>1. 1 \in 1 .. Len(x)
    BY <1>1
  <2>2. FirstSync(x) \in 1 .. Len(x) /\ \A i \in 1 .. FirstSync(x) - 1 : x[i] # Sync
    BY <2>1, FirstSyncIs
  <2>3. ~(1 \in 1 .. FirstSync(x) - 1)
    BY <2>2
  <2> QED
    BY <1>1, <2>2, <2>3
<1>3. From(x) = x
  BY <1>2, SubSeqFull DEF From
<1>4. Moved(x) = x
  <2>1. SubSeq(x, Len(x) + 1, Len(x)) = <<>>
    BY <1>1, SubSeqEmpty
  <2>2. x \o <<>> = x
    BY ConcatEmptySeq
  <2> QED
    BY <1>3, <2>1, <2>2 DEF Moved
<1>5. Len(x) < FrameLenMin <=> ~(Len(x) >= FrameLenMin)
  BY <1>1 DEF FrameLenMin
<1> QED
  BY <1>2, <1>3, <1>4, <1>5, DecodeIs

(* Taking escapes back makes nothing longer. *)
LEMMA OutNotLonger ==
  ASSUME NEW s \in Seq(Byte)
  PROVE  Len(Unstuff(s).out) <= Len(s)
<1> DEFINE P == {t \in Seq(Byte) : Len(Unstuff(t).out) <= Len(t)}
<1>1. <<>> \in P
  <2>1. <<>> \in Seq(Byte) /\ Len(<<>>) = 0
    OBVIOUS
  <2>2. Unstuff(<<>>).out = <<>>
    BY UnstuffNext
  <2> QED
    BY <2>1, <2>2
<1>2. ASSUME NEW t \in Seq(Byte), NEW b \in Byte, t \in P PROVE Append(t, b) \in P
  <2> DEFINE u == Unstuff(t)
  <2>1. u.out \in Seq(Byte) /\ Unstuff(Append(t, b)) = Undo(u, b) /\ Len(u.out) <= Len(t)
    <3>1. u \in Undone
      BY UnstuffNext
    <3>2. Unstuff(Append(t, b)) = Undo(u, b)
      BY UnstuffNext
    <3> QED
      BY <1>2, <3>1, <3>2 DEF Undone
  <2> HIDE DEF u
  <2>2. /\ Append(t, b) \in Seq(Byte) /\ Len(Append(t, b)) = Len(t) + 1
        /\ Len(t) \in Nat /\ Len(u.out) \in Nat
    BY <2>1, AppendProperties
  <2>3. \A e \in Byte : Len(Append(u.out, e)) = Len(u.out) + 1
    BY <2>1, AppendProperties
  <2>4. Flip(b) \in Byte
    BY Bytes
  <2>5. Undo(u, b).out = u.out \/ \E e \in Byte : Undo(u, b).out = Append(u.out, e)
    BY <2>4 DEF Undo
  <2>6. Len(Undo(u, b).out) <= Len(u.out) + 1
    BY <2>2, <2>3, <2>5
  <2>7. Len(Undo(u, b).out) \in Nat
    BY <2>2, <2>3, <2>5
  <2>8. Len(Undo(u, b).out) <= Len(t) + 1
    BY <2>1, <2>2, <2>6, <2>7
  <2> QED
    BY <2>1, <2>2, <2>8
<1>3. Seq(Byte) \subseteq P
  <2> HIDE DEF P
  <2> QED
    BY <1>1, <1>2, InductionSeq
<1> QED
  BY <1>3

Put(s, i, b) == [s EXCEPT ![i] = b]

LEMMA ExceptIs ==
  ASSUME NEW t \in Seq(Byte), NEW k \in 1 .. Len(t), NEW b \in Byte
  PROVE  Put(t, k, b) = Append(SubSeq(t, 1, k - 1), b) \o SubSeq(t, k + 1, Len(t))
<1> DEFINE p == SubSeq(t, 1, k - 1)
           q == SubSeq(t, k + 1, Len(t))
           g == Put(t, k, b)
           o == Append(p, b) \o q
           n == Len(t)
<1> DEFINE e == t[k]
<1>1. p \in Seq(Byte) /\ Len(p) = k - 1 /\ q \in Seq(Byte) /\ Len(q) = n - k
      /\ t = Append(p, t[k]) \o q
  BY SplitAt
<1>2. e \in Byte /\ n \in Nat /\ k \in 1 .. n
  OBVIOUS
<1>2a. t = Append(p, e) \o q
  BY <1>1
<1> HIDE DEF p, q, e
<1>3. /\ o \in Seq(Byte) /\ Len(o) = Len(p) + 1 + Len(q) /\ o[Len(p) + 1] = b
      /\ \A i \in 1 .. Len(p) + 1 + Len(q) : i # Len(p) + 1 => o[i] = (Append(p, e) \o q)[i]
  <2>1. p \in Seq(Byte) /\ q \in Seq(Byte) /\ e \in Byte /\ b \in Byte
    BY <1>1, <1>2
  <2>2. LET m == Len(p)
            w == Append(p, e) \o q
            v == Append(p, b) \o q
        IN  /\ w \in Seq(Byte) /\ Len(w) = m + 1 + Len(q) /\ w[m + 1] = e
            /\ v \in Seq(Byte) /\ Len(v) = m + 1 + Len(q) /\ v[m + 1] = b
            /\ \A i \in 1 .. m + 1 + Len(q) : i # m + 1 => v[i] = w[i]
    BY <2>1, ChangedAt
  <2> QED
    BY Zenon, <2>2
<1>4. Len(p) + 1 = k /\ Len(p) + 1 + Len(q) = n
  BY <1>1, <1>2
<1> HIDE DEF o
<1>5. o \in Seq(Byte) /\ Len(o) = n /\ o[k] = b /\ \A i \in 1 .. n : i # k => o[i] = t[i]
  BY <1>2a, <1>3, <1>4
<1>6. /\ g \in Seq(Byte) /\ Len(g) = n
      /\ \A i \in 1 .. n : g[i] = IF i = k THEN b ELSE t[i]
  BY ExceptSeq DEF Put
<1> HIDE DEF g
<1>7. Len(g) = Len(o) /\ \A i \in 1 .. Len(g) : g[i] = o[i]
  BY <1>5, <1>6
<1>8. g = o
  BY Zenon, <1>5, <1>6, <1>7, SeqEqual
<1> QED
  BY <1>8 DEF g, o, p, q

LEMMA ExceptFront ==
  ASSUME NEW a \in Byte, NEW t \in Seq(Byte), NEW i \in 1 .. Len(t) + 1, NEW b \in Byte
  PROVE  /\ i = 1 => Put(<<a>> \o t, i, b) = <<b>> \o t
         /\ i # 1 => Put(<<a>> \o t, i, b) = <<a>> \o Put(t, i - 1, b)
<1> DEFINE f == <<a>> \o t
           g == Put(f, i, b)
           h == <<b>> \o t
           z == Put(t, i - 1, b)
           d == <<a>> \o z
           n == Len(t)
<1>0. n \in Nat /\ i \in 1 .. n + 1
  OBVIOUS
<1>1. f \in Seq(Byte) /\ Len(f) = n + 1 /\ f[1] = a /\ \A j \in 2 .. n + 1 : f[j] = t[j - 1]
  BY FrontIs
<1>2. h \in Seq(Byte) /\ Len(h) = n + 1 /\ h[1] = b /\ \A j \in 2 .. n + 1 : h[j] = t[j - 1]
  BY FrontIs
<1> HIDE DEF f, h
<1>3. g \in Seq(Byte) /\ Len(g) = n + 1 /\ \A j \in 1 .. n + 1 : g[j] = IF j = i THEN b ELSE f[j]
  BY <1>1, ExceptSeq DEF Put
<1> HIDE DEF g
<1>4. CASE i = 1
  <2>1. \A j \in 1 .. n + 1 : g[j] = h[j]
    <3> SUFFICES ASSUME NEW j \in 1 .. n + 1 PROVE g[j] = h[j]
      OBVIOUS
    <3>1. CASE j = 1
      BY <1>2, <1>3, <1>4, <3>1
    <3>2. CASE j # 1
      <4>1. j \in 2 .. n + 1
        BY <3>2
      <4> QED
        BY <1>1, <1>2, <1>3, <1>4, <3>2, <4>1
    <3> QED
      BY <3>1, <3>2
  <2>2. Len(g) = Len(h) /\ \A j \in 1 .. Len(g) : g[j] = h[j]
    BY <1>2, <1>3, <2>1
  <2>3. g = h
    BY Zenon, <1>2, <1>3, <2>2, SeqEqual
  <2> QED
    BY <1>4, <2>3 DEF g, f, h
<1>5. CASE i # 1
  <2>1. i - 1 \in 1 .. n
    BY <1>0, <1>5
  <2>2. z \in Seq(Byte) /\ Len(z) = n /\ \A j \in 1 .. n : z[j] = IF j = i - 1 THEN b ELSE t[j]
    BY <2>1, ExceptSeq DEF Put
  <2> HIDE DEF z
  <2>3. d \in Seq(Byte) /\ Len(d) = Len(z) + 1 /\ d[1] = a
        /\ \A j \in 2 .. Len(z) + 1 : d[j] = z[j - 1]
    BY <2>2, FrontIs
  <2> HIDE DEF d
  <2>4. \A j \in 1 .. n + 1 : g[j] = d[j]
    <3> SUFFICES ASSUME NEW j \in 1 .. n + 1 PROVE g[j] = d[j]
      OBVIOUS
    <3>1. CASE j = 1
      BY <1>1, <1>3, <1>5, <2>3, <3>1
    <3>2. CASE j # 1
      <4>1. j \in 2 .. n + 1 /\ j - 1 \in 1 .. n /\ (j = i <=> j - 1 = i - 1)
        BY <1>0, <3>2
      <4>2. d[j] = IF j - 1 = i - 1 THEN b ELSE t[j - 1]
        BY <2>2, <2>3, <4>1
      <4>3. g[j] = IF j = i THEN b ELSE t[j - 1]
        BY <1>1, <1>3, <4>1
      <4> QED
        BY <4>1, <4>2, <4>3
    <3> QED
      BY <3>1, <3>2
  <2>5. Len(g) = Len(d) /\ \A j \in 1 .. Len(g) : g[j] = d[j]
    BY <1>3, <2>2, <2>3, <2>4
  <2>6. g = d
    BY Zenon, <1>3, <2>3, <2>5, SeqEqual
  <2> QED
    BY <1>5, <2>6 DEF g, f, d, z
<1> QED
  BY <1>4, <1>5

(* Without its sync byte nothing is found of a frame: no other byte is     *)
(* one, but for the last of a frame of src.                                *)
LEMMA SyncLost ==
  ASSUME NEW raw, NEW t, Framed(t, raw), NEW b \in Byte, b # Sync
  PROVE  Decode(<<b>> \o t).raw = <<>>
<1> DEFINE x == <<b>> \o t
           k == FirstSync(x)
<1>1. t \in Seq(Byte) /\ \A i \in 1 .. Len(t) - 1 : t[i] # Sync
  BY DEF Framed
<1>2. /\ x \in Seq(Byte) /\ Len(x) = Len(t) + 1 /\ x[1] = b
      /\ \A i \in 2 .. Len(t) + 1 : x[i] = t[i - 1]
  BY <1>1, FrontIs
<1>3. Len(t) \in Nat
  BY <1>1
<1> HIDE DEF x, k
<1>4. CASE k = 0
  BY <1>4, DecodeIs DEF x, k
<1>5. CASE k # 0
  <2>1. k \in 1 .. Len(t) + 1 /\ x[k] = Sync
    BY <1>2, <1>5, FirstSyncIs DEF k
  <2>2. k = Len(t) + 1
    <3>1. k # 1
      BY <1>2, <2>1
    <3>2. k \in 2 .. Len(t) + 1 /\ t[k - 1] = Sync
      BY <1>2, <2>1, <3>1
    <3>3. ~(k - 1 \in 1 .. Len(t) - 1)
      BY <1>1, <3>2
    <3> QED
      BY <1>3, <3>2, <3>3
  <2>3. From(x) \in Seq(Byte) /\ Len(From(x)) = 1
    <3>1. From(x) \in Seq(Byte) /\ Len(From(x)) = Len(x) - FirstSync(x) + 1
      BY <1>2, <1>5, FromIs DEF k
    <3>2. Len(x) - FirstSync(x) + 1 = 1
      BY <1>2, <1>3, <2>2 DEF k
    <3> QED
      BY <3>1, <3>2
  <2>4. Tail(From(x)) = <<>>
    <3> DEFINE f == From(x)
    <3>1. f \in Seq(Byte) /\ Len(f) = 1
      BY <2>3
    <3> HIDE DEF f
    <3>2. f # <<>>
      BY <3>1, EmptySeq
    <3>3. Tail(f) \in Seq(Byte) /\ Len(Tail(f)) = Len(f) - 1
      BY <3>1, <3>2, HeadTailProperties
    <3>4. Len(Tail(f)) = 0
      BY <3>1, <3>3
    <3>5. Tail(f) = <<>>
      BY <3>3, <3>4, EmptySeq
    <3> QED
      BY <3>5 DEF f
  <2>5. ~Complete(From(x))
    <3>1. Unstuff(Tail(From(x))).out = <<>>
      <4>1. Unstuff(<<>>) = [out |-> <<>>, esc |-> FALSE]
        BY UnstuffNext
      <4>2. Unstuff(Tail(From(x))) = [out |-> <<>>, esc |-> FALSE]
        BY Zenon, <2>4, <4>1
      <4> QED
        BY <4>2
    <3>2. ~(Len(Unstuff(Tail(From(x))).out) - 3 >= 0)
      <4> DEFINE o == Unstuff(Tail(From(x))).out
      <4>1. o = <<>>
        BY <3>1
      <4> HIDE DEF o
      <4>2. Len(o) = 0
        BY <4>1
      <4>3. ~(Len(o) - 3 >= 0)
        BY <4>2
      <4> QED
        BY <4>3 DEF o
    <3> QED
      BY <3>2 DEF Complete
  <2> QED
    BY <1>5, <2>5, DecodeIs DEF x, k
<1> QED
  BY <1>4, <1>5

\* A frame itself, if it is complete, is the packet.
LEMMA OwnPacket ==
  ASSUME NEW raw \in Raw, NEW t, Framed(t, raw), Right(Unstuff(t))
  PROVE  Complete(<<Sync>> \o t) /\ Payload(<<Sync>> \o t) = raw
<1>1. Unstuff(t) = [out |-> Whole(raw), esc |-> FALSE]
  BY DEF Framed, Right
<1> QED
  BY <1>1, FoundAgain

LEMMA DamageFound ==
  ASSUME NEW raw \in Raw, NEW t, Framed(t, raw),
         NEW i \in 1 .. Len(t) + 1, NEW b \in Byte, b # Esc
  PROVE  Decode(Put(<<Sync>> \o t, i, b)).raw \in {<<>>, raw}
<1>1. t \in Seq(Byte) /\ Sync \in Byte /\ Len(t) \in Nat
  <2>1. t \in Seq(Byte)
    BY DEF Framed
  <2>2. Len(t) \in Nat
    BY <2>1
  <2> QED
    BY <2>1, <2>2 DEF Byte, Sync
<1>1a. /\ i = 1 => Put(<<Sync>> \o t, i, b) = <<b>> \o t
       /\ i # 1 => Put(<<Sync>> \o t, i, b) = <<Sync>> \o Put(t, i - 1, b)
  <2>1. i \in 1 .. Len(t) + 1 /\ b \in Byte
    OBVIOUS
  <2> QED
    BY Zenon, <1>1, <2>1, ExceptFront
<1>2. ASSUME NEW s \in Seq(Byte), Right(Unstuff(s)) => s = t
      PROVE  Decode(<<Sync>> \o s).raw \in {<<>>, raw}
  <2> DEFINE x == <<Sync>> \o s
  <2>1. x \in Seq(Byte) /\ Len(x) = Len(s) + 1 /\ x[1] = Sync /\ Len(s) \in Nat
    BY <1>1, FrontIs
  <2>2. Complete(x) <=> Right(Unstuff(s))
    BY CompleteIs
  <2>3. Complete(x) => Payload(x) = raw
    BY <1>2, <2>2, OwnPacket
  <2> HIDE DEF x
  <2>4. x # <<>>
    BY <2>1
  <2>5. Decode(x) = IF Len(x) >= FrameLenMin /\ Complete(x)
           THEN [used |-> Len(x), buf |-> x,
                 raw |-> IF Accepted(Payload(x)) THEN Payload(x) ELSE <<>>]
           ELSE [used |-> 0, raw |-> <<>>, buf |-> x]
    BY Zenon, <2>1, <2>4, DecodeSynced
  <2>6. Decode(x).raw = <<>> \/ (Complete(x) /\ Decode(x).raw = Payload(x))
    <3>1. CASE Len(x) >= FrameLenMin /\ Complete(x)
      BY <2>5, <3>1
    <3>2. CASE ~(Len(x) >= FrameLenMin /\ Complete(x))
      BY <2>5, <3>2
    <3> QED
      BY <3>1, <3>2
  <2> QED
    BY <2>3, <2>6 DEF x
<1>3. CASE i = 1
  <2>1. Put(<<Sync>> \o t, i, b) = <<b>> \o t
    BY <1>1a, <1>3
  <2>2. CASE b = Sync
    BY <1>1, <1>2, <2>1, <2>2
  <2>3. CASE b # Sync
    BY <2>1, <2>3, SyncLost
  <2> QED
    BY <2>2, <2>3
<1>4. CASE i # 1
  <2> DEFINE k == i - 1
             s == Put(t, k, b)
             p == SubSeq(t, 1, k - 1)
             q == SubSeq(t, k + 1, Len(t))
  <2>1. Put(<<Sync>> \o t, i, b) = <<Sync>> \o s
    BY <1>1a, <1>4
  <2>2. k \in 1 .. Len(t) /\ t[k] \in Byte
    BY <1>1, <1>4
  <2> HIDE DEF k
  <2>3. p \in Seq(Byte) /\ q \in Seq(Byte) /\ t = Append(p, t[k]) \o q
    BY <1>1, <2>2, SplitAt
  <2>4. s = Append(p, b) \o q /\ s \in Seq(Byte)
    <3>1. s = Append(p, b) \o q
      BY <1>1, <2>2, ExceptIs
    <3>2. s \in Seq(Byte)
      BY <1>1, <2>2, ExceptSeq DEF Put
    <3> QED
      BY <3>1, <3>2
  <2> HIDE DEF p, q, s
  <2>5. Right(Unstuff(s)) => s = t
    <3>1. CASE t[k] = b
      BY <2>3, <2>4, <3>1
    <3>2. CASE t[k] # b
      <4>1. ~Right(Unstuff(Append(p, b) \o q))
        BY <2>2, <2>3, <3>2, OneByte
      <4> QED
        BY <2>4, <4>1
    <3> QED
      BY <3>1, <3>2
  <2>6. Decode(<<Sync>> \o s).raw \in {<<>>, raw}
    BY <1>2, <2>4, <2>5
  <2> QED
    BY <2>1, <2>6
<1> QED
  BY <1>3, <1>4

LEMMA PrefixOfFront ==
  ASSUME NEW a \in Byte, NEW t \in Seq(Byte), NEW n \in 1 .. Len(t)
  PROVE  \E p, q \in Seq(Byte) : /\ t = p \o q /\ q # <<>>
                                 /\ SubSeq(<<a>> \o t, 1, n) = <<a>> \o p
<1> DEFINE f == <<a>> \o t
           x == SubSeq(f, 1, n)
           p == SubSeq(f, 2, n)
           q == SubSeq(f, n + 1, Len(f))
<1>1. f \in Seq(Byte) /\ Len(f) = Len(t) + 1 /\ f[1] = a /\ Len(t) \in Nat
  BY FrontIs
<1>2. <<a>> \in Seq(Byte) /\ Len(<<a>>) = 1 /\ t \in Seq(Byte)
  OBVIOUS
<1>3. SubSeq(f, 2, Len(f)) = t
  <2>1. f # <<>>
    BY <1>1
  <2>2. SubSeq(f, 2, Len(f)) = Tail(f)
    BY <1>1, <2>1, TailIsSubSeq
  <2>3. Tail(f) = t
    OBVIOUS
  <2> QED
    BY <2>2, <2>3
<1> HIDE DEF f
<1>4. 1 \in 1 .. Len(f) /\ n \in 1 .. Len(f)
  BY <1>1
<1>5. x = <<a>> \o p
  <2>1. SubSeq(f, 1, n) = <<f[1]>> \o SubSeq(f, 1 + 1, n)
    BY Zenon, <1>1, <1>4, SubSeqRecursiveFirst
  <2> QED
    BY <1>1, <2>1
<1>6. p \o q = SubSeq(f, 2, Len(f))
  <2>1. /\ 2 \in 1 .. Len(f) + 1 /\ n \in 2 - 1 .. Len(f) /\ Len(f) \in n .. Len(f)
    BY <1>1
  <2> QED
    BY <1>1, <2>1, ConcatAdjacentSubSeq
<1>7. p \in Seq(Byte)
  <2>1. \A i \in 2 .. n : f[i] \in Byte
    BY <1>1
  <2> QED
    BY <2>1, SubSeqProperties
<1>8. q \in Seq(Byte) /\ q # <<>>
  <2>1. \A i \in n + 1 .. Len(f) : f[i] \in Byte
    BY <1>1
  <2>2. q \in Seq(Byte) /\ Len(q) = IF n + 1 <= Len(f) THEN Len(f) - (n + 1) + 1 ELSE 0
    BY <1>1, <2>1, SubSeqProperties
  <2>3. Len(q) # 0
    BY <1>1, <2>2
  <2> QED
    BY <2>2, <2>3
<1> QED
  BY <1>3, <1>5, <1>6, <1>7, <1>8 DEF f

-----------------------------------------------------------------------------
(* The frames of Formats. *)

FInv == bytes \in Raw /\ packet \in Samples

LEMMA Bounds == /\ Alphabet \subseteq Byte
                /\ MaxRaw \in Nat /\ MaxRaw < 65536
<1>1. MaxRaw \in 0 .. 65535
  BY FormatsAssumption
<1>2. Alphabet \subseteq Byte
  BY FormatsAssumption DEF Byte
<1> QED
  BY <1>1, <1>2, SMTT(40)

LEMMA FormatsHolds == FormatsSpec => []FInv
<1> DEFINE G == bytes \in Seq(Byte) /\ Len(bytes) <= MaxRaw /\ packet \in Samples
<1>1. FormatsInit => G
  <2> SUFFICES ASSUME FormatsInit PROVE G
    OBVIOUS
  <2>1. bytes = <<>> /\ packet \in Samples
    BY DEF FormatsInit
  <2>2. <<>> \in Seq(Byte) /\ Len(<<>>) = 0
    OBVIOUS
  <2> QED
    BY <2>1, <2>2, Bounds
<1>2. G /\ [Grow]_<<bytes, packet>> => G'
  <2> SUFFICES ASSUME G, [Grow]_<<bytes, packet>> PROVE G'
    OBVIOUS
  <2>1. CASE UNCHANGED <<bytes, packet>>
    BY <2>1
  <2>2. CASE Grow
    <3>1. PICK b \in Alphabet : bytes' = Append(bytes, b)
      BY <2>2 DEF Grow
    <3>2. Len(bytes) < MaxRaw /\ packet' = packet
      BY <2>2 DEF Grow
    <3>3. b \in Byte
      BY Bounds
    <3>4. bytes' \in Seq(Byte) /\ Len(bytes') = Len(bytes) + 1 /\ Len(bytes) \in Nat
      BY <3>1, <3>3, AppendProperties
    <3> QED
      BY <3>2, <3>4, Bounds
  <2> QED
    BY <2>1, <2>2
<1>3. G => FInv
  <2> SUFFICES ASSUME G PROVE FInv
    OBVIOUS
  <2>1. Len(bytes) \in Nat /\ Len(bytes) <= MaxRaw
    OBVIOUS
  <2>2. Len(bytes) < 65536
    <3> HIDE DEF G
    <3> QED
      BY <2>1, Bounds
  <2> QED
    BY <2>2 DEF FInv, Raw
<1> HIDE DEF G
<1> QED
  BY <1>1, <1>2, <1>3, PTL DEF FormatsSpec

LEMMA FramesFramed ==
  ASSUME NEW raw \in Raw, NEW f \in {RadioEncode(raw), Encode(raw)}
  PROVE  \E t : /\ f = <<Sync>> \o t /\ Framed(t, raw)
                /\ \/ Unstuff(t) = [out |-> Whole(raw), esc |-> FALSE]
                   \/ f = Encode(raw) /\ f[Len(f)] = Esc
<1>1. CASE f = RadioEncode(raw)
  BY <1>1, RadioFramed
<1>2. CASE f = Encode(raw)
  <2>1. PICK t : /\ f = <<Sync>> \o t
                 /\ Framed(t, raw)
                 /\ 255 - Sum8(raw) # Esc => Unstuff(t) = [out |-> Whole(raw), esc |-> FALSE]
                 /\ t # <<>> /\ t[Len(t)] = 255 - Sum8(raw)
    BY <1>2, SourceFramed
  <2>2. f[Len(f)] = t[Len(t)]
    <3>1. t \in Seq(Byte) /\ Sync \in Byte /\ Len(t) \in Nat /\ Len(t) # 0
      BY <2>1, Bytes, EmptySeq DEF Framed
    <3>2. Len(f) = Len(t) + 1 /\ \A i \in 2 .. Len(t) + 1 : f[i] = t[i - 1]
      BY <2>1, <3>1, FrontIs
    <3>3. Len(t) + 1 \in 2 .. Len(t) + 1 /\ (Len(t) + 1) - 1 = Len(t)
      BY <3>1
    <3> QED
      BY <3>2, <3>3
  <2> QED
    BY <1>2, <2>1, <2>2
<1> QED
  BY <1>1, <1>2

(* Whatever packet of up to 65535 bytes is framed is found again, byte for *)
(* byte; the exception is a frame of src that ends in an escape byte       *)
(* (packet.c:42-77, 88-130).                                               *)
THEOREM AlwaysRoundTrip == FormatsSpec => []RoundTrip
<1>1. FInv => RoundTrip
  <2> SUFFICES ASSUME FInv, NEW f \in Frames
               PROVE  \/ Complete(f) /\ Payload(f) = bytes
                      \/ f = Encode(bytes) /\ f[Len(f)] = Esc
    BY DEF RoundTrip
  <2>0. bytes \in Raw
    BY DEF FInv
  <2>1. PICK t : /\ f = <<Sync>> \o t /\ Framed(t, bytes)
                 /\ \/ Unstuff(t) = [out |-> Whole(bytes), esc |-> FALSE]
                    \/ f = Encode(bytes) /\ f[Len(f)] = Esc
    BY <2>0, FramesFramed DEF Frames
  <2> QED
    BY <2>0, <2>1, FoundAgain
<1> QED
  BY <1>1, FormatsHolds, PTL

(* No proper part of a frame passes for a frame, wherever a read cuts it   *)
(* (packet.c:65, 73-77).                                                   *)
THEOREM AlwaysNeverEarly == FormatsSpec => []NeverEarly
<1>1. FInv => NeverEarly
  <2> SUFFICES ASSUME FInv, NEW f \in Frames, NEW n \in 1 .. Len(f) - 1
               PROVE  ~Complete(SubSeq(f, 1, n))
    BY DEF NeverEarly
  <2>0. bytes \in Raw
    BY DEF FInv
  <2>1. PICK t : f = <<Sync>> \o t /\ Framed(t, bytes)
    BY <2>0, FramesFramed DEF Frames
  <2>2. t \in Seq(Byte) /\ Sync \in Byte /\ Len(t) \in Nat
    <3>1. t \in Seq(Byte)
      BY <2>1 DEF Framed
    <3>2. Len(t) \in Nat
      BY <3>1
    <3> QED
      BY <3>1, <3>2 DEF Byte, Sync
  <2>3. Len(f) = Len(t) + 1
    BY <2>1, <2>2, FrontIs
  <2>4. n \in 1 .. Len(t)
    BY <2>2, <2>3
  <2>5. PICK p, q \in Seq(Byte) : /\ t = p \o q /\ q # <<>>
                                  /\ SubSeq(<<Sync>> \o t, 1, n) = <<Sync>> \o p
    BY <2>2, <2>4, PrefixOfFront
  <2>6. ~Right(Unstuff(p))
    BY <2>0, <2>1, <2>5, NotYet
  <2> QED
    BY <2>1, <2>5, <2>6, CompleteIs
<1> QED
  BY <1>1, FormatsHolds, PTL

(* One damaged byte makes no other packet out of a frame, as long as it is *)
(* not damaged into an escape byte (packet.c:28-77).                       *)
THEOREM AlwaysNoForgery == FormatsSpec => []NoForgery
<1>1. FInv => NoForgery
  <2> SUFFICES ASSUME FInv, NEW f \in Frames, NEW i \in DOMAIN f, NEW b \in Alphabet \ {Esc}
               PROVE  Decode(Put(f, i, b)).raw \in {<<>>, bytes}
    BY DEF NoForgery, Damaged, Put
  <2>0. bytes \in Raw /\ b \in Byte /\ b # Esc
    BY FormatsAssumption DEF FInv, Byte
  <2>1. PICK t : f = <<Sync>> \o t /\ Framed(t, bytes)
    BY <2>0, FramesFramed DEF Frames
  <2>2. t \in Seq(Byte) /\ Sync \in Byte
    BY <2>0, <2>1, Bytes DEF Framed
  <2>3. f \in Seq(Byte) /\ Len(f) = Len(t) + 1
    BY <2>1, <2>2, FrontIs
  <2>4. i \in 1 .. Len(t) + 1
    BY <2>3
  <2> QED
    BY <2>0, <2>1, <2>4, DamageFound
<1> QED
  BY <1>1, FormatsHolds, PTL

-----------------------------------------------------------------------------
(* The messages of Formats are those of MessagesProofs. *)

MP == INSTANCE MessagesProofs

LEMMA SameMessages ==
  /\ M!Packet = MP!Packet
  /\ \A p \in M!Packet : /\ MP!DstTakesAll(p) => M!DstTakesAll(p)
                         /\ MP!WholePayload(p) => M!WholePayload(p)
                         /\ MP!SourceTakesItsOwn(p) => M!SourceTakesItsOwn(p)
<1>1. M!Packet = MP!Packet
  BY DEF M!Packet, M!Payload, M!Relay, M!RxPktSize, M!TxPktSize, M!UartMaxLen,
         MP!Packet, MP!Payload, MP!Relay, MP!RxPktSize, MP!TxPktSize, MP!UartMaxLen
<1> SUFFICES ASSUME NEW p
             PROVE  /\ MP!DstTakesAll(p) => M!DstTakesAll(p)
                    /\ MP!WholePayload(p) => M!WholePayload(p)
                    /\ MP!SourceTakesItsOwn(p) => M!SourceTakesItsOwn(p)
  BY <1>1
<1>2. /\ M!RxPktSize = MP!RxPktSize /\ M!MsgHdrSize = MP!MsgHdrSize
      /\ M!PktMsgSize = MP!PktMsgSize /\ M!RelaySize = MP!RelaySize
      /\ M!RequestSize = MP!RequestSize /\ M!UartMaxLen = MP!UartMaxLen
  BY DEF M!RxPktSize, M!MsgHdrSize, M!PktMsgSize, M!RelaySize, M!RequestSize, M!UartMaxLen,
         MP!RxPktSize, MP!MsgHdrSize, MP!PktMsgSize, MP!RelaySize, MP!RequestSize, MP!UartMaxLen
<1>3. /\ M!Forwarded(p) = MP!Forwarded(p)
      /\ M!IsRequest(p) = MP!IsRequest(p)
      /\ M!MessageLen(p) = MP!MessageLen(p)
  BY <1>2 DEF M!Forwarded, M!IsRequest, M!MessageLen, M!U16,
              MP!Forwarded, MP!IsRequest, MP!MessageLen, MP!U16
<1>4. M!Message(p) = MP!Message(p)
  BY <1>2, <1>3 DEF M!Message, MP!Message
<1>5. \A m, n : M!DstAccepts(m, n) = MP!DstAccepts(m, n)
  BY <1>2 DEF M!DstAccepts, MP!DstAccepts
<1>6. \A m, n, o : M!SrcAccepts(m, n, o) = MP!SrcAccepts(m, n, o)
  BY <1>2 DEF M!SrcAccepts, MP!SrcAccepts
<1>7. \A m : M!OscTakes(m) = MP!OscTakes(m) /\ M!OscBytes(m) = MP!OscBytes(m)
  BY <1>2 DEF M!OscTakes, MP!OscTakes, M!OscBytes, MP!OscBytes
<1>8. MP!DstTakesAll(p) => M!DstTakesAll(p)
  BY <1>2, <1>3, <1>4, <1>5 DEF M!DstTakesAll, MP!DstTakesAll
<1>9. MP!WholePayload(p) => M!WholePayload(p)
  BY <1>3, <1>4, <1>7 DEF M!WholePayload, MP!WholePayload
<1>10. MP!SourceTakesItsOwn(p) => M!SourceTakesItsOwn(p)
  BY SMTT(30), <1>2, <1>3, <1>4, <1>6 DEF M!SourceTakesItsOwn, MP!SourceTakesItsOwn
<1> QED
  BY <1>8, <1>9, <1>10

(* See DstAlwaysTakes: dst takes whatever fwd makes of any packet there is *)
(* (fwd.c:197-219, dst.c:118-147).                                         *)
THEOREM AlwaysContract == FormatsSpec => []Contract
<1>1. FInv => Contract
  BY SMTT(30), FormatsAssumption, SameMessages, MP!DstAlwaysTakes DEF FInv, Contract
<1> QED
  BY <1>1, FormatsHolds, PTL

(* See SourceAlwaysTakes: a request that comes back is counted by its own  *)
(* source (fwd.c:202-214, dst.c:278, src.c:208-235).                       *)
THEOREM AlwaysReturned == FormatsSpec => []Returned
<1>1. FInv => Returned
  BY FormatsAssumption, SameMessages, MP!SourceAlwaysTakes DEF FInv, Returned
<1> QED
  BY <1>1, FormatsHolds, PTL

-----------------------------------------------------------------------------
(* What osc writes. *)

LEMMA UpTo4Is ==
  ASSUME NEW n \in Nat
  PROVE  /\ UpTo4(n) \in Nat /\ n < UpTo4(n) /\ UpTo4(n) <= n + 4
         /\ \E q \in Nat : UpTo4(n) = 4 * q
<1> DEFINE q == (n + 4) \div 4
<1>1. q \in Nat /\ 4 * q <= n + 4 /\ n + 4 < 4 * q + 4
  OBVIOUS
<1>2. UpTo4(n) = 4 * q
  BY DEF UpTo4
<1> HIDE DEF q
<1> QED
  BY <1>1, <1>2

LEMMA PaddedIs ==
  ASSUME NEW s \in Seq(Int)
  PROVE  /\ Padded(s) \in Seq(Int) /\ Len(Padded(s)) = UpTo4(Len(s))
         /\ Len(s) \in Nat /\ UpTo4(Len(s)) \in Nat /\ Len(s) < UpTo4(Len(s))
         /\ \A i \in 1 .. Len(s) : Padded(s)[i] = s[i]
         /\ \A i \in Len(s) + 1 .. UpTo4(Len(s)) : Padded(s)[i] = 0
<1> DEFINE n == Len(s)
           d == UpTo4(n)
<1>1. n \in Nat /\ d \in Nat /\ n < d
  BY UpTo4Is
<1> HIDE DEF d
<1> DEFINE z == Zeros(d - n)
           p == s \o z
<1>2. z \in Seq(Int) /\ Len(z) = d - n /\ \A i \in 1 .. d - n : z[i] = 0
  <2>1. z = [i \in 1 .. d - n |-> 0] /\ d - n \in Nat
    BY <1>1 DEF Zeros
  <2> QED
    BY <2>1
<1>3. Padded(s) = p
  BY DEF Padded, d
<1> HIDE DEF z
<1>4. /\ p \in Seq(Int) /\ Len(p) = Len(s) + Len(z)
      /\ \A i \in 1 .. Len(s) + Len(z) : p[i] = IF i <= Len(s) THEN s[i] ELSE z[i - Len(s)]
  BY Zenon, <1>2, ConcatProperties
<1> HIDE DEF p
<1>5. p \in Seq(Int) /\ Len(p) = d
  BY <1>1, <1>2, <1>4
<1>6. \A i \in 1 .. n : p[i] = s[i]
  BY <1>1, <1>2, <1>4
<1>7. \A i \in n + 1 .. d : p[i] = 0
  <2> SUFFICES ASSUME NEW i \in n + 1 .. d PROVE p[i] = 0
    OBVIOUS
  <2>1. i \in 1 .. Len(s) + Len(z) /\ ~(i <= Len(s)) /\ i - n \in 1 .. d - n
    BY <1>1, <1>2
  <2>2. p[i] = z[i - Len(s)]
    BY <1>4, <2>1
  <2> QED
    BY <1>2, <2>1, <2>2
<1> QED
  BY <1>1, <1>3, <1>5, <1>6, <1>7 DEF d

\* The whole message.
All(data) == Padded(Address) \o Padded(<<Comma, TypeS>>) \o Padded(data)

\* Bytes up to the end of the address, and of the data, in the message.
AddressSize    == UpTo4(Len(Address))
DataSize(data) == UpTo4(Len(data))

LEMMA AllIs ==
  ASSUME NEW data \in Seq(Char)
  PROVE  /\ All(data) \in Seq(Int) /\ Len(All(data)) = AddressSize + 4 + DataSize(data)
         /\ AddressSize \in Nat /\ Len(data) \in Nat /\ DataSize(data) \in Nat
         /\ Len(data) < DataSize(data)
         /\ \A i \in 1 .. AddressSize : All(data)[i] # Comma
         /\ All(data)[AddressSize + 1] = Comma
         /\ All(data)[AddressSize + 2] = TypeS
         /\ All(data)[AddressSize + 3] = 0
         /\ \A i \in 1 .. Len(data) : All(data)[AddressSize + 4 + i] = data[i]
         /\ \A i \in 1 .. Len(data) : All(data)[AddressSize + 4 + i] # 0
         /\ All(data)[AddressSize + 5 + Len(data)] = 0
<1> DEFINE x == Padded(Address)
           y == Padded(<<Comma, TypeS>>)
           z == Padded(data)
           w == x \o y
           m == All(data)
           a == AddressSize
           b == Len(Address)
           n == Len(data)
           d == DataSize(data)
<1>1. /\ Address \in Seq(Int) /\ data \in Seq(Int) /\ <<Comma, TypeS>> \in Seq(Int)
      /\ \A i \in 1 .. Len(Address) : Address[i] # Comma
      /\ \A i \in 1 .. Len(data) : data[i] # 0
  BY OscAssumption DEF Char, Comma, TypeS
<1>2. /\ x \in Seq(Int) /\ Len(x) = a /\ b \in Nat /\ a \in Nat /\ b < a
      /\ \A i \in 1 .. b : x[i] = Address[i]
      /\ \A i \in b + 1 .. a : x[i] = 0
  BY <1>1, PaddedIs DEF AddressSize
<1>3. y \in Seq(Int) /\ Len(y) = 4 /\ y[1] = Comma /\ y[2] = TypeS /\ y[3] = 0 /\ y[4] = 0
  <2> DEFINE f == <<Comma, TypeS>>
  <2>1. Len(f) = 2 /\ UpTo4(2) = 4 /\ f[1] = Comma /\ f[2] = TypeS
    BY DEF UpTo4
  <2>2. f \in Seq(Int) /\ y = Padded(f)
    BY <1>1
  <2> HIDE DEF f
  <2>3. /\ Padded(f) \in Seq(Int) /\ Len(Padded(f)) = UpTo4(Len(f))
        /\ \A i \in 1 .. Len(f) : Padded(f)[i] = f[i]
        /\ \A i \in Len(f) + 1 .. UpTo4(Len(f)) : Padded(f)[i] = 0
    BY <2>2, PaddedIs
  <2>4. /\ Padded(f) \in Seq(Int) /\ Len(Padded(f)) = 4
        /\ \A i \in 1 .. 2 : Padded(f)[i] = f[i]
        /\ \A i \in 2 + 1 .. 4 : Padded(f)[i] = 0
    BY <2>1, <2>3
  <2> HIDE DEF y
  <2> QED
    BY <2>1, <2>2, <2>4
<1>4. /\ z \in Seq(Int) /\ Len(z) = d /\ n \in Nat /\ d \in Nat /\ n < d
      /\ \A i \in 1 .. n : z[i] = data[i]
      /\ \A i \in n + 1 .. d : z[i] = 0
  BY <1>1, PaddedIs DEF DataSize
<1>5. m = w \o z
  BY DEF All
<1> HIDE DEF x, y, z, a, b, n, d
<1>6. /\ w \in Seq(Int) /\ Len(w) = Len(x) + Len(y)
      /\ \A i \in 1 .. Len(x) + Len(y) : w[i] = IF i <= Len(x) THEN x[i] ELSE y[i - Len(x)]
  <2>1. x \in Seq(Int) /\ y \in Seq(Int)
    BY <1>2, <1>3
  <2> QED
    BY Zenon, <2>1, ConcatProperties
<1> HIDE DEF w
<1>7. /\ m \in Seq(Int) /\ Len(m) = Len(w) + Len(z)
      /\ \A i \in 1 .. Len(w) + Len(z) : m[i] = IF i <= Len(w) THEN w[i] ELSE z[i - Len(w)]
  <2>1. w \in Seq(Int) /\ z \in Seq(Int)
    BY <1>4, <1>6
  <2>2. /\ w \o z \in Seq(Int) /\ Len(w \o z) = Len(w) + Len(z)
        /\ \A i \in 1 .. Len(w) + Len(z) :
              (w \o z)[i] = IF i <= Len(w) THEN w[i] ELSE z[i - Len(w)]
    BY Zenon, <2>1, ConcatProperties
  <2> QED
    BY Zenon, <1>5, <2>2
<1> HIDE DEF m
<1>8. Len(w) = a + 4 /\ a \in Nat /\ d \in Nat /\ Len(z) = d
  BY <1>2, <1>3, <1>4, <1>6
<1>9. m \in Seq(Int) /\ Len(m) = a + 4 + d
  BY <1>7, <1>8
<1>10. \A i \in 1 .. a + 4 : m[i] = w[i]
  <2> SUFFICES ASSUME NEW i \in 1 .. a + 4 PROVE m[i] = w[i]
    OBVIOUS
  <2>1. i \in 1 .. Len(w) + Len(z) /\ i <= Len(w)
    BY <1>8
  <2> QED
    BY <1>7, <2>1
<1>11. \A i \in 1 .. d : m[a + 4 + i] = z[i]
  <2> SUFFICES ASSUME NEW i \in 1 .. d PROVE m[a + 4 + i] = z[i]
    OBVIOUS
  <2>1. /\ a + 4 + i \in 1 .. Len(w) + Len(z)
        /\ ~(a + 4 + i <= Len(w))
        /\ (a + 4 + i) - Len(w) = i
    BY <1>8
  <2> QED
    BY <1>7, <2>1
<1>12. \A i \in 1 .. a : m[i] = x[i]
  <2> SUFFICES ASSUME NEW i \in 1 .. a PROVE m[i] = x[i]
    OBVIOUS
  <2>1. i \in 1 .. a + 4 /\ i \in 1 .. Len(x) + Len(y) /\ i <= Len(x)
    BY <1>2, <1>3
  <2> QED
    BY <1>6, <1>10, <2>1
<1>13. \A i \in 1 .. a : x[i] # Comma
  <2> SUFFICES ASSUME NEW i \in 1 .. a PROVE x[i] # Comma
    OBVIOUS
  <2>1. CASE i \in 1 .. b
    BY <1>1, <1>2, <2>1 DEF b
  <2>2. CASE i \in b + 1 .. a
    BY <1>2, <2>2 DEF Comma
  <2> QED
    BY <1>2, <2>1, <2>2
<1>14. m[a + 1] = y[1] /\ m[a + 2] = y[2] /\ m[a + 3] = y[3]
  <2> SUFFICES ASSUME NEW i \in 1 .. 4 PROVE m[a + i] = y[i]
    OBVIOUS
  <2>1. /\ a + i \in 1 .. a + 4 /\ a + i \in 1 .. Len(x) + Len(y)
        /\ ~(a + i <= Len(x)) /\ (a + i) - Len(x) = i
    BY <1>2, <1>3
  <2> QED
    BY <1>6, <1>10, <2>1
<1>15. /\ \A i \in 1 .. n : m[a + 4 + i] = data[i]
       /\ \A i \in 1 .. n : data[i] # 0
  <2>1. \A i \in 1 .. n : i \in 1 .. d
    BY <1>4
  <2>2. \A i \in 1 .. n : data[i] # 0
    BY <1>1 DEF n
  <2> QED
    BY <1>4, <1>11, <2>1, <2>2
<1>16. m[a + 5 + n] = 0
  <2>1. n + 1 \in 1 .. d /\ n + 1 \in n + 1 .. d
    BY <1>4
  <2>2. a + 4 + (n + 1) = a + 5 + n
    BY <1>2, <1>4
  <2>3. m[a + 4 + (n + 1)] = z[n + 1] /\ z[n + 1] = 0
    BY <1>4, <1>11, <2>1
  <2> QED
    BY <2>2, <2>3
<1>17. m[a + 1] = Comma /\ m[a + 2] = TypeS /\ m[a + 3] = 0
  BY <1>3, <1>14
<1>18. \A i \in 1 .. a : m[i] # Comma
  BY <1>12, <1>13
<1>19. \A i \in 1 .. n : m[a + 4 + i] # 0
  BY <1>15
<1>20. a \in Nat /\ n \in Nat /\ d \in Nat /\ n < d
  BY <1>2, <1>4
<1> QED
  BY <1>9, <1>15, <1>16, <1>17, <1>18, <1>19, <1>20 DEF m, a, n, d

LEMMA NextIs ==
  ASSUME NEW m, NEW c, NEW i \in Nat, NEW l \in Nat, NEW j \in i .. l
  PROVE  Len(m) = l /\ m[j] = c /\ (\A k \in i .. j - 1 : m[k] # c) => NextIn(m, c, i) = {j}
<1> SUFFICES ASSUME Len(m) = l, m[j] = c, \A k \in i .. j - 1 : m[k] # c
             PROVE  NextIn(m, c, i) = {j}
  OBVIOUS
<1>1. ASSUME NEW h \in NextIn(m, c, i) PROVE h = j
  <2>1. h \in i .. l /\ m[h] = c /\ \A k \in i .. h - 1 : m[k] # c
    BY DEF NextIn
  <2>2. ~(h < j)
    BY <2>1
  <2>3. ~(j < h)
    BY <2>1
  <2> QED
    BY <2>1, <2>2, <2>3
<1>2. j \in NextIn(m, c, i)
  BY DEF NextIn
<1> QED
  BY <1>1, <1>2

LEMMA StringsReadIs ==
  ASSUME NEW data \in Seq(Char)
  PROVE  StringsRead(All(data)) = {data}
<1> DEFINE m == All(data)
           a == AddressSize
           n == Len(data)
           d == DataSize(data)
           l == a + 4 + d
<1>1. /\ m \in Seq(Int) /\ Len(m) = a + 4 + d
      /\ a \in Nat /\ n \in Nat /\ d \in Nat /\ n < d
      /\ \A i \in 1 .. a : m[i] # Comma
      /\ m[a + 1] = Comma /\ m[a + 2] = TypeS /\ m[a + 3] = 0
      /\ \A i \in 1 .. n : m[a + 4 + i] = data[i]
      /\ \A i \in 1 .. n : m[a + 4 + i] # 0
      /\ m[a + 5 + n] = 0
  BY AllIs
<1>2. /\ a \in Nat /\ n \in Nat /\ d \in Nat /\ n < d
      /\ a + 1 \in 1 .. l /\ a + 3 \in a + 1 .. l /\ a + 5 + n \in a + 5 .. l
      /\ 1 \in Nat /\ a + 1 \in Nat /\ a + 5 \in Nat
  BY <1>1
<1>3. Len(m) = l /\ l \in Nat /\ a + 4 + n <= l
  BY <1>1
<1>4. UpTo4((a + 3) - 1) + 1 = a + 5
  <2>1. PICK q \in Nat : a = 4 * q
    BY UpTo4Is, OscAssumption DEF AddressSize
  <2> HIDE DEF a
  <2>2. (4 * q + 6) \div 4 = q + 1
    OBVIOUS
  <2>3. ((a + 3) - 1) + 4 = 4 * q + 6
    BY <2>1
  <2>4. UpTo4((a + 3) - 1) = 4 * (q + 1)
    BY <2>2, <2>3 DEF UpTo4
  <2> QED
    BY <2>1, <2>4
<1> HIDE DEF m, a, n, d, l
<1>5. NextIn(m, Comma, 1) = {a + 1}
  <2>1. \A k \in 1 .. (a + 1) - 1 : m[k] # Comma
    <3>1. \A k \in 1 .. (a + 1) - 1 : k \in 1 .. a
      BY <1>2
    <3> QED
      BY <1>1, <3>1
  <2>2. m[a + 1] = Comma
    BY <1>1
  <2> QED
    BY <1>2, <1>3, <2>1, <2>2, NextIs
<1>6. NextIn(m, 0, a + 1) = {a + 3}
  <2>1. \A k \in a + 1 .. (a + 3) - 1 : m[k] # 0
    <3>1. \A k \in a + 1 .. (a + 3) - 1 : k = a + 1 \/ k = a + 2
      BY <1>2
    <3>2. Comma # 0 /\ TypeS # 0
      BY DEF Comma, TypeS
    <3> QED
      BY <1>1, <3>1, <3>2
  <2>2. m[a + 3] = 0
    BY <1>1
  <2> QED
    BY <1>2, <1>3, <2>1, <2>2, NextIs
<1>7. NextIn(m, 0, a + 5) = {a + 5 + n}
  <2>1. \A k \in a + 5 .. (a + 5 + n) - 1 : m[k] # 0
    <3> SUFFICES ASSUME NEW k \in a + 5 .. (a + 5 + n) - 1 PROVE m[k] # 0
      OBVIOUS
    <3>1. k - (a + 4) \in 1 .. n /\ a + 4 + (k - (a + 4)) = k
      BY <1>2
    <3>2. m[a + 4 + (k - (a + 4))] # 0
      BY <1>1, <3>1
    <3> QED
      BY <3>1, <3>2
  <2>2. m[a + 5 + n] = 0
    BY <1>1
  <2> QED
    BY <1>2, <1>3, <2>1, <2>2, NextIs
<1>8. SubSeq(m, a + 5, (a + 5 + n) - 1) = data
  <2> DEFINE s == SubSeq(m, a + 5, a + 4 + n)
  <2>0. (a + 5 + n) - 1 = a + 4 + n
    BY <1>2
  <2>1. \A i \in a + 5 .. a + 4 + n : m[i] \in Int
    <3>1. \A i \in a + 5 .. a + 4 + n : i \in 1 .. l
      BY <1>2, <1>3
    <3>2. m \in Seq(Int)
      BY <1>1
    <3> QED
      BY <1>3, <3>1, <3>2
  <2> DEFINE lo == a + 5
             hi == a + 4 + n
  <2>2. lo \in Int /\ hi \in Int /\ hi - lo + 1 = n /\ \A i \in 1 .. n : lo + i - 1 = a + 4 + i
    BY <1>2
  <2>3. /\ s \in Seq(Int)
        /\ Len(s) = IF lo <= hi THEN hi - lo + 1 ELSE 0
        /\ \A i \in 1 .. hi - lo + 1 : s[i] = m[lo + i - 1]
    <3>1. \A i \in lo .. hi : m[i] \in Int
      BY <2>1
    <3>2. s = SubSeq(m, lo, hi)
      OBVIOUS
    <3> HIDE DEF lo, hi, s
    <3>3. /\ SubSeq(m, lo, hi) \in Seq(Int)
          /\ Len(SubSeq(m, lo, hi)) = IF lo <= hi THEN hi - lo + 1 ELSE 0
          /\ \A i \in 1 .. hi - lo + 1 : SubSeq(m, lo, hi)[i] = m[lo + i - 1]
      BY <2>2, <3>1, SubSeqProperties
    <3> QED
      BY <3>2, <3>3
  <2> HIDE DEF s, lo, hi
  <2>4. Len(s) = n /\ \A i \in 1 .. n : s[i] = m[a + 4 + i]
    <3>1. Len(s) = n
      BY <1>2, <2>2, <2>3
    <3> QED
      BY <2>2, <2>3, <3>1
  <2>5. \A i \in 1 .. n : s[i] = data[i]
    BY <1>1, <2>4
  <2>6. Len(s) = Len(data) /\ \A i \in 1 .. Len(s) : s[i] = data[i]
    BY <2>4, <2>5 DEF n
  <2>7. data \in Seq(Int) /\ s \in Seq(Int)
    BY <2>3 DEF Char
  <2>8. s = data
    BY Zenon, <2>6, <2>7, SeqEqual
  <2> QED
    BY <2>0, <2>8 DEF s
<1>9. StringAt(m, a + 5) = {data}
  BY <1>7, <1>8 DEF StringAt
<1>10. UNION {NextIn(m, 0, i) : i \in NextIn(m, Comma, 1)} = {a + 3}
  BY <1>5, <1>6
<1> QED
  BY <1>4, <1>9, <1>10 DEF StringsRead, m

(* Whatever string is written is read back, if it fits the buffer. *)
LEMMA AlwaysReadsBack ==
  ASSUME NEW data \in Seq(Char)
  PROVE  ReadsBack(data)
<1> DEFINE m == All(data)
           n == Len(data)
           d == DataSize(data)
           a == AddressSize
           b == Len(Address)
           TooLong == b >= BufLen \/ a + 1 + 1 >= BufLen \/ a + 4 + n >= BufLen
<1>1. Len(m) = a + 4 + d /\ a \in Nat /\ n \in Nat /\ d \in Nat /\ n < d
  BY AllIs
<1>2. StringsRead(m) = {data}
  BY StringsReadIs
<1>3. b \in Nat /\ b < a
  BY OscAssumption, UpTo4Is DEF AddressSize
<1>4. /\ \E q \in Nat : a = 4 * q
      /\ \E q \in Nat : d = 4 * q
      /\ d <= n + 4
  BY <1>1, <1>3, UpTo4Is DEF AddressSize, DataSize
<1>5. BufLen \in Nat /\ BufLen % 4 = 0
  BY OscAssumption
<1>6. Written(data) = IF TooLong THEN <<>> ELSE m
  BY DEF Written, All, AddressSize
<1>7. ReadsBack(data) <=>
        IF Written(data) = <<>> THEN a + 4 + d > BufLen
        ELSE /\ Len(Written(data)) % 4 = 0 /\ Len(Written(data)) <= BufLen
             /\ StringsRead(Written(data)) = {data}
  BY DEF ReadsBack, AddressSize, DataSize
<1> HIDE DEF m, n, d, a, b
<1>8. CASE TooLong
  <2>1. a + 4 + d > BufLen
    BY <1>1, <1>3, <1>5, <1>8
  <2>2. Written(data) = <<>>
    BY <1>6, <1>8
  <2> QED
    BY <1>7, <2>1, <2>2
<1>9. CASE ~TooLong
  <2>1. PICK p \in Nat, q \in Nat : a = 4 * p /\ d = 4 * q
    BY <1>4
  <2>2. BufLen = 4 * (BufLen \div 4) /\ BufLen \div 4 \in Nat
    BY <1>5
  <2>3. (a + 4 + d) % 4 = 0
    BY <2>1
  <2>4. a + 4 + d <= BufLen
    BY <1>1, <1>4, <1>9, <2>1, <2>2
  <2>5. Written(data) = m
    BY <1>6, <1>9
  <2>6. m # <<>>
    <3>1. Len(m) # 0
      BY <1>1
    <3> QED
      BY <3>1
  <2> QED
    BY <1>1, <1>2, <1>7, <2>3, <2>4, <2>5, <2>6
<1> QED
  BY <1>8, <1>9

LEMMA HexTextType ==
  ASSUME NEW s \in Seq(Byte)
  PROVE  HexText(s) \in Seq(Char)
<1>1. Len(s) \in Nat
  OBVIOUS
<1>2. ASSUME NEW d \in 0 .. 15 PROVE Digit(d) \in Char
  BY DEF Digit, Char
<1>3. ASSUME NEW b \in Byte PROVE b \div 16 \in 0 .. 15 /\ b % 16 \in 0 .. 15
  BY DEF Byte
<1>4. \A k \in 1 .. Len(s) : s[k] \in Byte
  OBVIOUS
<1>5. ASSUME NEW i \in 1 .. 2 * Len(s)
      PROVE  Digit(IF i % 2 = 1 THEN s[(i + 1) \div 2] \div 16 ELSE s[i \div 2] % 16) \in Char
  <2> DEFINE e == IF i % 2 = 1 THEN s[(i + 1) \div 2] \div 16 ELSE s[i \div 2] % 16
  <2>0. ASSUME NEW x, x \in 0 .. 15, x = e PROVE Digit(e) \in Char
    <3> HIDE DEF e
    <3> QED
      BY <1>2, <2>0
  <2> SUFFICES e \in 0 .. 15
    BY <2>0
  <2>1. CASE i % 2 = 1
    <3>1. (i + 1) \div 2 \in 1 .. Len(s)
      BY <1>1, <2>1
    <3>2. s[(i + 1) \div 2] \in Byte
      BY <1>4, <3>1
    <3> QED
      BY <1>3, <2>1, <3>2
  <2>2. CASE i % 2 # 1
    <3>1. i \div 2 \in 1 .. Len(s)
      BY <1>1, <2>2
    <3>2. s[i \div 2] \in Byte
      BY <1>4, <3>1
    <3> QED
      BY <1>3, <2>2, <3>2
  <2> QED
    BY <2>1, <2>2
<1>6. 2 * Len(s) \in Nat
  BY <1>1
<1> QED
  BY <1>5, <1>6 DEF HexText

(* What osc prints, and an OSC receiver reads, is the payload, for every    *)
(* address, payload and size of the buffer (osc.c:142-162,                 *)
(* tinyosc.c:148-218).                                                     *)
THEOREM AlwaysPrinted == FormatsSpec => []Printed
<1>1. FInv => Printed
  <2> SUFFICES ASSUME FInv PROVE M!WholePayload(packet) /\ ReadsBack(HexText(bytes))
    BY DEF Printed
  <2>1. packet \in M!Packet /\ bytes \in Seq(Byte)
    BY FormatsAssumption DEF FInv, Raw
  <2>2. M!WholePayload(packet)
    BY <2>1, SameMessages, MP!OscPrintsAll
  <2>3. ReadsBack(HexText(bytes))
    BY <2>1, HexTextType, AlwaysReadsBack
  <2> QED
    BY <2>2, <2>3
<1> QED
  BY <1>1, FormatsHolds, PTL
=============================================================================
