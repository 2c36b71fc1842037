---------------------------- MODULE DedupProofs ----------------------------
(***************************************************************************)
(* What the duplicate filter guarantees, for any number of sources, any    *)
(* size of the table and any window: it drops only what looks like a       *)
(* message of the same source, only copies if all messages are numbered    *)
(* apart, and no copy passes before entries are reused.  The inductive     *)
(* invariant adds to the invariants of Dedup that nothing is stamped later *)
(* than now, that messages were handled with the numbers they carry, that  *)
(* every entry that is searched holds a source, and that the entries not   *)
(* yet used have no stamps.                                                *)
(***************************************************************************)
EXTENDS Dedup, TLAPS

\* No stamp and no arrival lies in the future.
Past == /\ \A i \in Entry, q \in SeqNo : stm[i][q] <= now
        /\ \A m \in Msg, q \in SeqNo : arrived[m][q] <= now

\* A message is known by the number it carries, if it carries one.
Carried == \A m \in Msg, q \in SeqNo : arrived[m][q] # 0 => Own(m) \in {q, Nothing}

Filled == \A i \in 0 .. len - 1 : table[i] \in Addr

Fresh == len + 1 < MaxDedup =>
            \A i \in Entry : len <= i => stm[i] = [q \in SeqNo |-> 0]

IInv == /\ TypeOK
        /\ Past
        /\ Carried
        /\ Filled
        /\ Fresh
        /\ SourcesDistinct
        /\ StampsTrue
        /\ NothingForgotten

-----------------------------------------------------------------------------
(* A known source has one entry, and the search ends there. *)
LEMMA FirstFound ==
    ASSUME TypeOK, Filled, SourcesDistinct, NEW a \in Addr, Found(a) # {}
    PROVE  /\ First(Found(a)) \in 0 .. len - 1
           /\ First(Found(a)) \in Entry
           /\ table[First(Found(a))] = a
           /\ Found(a) = {First(Found(a))}
<1>1. PICK i \in 0 .. len - 1 : table[i] = a
  BY DEF Found
<1>2. Found(a) = {i}
  <2>1. ASSUME NEW j \in Found(a) PROVE j = i
    BY <1>1, <2>1, DedupAssumption DEF Found, SourcesDistinct
  <2>2. i \in Found(a)
    BY <1>1 DEF Found
  <2> QED
    BY <2>1, <2>2
<1>3. First(Found(a)) = i
  BY <1>2, DedupAssumption DEF First, TypeOK
<1>4. i \in Entry
  BY DedupAssumption DEF TypeOK, Entry
<1> QED
  BY <1>1, <1>2, <1>3, <1>4

(* Stamps that tell the truth still do when m is handled with the number q *)
(* and q is stamped.                                                       *)
LEMMA StampedTrue ==
    ASSUME NEW t \in Time, NEW m \in Msg, NEW q \in SeqNo,
           NEW at \in [Msg -> Stamps], \A n \in Msg : at[n][q] <= t,
           NEW s \in Stamps, TrueOf(SrcOf[m], s, at)
    PROVE  TrueOf(SrcOf[m], [s EXCEPT ![q] = t], [at EXCEPT ![m][q] = t])
<1> DEFINE a == SrcOf[m]
           new == [s EXCEPT ![q] = t]
           later == [at EXCEPT ![m][q] = t]
<1>1. \A n \in Msg, p \in SeqNo :
         later[n][p] = IF n = m /\ p = q THEN t ELSE at[n][p]
  BY DEF Stamps
<1>2. \A p \in SeqNo : new[p] = IF p = q THEN t ELSE s[p]
  BY DEF Stamps
<1>3. t \in Int
  BY DedupAssumption DEF Time
<1> HIDE DEF new, later
<1> SUFFICES ASSUME NEW p \in SeqNo, new[p] # 0
    PROVE  /\ \E n \in Msg : SrcOf[n] = a /\ later[n][p] = new[p]
           /\ \A n \in Msg : SrcOf[n] = a => later[n][p] <= new[p]
  BY DEF TrueOf, new, later
<1>4. CASE p = q
  <2>1. later[m][p] = t /\ new[p] = t
    BY <1>1, <1>2, <1>4
  <2>2. \A n \in Msg : later[n][p] <= t
    BY <1>1, <1>3, <1>4
  <2> QED
    BY <2>1, <2>2
<1>5. CASE p # q
  BY <1>1, <1>2, <1>5 DEF TrueOf
<1> QED
  BY <1>4, <1>5

(* A message of another source is of no account. *)
LEMMA OthersTrue ==
    ASSUME NEW t \in Time, NEW m \in Msg, NEW q \in SeqNo,
           NEW at \in [Msg -> Stamps],
           NEW a, a # SrcOf[m],
           NEW s \in Stamps, TrueOf(a, s, at)
    PROVE  TrueOf(a, s, [at EXCEPT ![m][q] = t])
<1>1. \A n \in Msg : SrcOf[n] = a => [at EXCEPT ![m][q] = t][n] = at[n]
  OBVIOUS
<1> QED
  BY <1>1 DEF TrueOf

LEMMA InitInv == Init => IInv
<1> SUFFICES ASSUME Init PROVE IInv
  OBVIOUS
<1>1. TypeOK
  BY DedupAssumption DEF Init, TypeOK, Entry, Time, Stamps
<1>2. Past /\ Carried /\ Filled /\ Fresh
  BY DedupAssumption DEF Init, Past, Carried, Filled, Fresh, Entry
<1>3. SourcesDistinct /\ StampsTrue /\ NothingForgotten
  BY DedupAssumption DEF Init, SourcesDistinct, StampsTrue, NothingForgotten, TrueOf
<1> QED
  BY <1>1, <1>2, <1>3 DEF IInv

(* Handling a message keeps the arrivals in the past, and under the numbers *)
(* that messages carry.                                                      *)
LEMMA Arrival ==
    ASSUME TypeOK, Past, Carried, NEW m \in Msg, Handle(m)
    PROVE  /\ Number(m) \in SeqNo
           /\ left' \in SeqNo
           /\ arrived' \in [Msg -> Stamps]
           /\ \A n \in Msg, p \in SeqNo :
                 arrived'[n][p] = IF n = m /\ p = Number(m) THEN now ELSE arrived[n][p]
           /\ \A n \in Msg, p \in SeqNo : arrived'[n][p] <= now
           /\ Carried'
<1>1. Byte(m) \in SeqNo
  BY DedupAssumption DEF TypeOK, Byte
<1>2. Number(m) \in SeqNo /\ Own(m) \in {Number(m), Nothing}
  BY <1>1, DedupAssumption DEF Number, Own, Byte
<1>3. left' \in SeqNo
  BY <1>1 DEF Handle
<1> DEFINE q == Number(m)
<1> HIDE DEF q
<1>4. arrived' = [arrived EXCEPT ![m][q] = now]
  BY DEF Handle, q
<1>5. now \in 0 .. MaxTime /\ now \in Int
  BY DedupAssumption DEF TypeOK, Time
<1>6. arrived' \in [Msg -> Stamps]
  BY <1>2, <1>4, <1>5 DEF TypeOK, Stamps, q
<1>7. \A n \in Msg, p \in SeqNo :
         arrived'[n][p] = IF n = m /\ p = q THEN now ELSE arrived[n][p]
  BY <1>2, <1>4 DEF TypeOK, Stamps, q
<1>8. \A n \in Msg, p \in SeqNo : arrived'[n][p] <= now
  BY <1>5, <1>7 DEF Past
<1>9. Carried'
  <2>1. \A n \in Msg : Own(n)' = Own(n)
    BY DEF Own
  <2> QED
    BY <1>2, <1>7, <2>1 DEF Carried, q
<1> QED
  BY <1>2, <1>3, <1>6, <1>7, <1>8, <1>9 DEF q

LEMMA KnownInv == ASSUME IInv, NEW m \in Msg, KnownSource(m) PROVE IInv'
<1> DEFINE a == SrcOf[m]
           q == Number(m)
           i == First(Found(a))
<1>1. a \in Addr /\ q \in SeqNo
  BY DedupAssumption, Arrival DEF IInv, KnownSource
<1>2. /\ i \in 0 .. len - 1
      /\ i \in Entry
      /\ table[i] = a
      /\ Found(a) = {i}
  BY <1>1, FirstFound DEF IInv, KnownSource
<1>3. /\ Handle(m)
      /\ now' = now
      /\ table' = table
      /\ len' = len
      /\ rc' = rc
      /\ msg' = m
      /\ verdict' \in {"pass", "drop"}
      /\ stm' = [stm EXCEPT ![i][q] = now]
      /\ arrived' = [arrived EXCEPT ![m][q] = now]
  BY DEF KnownSource, Handle, Stamp
<1> HIDE DEF i, q
<1>4. stm' = [stm EXCEPT ![i] = [stm[i] EXCEPT ![q] = now]]
  BY <1>3
<1>5. stm[i] \in Stamps /\ stm'[i] = [stm[i] EXCEPT ![q] = now]
  BY <1>2, <1>4 DEF IInv, TypeOK
<1>6. \A j \in Entry : j # i => stm'[j] = stm[j]
  BY <1>2, <1>4 DEF IInv, TypeOK
<1>7. stm'[i] \in Stamps
  BY <1>1, <1>5 DEF IInv, TypeOK, Stamps, Time
<1>8. 0 .. len - 1 \subseteq Entry
  BY DedupAssumption DEF IInv, TypeOK, Entry
<1>9. TypeOK'
  <2>1. stm' \in [Entry -> Stamps]
    BY <1>2, <1>4, <1>5, <1>7 DEF IInv, TypeOK
  <2> QED
    BY <1>3, <2>1, Arrival DEF IInv, TypeOK, Stamps, Entry, Time
<1>10. Past'
  <2>1. ASSUME NEW j \in Entry, NEW p \in SeqNo PROVE stm'[j][p] <= now
    <3>1. CASE j = i
      <4>1. CASE p = q
        <5>1. stm'[i][q] = now
          BY <1>1, <1>5 DEF Stamps
        <5>2. now \in Int
          BY DedupAssumption DEF IInv, TypeOK, Time
        <5> QED
          BY <3>1, <4>1, <5>1, <5>2
      <4>2. CASE p # q
        BY <1>1, <1>5, <2>1, <3>1, <4>2 DEF IInv, Past, Stamps
      <4> QED
        BY <4>1, <4>2
    <3>2. CASE j # i
      BY <1>6, <2>1, <3>2 DEF IInv, Past
    <3> QED
      BY <3>1, <3>2
  <2> QED
    BY <1>3, <2>1, Arrival DEF IInv, Past, Entry
<1>11. Carried' /\ Filled' /\ SourcesDistinct' /\ Fresh'
  <2>1. \A j \in Entry : len <= j => stm'[j] = stm[j]
    BY <1>2, <1>6 DEF IInv, TypeOK
  <2> QED
    BY <1>3, <2>1, Arrival DEF IInv, Filled, SourcesDistinct, Fresh, Entry
<1>12. StampsTrue'
  <2>1. ASSUME NEW j \in 0 .. len - 1 PROVE TrueOf(table[j], stm'[j], arrived')
    <3>1. /\ TrueOf(table[j], stm[j], arrived)
          /\ \A n \in Msg : arrived[n][q] <= now
          /\ arrived \in [Msg -> Stamps]
          /\ now \in Time
          /\ stm[j] \in Stamps
      BY <1>1, <1>8, <2>1 DEF IInv, StampsTrue, Past, TypeOK
    <3>2. CASE j = i
      <4>1. TrueOf(a, [stm[i] EXCEPT ![q] = now], [arrived EXCEPT ![m][q] = now])
        BY <1>1, <1>2, <3>1, <3>2, StampedTrue
      <4> QED
        BY <1>2, <1>3, <1>5, <3>2, <4>1
    <3>3. CASE j # i
      <4>1. stm'[j] = stm[j]
        BY <1>6, <1>8, <3>3
      <4>2. table[j] # a
        BY <1>2, <3>3 DEF Found
      <4>3. TrueOf(table[j], stm[j], [arrived EXCEPT ![m][q] = now])
        BY <1>1, <3>1, <4>2, OthersTrue
      <4> QED
        BY <1>3, <4>1, <4>3
    <3> QED
      BY <3>2, <3>3
  <2> QED
    BY <1>3, <2>1 DEF StampsTrue
<1>13. NothingForgotten'
  <2>1. ASSUME rc = 0, NEW n \in Msg, NEW p \in SeqNo, arrived'[n][p] # 0
        PROVE  \E j \in Found(SrcOf[n]) : stm'[j][p] >= arrived'[n][p]
    <3>1. CASE n = m /\ p = q
      <4>1. stm'[i][q] = now
        BY <1>1, <1>5 DEF Stamps
      <4>2. arrived'[m][q] = now
        BY <1>1, <1>3, Arrival DEF IInv, q
      <4>3. now \in Int
        BY DedupAssumption DEF IInv, TypeOK, Time
      <4> QED
        BY <1>2, <3>1, <4>1, <4>2, <4>3
    <3>2. CASE ~(n = m /\ p = q)
      <4>1. arrived'[n][p] = arrived[n][p]
        BY <1>3, <3>2, Arrival DEF IInv, q
      <4>2. PICK j \in Found(SrcOf[n]) : stm[j][p] >= arrived[n][p]
        BY <2>1, <4>1 DEF IInv, NothingForgotten
      <4>3. j \in Entry
        BY <1>8, <4>2 DEF Found
      <4>4. stm'[j][p] = stm[j][p] \/ stm'[j][p] = now
        BY <1>1, <1>2, <1>5, <1>6, <4>3 DEF Stamps
      <4>5. arrived[n][p] <= now
        BY DEF IInv, Past
      <4>6. now \in Int /\ arrived[n][p] \in Int
        BY DedupAssumption DEF IInv, TypeOK, Time, Stamps
      <4> QED
        BY <4>1, <4>2, <4>4, <4>5, <4>6
    <3> QED
      BY <3>1, <3>2
  <2> QED
    BY <1>3, <2>1 DEF NothingForgotten, Found
<1> QED
  BY <1>9, <1>10, <1>11, <1>12, <1>13 DEF IInv

(* What NewSource and Recycle have in common: an entry e without stamps is *)
(* given to a source that has none.                                        *)
LEMMA TakeEntry ==
    ASSUME IInv, NEW m \in Msg, Handle(m), Found(SrcOf[m]) = {},
           NEW e \in Entry,
           table' = [table EXCEPT ![e] = SrcOf[m]],
           stm' = [stm EXCEPT ![e] = [[p \in SeqNo |-> 0] EXCEPT ![Number(m)] = now]],
           len' \in 0 .. MaxDedup - 1,
           0 .. len' - 1 \subseteq (0 .. len - 1) \cup {e}
    PROVE  /\ now' \in Time
           /\ table' \in [Entry -> Addr \cup {Nothing}]
           /\ stm' \in [Entry -> Stamps]
           /\ left' \in SeqNo
           /\ arrived' \in [Msg -> Stamps]
           /\ msg' \in Msg \cup {Nothing}
           /\ Past'
           /\ Carried'
           /\ Filled'
           /\ SourcesDistinct'
           /\ StampsTrue'
<1> DEFINE a == SrcOf[m]
           q == Number(m)
           zero == [p \in SeqNo |-> 0]
           new == [zero EXCEPT ![q] = now]
<1>1. a \in Addr /\ q \in SeqNo
  BY DedupAssumption, Arrival DEF IInv
<1>2. /\ now' = now
      /\ msg' = m
      /\ arrived' = [arrived EXCEPT ![m][q] = now]
  BY DEF Handle
<1> HIDE DEF q
<1>3. now \in Time /\ now \in Int /\ now >= 1
  BY DedupAssumption DEF IInv, TypeOK, Time
<1>4. zero \in Stamps
  BY DedupAssumption DEF Stamps
<1>5. new \in Stamps
  BY <1>1, <1>3, <1>4, DedupAssumption DEF Stamps, Time
<1>6. \A p \in SeqNo : new[p] = IF p = q THEN now ELSE 0
  OBVIOUS
<1> HIDE DEF zero
<1> HIDE DEF new
<1>7. stm' \in [Entry -> Stamps]
  BY <1>5 DEF IInv, TypeOK, zero, new, q
<1>8. /\ stm'[e] = new
      /\ table'[e] = a
      /\ \A j \in Entry : j # e => stm'[j] = stm[j] /\ table'[j] = table[j]
  <2>1. table'[e] = a /\ \A j \in Entry : j # e => table'[j] = table[j]
    BY DEF IInv, TypeOK
  <2>2. stm' = [stm EXCEPT ![e] = new]
    BY DEF zero, new, q
  <2>3. stm'[e] = new /\ \A j \in Entry : j # e => stm'[j] = stm[j]
    BY <2>2 DEF IInv, TypeOK
  <2> QED
    BY <2>1, <2>3
<1>9. 0 .. len - 1 \subseteq Entry /\ 0 .. len' - 1 \subseteq Entry
  <2>1. len \in 0 .. MaxDedup - 1 /\ MaxDedup \in Nat
    BY DedupAssumption DEF IInv, TypeOK
  <2>2. \A k \in 0 .. MaxDedup - 1 : 0 .. k - 1 \subseteq 0 .. MaxDedup - 1
    BY <2>1
  <2> QED
    BY <2>1, <2>2 DEF Entry
<1>10. Past'
  <2>1. ASSUME NEW j \in Entry, NEW p \in SeqNo PROVE stm'[j][p] <= now
    <3>1. CASE j = e
      BY <1>3, <1>6, <1>8, <3>1
    <3>2. CASE j # e
      BY <1>8, <3>2 DEF IInv, Past
    <3> QED
      BY <3>1, <3>2
  <2> QED
    BY <1>2, <2>1, Arrival DEF IInv, Past, Entry
<1>11. \A j \in 0 .. len' - 1 : j # e => j \in 0 .. len - 1
  OBVIOUS
<1>12. Filled'
  BY <1>1, <1>8, <1>9, <1>11 DEF IInv, Filled
<1>13. SourcesDistinct'
  <2>1. \A j \in 0 .. len' - 1 : j # e => table'[j] # a
    BY <1>8, <1>9, <1>11 DEF Found
  <2>2. ASSUME NEW i \in 0 .. len' - 1, NEW j \in 0 .. len' - 1,
               table'[i] = table'[j], table'[i] # Nothing
        PROVE  i = j
    <3>1. CASE i = e \/ j = e
      BY <1>8, <2>1, <2>2, <3>1
    <3>2. CASE i # e /\ j # e
      BY <1>8, <1>9, <1>11, <2>2, <3>2 DEF IInv, SourcesDistinct
    <3> QED
      BY <3>1, <3>2
  <2> QED
    BY <2>2 DEF SourcesDistinct
<1>14. StampsTrue'
  <2>1. ASSUME NEW j \in 0 .. len' - 1 PROVE TrueOf(table'[j], stm'[j], arrived')
    <3>1. /\ \A n \in Msg : arrived[n][q] <= now
          /\ arrived \in [Msg -> Stamps]
      BY <1>1 DEF IInv, Past, TypeOK
    <3>2. CASE j = e
      <4>1. TrueOf(a, zero, arrived)
        BY DEF TrueOf, zero
      <4>2. TrueOf(a, [zero EXCEPT ![q] = now], [arrived EXCEPT ![m][q] = now])
        BY <1>1, <1>3, <1>4, <3>1, <4>1, StampedTrue
      <4> QED
        BY <1>2, <1>8, <3>2, <4>2 DEF new
    <3>3. CASE j # e
      <4>1. j \in 0 .. len - 1 /\ stm'[j] = stm[j] /\ table'[j] = table[j]
        BY <1>8, <1>9, <1>11, <3>3
      <4>2. TrueOf(table[j], stm[j], arrived) /\ stm[j] \in Stamps
        BY <1>9, <4>1 DEF IInv, StampsTrue, TypeOK
      <4>3. table[j] # a
        BY <4>1 DEF Found
      <4>4. TrueOf(table[j], stm[j], [arrived EXCEPT ![m][q] = now])
        BY <1>1, <1>3, <3>1, <4>2, <4>3, OthersTrue
      <4> QED
        BY <1>2, <4>1, <4>4
    <3> QED
      BY <3>2, <3>3
  <2> QED
    BY <2>1 DEF StampsTrue
<1>15. /\ table' \in [Entry -> Addr \cup {Nothing}]
       /\ left' \in SeqNo
       /\ arrived' \in [Msg -> Stamps]
       /\ Carried'
       /\ now' \in Time
       /\ msg' \in Msg \cup {Nothing}
  BY <1>1, <1>2, <1>3, Arrival DEF IInv, TypeOK
<1> QED
  BY <1>7, <1>10, <1>12, <1>13, <1>14, <1>15

LEMMA NewInv == ASSUME IInv, NEW m \in Msg, NewSource(m) PROVE IInv'
<1> DEFINE a == SrcOf[m]
           q == Number(m)
           new == [[p \in SeqNo |-> 0] EXCEPT ![q] = now]
<1>1. /\ len \in Nat
      /\ len \in Entry
      /\ len' = len + 1
      /\ len' \in 0 .. MaxDedup - 1
      /\ 0 .. len' - 1 \subseteq (0 .. len - 1) \cup {len}
  BY DedupAssumption DEF IInv, TypeOK, Entry, NewSource
<1>2. /\ Handle(m)
      /\ Found(a) = {}
      /\ table' = [table EXCEPT ![len] = a]
      /\ rc' = rc
      /\ verdict' = "pass"
      /\ now' = now
      /\ stm' = [stm EXCEPT ![len][q] = now]
      /\ len + 1 < MaxDedup
  BY DEF NewSource, Handle, Stamp
<1>3. stm[len] = [p \in SeqNo |-> 0]
  BY <1>1, <1>2 DEF IInv, Fresh
<1>4. stm' = [stm EXCEPT ![len] = new]
  BY <1>2, <1>3
<1>5. /\ now' \in Time
      /\ table' \in [Entry -> Addr \cup {Nothing}]
      /\ stm' \in [Entry -> Stamps]
      /\ left' \in SeqNo
      /\ arrived' \in [Msg -> Stamps]
      /\ msg' \in Msg \cup {Nothing}
      /\ Past'
      /\ Carried'
      /\ Filled'
      /\ SourcesDistinct'
      /\ StampsTrue'
  BY <1>1, <1>2, <1>4, TakeEntry
<1>6. TypeOK'
  BY <1>1, <1>2, <1>5 DEF IInv, TypeOK, Stamps, Entry, Time
<1>7. \A j \in Entry : j # len => stm'[j] = stm[j] /\ table'[j] = table[j]
  BY <1>2, <1>4 DEF IInv, TypeOK
<1>8. Fresh'
  <2>1. \A j \in Entry : len' <= j => len <= j /\ j # len
    BY <1>1 DEF Entry
  <2>2. \A j \in Entry : len' <= j => stm'[j] = [p \in SeqNo |-> 0]
    BY <1>2, <1>7, <2>1 DEF IInv, Fresh
  <2> QED
    BY <2>2 DEF Fresh, Entry
<1>9. NothingForgotten'
  <2>1. ASSUME rc = 0, NEW n \in Msg, NEW p \in SeqNo, arrived'[n][p] # 0
        PROVE  \E j \in 0 .. len' - 1 :
                  table'[j] = SrcOf[n] /\ stm'[j][p] >= arrived'[n][p]
    <3>1. CASE n = m /\ p = q
      <4>1. stm'[len][q] = now
        <5>1. stm'[len] = new
          BY <1>1, <1>4 DEF IInv, TypeOK
        <5> QED
          BY <1>2, <5>1, Arrival DEF IInv
      <4>2. arrived'[m][q] = now /\ now \in Int
        BY <1>2, Arrival, DedupAssumption DEF IInv, TypeOK, Time
      <4>3. table'[len] = a /\ len \in 0 .. len' - 1
        BY <1>1, <1>2 DEF IInv, TypeOK
      <4> QED
        BY <3>1, <4>1, <4>2, <4>3
    <3>2. CASE ~(n = m /\ p = q)
      <4>1. arrived'[n][p] = arrived[n][p]
        BY <1>2, <3>2, Arrival DEF IInv
      <4>2. PICK j \in Found(SrcOf[n]) : stm[j][p] >= arrived[n][p]
        BY <2>1, <4>1 DEF IInv, NothingForgotten
      <4>3. j \in 0 .. len - 1 /\ table[j] = SrcOf[n]
        BY <4>2 DEF Found
      <4>4. j # len /\ j \in Entry /\ j \in 0 .. len' - 1
        BY <1>1, <4>3, DedupAssumption DEF Entry
      <4> QED
        BY <1>7, <4>1, <4>2, <4>3, <4>4
    <3> QED
      BY <3>1, <3>2
  <2> QED
    BY <1>2, <2>1 DEF NothingForgotten, Found
<1> QED
  BY <1>5, <1>6, <1>8, <1>9 DEF IInv

LEMMA RecycleInv == ASSUME IInv, NEW m \in Msg, Recycle(m) PROVE IInv'
<1>1. /\ Handle(m)
      /\ Found(SrcOf[m]) = {}
      /\ table' = [table EXCEPT ![rc] = SrcOf[m]]
      /\ stm' = [stm EXCEPT ![rc] = [[p \in SeqNo |-> 0] EXCEPT ![Number(m)] = now]]
      /\ rc' = rc + 1
      /\ rc < MaxDedup
      /\ len' = len
      /\ len + 1 >= MaxDedup
      /\ verdict' = "pass"
  BY DEF Recycle, Recycled
<1>2. rc \in Entry /\ len' \in 0 .. MaxDedup - 1
  BY <1>1, DedupAssumption DEF IInv, TypeOK, Entry
<1>3. /\ now' \in Time
      /\ table' \in [Entry -> Addr \cup {Nothing}]
      /\ stm' \in [Entry -> Stamps]
      /\ left' \in SeqNo
      /\ arrived' \in [Msg -> Stamps]
      /\ msg' \in Msg \cup {Nothing}
      /\ Past'
      /\ Carried'
      /\ Filled'
      /\ SourcesDistinct'
      /\ StampsTrue'
  BY <1>1, <1>2, TakeEntry
<1>4. rc' \in 0 .. MaxDedup /\ rc' # 0
  BY <1>1, DedupAssumption DEF IInv, TypeOK
<1>5. TypeOK'
  BY <1>1, <1>2, <1>3, <1>4 DEF TypeOK, Stamps, Entry, Time
<1>6. NothingForgotten' /\ Fresh'
  BY <1>1, <1>2, <1>4, DedupAssumption DEF NothingForgotten, Fresh, IInv, TypeOK
<1> QED
  BY <1>3, <1>5, <1>6 DEF IInv

LEMMA OverrunInv == ASSUME IInv, NEW m \in Msg, Overrun(m) PROVE IInv'
<1> DEFINE q == Number(m)
<1>1. /\ Handle(m)
      /\ Found(SrcOf[m]) = {}
      /\ UNCHANGED <<now, table, stm, len, rc>>
      /\ arrived' = [arrived EXCEPT ![m][q] = now]
      /\ msg' = m
      /\ rc >= MaxDedup
      /\ verdict' = "overrun"
  BY DEF Overrun, Handle
<1>2. q \in SeqNo
  BY <1>1, Arrival DEF IInv
<1> HIDE DEF q
<1>3. TypeOK' /\ Past' /\ Carried'
  BY <1>1, Arrival DEF IInv, TypeOK, Past, Entry, Time, Stamps
<1>4. Filled' /\ Fresh' /\ SourcesDistinct'
  BY <1>1 DEF IInv, Filled, Fresh, SourcesDistinct, Entry
<1>5. StampsTrue'
  <2>1. ASSUME NEW j \in 0 .. len - 1 PROVE TrueOf(table[j], stm[j], arrived')
    <3>1. j \in Entry
      <4>1. len \in 0 .. MaxDedup - 1 /\ MaxDedup \in Nat
        BY DedupAssumption DEF IInv, TypeOK
      <4> QED
        BY <4>1 DEF Entry
    <3>2. table[j] # SrcOf[m]
      BY <1>1 DEF Found
    <3>3. /\ now \in Time
          /\ arrived \in [Msg -> Stamps]
          /\ stm[j] \in Stamps
          /\ TrueOf(table[j], stm[j], arrived)
      BY <3>1 DEF IInv, TypeOK, StampsTrue
    <3>4. TrueOf(table[j], stm[j], [arrived EXCEPT ![m][q] = now])
      BY <1>2, <3>2, <3>3, OthersTrue
    <3> QED
      BY <1>1, <3>4
  <2> QED
    BY <1>1, <2>1 DEF StampsTrue
<1>6. NothingForgotten'
  BY <1>1, DedupAssumption DEF NothingForgotten, IInv, TypeOK
<1> QED
  BY <1>3, <1>4, <1>5, <1>6 DEF IInv

(* What is left in the buffer, the verdict and the time are no part of what *)
(* the table and the arrivals say of each other.                            *)
LEMMA Aside ==
    ASSUME IInv, UNCHANGED <<table, stm, len, rc, arrived>>
    PROVE  Carried' /\ Filled' /\ Fresh' /\ SourcesDistinct' /\ StampsTrue'
           /\ NothingForgotten'
BY DEF IInv, Carried, Own, Filled, Fresh, SourcesDistinct, StampsTrue, TrueOf,
       NothingForgotten, Found, Entry

LEMMA TickInv == ASSUME IInv, Tick PROVE IInv'
<1>1. /\ now' = now + 1
      /\ now' \in Time
      /\ UNCHANGED <<table, stm, len, rc, left, arrived, msg, verdict>>
  BY DedupAssumption DEF Tick, IInv, TypeOK, Time
<1>2. TypeOK'
  BY <1>1 DEF IInv, TypeOK, Entry, Time, Stamps
<1>3. Past'
  <2>1. now \in Int
    BY DedupAssumption DEF IInv, TypeOK, Time
  <2>2. \A i \in Entry, q \in SeqNo : stm[i][q] \in Int /\ stm[i][q] <= now
    BY DedupAssumption DEF IInv, TypeOK, Past, Stamps
  <2>3. \A n \in Msg, q \in SeqNo : arrived[n][q] \in Int /\ arrived[n][q] <= now
    BY DedupAssumption DEF IInv, TypeOK, Past, Stamps
  <2> QED
    BY <1>1, <2>1, <2>2, <2>3 DEF Past, Entry
<1> QED
  BY <1>1, <1>2, <1>3, Aside DEF IInv

(* Steps that change neither time nor table. *)
LEMMA IdleInv ==
    ASSUME IInv, UNCHANGED <<now, table, stm, len, rc, arrived>>,
           left' \in SeqNo, msg' \in Msg \cup {Nothing},
           verdict' \in {"none", "pass", "drop", "overrun"}
    PROVE  IInv'
<1>1. TypeOK' /\ Past'
  BY DEF IInv, TypeOK, Past, Entry, Time, Stamps
<1> QED
  BY <1>1, Aside DEF IInv

LEMMA NextInv == IInv /\ [Next]_vars => IInv'
<1> SUFFICES ASSUME IInv, [Next]_vars PROVE IInv'
  OBVIOUS
<1>1. ASSUME NEW m \in Msg, Receive(m) PROVE IInv'
  BY <1>1, KnownInv, NewInv, RecycleInv, OverrunInv DEF Receive
<1>2. CASE Reject
  BY <1>2, IdleInv DEF Reject, IInv, TypeOK
<1>3. CASE Done
  BY <1>3, IdleInv DEF Done, IInv, TypeOK
<1>4. CASE Tick
  BY <1>4, TickInv
<1>5. CASE UNCHANGED vars
  BY <1>5, IdleInv DEF vars, IInv, TypeOK
<1>6. CASE Undefined
  BY <1>5, <1>6 DEF Undefined
<1> QED
  BY <1>1, <1>2, <1>3, <1>4, <1>5, <1>6 DEF Next

-----------------------------------------------------------------------------
(* The invariant of the duplicate filter (dst.c:158-188): everything the   *)
(* theorems below follow from.                                             *)
THEOREM Invariant == Spec => []IInv
<1> QED
  BY InitInv, NextInv, PTL DEF Spec

(* The filter's state is well typed: every index it uses is one of the     *)
(* table, up to the overrun (dst.c:159-188).                               *)
THEOREM TypeCorrect == Spec => []TypeOK
<1>1. IInv => TypeOK
  BY DEF IInv
<1> QED
  BY <1>1, Invariant, PTL

(* A source never has two entries that are searched (dst.c:180-187).       *)
THEOREM NoSourceTwice == Spec => []SourcesDistinct
<1>1. IInv => SourcesDistinct
  BY DEF IInv
<1> QED
  BY <1>1, Invariant, PTL

(* A stamp is the latest handling of its source and number, also in an     *)
(* entry that was taken from another source (dst.c:161-167, 184-187).      *)
THEOREM StampsTellTheTruth == Spec => []StampsTrue
<1>1. IInv => StampsTrue
  BY DEF IInv
<1> QED
  BY <1>1, Invariant, PTL

(* Before entries are reused all that was handled is in the table          *)
(* (dst.c:180-187).                                                        *)
THEOREM ForgetsNothing == Spec => []NothingForgotten
<1>1. IInv => NothingForgotten
  BY DEF IInv
<1> QED
  BY <1>1, Invariant, PTL

\* What is dropped is dropped for a message n that was handled with its number.
LEMMA Reason ==
    ASSUME IInv, [Next]_vars, Handling, verdict' = "drop"
    PROVE  /\ msg' \in Msg
           /\ \E n \in Msg, q \in SeqNo : /\ SrcOf[n] = SrcOf[msg']
                                        /\ Own(msg') \in {q, Nothing}
                                        /\ Own(n) \in {q, Nothing}
                                        /\ Recent(arrived[n][q])
<1>1. PICK m \in Msg : Receive(m)
  BY DEF Next, Reject, Done, Tick, Undefined, vars, Handling
<1>2. KnownSource(m)
  BY <1>1 DEF Receive, NewSource, Recycle, Overrun
<1> DEFINE i == First(Found(SrcOf[m]))
           q == Number(m)
<1>3. SrcOf[m] \in Addr /\ q \in SeqNo /\ msg' = m
  BY <1>2, DedupAssumption, Arrival DEF IInv, KnownSource, Handle
<1>4. i \in 0 .. len - 1 /\ table[i] = SrcOf[m]
  BY <1>2, <1>3, FirstFound DEF IInv, KnownSource
<1>5. Recent(stm[i][q])
  BY <1>2 DEF KnownSource
<1>6. Own(m) \in {q, Nothing}
  BY DEF Own, Number, Byte
<1> HIDE DEF i, q
<1>7. stm[i][q] # 0
  BY <1>5 DEF Recent
<1>8. PICK n \in Msg : SrcOf[n] = SrcOf[m] /\ arrived[n][q] = stm[i][q]
  BY <1>3, <1>4, <1>7 DEF IInv, StampsTrue, TrueOf
<1>9. Own(n) \in {q, Nothing}
  BY <1>3, <1>7, <1>8 DEF IInv, Carried
<1> QED
  BY <1>3, <1>5, <1>6, <1>8, <1>9

(* A message is dropped only if one of its source that the filter cannot   *)
(* tell from it was handled within the window (dst.c:131-174).             *)
THEOREM DropsAreLookAlikes == Spec => DropsOnlyLookAlikes
<1>1. IInv /\ [Next]_vars => [DropExplained]_vars
  <2> SUFFICES ASSUME IInv, [Next]_vars, Handling, verdict' = "drop"
               PROVE  DropExplained
    BY DEF DropExplained
  <2> QED
    BY Reason DEF DropExplained
<1> QED
  BY <1>1, Invariant, PTL DEF Spec, DropsOnlyLookAlikes

\* Every message of source a carries a number that no other of its messages has.
NumberedApart(a) == \A m, n \in Msg : (SrcOf[m] = a /\ SrcOf[n] = a) =>
                       Own(m) # Nothing /\ (Own(m) = Own(n) => m = n)

\* What is dropped of such a source has itself been handled at most Window ago.
DropsCopy == (Handling /\ verdict' = "drop" /\ NumberedApart(SrcOf[msg'])) =>
                Recent(arrived[msg'][Own(msg')])

(* If all messages of a source carry numbers, and different ones, nothing  *)
(* of it is dropped but copies of what was handled within the window:      *)
(* what dst.c:170-173 complains of takes one of the three other cases.     *)
THEOREM OnlyCopiesDropped == Spec => [][DropsCopy]_vars
<1>1. IInv /\ [Next]_vars => [DropsCopy]_vars
  <2> SUFFICES ASSUME IInv, [Next]_vars, Handling, verdict' = "drop",
                      NumberedApart(SrcOf[msg'])
               PROVE  Recent(arrived[msg'][Own(msg')])
    BY DEF DropsCopy
  <2>1. msg' \in Msg
    BY Reason
  <2>2. PICK n \in Msg, q \in SeqNo : /\ SrcOf[n] = SrcOf[msg']
                                      /\ Own(msg') \in {q, Nothing}
                                      /\ Own(n) \in {q, Nothing}
                                      /\ Recent(arrived[n][q])
    BY Reason
  <2>3. Own(n) = q /\ Own(msg') = q /\ n = msg'
    BY <2>1, <2>2 DEF NumberedApart
  <2> QED
    BY <2>2, <2>3
<1> QED
  BY <1>1, Invariant, PTL DEF Spec

(* As long as no entry has been reused, no message that carries a number   *)
(* passes within the window of one of its source handled with that number, *)
(* a copy in the same tick included (dst.c:159-188).                       *)
THEOREM RepeatsAreDropped == Spec => RepeatsDropped
<1>1. IInv /\ [Next]_vars => [PassJustified]_vars
  <2> SUFFICES ASSUME IInv, [Next]_vars, Handling, verdict' = "pass", rc' = 0,
                      NEW n \in Msg, SrcOf[n] = SrcOf[msg'],
                      NEW q \in SeqNo, q = Own(msg'), Recent(arrived[n][q])
               PROVE  FALSE
    BY DEF PassJustified
  <2>1. PICK m \in Msg : Receive(m)
    BY DEF Next, Reject, Done, Tick, Undefined, vars, Handling
  <2>2. msg' = m /\ SrcOf[n] = SrcOf[m]
    BY <2>1 DEF Receive, KnownSource, NewSource, Recycle, Overrun, Handle
  <2>3. Number(m) = q
    BY <2>2, DedupAssumption DEF Number, Own, Byte
  <2>4. rc = 0
    BY <2>1, DedupAssumption DEF Receive, KnownSource, NewSource, Recycle, Overrun, IInv, TypeOK
  <2>5. arrived[n][q] # 0 /\ now - arrived[n][q] <= Window
    BY DEF Recent
  <2>6. PICK j \in Found(SrcOf[m]) : stm[j][q] >= arrived[n][q]
    BY <2>2, <2>4, <2>5 DEF IInv, NothingForgotten
  <2> DEFINE i == First(Found(SrcOf[m]))
  <2>7. SrcOf[m] \in Addr
    BY DedupAssumption
  <2>8. i = j /\ i \in Entry
    BY <2>6, <2>7, FirstFound DEF IInv
  <2>9. KnownSource(m)
    BY <2>1, <2>6 DEF Receive, NewSource, Recycle, Overrun
  <2>10. ~Recent(stm[i][q])
    BY <2>3, <2>9 DEF KnownSource
  <2> HIDE DEF i
  <2>11. /\ stm[i][q] \in Int /\ stm[i][q] >= arrived[n][q]
         /\ arrived[n][q] \in Nat /\ now \in Int /\ Window \in Nat
    BY <2>6, <2>8, DedupAssumption DEF IInv, TypeOK, Stamps, Time
  <2> QED
    BY <2>5, <2>10, <2>11 DEF Recent
<1> QED
  BY <1>1, Invariant, PTL DEF Spec, RepeatsDropped
=============================================================================
