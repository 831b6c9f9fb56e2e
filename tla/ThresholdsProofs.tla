-------------------------- MODULE ThresholdsProofs --------------------------
(***************************************************************************)
(* Proofs about AtomicThresholds, for any number of writers and readers:   *)
(* typing, the order of snapshots under separated tunings, and wholeness   *)
(* of the cells and of undisturbed snapshots after a SetTuning without     *)
(* overlap.                                                                *)
(***************************************************************************)
EXTENDS AtomicThresholds, TLAPS

-----------------------------------------------------------------------------
(* The conversions and the fields.                                         *)

LEMMA MillisMonotone ==
  ASSUME NEW u \in Int, NEW v \in Int, u <= v
  PROVE  Millis(u) <= Millis(v)
BY SMT DEF Millis

LEMMA FromMillisMonotone ==
  ASSUME NEW m \in Int, NEW n \in Int, m <= n
  PROVE  FromMillis(m) <= FromMillis(n)
BY SMT DEF FromMillis

LEMMA ScaleBounds == Scale \in Int /\ Scale <= 1000000 /\ 1000000 <= Scale
BY SMT DEF Scale

LEMMA MillisRange ==
  ASSUME NEW v \in 0..Scale
  PROVE  Millis(v) \in 0..1000
<1>1. v \in Int /\ 0 <= v /\ v <= Scale
  BY ScaleBounds
<1>2. v <= 1000000
  BY <1>1, ScaleBounds, SMT
<1>3. v \div 1000 \in Int /\ 0 <= v \div 1000 /\ v \div 1000 <= 1000
  BY <1>1, <1>2, SMT
<1>4. QED
  BY <1>3 DEF Millis

LEMMA FromMillisRange ==
  ASSUME NEW m \in 0..1000
  PROVE  FromMillis(m) \in 0..Scale
<1>1. m * 1000 \in Int /\ 0 <= m * 1000 /\ m * 1000 <= 1000000
  BY SMT
<1>2. m * 1000 <= Scale
  BY <1>1, ScaleBounds, SMT
<1>3. QED
  BY <1>1, <1>2, ScaleBounds DEF FromMillis

\* A threshold of a tuning is a score.
LEMMA FieldRange ==
  ASSUME NEW t \in {Initial} \cup Tunings, NEW f \in Fields
  PROVE  t[f] \in 0..Scale
BY TuningsAssumption DEF Thresholds, Fields

LEMMA QuantisedTyped ==
  ASSUME NEW t \in {Initial} \cup Tunings
  PROVE  Quantised(t) \in [Fields -> 0..Scale]
BY FieldRange, MillisRange, FromMillisRange DEF Quantised

LEMMA OrderIsFields ==
  /\ \A k \in 1..6 : Order[k] \in Fields
  /\ \A f \in Fields : \E k \in 1..6 : Order[k] = f
  /\ \A j, k \in 1..6 : Order[j] = Order[k] => j = k
<1>1. /\ Order[1] = "deterministe" /\ Order[2] = "probabiliste" /\ Order[3] = "authBlock"
      /\ Order[4] = "sensCoherence" /\ Order[5] = "invCoherence"
      /\ Order[6] = "hysteresisGap"
  BY DEF Order
<1>2. \A k \in 1..6 : k = 1 \/ k = 2 \/ k = 3 \/ k = 4 \/ k = 5 \/ k = 6
  BY SMT
<1>3. /\ 1 \in 1..6 /\ 2 \in 1..6 /\ 3 \in 1..6 /\ 4 \in 1..6 /\ 5 \in 1..6 /\ 6 \in 1..6
  BY SMT
<1>4. \A k \in 1..6 : Order[k] \in Fields
  BY <1>1, <1>2 DEF Fields
<1>5. \A f \in Fields : \E k \in 1..6 : Order[k] = f
  BY <1>1, <1>3 DEF Fields
<1>6. \A j, k \in 1..6 : Order[j] = Order[k] => j = k
  BY <1>1, <1>2
<1>7. QED
  BY <1>4, <1>5, <1>6

-----------------------------------------------------------------------------
(* Typing.                                                                 *)

LEMMA InitTyped == Init => TypeOK
BY QuantisedTyped, FieldRange, MillisRange DEF Init, TypeOK

LEMMA NextTyped ==
  ASSUME TypeOK, [Next]_vars
  PROVE  TypeOK'
<1>1. ASSUME NEW w \in Writers, NEW t \in Tunings, SetTuning(w, t) PROVE TypeOK'
  BY <1>1 DEF TypeOK, SetTuning, Quiet
<1>2. ASSUME NEW w \in Writers, Store(w) PROVE TypeOK'
  <2>1. Order[storing[w]] \in Fields /\ tuning[w] \in {Initial} \cup Tunings
    BY <1>2, OrderIsFields DEF Store, TypeOK
  <2>2. Millis(tuning[w][Order[storing[w]]]) \in 0..1000
    BY <2>1, FieldRange, MillisRange
  <2>3. (IF storing[w] = 6 THEN 0 ELSE storing[w] + 1) \in 0..6
    BY <1>2, SMT DEF Store
  <2>4. cell' \in [Fields -> 0..1000]
    BY <1>2, <2>2 DEF Store, TypeOK
  <2>5. storing' \in [Writers -> 0..6]
    BY <1>2, <2>3 DEF Store, TypeOK
  <2>6. tuning' \in [Writers -> {Initial} \cup Tunings]
        /\ last' \in {Initial} \cup Tunings
    BY <1>2, <2>1 DEF Store, TypeOK
  <2>7. QED
    BY <1>2, <2>4, <2>5, <2>6 DEF Store, TypeOK
<1>3. ASSUME NEW r \in Readers, Snapshot(r) PROVE TypeOK'
  BY <1>3 DEF TypeOK, Snapshot, Quiet
<1>4. ASSUME NEW r \in Readers, Load(r) PROVE TypeOK'
  <2>1. Order[loading[r]] \in Fields
    BY <1>4, OrderIsFields DEF Load
  <2>2. FromMillis(cell[Order[loading[r]]]) \in 0..Scale
    <3>1. cell[Order[loading[r]]] \in 0..1000
      BY <2>1 DEF TypeOK
    <3>2. QED
      BY <3>1, FromMillisRange
  <2>3. [copy[r] EXCEPT ![Order[loading[r]]] = FromMillis(cell[Order[loading[r]]])]
          \in [Fields -> 0..Scale]
    BY <2>2 DEF TypeOK
  <2>4. copy' \in [Readers -> [Fields -> 0..Scale]]
    BY <1>4, <2>3 DEF Load, TypeOK
  <2>5. loading[r] + 1 \in 0..7
    BY <1>4, SMT DEF Load
  <2>6. QED
    BY <1>4, <2>4, <2>5 DEF Load, TypeOK
<1>5. ASSUME NEW r \in Readers, Drop(r) PROVE TypeOK'
  BY <1>5, QuantisedTyped DEF TypeOK, Drop
<1>6. CASE UNCHANGED vars
  BY <1>6 DEF vars, TypeOK
<1>7. QED
  BY <1>1, <1>2, <1>3, <1>4, <1>5, <1>6 DEF Next

\* The cells stay in [0, 1000] and the copies in [0, 1].
THEOREM TypeCorrect == Spec => []TypeOK
<1>1. TypeOK /\ [Next]_vars => TypeOK'
  BY NextTyped
<1>2. QED
  BY <1>1, InitTyped, PTL DEF Spec

-----------------------------------------------------------------------------
(* Separated tunings keep every snapshot in order.                         *)

SeparatedBy(sep) ==
  \A t \in {Initial} \cup Tunings : t.deterministe <= sep /\ sep <= t.probabiliste

\* sep separates the cells and every copy, taken or in the making.
KeptApart(sep) ==
  /\ cell["deterministe"] <= Millis(sep)
  /\ Millis(sep) <= cell["probabiliste"]
  /\ \A r \in Readers :
       /\ copy[r]["deterministe"] <= FromMillis(Millis(sep))
       /\ FromMillis(Millis(sep)) <= copy[r]["probabiliste"]

LEMMA MillisInt ==
  ASSUME NEW v \in 0..Scale
  PROVE  Millis(v) \in Int /\ FromMillis(Millis(v)) \in Int
<1>1. Millis(v) \in 0..1000
  BY MillisRange
<1>2. Millis(v) \in Int
  BY <1>1
<1>3. QED
  BY <1>2 DEF FromMillis

LEMMA TuningApart ==
  ASSUME NEW sep \in 0..Scale, SeparatedBy(sep), NEW t \in {Initial} \cup Tunings
  PROVE  /\ Millis(t["deterministe"]) <= Millis(sep)
         /\ Millis(sep) <= Millis(t["probabiliste"])
         /\ Millis(t["deterministe"]) \in Int
         /\ Millis(t["probabiliste"]) \in Int
<1>1. /\ t["deterministe"] \in 0..Scale /\ t["probabiliste"] \in 0..Scale
      /\ t["deterministe"] <= sep /\ sep <= t["probabiliste"]
  BY FieldRange DEF Fields, SeparatedBy
<1>2. /\ t["deterministe"] \in Int /\ t["probabiliste"] \in Int /\ sep \in Int
  BY <1>1, ScaleBounds
<1>3. Millis(t["deterministe"]) \in Int /\ Millis(t["probabiliste"]) \in Int
  BY <1>1, MillisInt
<1>4. QED
  BY <1>1, <1>2, <1>3, MillisMonotone

LEMMA InitApart ==
  ASSUME NEW sep \in 0..Scale, SeparatedBy(sep), Init
  PROVE  KeptApart(sep)
<1>1. /\ Millis(Initial["deterministe"]) <= Millis(sep)
      /\ Millis(sep) <= Millis(Initial["probabiliste"])
  BY TuningApart
<1>2. /\ Millis(Initial["deterministe"]) \in Int /\ Millis(Initial["probabiliste"]) \in Int
      /\ Millis(sep) \in Int
  BY TuningApart, MillisInt
<1>3. /\ FromMillis(Millis(Initial["deterministe"])) <= FromMillis(Millis(sep))
      /\ FromMillis(Millis(sep)) <= FromMillis(Millis(Initial["probabiliste"]))
  BY <1>1, <1>2, FromMillisMonotone
<1>4. QED
  BY <1>1, <1>3 DEF Init, KeptApart, Quantised, Fields

LEMMA NextApart ==
  ASSUME NEW sep \in 0..Scale, SeparatedBy(sep), TypeOK, KeptApart(sep), [Next]_vars
  PROVE  KeptApart(sep)'
<1>1. /\ Millis(sep) \in Int
      /\ cell["deterministe"] \in Int /\ cell["probabiliste"] \in Int
  <2>1. cell["deterministe"] \in 0..1000 /\ cell["probabiliste"] \in 0..1000
    BY DEF TypeOK, Fields
  <2>2. \A m \in 0..1000 : m \in Int
    BY SMT
  <2>3. Millis(sep) \in Int
    BY MillisInt
  <2>4. QED
    BY <2>1, <2>2, <2>3
<1>2. /\ FromMillis(cell["deterministe"]) <= FromMillis(Millis(sep))
      /\ FromMillis(Millis(sep)) <= FromMillis(cell["probabiliste"])
  BY <1>1, FromMillisMonotone DEF KeptApart
<1>3. ASSUME NEW w \in Writers, Store(w) PROVE KeptApart(sep)'
  <2>1. /\ Millis(tuning[w]["deterministe"]) <= Millis(sep)
        /\ Millis(sep) <= Millis(tuning[w]["probabiliste"])
    BY TuningApart DEF TypeOK
  <2>2. /\ cell'["deterministe"] \in {cell["deterministe"], Millis(tuning[w]["deterministe"])}
        /\ cell'["probabiliste"] \in {cell["probabiliste"], Millis(tuning[w]["probabiliste"])}
    BY <1>3 DEF Store, TypeOK, Fields
  <2>3. copy' = copy
    BY <1>3 DEF Store
  <2>4. QED
    BY <2>1, <2>2, <2>3 DEF KeptApart
<1>4. ASSUME NEW r \in Readers, Load(r) PROVE KeptApart(sep)'
  <2>1. ASSUME NEW q \in Readers
        PROVE  /\ copy'[q]["deterministe"]
                    \in {copy[q]["deterministe"], FromMillis(cell["deterministe"])}
               /\ copy'[q]["probabiliste"]
                    \in {copy[q]["probabiliste"], FromMillis(cell["probabiliste"])}
    BY <1>4 DEF Load, TypeOK, Fields
  <2>2. cell' = cell
    BY <1>4 DEF Load
  <2>3. QED
    BY <1>2, <2>1, <2>2 DEF KeptApart
<1>5. ASSUME NEW r \in Readers, Drop(r) PROVE KeptApart(sep)'
  <2>1. /\ FromMillis(Millis(Initial["deterministe"])) <= FromMillis(Millis(sep))
        /\ FromMillis(Millis(sep)) <= FromMillis(Millis(Initial["probabiliste"]))
    <3>1. /\ Millis(Initial["deterministe"]) <= Millis(sep)
          /\ Millis(sep) <= Millis(Initial["probabiliste"])
          /\ Millis(Initial["deterministe"]) \in Int
          /\ Millis(Initial["probabiliste"]) \in Int
      BY TuningApart
    <3>2. QED
      BY <1>1, <3>1, FromMillisMonotone
  <2>2. ASSUME NEW q \in Readers
        PROVE  /\ copy'[q]["deterministe"] \in
                    {copy[q]["deterministe"], FromMillis(Millis(Initial["deterministe"]))}
               /\ copy'[q]["probabiliste"] \in
                    {copy[q]["probabiliste"], FromMillis(Millis(Initial["probabiliste"]))}
    BY <1>5 DEF Drop, TypeOK, Quantised, Fields
  <2>3. cell' = cell
    BY <1>5 DEF Drop
  <2>4. QED
    BY <2>1, <2>2, <2>3 DEF KeptApart
<1>6. ASSUME UNCHANGED <<cell, copy>> PROVE KeptApart(sep)'
  BY <1>6 DEF KeptApart
<1>7. QED
  BY <1>3, <1>4, <1>5, <1>6 DEF Next, SetTuning, Snapshot, vars

LEMMA ApartIsOrdered ==
  ASSUME NEW sep \in 0..Scale, TypeOK, KeptApart(sep), NEW r \in Readers
  PROVE  Ordered(copy[r])
<1>1. /\ copy[r]["deterministe"] \in Int /\ copy[r]["probabiliste"] \in Int
  BY ScaleBounds DEF TypeOK, Fields
<1>2. FromMillis(Millis(sep)) \in Int
  BY MillisInt
<1>3. QED
  BY <1>1, <1>2 DEF KeptApart, Ordered

\* No snapshot is ever out of order when some value separates the thresholds
\* of every tuning, for any number of writers and readers.
THEOREM SeparatedSnapshotsOrdered == Spec => []SeparatedTuningsStayOrdered
<1>1. CASE Separated
  <2>1. PICK sep \in 0..Scale : SeparatedBy(sep)
    BY <1>1 DEF Separated, SeparatedBy
  <2>2. Init => KeptApart(sep)
    BY <2>1, InitApart
  <2>3. TypeOK /\ KeptApart(sep) /\ [Next]_vars => KeptApart(sep)'
    BY <2>1, NextApart
  <2>4. TypeOK /\ KeptApart(sep) => SeparatedTuningsStayOrdered
    BY ApartIsOrdered DEF SeparatedTuningsStayOrdered
  <2>5. QED
    BY <2>2, <2>3, <2>4, TypeCorrect, PTL DEF Spec
<1>2. CASE ~Separated
  <2>1. SeparatedTuningsStayOrdered
    BY <1>2 DEF SeparatedTuningsStayOrdered
  <2>2. QED
    BY <2>1, PTL
<1>3. QED
  BY <1>1, <1>2

-----------------------------------------------------------------------------
(* A SetTuning without overlap: the fields already stored hold the new     *)
(* tuning; when it has returned all do, and an undisturbed reader has      *)
(* copied it so far.                                                       *)

StoredSoFar(w) ==
  \A k \in 1..6 : k < storing[w] => cell[Order[k]] = Millis(tuning[w][Order[k]])

CellsHold(t) == \A k \in 1..6 : cell[Order[k]] = Millis(t[Order[k]])

CopiedSoFar(r) ==
  \A k \in 1..6 : k < loading[r] => copy[r][Order[k]] = FromMillis(Millis(last[Order[k]]))

Whole ==
  /\ solo => /\ \A v, w \in Writers : storing[v] # 0 /\ storing[w] # 0 => v = w
             /\ \A w \in Writers : storing[w] # 0 => StoredSoFar(w)
             /\ Quiet => CellsHold(last)
  /\ \A r \in Readers : alone[r] /\ loading[r] # 0 /\ loading[r] # 7 =>
       Quiet /\ (solo => CopiedSoFar(r))

LEMMA InitWhole == ASSUME Init PROVE Whole
<1>1. \A k \in 1..6 : cell[Order[k]] = Millis(last[Order[k]])
  BY OrderIsFields DEF Init
<1>2. (\A w \in Writers : storing[w] = 0) /\ \A r \in Readers : loading[r] = 0
  BY DEF Init
<1>3. QED
  BY <1>1, <1>2 DEF Whole, CellsHold

\* One Store of w, which runs without overlap.
LEMMA StoreWhole ==
  ASSUME TypeOK, Whole, NEW w \in Writers, Store(w)
  PROVE  Whole'
<1>1. /\ storing[w] \in 1..6 /\ storing[w] # 0
      /\ cell' = [cell EXCEPT ![Order[storing[w]]] = Millis(tuning[w][Order[storing[w]]])]
      /\ loading' = loading /\ copy' = copy /\ alone' = alone /\ solo' = solo
  BY SMT DEF Store
<1>2. ~Quiet
  BY <1>1 DEF Quiet
<1>3. \A r \in Readers : ~(alone[r] /\ loading[r] # 0 /\ loading[r] # 7)
  BY <1>2 DEF Whole
<1>4. \A v \in Writers \ {w} : storing'[v] = storing[v]
  BY DEF Store, TypeOK
<1>5. ASSUME solo
      PROVE  /\ \A u, v \in Writers : storing'[u] # 0 /\ storing'[v] # 0 => u = v
             /\ \A v \in Writers : storing'[v] # 0 => StoredSoFar(v)'
             /\ Quiet' => CellsHold(last)'
  <2>1. \A v \in Writers : v # w => storing[v] = 0
    BY <1>1, <1>5 DEF Whole
  <2>2. ASSUME NEW k \in 1..6, k <= storing[w]
        PROVE  cell'[Order[k]] = Millis(tuning[w][Order[k]])
    <3>1. Order[k] \in Fields /\ cell \in [Fields -> 0..1000]
      BY OrderIsFields DEF TypeOK
    <3>2. CASE k = storing[w]
      BY <1>1, <3>1, <3>2
    <3>3. CASE k # storing[w]
      <4>1. Order[k] # Order[storing[w]]
        BY <1>1, <3>3, OrderIsFields
      <4>2. cell'[Order[k]] = cell[Order[k]]
        BY <1>1, <3>1, <4>1
      <4>3. k < storing[w]
        BY <1>1, <2>2, <3>3, SMT
      <4>4. cell[Order[k]] = Millis(tuning[w][Order[k]])
        BY <1>1, <1>5, <4>3 DEF Whole, StoredSoFar
      <4>5. QED
        BY <4>2, <4>4
    <3>4. QED
      BY <3>2, <3>3
  <2>3. CASE storing[w] = 6
    <3>1. storing'[w] = 0 /\ last' = tuning[w]
      BY <2>3 DEF Store, TypeOK
    <3>2. \A v \in Writers : storing'[v] = 0
      BY <1>4, <2>1, <3>1
    <3>3. \A k \in 1..6 : k <= 6
      BY SMT
    <3>4. CellsHold(last)'
      BY <2>2, <2>3, <3>1, <3>3 DEF CellsHold
    <3>5. QED
      BY <3>2, <3>4
  <2>4. CASE storing[w] # 6
    <3>1. storing'[w] = storing[w] + 1 /\ tuning' = tuning
      BY <2>4 DEF Store, TypeOK
    <3>2. \A k \in 1..6 : k < storing[w] + 1 => k <= storing[w]
      BY <1>1, SMT
    <3>3. storing'[w] # 0
      BY <1>1, <3>1, SMT
    <3>4. StoredSoFar(w)'
      BY <2>2, <3>1, <3>2 DEF StoredSoFar
    <3>5. \A v \in Writers : storing'[v] # 0 => v = w
      BY <1>4, <2>1
    <3>6. ~Quiet'
      BY <3>3 DEF Quiet
    <3>7. QED
      BY <3>4, <3>5, <3>6
  <2>5. QED
    BY <2>3, <2>4
<1>6. QED
  BY <1>1, <1>3, <1>5 DEF Whole

\* One Load of r.
LEMMA LoadWhole ==
  ASSUME TypeOK, Whole, NEW r \in Readers, Load(r)
  PROVE  Whole'
<1>1. /\ \A q \in Readers \ {r} : loading'[q] = loading[q] /\ copy'[q] = copy[q]
      /\ loading[r] \in 1..6 /\ loading'[r] = loading[r] + 1
      /\ copy'[r] = [copy[r] EXCEPT ![Order[loading[r]]] = FromMillis(cell[Order[loading[r]]])]
      /\ UNCHANGED <<cell, storing, tuning, last, solo, alone>>
  BY DEF Load, TypeOK
<1>2. loading[r] # 0 /\ loading[r] # 7
  BY <1>1, SMT
<1>3. ASSUME alone[r] PROVE Quiet
  BY <1>2, <1>3 DEF Whole
<1>4. ASSUME alone[r], solo, NEW k \in 1..6, k < loading[r] + 1
      PROVE  copy'[r][Order[k]] = FromMillis(Millis(last[Order[k]]))
  <2>1. Order[k] \in Fields /\ copy[r] \in [Fields -> 0..Scale]
    BY OrderIsFields DEF TypeOK
  <2>2. CASE k = loading[r]
    <3>1. cell[Order[k]] = Millis(last[Order[k]])
      BY <1>3, <1>4 DEF Whole, CellsHold
    <3>2. QED
      BY <1>1, <2>1, <2>2, <3>1
  <2>3. CASE k # loading[r]
    <3>1. k < loading[r]
      BY <1>1, <1>4, <2>3, SMT
    <3>2. Order[k] # Order[loading[r]]
      BY <1>1, <2>3, OrderIsFields
    <3>3. copy'[r][Order[k]] = copy[r][Order[k]]
      BY <1>1, <2>1, <3>2
    <3>4. copy[r][Order[k]] = FromMillis(Millis(last[Order[k]]))
      BY <1>2, <1>4, <3>1 DEF Whole, CopiedSoFar
    <3>5. QED
      BY <3>3, <3>4
  <2>4. QED
    BY <2>2, <2>3
<1>5. Quiet' = Quiet
  BY <1>1 DEF Quiet
<1>6. ASSUME alone[r] PROVE Quiet' /\ (solo => CopiedSoFar(r)')
  BY <1>1, <1>3, <1>4, <1>5, <1>6 DEF CopiedSoFar
<1>7. ASSUME NEW q \in Readers \ {r}
      PROVE  CopiedSoFar(q)' = CopiedSoFar(q)
  BY <1>1, <1>7 DEF CopiedSoFar
<1>8. \A q \in Readers : alone[q] /\ loading'[q] # 0 /\ loading'[q] # 7 =>
        Quiet' /\ (solo => CopiedSoFar(q)')
  <2> SUFFICES ASSUME NEW q \in Readers, alone[q], loading'[q] # 0, loading'[q] # 7
               PROVE  Quiet' /\ (solo => CopiedSoFar(q)')
    OBVIOUS
  <2>1. CASE q = r
    BY <1>6, <2>1
  <2>2. CASE q # r
    <3>1. loading'[q] = loading[q] /\ CopiedSoFar(q)' = CopiedSoFar(q)
      BY <1>1, <1>7, <2>2
    <3>2. QED
      BY <1>5, <3>1 DEF Whole
  <2>3. QED
    BY <2>1, <2>2
<1>9. solo => /\ \A v, w \in Writers : storing[v] # 0 /\ storing[w] # 0 => v = w
              /\ \A w \in Writers : storing[w] # 0 => StoredSoFar(w)'
              /\ Quiet' => CellsHold(last)'
  BY <1>1, <1>5 DEF Whole, StoredSoFar, CellsHold
<1>10. QED
  BY <1>1, <1>8, <1>9 DEF Whole

LEMMA NextWhole ==
  ASSUME TypeOK, Whole, [Next]_vars
  PROVE  Whole'
<1>1. ASSUME NEW w \in Writers, NEW t \in Tunings, SetTuning(w, t) PROVE Whole'
  <2>a. /\ storing[w] = 0 /\ storing'[w] = 1
        /\ \A v \in Writers \ {w} : storing'[v] = storing[v]
        /\ loading' = loading
    BY <1>1 DEF SetTuning, TypeOK
  <2>c. ASSUME NEW r \in Readers, alone'[r] PROVE loading[r] = 0
    <3>1. alone'[r] = (alone[r] /\ loading[r] = 0)
      BY <1>1 DEF SetTuning
    <3>2. QED
      BY <2>c, <3>1
  <2>b. solo' = Quiet
    BY <1>1 DEF SetTuning
  <2>1. /\ storing[w] = 0 /\ storing'[w] = 1 /\ (solo' => Quiet)
        /\ \A v \in Writers \ {w} : storing'[v] = storing[v]
        /\ loading' = loading /\ \A r \in Readers : alone'[r] => loading[r] = 0
    BY <2>a, <2>b, <2>c
  <2>2. ~Quiet'
    BY <2>1 DEF Quiet
  <2>3. \A k \in 1..6 : ~(k < 1)
    BY SMT
  <2>4. StoredSoFar(w)'
    BY <2>1, <2>3 DEF StoredSoFar
  <2>5. solo' => \A v \in Writers : storing'[v] # 0 => v = w
    BY <2>1 DEF Quiet
  <2>6. QED
    BY <2>1, <2>2, <2>4, <2>5 DEF Whole
<1>2. ASSUME NEW r \in Readers, Snapshot(r) PROVE Whole'
  <2>1. /\ \A q \in Readers \ {r} : alone'[q] = alone[q] /\ loading'[q] = loading[q]
        /\ loading'[r] = 1 /\ (alone'[r] => Quiet)
        /\ UNCHANGED <<cell, storing, tuning, copy, last, solo>>
    BY <1>2 DEF Snapshot, TypeOK
  <2>2. \A k \in 1..6 : ~(k < 1)
    BY SMT
  <2>3. Quiet' = Quiet
    BY <2>1 DEF Quiet
  <2>4. \A q \in Readers \ {r} : CopiedSoFar(q)' = CopiedSoFar(q)
    BY <2>1 DEF CopiedSoFar
  <2>5. CopiedSoFar(r)'
    BY <2>1, <2>2 DEF CopiedSoFar
  <2>6. \A q \in Readers : alone'[q] /\ loading'[q] # 0 /\ loading'[q] # 7 =>
          Quiet' /\ (solo' => CopiedSoFar(q)')
    BY <2>1, <2>3, <2>4, <2>5 DEF Whole
  <2>7. solo' => /\ \A v, w \in Writers : storing'[v] # 0 /\ storing'[w] # 0 => v = w
                 /\ \A w \in Writers : storing'[w] # 0 => StoredSoFar(w)'
                 /\ Quiet' => CellsHold(last)'
    BY <2>1, <2>3 DEF Whole, StoredSoFar, CellsHold
  <2>8. QED
    BY <2>6, <2>7 DEF Whole
<1>3. ASSUME NEW r \in Readers, Drop(r) PROVE Whole'
  <2>1. /\ \A q \in Readers \ {r} : /\ alone'[q] = alone[q] /\ loading'[q] = loading[q]
                                     /\ copy'[q] = copy[q]
        /\ loading'[r] = 0
        /\ UNCHANGED <<cell, storing, tuning, last, solo>>
    BY <1>3 DEF Drop, TypeOK
  <2>2. Quiet' = Quiet
    BY <2>1 DEF Quiet
  <2>3. \A q \in Readers \ {r} : CopiedSoFar(q)' = CopiedSoFar(q)
    BY <2>1 DEF CopiedSoFar
  <2>4. \A q \in Readers : alone'[q] /\ loading'[q] # 0 /\ loading'[q] # 7 =>
          Quiet' /\ (solo' => CopiedSoFar(q)')
    BY <2>1, <2>2, <2>3 DEF Whole
  <2>5. solo' => /\ \A v, w \in Writers : storing'[v] # 0 /\ storing'[w] # 0 => v = w
                 /\ \A w \in Writers : storing'[w] # 0 => StoredSoFar(w)'
                 /\ Quiet' => CellsHold(last)'
    BY <2>1, <2>2 DEF Whole, StoredSoFar, CellsHold
  <2>6. QED
    BY <2>4, <2>5 DEF Whole
<1>4. CASE UNCHANGED vars
  BY <1>4 DEF vars, Whole, Quiet, StoredSoFar, CellsHold, CopiedSoFar
<1>5. QED
  BY <1>1, <1>2, <1>3, <1>4, StoreWhole, LoadWhole DEF Next

LEMMA WholeAlways == Spec => [](TypeOK /\ Whole)
<1>1. TypeOK /\ Whole /\ [Next]_vars => TypeOK' /\ Whole'
  BY NextTyped, NextWhole
<1>2. QED
  BY <1>1, InitTyped, InitWhole, PTL DEF Spec

\* After a SetTuning that none overlapped the cells are its tuning.
THEOREM LastTuningIsWhole == Spec => []QuietIsLastTuning
<1>1. ASSUME Whole PROVE QuietIsLastTuning
  <2> SUFFICES ASSUME Quiet, solo, NEW f \in Fields
               PROVE  FromMillis(cell[f]) = Quantised(last)[f]
    BY DEF QuietIsLastTuning
  <2>1. PICK k \in 1..6 : Order[k] = f
    BY OrderIsFields
  <2>2. cell[f] = Millis(last[f])
    BY <1>1, <2>1 DEF Whole, CellsHold
  <2>3. QED
    BY <2>2 DEF Quantised
<1>2. QED
  BY <1>1, WholeAlways, PTL

\* A snapshot that no SetTuning overlaps is the last tuning, when that one was
\* not overlapped either.
THEOREM UndisturbedSnapshots == Spec => UndisturbedSnapshotIsOneTuning
<1>1. ASSUME TypeOK, Whole, Next, NEW r \in Readers,
             loading[r] = 6, loading'[r] = 7, alone[r], solo
      PROVE  copy'[r] = Quantised(last)
  <2>1. Load(r)
    <3>1. loading \in [Readers -> 0..7] /\ loading' # loading
      BY <1>1 DEF TypeOK
    <3>2. PICK q \in Readers : Snapshot(q) \/ Load(q) \/ Drop(q)
      BY <1>1, <3>1 DEF Next, SetTuning, Store
    <3>3. q = r
      <4>1. CASE Snapshot(q)
        BY <1>1, <3>1, <4>1 DEF Snapshot
      <4>2. CASE Load(q)
        BY <1>1, <3>1, <4>2 DEF Load
      <4>3. CASE Drop(q)
        BY <1>1, <3>1, <4>3 DEF Drop
      <4>4. QED
        BY <3>2, <4>1, <4>2, <4>3
    <3>4. ~Snapshot(r) /\ ~Drop(r)
      <4>1. loading[r] # 0 /\ loading[r] # 7
        BY <1>1, SMT
      <4>2. QED
        BY <4>1 DEF Snapshot, Drop
    <3>5. QED
      BY <3>2, <3>3, <3>4
  <2>2. /\ copy[r] \in [Fields -> 0..Scale]
        /\ copy'[r] = [copy[r] EXCEPT ![Order[6]] = FromMillis(cell[Order[6]])]
    BY <1>1, <2>1 DEF Load, TypeOK
  <2>3. CopiedSoFar(r) /\ CellsHold(last)
    BY <1>1 DEF Whole
  <2>4. ASSUME NEW f \in Fields PROVE copy'[r][f] = FromMillis(Millis(last[f]))
    <3>1. PICK k \in 1..6 : Order[k] = f
      BY OrderIsFields
    <3>2. CASE k = 6
      BY <2>2, <2>3, <3>1, <3>2 DEF CellsHold
    <3>3. CASE k # 6
      <4>1. k < 6 /\ 6 \in 1..6
        BY <3>3, SMT
      <4>2. f # Order[6]
        BY <3>1, <3>3, <4>1, OrderIsFields
      <4>3. copy[r][f] = FromMillis(Millis(last[f]))
        BY <1>1, <2>3, <3>1, <4>1 DEF CopiedSoFar
      <4>4. QED
        BY <2>2, <4>2, <4>3
    <3>4. QED
      BY <3>2, <3>3
  <2>5. copy'[r] \in [Fields -> {copy'[r][f] : f \in Fields}]
    BY <2>2
  <2>6. QED
    BY <2>4, <2>5 DEF Quantised
<1>2. TypeOK /\ Whole /\ [Next]_vars =>
        [\A r \in Readers :
           loading[r] = 6 /\ loading'[r] = 7 /\ alone[r] /\ solo
             => copy'[r] = Quantised(last)]_vars
  BY <1>1
<1>3. QED
  BY <1>2, WholeAlways, PTL DEF Spec, UndisturbedSnapshotIsOneTuning
=============================================================================
