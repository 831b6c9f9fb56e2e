---------------------------- MODULE Composition ----------------------------
(***************************************************************************)
(* The composition of invariant I5 (internal/tau/invariants/               *)
(* i5_composition.go): the blind spots of a stack of layers.  No decision  *)
(* reifies a stack yet, so the dispatcher never calls these functions.     *)
(*                                                                         *)
(* An identifier is a natural number: only whether two are equal and which *)
(* sort.Strings puts first matters.  A layer is a sequence of identifiers  *)
(* in which some may recur.                                                *)
(***************************************************************************)
EXTENDS Integers, FiniteSets, Sequences, Functions

AngleMort == Seq(Nat)
Pile      == Seq(AngleMort)

-----------------------------------------------------------------------------
(* Aggregate.                                                              *)

Seen(p) == UNION {Range(p[k]) : k \in DOMAIN p}

\* The orders in which range may give the keys of a map.
IterationOrders(keys) == {s \in [1..Cardinality(keys) -> keys] : Range(s) = keys}

Sorted(s) == \A i, j \in DOMAIN s : i < j => s[i] <= s[j]

Permuted(s, out) ==
  \E f \in Bijection(DOMAIN s, DOMAIN s) : out = [i \in DOMAIN s |-> s[f[i]]]

\* All that Aggregate may return.
Aggregates(p) ==
  {out \in [1..Cardinality(Seen(p)) -> Seen(p)] :
     Sorted(out) /\ \E s \in IterationOrders(Seen(p)) : Permuted(s, out)}

-----------------------------------------------------------------------------
(* BoundsHold.                                                             *)

\* The locals of the single pass, before it and after a layer.
Start == [global |-> {}, maxLen |-> 0, sumLen |-> 0]

Round(was, layer) ==
  LET d == Cardinality(Range(layer))
  IN [global |-> was.global \cup Range(layer),
      maxLen |-> IF d > was.maxLen THEN d ELSE was.maxLen,
      sumLen |-> was.sumLen + d]

Pass(p) ==
  LET after[k \in 0..Len(p)] ==
        IF k = 0 THEN Start ELSE Round(after[k - 1], p[k])
  IN after

BoundsHold(p) ==
  LET end == Pass(p)[Len(p)]
  IN Len(p) = 0 \/ (Cardinality(end.global) >= end.maxLen /\ Cardinality(end.global) <= end.sumLen)
=============================================================================
