---------------------------- MODULE DataInduction ----------------------------
(***************************************************************************)
(* Induction over data for the other proofs: a fact that climbs from one   *)
(* step to the next, and what the joining of a list of sequences gives.    *)
(***************************************************************************)
EXTENDS Integers, Sequences, SequencesExt, SequenceTheorems,
        WellFoundedInduction, NaturalsInduction, TLAPS

LEMMA LeastElement ==
  ASSUME NEW S \in SUBSET Nat, S # {}
  PROVE  \E i \in S : \A j \in S : i <= j
  <1>1. \E i \in S : \A j \in S : ~ (j < i)
    <2>1. PICK i \in S : \A j \in S : <<j, i>> \notin OpToRel(<, Nat)
      BY WFMin, NatLessThanWellFounded, Zenon
    <2> QED BY <2>1, Zenon DEF OpToRel
  <1>2. \A i, j \in Nat : ~ (j < i) => i <= j
    OBVIOUS
  <1> QED BY <1>1, <1>2

(* Induction over data, one set at a time: Good is the set of the steps for*)
(* which the fact to be shown holds.                                       *)
LEMMA Climb ==
  ASSUME NEW m \in Nat, NEW n \in Nat, NEW Good,
         m \in Good, \A k \in m .. n : k \in Good /\ k + 1 <= n => k + 1 \in Good
  PROVE  \A k \in m .. n : k \in Good
  <1> DEFINE Bad == {k \in m .. n : k \notin Good}
  <1>1. ASSUME Bad # {} PROVE FALSE
    <2>1. Bad \in SUBSET Nat
      OBVIOUS
    <2>2. PICK k \in Bad : \A j \in Bad : k <= j
      BY <1>1, <2>1, LeastElement
    <2>3. k \in m .. n /\ k \notin Good /\ k # m
      BY <2>2
    <2>4. k - 1 \in m .. n /\ ~ (k <= k - 1) /\ (k - 1) + 1 = k
      BY <2>3
    <2>5. k - 1 \in Good
      BY <2>2, <2>4
    <2>6. (k - 1) + 1 \in Good
      BY <2>3, <2>4, <2>5
    <2> QED BY <2>3, <2>4, <2>6
  <1> QED BY <1>1

(* The lists joined so far, one more at a time. *)
Joins(f, lists) ==
  /\ f[0] = << >>
  /\ \A k \in 1 .. Len(lists) : f[k] = f[k - 1] \o lists[k]

LEMMA Flattened ==
  ASSUME NEW S, NEW lists \in Seq(Seq(S))
  PROVE  \E f \in [0 .. Len(lists) -> Seq(S)] :
           Joins(f, lists) /\ FlattenSeq(lists) = f[Len(lists)]
  <1> DEFINE n == Len(lists)
             Upto(m, f) == /\ f \in [0 .. m -> Seq(S)] /\ f[0] = << >>
                           /\ \A k \in 1 .. m : f[k] = f[k - 1] \o lists[k]
             Good == {m \in 0 .. n : \E f : Upto(m, f)}
  <1>1. n \in Nat /\ \A k \in 1 .. n : lists[k] \in Seq(S)
    OBVIOUS
  <1>2. 0 \in Good
    <2>1. Upto(0, [k \in 0 .. 0 |-> << >>])
      OBVIOUS
    <2>2. 0 \in 0 .. n
      BY <1>1
    <2> HIDE DEF Upto
    <2> QED BY <2>1, <2>2
  <1>3. \A m \in 0 .. n : m \in Good /\ m + 1 <= n => m + 1 \in Good
    <2> SUFFICES ASSUME NEW m \in 0 .. n, m \in Good, m + 1 <= n PROVE m + 1 \in Good
      OBVIOUS
    <2>1. PICK f : Upto(m, f)
      OBVIOUS
    <2> DEFINE more == f[m] \o lists[m + 1]
               g == [k \in 0 .. m + 1 |-> IF k = m + 1 THEN more ELSE f[k]]
    <2>2. more \in Seq(S)
      <3>1. f[m] \in Seq(S) /\ lists[m + 1] \in Seq(S)
        BY <1>1, <2>1
      <3> QED BY <3>1, ConcatProperties
    <2> HIDE DEF more
    <2>3. g \in [0 .. m + 1 -> Seq(S)] /\ g[0] = << >>
      BY <2>1, <2>2
    <2>4. \A k \in 1 .. m + 1 : g[k] = g[k - 1] \o lists[k]
      <3> TAKE k \in 1 .. m + 1
      <3>1. CASE k # m + 1
        <4>1. k \in 1 .. m /\ k - 1 \in 0 .. m + 1 /\ k - 1 # m + 1 /\ k \in 0 .. m + 1
          BY <3>1
        <4>2. g[k] = f[k] /\ g[k - 1] = f[k - 1]
          BY <3>1, <4>1
        <4> QED BY <2>1, <4>1, <4>2
      <3>2. CASE k = m + 1
        <4>1. k - 1 = m /\ m \in 0 .. m + 1 /\ m # m + 1 /\ k \in 0 .. m + 1
          BY <3>2
        <4>2. g[k] = more /\ g[m] = f[m]
          BY <3>2, <4>1
        <4> QED BY <3>2, <4>1, <4>2 DEF more
      <3> QED BY <3>1, <3>2
    <2> HIDE DEF g
    <2>5. Upto(m + 1, g)
      BY <2>3, <2>4
    <2>6. m + 1 \in 0 .. n
      BY <1>1
    <2> HIDE DEF Upto
    <2> QED BY <2>5, <2>6
  <1>4. PICK f : Upto(n, f)
    <2>1. n \in 0 .. n
      BY <1>1
    <2> HIDE DEF Good
    <2>2. n \in Good
      BY <1>1, <1>2, <1>3, <2>1, Climb
    <2> QED BY <2>2 DEF Good
  <1>5. FlattenSeq(lists) = f[n]
    <2>1. CASE n = 0
      <3>1. lists = << >>
        BY <2>1, EmptySeq
      <3> QED BY <1>4, <2>1, <3>1 DEF FlattenSeq
    <2>2. CASE n # 0
      <3> DEFINE Body(g) == [i \in 1 .. n |->
                               IF i = 1 THEN lists[i] ELSE g[i - 1] \o lists[i]]
                 flatten == CHOOSE g : g = Body(g)
                 tail == [i \in 1 .. n |-> f[i]]
      <3>1. tail = Body(tail)
        <4>1. \A i \in 1 .. n : tail[i] = IF i = 1 THEN lists[i] ELSE tail[i - 1] \o lists[i]
          <5> TAKE i \in 1 .. n
          <5>1. f[i] = f[i - 1] \o lists[i] /\ lists[i] \in Seq(S)
            BY <1>1, <1>4
          <5>2. CASE i = 1
            <6>1. << >> \o lists[i] = lists[i]
              BY <5>1, ConcatEmptySeq
            <6>2. i - 1 = 0 /\ f[0] = << >>
              BY <1>4, <5>2
            <6>3. f[i] = lists[i]
              BY <5>1, <6>1, <6>2
            <6> QED BY <5>2, <6>3
          <5>3. CASE i # 1
            <6>1. i - 1 \in 1 .. n
              BY <5>3
            <6> QED BY <5>1, <5>3, <6>1
          <5> QED BY <5>2, <5>3
        <4> QED BY <4>1
      <3>2. flatten = Body(flatten)
        <4> HIDE DEF tail
        <4>1. \E g : g = Body(g)
          BY <3>1
        <4> QED BY <4>1
      <3> HIDE DEF flatten
      <3>3. \A i \in 1 .. n : flatten[i] = IF i = 1 THEN lists[i] ELSE flatten[i - 1] \o lists[i]
        BY <3>2
      <3> DEFINE Same == {i \in 1 .. n : flatten[i] = f[i]}
      <3>4. 1 \in Same
        <4>1. 1 \in 1 .. n
          BY <1>1, <2>2
        <4>2. flatten[1] = lists[1] /\ tail[1] = lists[1] /\ tail[1] = f[1]
          BY <3>1, <3>3, <4>1
        <4> QED BY <4>1, <4>2
      <3>5. \A i \in 1 .. n : i \in Same /\ i + 1 <= n => i + 1 \in Same
        <4> TAKE i \in 1 .. n
        <4> HAVE i \in Same /\ i + 1 <= n
        <4>1. i + 1 \in 1 .. n /\ i + 1 # 1 /\ (i + 1) - 1 = i
          BY <1>1
        <4>2. flatten[i + 1] = flatten[i] \o lists[i + 1]
          BY <3>3, <4>1
        <4>3. f[i + 1] = f[i] \o lists[i + 1]
          BY <1>4, <4>1
        <4> QED BY <4>1, <4>2, <4>3
      <3>6. n \in Same
        <4>1. n \in 1 .. n /\ 1 \in Nat
          BY <1>1, <2>2
        <4> HIDE DEF Same
        <4> QED BY <1>1, <3>4, <3>5, <4>1, Climb
      <3>7. FlattenSeq(lists) = flatten[n]
        BY <2>2 DEF FlattenSeq, flatten
      <3> QED BY <3>6, <3>7
    <2> QED BY <2>1, <2>2
  <1> QED BY <1>4, <1>5 DEF Joins
=============================================================================
