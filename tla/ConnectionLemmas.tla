--------------------------- MODULE ConnectionLemmas ---------------------------
(***************************************************************************)
(* Facts about sequence numbers, about the list reasm_insert keeps, about  *)
(* parts of a sequence and about concat, for the proofs about Dispatcher,  *)
(* Reassembly and Modifier.                                                *)
(***************************************************************************)
EXTENDS Connection, DataInduction, FiniteSetTheorems, FunctionTheorems

-----------------------------------------------------------------------------
(* Sequence numbers within half the sequence space *)

LEMMA ModFacts ==
  ASSUME NEW n \in Nat \ {0}
  PROVE  /\ \A x \in 0 .. n - 1 : x % n = x
         /\ \A x \in Int : -n <= x /\ x < 0 => x % n = x + n
         /\ \A x \in n .. 2 * n - 1 : x % n = x - n
         /\ \A x \in Int : x % n \in 0 .. n - 1
  OBVIOUS

(* How far a sequence number is behind base. *)
Offset(base, s) == (s - base) % SeqSpace

LEMMA OffsetFacts ==
  ASSUME NEW base \in SeqNums, NEW s \in SeqNums
  PROVE  /\ Offset(base, s) \in 0 .. SeqSpace - 1
         /\ Offset(base, s) = IF s < base THEN s - base + SeqSpace ELSE s - base
  <1>1. SeqSpace \in Nat \ {0} /\ SeqSpace > 0
    BY SeqSpaceAssumption
  <1>2. s \in 0 .. SeqSpace - 1 /\ base \in 0 .. SeqSpace - 1
    BY DEF SeqNums
  <1>3. CASE s < base
    <2>1. s - base \in Int /\ -SeqSpace <= s - base /\ s - base < 0
      BY <1>1, <1>2, <1>3
    <2>2. (s - base) % SeqSpace = s - base + SeqSpace
      BY <1>1, <2>1, ModFacts
    <2> QED BY <1>1, <1>2, <1>3, <2>2 DEF Offset
  <1>4. CASE ~ (s < base)
    <2>1. s - base \in 0 .. SeqSpace - 1
      BY <1>1, <1>2, <1>4
    <2>2. (s - base) % SeqSpace = s - base
      BY <1>1, <2>1, ModFacts
    <2> QED BY <1>1, <1>2, <1>4, <2>1, <2>2 DEF Offset
  <1> QED BY <1>3, <1>4

LEMMA SeqLTFacts ==
  ASSUME NEW a \in SeqNums, NEW b \in SeqNums
  PROVE  SeqLT(a, b) <=>
           IF a < b THEN 2 * (a - b + SeqSpace) >= SeqSpace
                    ELSE 2 * (a - b) >= SeqSpace
  BY OffsetFacts DEF SeqLT, Offset

(* Within half the sequence space the comparison is the order of offsets.  *)
LEMMA WindowOrder ==
  ASSUME NEW base \in SeqNums, NEW a \in SeqNums, NEW b \in SeqNums,
         2 * Offset(base, a) < SeqSpace, 2 * Offset(base, b) < SeqSpace
  PROVE  /\ SeqLT(a, b) <=> Offset(base, a) < Offset(base, b)
         /\ Offset(base, a) = Offset(base, b) => a = b
  <1>1. SeqSpace \in Nat /\ SeqSpace > 0
    BY SeqSpaceAssumption
  <1>2. a \in 0 .. SeqSpace - 1 /\ b \in 0 .. SeqSpace - 1 /\ base \in 0 .. SeqSpace - 1
    BY DEF SeqNums
  <1>3. /\ Offset(base, a) = IF a < base THEN a - base + SeqSpace ELSE a - base
        /\ Offset(base, b) = IF b < base THEN b - base + SeqSpace ELSE b - base
    BY OffsetFacts
  <1> QED BY <1>1, <1>2, <1>3, SeqLTFacts

-----------------------------------------------------------------------------
(* The list of held segments *)

Rising(segs) ==
  \A i, j \in DOMAIN segs : i < j => SeqLT(segs[i].seq, segs[j].seq)

(* Every byte of segs is less than half the sequence space behind base.    *)
InWindow(base, segs) ==
  \A i \in DOMAIN segs :
    2 * (Offset(base, segs[i].seq) + Len(segs[i].data)) < SeqSpace

(* Two positions of a longer list that are not the last.                   *)
LEMMA NotLast ==
  ASSUME NEW n \in Nat
  PROVE  \A i, j \in 1 .. n + 1 : i < j /\ j # n + 1 => i \in 1 .. n /\ j \in 1 .. n
  OBVIOUS

(* What std::sort makes of a rising list with one more segment behind it:  *)
(* the permutation that puts the segment in its place is ordered, so that  *)
(* the list is ordered at all, and with no number twice it is rising.      *)
LEMMA SortKeepsOrder ==
  ASSUME NEW Seg, \A s \in Seg : s.seq \in SeqNums /\ Len(s.data) \in Nat,
         NEW segs \in Seq(Seg), NEW seg \in Seg, Rising(segs),
         ~IsDuplicate(segs, seg.seq),
         NEW new \in SortOutcomes(Append(segs, seg)),
         NEW base \in SeqNums, InWindow(base, new)
  PROVE  Rising(new)
  <1> DEFINE n == Len(segs)
             D == 1 .. n + 1
             grown == Append(segs, seg)
             off(i) == Offset(base, grown[i].seq)
  <1>1. /\ n \in Nat /\ DOMAIN grown = D /\ DOMAIN segs = 1 .. n
        /\ \A i \in 1 .. n : grown[i] = segs[i]
        /\ grown[n + 1] = seg
        /\ \A i \in D : grown[i] \in Seg
    OBVIOUS
  <1> HIDE DEF grown
  <1>2. new \in Shuffles(grown)
    BY DEF SortOutcomes, grown
  <1>3. PICK g \in Bijection(D, D) : new = [i \in D |-> grown[g[i]]]
    BY <1>1, <1>2 DEF Shuffles
  <1>4. /\ g \in [D -> D]
        /\ \A i, j \in D : g[i] = g[j] => i = j
        /\ \A j \in D : \E i \in D : g[i] = j
    BY <1>3 DEF Bijection, Injection, Surjection, IsInjective
  <1>5. \A i \in D : /\ grown[i].seq \in SeqNums /\ Len(grown[i].data) \in Nat
                     /\ off(i) \in Nat
                     /\ 2 * off(i) < SeqSpace
    <2> TAKE i \in D
    <2>1. PICK k \in D : g[k] = i
      BY <1>4
    <2>2. 2 * (Offset(base, new[k].seq) + Len(new[k].data)) < SeqSpace
      BY <1>3, <2>1 DEF InWindow
    <2>3. new[k] = grown[i]
      BY <1>3, <2>1
    <2>4. grown[i].seq \in SeqNums /\ Len(grown[i].data) \in Nat
      BY <1>1
    <2>5. off(i) \in Nat
      BY <2>4, OffsetFacts, SeqSpaceAssumption
    <2> QED BY <2>2, <2>3, <2>4, <2>5, SeqSpaceAssumption
  <1>6. \A i, j \in D : SeqLT(grown[i].seq, grown[j].seq) <=> off(i) < off(j)
    BY <1>5, WindowOrder
  <1>7. \A i, j \in D : off(i) = off(j) => i = j
    <2> SUFFICES ASSUME NEW i \in D, NEW j \in D, off(i) = off(j), i < j PROVE FALSE
      BY <1>1
    <2>1. grown[i].seq = grown[j].seq
      BY <1>5, WindowOrder
    <2>2. CASE j = n + 1
      <3>1. i \in DOMAIN segs /\ segs[i].seq = seg.seq
        BY <1>1, <2>1, <2>2
      <3> QED BY <3>1 DEF IsDuplicate
    <2>3. CASE j # n + 1
      <3>0. n \in Nat /\ i \in 1 .. n + 1 /\ j \in 1 .. n + 1 /\ i < j
        BY <1>1, Zenon
      <3>1. i \in 1 .. n /\ j \in 1 .. n
        BY <2>3, <3>0, NotLast, Zenon
      <3>2. SeqLT(grown[i].seq, grown[j].seq)
        BY <1>1, <3>1 DEF Rising
      <3>3. off(i) < off(j)
        BY <1>6, <3>2
      <3> QED BY <1>5, <3>3
    <2> QED BY <2>2, <2>3
  <1>8. \A i, j \in 1 .. n : i < j => off(i) < off(j)
    <2> SUFFICES ASSUME NEW i \in 1 .. n, NEW j \in 1 .. n, i < j
                 PROVE  off(i) < off(j)
      OBVIOUS
    <2>1. SeqLT(grown[i].seq, grown[j].seq)
      BY <1>1 DEF Rising
    <2> QED BY <1>1, <1>6, <2>1
  <1> HIDE DEF off
  <1>8a. \A i \in D : off(i) \in Nat
    BY <1>5 DEF off
  (* The place of the new segment. *)
  <1>9. PICK k \in D : /\ off(k) >= off(n + 1)
                       /\ \A i \in D : off(i) >= off(n + 1) => k <= i
    <2> DEFINE K == {i \in D : off(i) >= off(n + 1)}
    <2>1. K \in SUBSET Nat /\ n + 1 \in K
      BY <1>1, <1>5
    <2>2. \E i \in K : \A j \in K : i <= j
      BY <2>1, LeastElement
    <2> QED BY <2>2
  <1> DEFINE f == [i \in D |-> IF i < k THEN i ELSE IF i = k THEN n + 1 ELSE i - 1]
  <1>10. f \in Bijection(D, D)
    <2>1. f \in [D -> D]
      BY <1>1
    <2>2. \A i, j \in D : f[i] = f[j] => i = j
      BY <1>1
    <2>3. ASSUME NEW j \in D PROVE \E i \in D : f[i] = j
      <3>1. CASE j < k
        BY <1>1, <3>1
      <3>2. CASE j = n + 1
        BY <1>1, <3>2
      <3>3. CASE j >= k /\ j # n + 1
        <4>1. j + 1 \in D /\ f[j + 1] = j
          BY <1>1, <3>3
        <4> QED BY <4>1
      <3> QED BY <1>1, <3>1, <3>2, <3>3
    <2> QED BY <2>1, <2>2, <2>3 DEF Bijection, Injection, Surjection, IsInjective
  <1> DEFINE sorted == [i \in D |-> grown[f[i]]]
  <1>11. sorted \in Shuffles(grown)
    BY <1>1, <1>10 DEF Shuffles
  <1>12. \A i, j \in D : i < j => off(f[i]) <= off(f[j])
    <2> SUFFICES ASSUME NEW i \in D, NEW j \in D, i < j
                 PROVE  off(f[i]) <= off(f[j])
      OBVIOUS
    <2>1. \A a \in D : a < k => off(a) < off(n + 1)
      <3> TAKE a \in D
      <3>1. off(a) \in Nat /\ off(n + 1) \in Nat /\ a \in Nat /\ k \in Nat
        BY <1>1, <1>8a
      <3> QED BY <1>9, <3>1
    <2>2. \A a \in 1 .. n : k <= a => off(n + 1) <= off(a)
      <3> SUFFICES ASSUME NEW a \in 1 .. n, k <= a PROVE off(n + 1) <= off(a)
        OBVIOUS
      <3>1. k \in 1 .. n /\ (k = a \/ off(k) < off(a))
        BY <1>1, <1>8
      <3>2. off(k) \in Nat /\ off(a) \in Nat /\ off(n + 1) \in Nat
        BY <1>1, <1>8a
      <3> QED BY <1>9, <3>1, <3>2
    <2>0. \A a, b \in D : /\ 1 .. n \subseteq D
                         /\ off(a) < off(b) => off(a) <= off(b)
      BY <1>1, <1>8a
    <2>3. CASE j < k
      <3>1. f[i] = i /\ f[j] = j /\ i \in 1 .. n /\ j \in 1 .. n
        BY <1>1, <2>3
      <3> QED BY <2>0, <1>8, <3>1
    <2>4. CASE j = k
      <3>1. f[i] = i /\ f[j] = n + 1
        BY <1>1, <2>4
      <3> QED BY <1>1, <1>8a, <2>1, <2>4, <3>1
    <2>5. CASE k < j /\ i < k
      <3>1. f[i] = i /\ f[j] = j - 1 /\ i \in 1 .. n /\ j - 1 \in 1 .. n /\ i < j - 1
        BY <1>1, <2>5
      <3> QED BY <2>0, <1>8, <3>1, SMTT(30)
    <2>6. CASE i = k
      <3>1. f[i] = n + 1 /\ f[j] = j - 1 /\ j - 1 \in 1 .. n /\ k <= j - 1
        BY <1>1, <2>6
      <3> QED BY <2>2, <3>1
    <2>7. CASE k < i
      <3>1. /\ f[i] = i - 1 /\ f[j] = j - 1 /\ i - 1 < j - 1
            /\ i - 1 \in 1 .. n /\ j - 1 \in 1 .. n
        BY <1>1, <2>7
      <3> QED BY <2>0, <1>8, <3>1
    <2> QED BY <1>1, <2>3, <2>4, <2>5, <2>6, <2>7
  <1>13. InSeqOrder(sorted)
    <2> SUFFICES ASSUME NEW i \in D, NEW j \in D, i < j
                 PROVE  ~SeqLT(grown[f[j]].seq, grown[f[i]].seq)
      BY DEF InSeqOrder
    <2>1. f[i] \in D /\ f[j] \in D
      BY <1>10 DEF Bijection, Injection
    <2>2. off(f[i]) <= off(f[j])
      BY <1>12
    <2>3. ~ (off(f[j]) < off(f[i]))
      BY <1>5, <2>1, <2>2
    <2> QED BY <1>6, <2>1, <2>3
  <1>14. InSeqOrder(new)
    <2>1. sorted \in {s \in Shuffles(grown) : InSeqOrder(s)}
      BY <1>11, <1>13
    <2>2. new \in {s \in Shuffles(grown) : InSeqOrder(s)}
      BY <2>1 DEF SortOutcomes, grown
    <2> QED BY <2>2
  <1>15. ASSUME NEW i \in D, NEW j \in D, i < j
         PROVE  SeqLT(new[i].seq, new[j].seq)
    <2>1. ~SeqLT(new[j].seq, new[i].seq)
      BY <1>3, <1>14, <1>15 DEF InSeqOrder
    <2>2. g[i] \in D /\ g[j] \in D /\ g[i] # g[j]
      <3>1. i # j
        BY <1>1, <1>15
      <3> QED BY <1>4, <3>1
    <2>3. ~ (off(g[j]) < off(g[i])) /\ off(g[i]) # off(g[j])
      BY <1>3, <1>6, <1>7, <2>1, <2>2
    <2>4. off(g[i]) < off(g[j])
      BY <1>8a, <2>2, <2>3
    <2> QED BY <1>3, <1>6, <2>2, <2>4
  <1> QED BY <1>3, <1>15 DEF Rising

(* A segment that starts where the last one ends may be appended unsorted. *)
LEMMA AppendKeepsOrder ==
  ASSUME NEW Seg, \A s \in Seg : s.seq \in SeqNums /\ Len(s.data) \in Nat,
         NEW segs \in Seq(Seg), NEW seg \in Seg, Rising(segs), segs # << >>,
         ~IsDuplicate(segs, seg.seq), FollowsLast(segs, seg),
         NEW base \in SeqNums, InWindow(base, Append(segs, seg))
  PROVE  Rising(Append(segs, seg))
  <1> DEFINE n == Len(segs)
             grown == Append(segs, seg)
             last == segs[n]
  <1>1. /\ n \in Nat /\ n > 0 /\ DOMAIN grown = 1 .. n + 1 /\ n \in DOMAIN segs
        /\ \A i \in 1 .. n : grown[i] = segs[i]
        /\ grown[n + 1] = seg
        /\ \A i \in 1 .. n : segs[i] \in Seg
    OBVIOUS
  <1> HIDE DEF grown
  <1>2. /\ last.seq \in SeqNums /\ Len(last.data) \in Nat /\ seg.seq \in SeqNums
        /\ seg.seq = last.seq + Len(last.data)
    BY <1>1 DEF FollowsLast
  <1>3. SeqLT(last.seq, seg.seq)
    <2>1. Offset(base, last.seq) \in Nat
      BY <1>2, OffsetFacts, SeqSpaceAssumption
    <2>2. 2 * (Offset(base, last.seq) + Len(last.data)) < SeqSpace
      <3>1. grown[n] = last /\ n \in DOMAIN grown
        BY <1>1
      <3> QED BY <3>1 DEF InWindow, grown
    <2>3. 2 * Len(last.data) < SeqSpace
      BY <1>2, <2>1, <2>2, SeqSpaceAssumption
    <2>4. seg.seq # last.seq
      BY <1>1 DEF IsDuplicate
    <2>5. last.seq \in Int /\ seg.seq \in Int /\ SeqSpace \in Int
      BY <1>2, SeqSpaceAssumption DEF SeqNums
    <2>6. last.seq < seg.seq /\ 2 * (last.seq - seg.seq + SeqSpace) >= SeqSpace
      BY <1>2, <2>3, <2>4, <2>5
    <2> QED BY <1>2, <2>6, SeqLTFacts
  <1>4. \A i \in 1 .. n + 1 : /\ grown[i].seq \in SeqNums
                              /\ 2 * Offset(base, grown[i].seq) < SeqSpace
    <2> TAKE i \in 1 .. n + 1
    <2>1. grown[i] \in Seg
      BY <1>1
    <2>2. 2 * (Offset(base, grown[i].seq) + Len(grown[i].data)) < SeqSpace
      BY <1>1 DEF InWindow, grown
    <2>3. Offset(base, grown[i].seq) \in Nat /\ Len(grown[i].data) \in Nat
      BY <2>1, OffsetFacts, SeqSpaceAssumption
    <2> QED BY <2>1, <2>2, <2>3, SeqSpaceAssumption
  <1>5. ASSUME NEW i \in 1 .. n PROVE SeqLT(segs[i].seq, seg.seq)
    <2>1. CASE i = n
      BY <1>3, <2>1
    <2>2. CASE i # n
      <3>1. SeqLT(segs[i].seq, last.seq)
        BY <1>1, <2>2 DEF Rising
      <3>2. /\ segs[i].seq \in SeqNums /\ 2 * Offset(base, segs[i].seq) < SeqSpace
            /\ 2 * Offset(base, last.seq) < SeqSpace
            /\ 2 * Offset(base, seg.seq) < SeqSpace
        BY <1>1, <1>4
      <3>3. Offset(base, segs[i].seq) < Offset(base, last.seq)
            /\ Offset(base, last.seq) < Offset(base, seg.seq)
        BY <1>2, <1>3, <3>1, <3>2, WindowOrder
      <3>4. /\ Offset(base, segs[i].seq) \in Int /\ Offset(base, last.seq) \in Int
            /\ Offset(base, seg.seq) \in Int
        BY <1>2, <3>2, OffsetFacts, SeqSpaceAssumption, SMTT(30)
      <3>5. Offset(base, segs[i].seq) < Offset(base, seg.seq)
        BY <3>3, <3>4
      <3> QED BY <1>2, <3>2, <3>5, WindowOrder
    <2> QED BY <2>1, <2>2
  <1>6. ASSUME NEW i \in DOMAIN grown, NEW j \in DOMAIN grown, i < j
        PROVE  SeqLT(grown[i].seq, grown[j].seq)
    <2>1. CASE j = n + 1
      BY <1>1, <1>5, <1>6, <2>1
    <2>2. CASE j # n + 1
      <3>1. n \in Nat /\ i \in 1 .. n + 1 /\ j \in 1 .. n + 1 /\ i < j
        BY <1>1, <1>6, Zenon
      <3>2. i \in 1 .. n /\ j \in 1 .. n
        BY <2>2, <3>1, NotLast, Zenon
      <3>3. grown[i] = segs[i] /\ grown[j] = segs[j] /\ i \in DOMAIN segs /\ j \in DOMAIN segs
        BY <1>1, <3>2
      <3> QED BY <3>1, <3>3, Zenon DEF Rising
    <2> QED BY <2>1, <2>2
  <1> QED BY <1>6 DEF Rising, grown

(* Whatever reasm_insert does with a segment, the list stays rising.       *)
LEMMA InsertKeepsOrder ==
  ASSUME NEW Seg, \A s \in Seg : s.seq \in SeqNums /\ Len(s.data) \in Nat,
         NEW segs \in Seq(Seg), NEW seg \in Seg, Rising(segs),
         NEW new \in InsertOutcomes(segs, seg),
         NEW base \in SeqNums, InWindow(base, new)
  PROVE  Rising(new)
  <1>1. CASE segs = << >>
    <2>1. new = <<seg>>
      BY <1>1 DEF InsertOutcomes
    <2> QED BY <2>1 DEF Rising
  <1>2. CASE segs # << >> /\ IsDuplicate(segs, seg.seq)
    BY <1>2 DEF InsertOutcomes
  <1>3. CASE segs # << >> /\ ~IsDuplicate(segs, seg.seq) /\ FollowsLast(segs, seg)
    <2>1. new = Append(segs, seg)
      BY <1>3 DEF InsertOutcomes
    <2> QED BY <1>3, <2>1, AppendKeepsOrder
  <1>4. CASE segs # << >> /\ ~IsDuplicate(segs, seg.seq) /\ ~FollowsLast(segs, seg)
    <2>1. new \in SortOutcomes(Append(segs, seg))
      BY <1>4 DEF InsertOutcomes
    <2> QED BY <1>4, <2>1, SortKeepsOrder
  <1> QED BY <1>1, <1>2, <1>3, <1>4

(* Nothing gets into the list but what was in it and the new segment.      *)
LEMMA InsertElements ==
  ASSUME NEW Seg, NEW segs \in Seq(Seg), NEW seg \in Seg,
         NEW new \in InsertOutcomes(segs, seg)
  PROVE  new \in Seq(Seg) /\ new # << >>
  <1> DEFINE grown == Append(segs, seg)
  <1>1. grown \in Seq(Seg) /\ Len(grown) = Len(segs) + 1 /\ DOMAIN grown = 1 .. Len(grown)
    OBVIOUS
  <1> HIDE DEF grown
  <1>2. ASSUME new \in Shuffles(grown) PROVE new \in Seq(Seg) /\ new # << >>
    <2>1. PICK f \in Bijection(DOMAIN grown, DOMAIN grown) :
            new = [i \in DOMAIN grown |-> grown[f[i]]]
      BY <1>2 DEF Shuffles
    <2>2. f \in [DOMAIN grown -> DOMAIN grown]
      BY DEF Bijection, Injection
    <2>3. \A i \in 1 .. Len(grown) : grown[f[i]] \in Seg
      BY <1>1, <2>2
    <2>4. new \in Seq(Seg) /\ Len(new) = Len(grown)
      BY <1>1, <2>1, <2>3
    <2>5. Len(grown) > 0
      BY <1>1
    <2>6. new # << >>
      BY <2>4, <2>5
    <2> QED BY <2>4, <2>6
  <1>3. \/ new = <<seg>>
        \/ new = segs /\ segs # << >>
        \/ new = grown
        \/ new \in Shuffles(grown)
    BY DEF InsertOutcomes, SortOutcomes, grown
  <1>4. grown # << >>
    BY <1>1
  <1>5. CASE new = <<seg>>
    BY <1>5
  <1> QED BY <1>1, <1>2, <1>3, <1>4, <1>5

-----------------------------------------------------------------------------
(* concat, loop by loop *)

(* The first loop: a segment that none is before is the lowest, if first.  *)
LEMMA LowestOfRising ==
  ASSUME NEW segs, Len(segs) \in Nat, Len(segs) > 0,
         \A k \in 1 .. Len(segs) : ~SeqLT(segs[k].seq, segs[1].seq)
  PROVE  LowestSeq(segs) = segs[1].seq
  <1> DEFINE n == Len(segs)
             Body(f) == [k \in 1 .. n |->
                           IF k = 1 THEN segs[1].seq
                           ELSE IF SeqLT(segs[k].seq, f[k - 1]) THEN segs[k].seq
                                                               ELSE f[k - 1]]
             lowest == CHOOSE f : f = Body(f)
             flat == [k \in 1 .. n |-> segs[1].seq]
  <1>1. n \in Nat /\ n > 0
    OBVIOUS
  <1>2. \A k \in 1 .. n : ~SeqLT(segs[k].seq, segs[1].seq)
    OBVIOUS
  <1>3. flat = Body(flat)
    BY <1>1, <1>2
  <1>4. lowest = Body(lowest)
    BY <1>3
  <1> HIDE DEF lowest
  <1>5. lowest[1] = segs[1].seq
    BY <1>1, <1>4
  <1>6. \A k \in 1 .. n : k # 1 /\ lowest[k - 1] = segs[1].seq => lowest[k] = segs[1].seq
    BY <1>2, <1>4
  <1>7. \A k \in 1 .. n : lowest[k] = segs[1].seq
    <2> DEFINE Good == {k \in 1 .. n : lowest[k] = segs[1].seq}
    <2>1. 1 \in Good
      BY <1>1, <1>5
    <2>2. \A k \in 1 .. n : k \in Good /\ k + 1 <= n => k + 1 \in Good
      <3> SUFFICES ASSUME NEW k \in 1 .. n, k \in Good, k + 1 <= n PROVE k + 1 \in Good
        OBVIOUS
      <3>1. k + 1 \in 1 .. n /\ k + 1 # 1 /\ (k + 1) - 1 = k
        BY <1>1
      <3>2. lowest[(k + 1) - 1] = segs[1].seq
        BY <3>1
      <3> QED BY <1>6, <3>1, <3>2
    <2>3. \A k \in 1 .. n : k \in Good
      <3> HIDE DEF Good
      <3> QED BY <1>1, <2>1, <2>2, Climb
    <2> QED BY <2>3
  <1>8. LowestSeq(segs) = lowest[n]
    BY DEF LowestSeq, lowest
  <1> QED BY <1>1, <1>7, <1>8

(* The sort: positions in order already stay where they are. *)
LEMMA OrderOfRising ==
  ASSUME NEW n \in Nat, NEW rel \in [1 .. n -> Nat],
         \A i, j \in 1 .. n : i < j => rel[i] <= rel[j]
  PROVE  StableOrder(rel) = [k \in 1 .. n |-> k]
  <1>1. \A i \in 1 .. n : Ahead(rel, i) = 1 .. i - 1
    <2> TAKE i \in 1 .. n
    <2>1. \A j \in 1 .. n : rel[i] \in Nat /\ rel[j] \in Nat
      OBVIOUS
    <2>2. \A j \in 1 .. n : (rel[j] < rel[i] \/ (rel[j] = rel[i] /\ j < i)) <=> j < i
      <3> SUFFICES ASSUME NEW j \in 1 .. n
                   PROVE  (rel[j] < rel[i] \/ (rel[j] = rel[i] /\ j < i)) <=> j < i
        OBVIOUS
      <3>1. j < i => rel[j] <= rel[i]
        OBVIOUS
      <3>2. i < j => rel[i] <= rel[j]
        OBVIOUS
      <3>3. i = j \/ i < j \/ j < i
        OBVIOUS
      <3> QED BY <2>1, <3>1, <3>2, <3>3
    <2> QED BY <2>2 DEF Ahead
  <1>2. \A i \in 1 .. n : Cardinality(Ahead(rel, i)) = i - 1
    BY <1>1, FS_Interval
  <1>3. \A k \in 1 .. n :
          (CHOOSE i \in DOMAIN rel : Cardinality(Ahead(rel, i)) = k - 1) = k
    <2> TAKE k \in 1 .. n
    <2> DEFINE c == CHOOSE i \in DOMAIN rel : Cardinality(Ahead(rel, i)) = k - 1
    <2>1. k \in DOMAIN rel /\ Cardinality(Ahead(rel, k)) = k - 1
      BY <1>2
    <2>2. c \in DOMAIN rel /\ Cardinality(Ahead(rel, c)) = k - 1
      BY <2>1
    <2> HIDE DEF c
    <2>3. c \in 1 .. n /\ c - 1 = k - 1
      BY <1>2, <2>2
    <2>4. c = k
      BY <2>3
    <2> QED BY <2>4 DEF c
  <1>4. DOMAIN rel = 1 .. n
    OBVIOUS
  <1> QED BY <1>3, <1>4 DEF StableOrder

(* The second loop, one segment further at a time. *)
JoinBody(list, rel, order, f) ==
  [k \in 0 .. Len(list) |->
     IF k = 0 THEN << >>
     ELSE Extend(f[k - 1], rel[order[k]], list[order[k]].data)]
Joined(list, rel, order) == CHOOSE f : f = JoinBody(list, rel, order, f)

LEMMA JoinExists ==
  ASSUME NEW list, Len(list) \in Nat, NEW rel, NEW order
  PROVE  Joined(list, rel, order) = JoinBody(list, rel, order, Joined(list, rel, order))
  <1> DEFINE n == Len(list)
             Step(acc, k) == Extend(acc, rel[order[k]], list[order[k]].data)
             Upto(m, f) == f = [k \in 0 .. m |-> IF k = 0 THEN << >> ELSE Step(f[k - 1], k)]
             Good == {m \in 0 .. n : \E f : Upto(m, f)}
  <1> HIDE DEF Step
  <1>1. 0 \in Good
    <2>1. Upto(0, [k \in 0 .. 0 |-> << >>])
      OBVIOUS
    <2>2. 0 \in 0 .. n
      OBVIOUS
    <2> HIDE DEF Upto
    <2> QED BY <2>1, <2>2
  <1>2. \A m \in 0 .. n : m \in Good /\ m + 1 <= n => m + 1 \in Good
    <2> SUFFICES ASSUME NEW m \in 0 .. n, m \in Good, m + 1 <= n PROVE m + 1 \in Good
      OBVIOUS
    <2>1. PICK f : Upto(m, f)
      OBVIOUS
    <2> DEFINE g == [k \in 0 .. m + 1 |-> IF k = m + 1 THEN Step(f[m], m + 1) ELSE f[k]]
    <2>2. \A k \in 0 .. m + 1 : g[k] = IF k = 0 THEN << >> ELSE Step(g[k - 1], k)
      <3> TAKE k \in 0 .. m + 1
      <3>1. CASE k = 0
        BY <2>1, <3>1
      <3>2. CASE k # 0 /\ k # m + 1
        <4>1. k \in 0 .. m /\ k - 1 \in 0 .. m + 1 /\ k - 1 # m + 1
          BY <3>2
        <4>2. g[k] = f[k] /\ g[k - 1] = f[k - 1]
          BY <3>2, <4>1
        <4> QED BY <2>1, <3>2, <4>1, <4>2
      <3>3. CASE k = m + 1
        <4>1. k - 1 = m /\ m \in 0 .. m + 1 /\ m # m + 1 /\ k # 0
          BY <3>3
        <4>2. g[k] = Step(f[m], m + 1) /\ g[m] = f[m]
          BY <3>3, <4>1
        <4> QED BY <3>3, <4>1, <4>2
      <3> QED BY <3>1, <3>2, <3>3
    <2>3. Upto(m + 1, g)
      BY <2>2
    <2>4. m + 1 \in 0 .. n
      OBVIOUS
    <2> HIDE DEF Upto
    <2> QED BY <2>3, <2>4
  <1>3. n \in Good
    <2> HIDE DEF Good
    <2>1. n \in 0 .. n
      OBVIOUS
    <2> QED BY <1>1, <1>2, <2>1, Climb
  <1>4. \E f : f = JoinBody(list, rel, order, f)
    BY <1>3 DEF JoinBody, Step
  <1> QED BY <1>4 DEF Joined

LEMMA JoinIs ==
  ASSUME NEW list, NEW rel, NEW order
  PROVE  Join(list, rel, order) = Joined(list, rel, order)[Len(list)]
  BY DEF Join, Joined, JoinBody

(* A segment that starts where the bytes joined so far end is put behind.  *)
LEMMA ExtendAtEnd ==
  ASSUME NEW S, NEW v \in Seq(S), NEW d \in Seq(S)
  PROVE  Extend(v, Len(v), d) = v \o d
  <1>1. Len(v) \in Nat /\ Len(d) \in Nat
    OBVIOUS
  <1>2. CASE d = << >>
    <2>1. v \o d = v
      BY <1>2, ConcatEmptySeq
    <2>2. Len(d) = 0 /\ Len(v) + Len(d) <= Len(v)
      BY <1>1, <1>2
    <2> QED BY <2>1, <2>2 DEF Extend
  <1>3. CASE d # << >>
    <2>1. Len(d) # 0
      BY <1>3, EmptySeq
    <2>2. ~ (Len(v) > Len(v)) /\ ~ (Len(v) + Len(d) <= Len(v)) /\ Len(v) - Len(v) + 1 = 1
      BY <1>1, <2>1
    <2>3. SubSeq(d, 1, Len(d)) = d
      <3>1. SubSeq(d, 1, Len(d)) = [k \in 1 .. Len(d) |-> d[k]]
        BY <1>1
      <3>2. d = [k \in 1 .. Len(d) |-> d[k]]
        OBVIOUS
      <3> QED BY <3>1, <3>2
    <2> QED BY <2>2, <2>3 DEF Extend
  <1> QED BY <1>2, <1>3

-----------------------------------------------------------------------------
(* Sequence numbers that move *)

LEMMA ModSums ==
  ASSUME NEW n \in Nat \ {0}
  PROVE  /\ \A x \in Int : x \div n \in Int /\ x = (x \div n) * n + (x % n)
         /\ \A q \in Int, r \in 0 .. n - 1 : (q * n + r) % n = r
  OBVIOUS

LEMMA ModTwice ==
  ASSUME NEW n \in Nat \ {0}
  PROVE  \A x \in 0 .. 2 * n - 1 : x % n = IF x < n THEN x ELSE x - n
  OBVIOUS

LEMMA Distributes ==
  ASSUME NEW n \in Nat, NEW p \in Int, NEW q \in Int
  PROVE  p * n \in Int /\ q * n \in Int /\ (p - q) * n = p * n - q * n
  OBVIOUS

LEMMA ModShift ==
  ASSUME NEW n \in Nat \ {0}, NEW x \in Int, NEW k \in Int
  PROVE  (x + k * n) % n = x % n
  <1>1. /\ x \div n \in Int /\ x = (x \div n) * n + (x % n)
        /\ x % n \in 0 .. n - 1
    BY ModSums, ModFacts
  <1> DEFINE q == x \div n
             r == x % n
  <1>2. q \in Int /\ r \in 0 .. n - 1 /\ x = q * n + r
    BY <1>1
  <1> HIDE DEF q, r
  <1>3. q + k \in Int /\ (q + k) * n = q * n + k * n
    BY <1>2
  <1>4. q * n \in Int /\ k * n \in Int
    BY <1>2
  <1>5. x + k * n = (q + k) * n + r
    BY <1>2, <1>3, <1>4
  <1>6. ((q + k) * n + r) % n = r
    BY <1>2, <1>3, ModSums
  <1> QED BY <1>5, <1>6 DEF r

(* A sequence number moved by r bytes is r bytes further behind base.      *)
LEMMA OffsetPlus ==
  ASSUME NEW base \in SeqNums, NEW s \in SeqNums, NEW r \in Nat,
         Offset(base, s) + r < SeqSpace
  PROVE  /\ (s + r) % SeqSpace \in SeqNums
         /\ Offset(base, (s + r) % SeqSpace) = Offset(base, s) + r
  <1>1. SeqSpace \in Nat \ {0} /\ SeqSpace > 0
    BY SeqSpaceAssumption
  <1>2. /\ s \in 0 .. SeqSpace - 1 /\ base \in 0 .. SeqSpace - 1
        /\ Offset(base, s) = IF s < base THEN s - base + SeqSpace ELSE s - base
    BY OffsetFacts DEF SeqNums
  <1>3. s + r \in Nat /\ s + r < 2 * SeqSpace
    BY <1>1, <1>2
  <1>4. PICK u \in 0 .. 2 * SeqSpace - 1 : u = s + r
    BY <1>1, <1>3
  <1>5. u % SeqSpace = IF u < SeqSpace THEN u ELSE u - SeqSpace
    BY <1>1, ModTwice
  <1> DEFINE t == u % SeqSpace
  <1>6. t \in SeqNums
    <2>1. t \in 0 .. SeqSpace - 1
      BY <1>1, <1>5
    <2> QED BY <2>1 DEF SeqNums
  <1>7. Offset(base, t) = IF t < base THEN t - base + SeqSpace ELSE t - base
    BY <1>6, OffsetFacts
  <1>8. t = IF s + r < SeqSpace THEN s + r ELSE s + r - SeqSpace
    <2>1. t = IF u < SeqSpace THEN u ELSE u - SeqSpace
      BY <1>5
    <2> HIDE DEF t
    <2> QED BY <1>1, <1>2, <1>3, <1>4, <2>1
  <1> HIDE DEF t
  <1>9. Offset(base, t) = Offset(base, s) + r
    BY <1>1, <1>2, <1>7, <1>8
  <1>10. t = (s + r) % SeqSpace
    BY <1>4 DEF t
  <1> QED BY <1>6, <1>9, <1>10

(* Moving all by the same amount leaves the offsets.                       *)
LEMMA OffsetShift ==
  ASSUME NEW base \in SeqNums, NEW s \in SeqNums, NEW off \in Int
  PROVE  /\ (base + off) % SeqSpace \in SeqNums /\ (s + off) % SeqSpace \in SeqNums
         /\ Offset((base + off) % SeqSpace, (s + off) % SeqSpace) = Offset(base, s)
  <1> DEFINE n == SeqSpace
             b1 == (base + off) % n
             s1 == (s + off) % n
             p == (base + off) \div n
             q == (s + off) \div n
  <1>1. n \in Nat \ {0}
    BY SeqSpaceAssumption
  <1>2. base \in Int /\ s \in Int
    BY <1>1 DEF SeqNums
  <1> HIDE DEF n
  <1>3. base + off \in Int /\ s + off \in Int
    BY <1>2
  <1>4. /\ b1 \in 0 .. n - 1 /\ s1 \in 0 .. n - 1
    BY <1>1, <1>3, ModFacts
  <1>5. /\ p \in Int /\ base + off = p * n + b1
        /\ q \in Int /\ s + off = q * n + s1
    BY <1>1, <1>3, ModSums
  <1> HIDE DEF b1, s1, p, q
  <1>6. b1 \in Int /\ s1 \in Int /\ s - base \in Int /\ p - q \in Int
    BY <1>1, <1>2, <1>4, <1>5
  <1>7. /\ p * n \in Int /\ q * n \in Int /\ (p - q) * n = p * n - q * n
    BY <1>1, <1>5, Distributes
  <1>8. s1 - b1 = (s - base) + (p - q) * n
    <2> DEFINE x == p * n
               y == q * n
               z == (p - q) * n
    <2>1. /\ x \in Int /\ y \in Int /\ z = x - y /\ base + off = x + b1 /\ s + off = y + s1
      BY <1>5, <1>7
    <2> HIDE DEF x, y, z
    <2>2. s1 - b1 = (s - base) + z
      BY <1>2, <1>6, <2>1
    <2> QED BY <2>2 DEF z
  <1>9. (s1 - b1) % n = (s - base) % n
    <2> DEFINE x == s - base
               k == p - q
    <2>1. x \in Int /\ k \in Int
      BY <1>6
    <2> HIDE DEF x, k
    <2>2. (x + k * n) % n = x % n
      BY <1>1, <2>1, ModShift, Zenon
    <2> QED BY <1>8, <2>2, Zenon DEF x, k
  <1> QED BY <1>4, <1>9 DEF Offset, n, b1, s1, SeqNums

-----------------------------------------------------------------------------
(* Parts of a sequence, and equal parts of a length                        *)

LEMMA RangeWithin ==
  ASSUME NEW s, NEW t, \A y \in DOMAIN s : \E z \in DOMAIN t : s[y] = t[z]
  PROVE  Range(s) \subseteq Range(t)
  BY DEF Range

LEMMA PartOfData ==
  ASSUME NEW s \in Seq(Nat), NEW a \in Int, NEW b \in Int, 1 <= a, b <= Len(s)
  PROVE  SubSeq(s, a, b) \in Seq(Nat) /\ Range(SubSeq(s, a, b)) \subseteq Range(s)
  <1> DEFINE r == SubSeq(s, a, b)
  <1>1. \A k \in a .. b : s[k] \in Nat
    OBVIOUS
  <1>2. r \in Seq(Nat)
    BY <1>1, SubSeqProperties
  <1>3. \A y \in DOMAIN r : \E z \in DOMAIN s : r[y] = s[z]
    <2>1. CASE a <= b
      <3>1. Len(r) = b - a + 1 /\ \A y \in 1 .. b - a + 1 : r[y] = s[a + y - 1]
        BY <1>1, <2>1, SubSeqProperties
      <3>2. DOMAIN r = 1 .. b - a + 1 /\ DOMAIN s = 1 .. Len(s)
        BY <1>2, <3>1
      <3>3. \A y \in 1 .. b - a + 1 : a + y - 1 \in 1 .. Len(s)
        OBVIOUS
      <3> HIDE DEF r
      <3> QED BY <3>1, <3>2, <3>3
    <2>2. CASE ~ (a <= b)
      <3>1. Len(r) = 0
        BY <1>1, <2>2, SubSeqProperties
      <3>2. DOMAIN r = {}
        BY <1>2, <3>1
      <3> QED BY <3>2
    <2> QED BY <2>1, <2>2
  <1> QED BY <1>2, <1>3, RangeWithin

LEMMA Slice ==
  ASSUME NEW s \in Seq(Nat), NEW a \in Nat, NEW b \in Nat, a <= b, b <= Len(s)
  PROVE  /\ SubSeq(s, a + 1, b) \in Seq(Nat) /\ Len(SubSeq(s, a + 1, b)) = b - a
         /\ \A y \in 1 .. b - a : SubSeq(s, a + 1, b)[y] = s[a + y]
  <1>1. \A i \in a + 1 .. b : s[i] \in Nat
    OBVIOUS
  <1>2. CASE a < b
    <2>1. a + 1 \in Int /\ b \in Int /\ a + 1 <= b
      BY <1>2
    <2>2. /\ SubSeq(s, a + 1, b) \in Seq(Nat) /\ Len(SubSeq(s, a + 1, b)) = b - (a + 1) + 1
          /\ \A k \in 1 .. b - (a + 1) + 1 : SubSeq(s, a + 1, b)[k] = s[(a + 1) + k - 1]
      BY <1>1, <2>1, SubSeqProperties
    <2>3. b - (a + 1) + 1 = b - a /\ \A k \in Int : (a + 1) + k - 1 = a + k
      OBVIOUS
    <2> QED BY <2>2, <2>3
  <1>3. CASE ~ (a < b)
    <2>1. b < a + 1 /\ a + 1 \in Int /\ b \in Int /\ b - a = 0
      BY <1>3
    <2>2. SubSeq(s, a + 1, b) \in Seq(Nat) /\ Len(SubSeq(s, a + 1, b)) = 0
      BY <1>1, <2>1, SubSeqProperties
    <2>3. 1 .. 0 = {}
      OBVIOUS
    <2> QED BY <2>1, <2>2, <2>3
  <1> QED BY <1>2, <1>3

LEMMA DivFacts ==
  ASSUME NEW b \in Nat \ {0}
  PROVE  \A a \in Nat : a \div b \in Nat /\ (a >= b => a \div b >= 1)
  OBVIOUS

(* Segments of size bytes cover what they are cut from. *)
LEMMA SegmentsCover ==
  ASSUME NEW l \in Nat, NEW size \in Nat \ {0}
  PROVE  LET m == (l + size - 1) \div size
         IN  /\ m \in Nat
             /\ \A k \in 1 .. m : (k - 1) * size \in Nat /\ k * size \in Nat
                                  /\ (k - 1) * size <= l /\ (k - 1) * size <= k * size
             /\ \A z \in 1 .. l : \E k \in 1 .. m : (k - 1) * size < z /\ z <= k * size
  <1> DEFINE t == l + size - 1
             m == t \div size
  <1>1. t \in Nat /\ size \in Int
    OBVIOUS
  <1>2. m \in Nat /\ t = m * size + (t % size) /\ t % size \in 0 .. size - 1
    <2> HIDE DEF t
    <2>1. m \in Nat
      BY <1>1, DivFacts
    <2> QED BY <1>1, <2>1, ModSums, ModFacts
  <1> DEFINE r == t % size
  <1>3. r \in 0 .. size - 1 /\ t = m * size + r
    BY <1>2
  <1> HIDE DEF m, r, t
  <1>4. \A x \in Int : x * size \in Int /\ (x - 1) * size = x * size - size
    BY <1>1
  <1>5. \A x \in Nat : x * size \in Nat
    BY <1>1
  <1>6. \A x, y \in Int : x <= y => x * size <= y * size
    <2> TAKE x, y \in Int
    <2>1. (y - x) * size = y * size - x * size /\ x * size \in Int /\ y * size \in Int
      BY <1>1, Distributes
    <2>2. x <= y => y - x \in Nat
      OBVIOUS
    <2>3. x <= y => (y - x) * size \in Nat
      BY <1>5, <2>2
    <2> HIDE DEF r
    <2> QED BY <2>1, <2>3
  <1>7. \A k \in 1 .. m : /\ (k - 1) * size \in Nat /\ k * size \in Nat
                          /\ (k - 1) * size <= l /\ (k - 1) * size <= k * size
    <2> TAKE k \in 1 .. m
    <2>1. k \in Int /\ m \in Int /\ k <= m /\ k \in Nat /\ k - 1 \in Nat
      BY <1>2
    <2>2. (k - 1) * size \in Nat /\ k * size \in Nat
      BY <1>5, <2>1
    <2>3. (k - 1) * size = k * size - size /\ k * size <= m * size /\ m * size \in Int
      BY <1>4, <1>6, <2>1
    <2> DEFINE a == (k - 1) * size
               b == k * size
               c == m * size
    <2>4. a = b - size /\ b <= c /\ c \in Int /\ a \in Nat /\ b \in Nat /\ t = c + r
      BY <1>3, <2>2, <2>3
    <2>5. t = l + size - 1
      BY DEF t
    <2> HIDE DEF a, b, c
    <2>6. a <= l /\ a <= b
      BY <1>3, <2>4, <2>5
    <2> QED BY <2>2, <2>6 DEF a, b
  <1>8. \A z \in 1 .. l : \E k \in 1 .. m : (k - 1) * size < z /\ z <= k * size
    <2> TAKE z \in 1 .. l
    <2> DEFINE v == z - 1
               q == v \div size
               s == v % size
    <2>1. v \in Nat
      OBVIOUS
    <2>2. q \in Nat /\ v = q * size + s /\ s \in 0 .. size - 1
      <3> HIDE DEF v
      <3>1. q \in Nat /\ v \in Int
        BY <2>1, DivFacts
      <3>2. \A x \in Int : x = (x \div size) * size + (x % size) /\ x % size \in 0 .. size - 1
        BY ModSums, ModFacts
      <3> QED BY <3>1, <3>2, Zenon
    <2> HIDE DEF q, s
    <2>3. q < m
      <3> SUFFICES ASSUME ~ (q < m) PROVE FALSE
        OBVIOUS
      <3>1. m <= q /\ m \in Int /\ q \in Int
        BY <1>2, <2>2
      <3>2. m * size <= q * size /\ m * size \in Int /\ q * size \in Int
        BY <1>4, <1>6, <3>1
      <3> DEFINE a == m * size
                 b == q * size
      <3>3. a <= b /\ a \in Int /\ b \in Int /\ t = a + r /\ z - 1 = b + s
        BY <1>3, <2>2, <3>2
      <3>4. t = l + size - 1
        BY DEF t
      <3> HIDE DEF a, b
      <3> QED BY <1>3, <2>2, <3>3, <3>4
    <2> DEFINE k == q + 1
    <2>4. k \in 1 .. m /\ k - 1 = q
      BY <1>2, <2>2, <2>3
    <2>5. (k - 1) * size < z /\ z <= k * size
      <3>1. k \in Int /\ k * size \in Int /\ (k - 1) * size = k * size - size
        BY <1>4, <2>4
      <3> DEFINE a == (k - 1) * size
                 b == k * size
      <3>2. a = b - size /\ b \in Int /\ z - 1 = a + s
        BY <2>2, <2>4, <3>1
      <3> HIDE DEF a, b, k
      <3>3. a < z /\ z <= b
        BY <2>2, <3>2
      <3> QED BY <3>3 DEF a, b
    <2> HIDE DEF k
    <2> QED BY <2>4, <2>5
  <1> QED BY <1>2, <1>7, <1>8 DEF m, t

-----------------------------------------------------------------------------
(* What is joined comes from the segments                                  *)

(* What comes before each element of a finite set, in some order: they are *)
(* ranked from 0 on, and each rank is taken.                               *)
LEMMA RanksTaken ==
  ASSUME NEW S, IsFiniteSet(S), NEW A \in [S -> SUBSET S],
         \A i \in S : i \notin A[i],
         \A i, j \in S : i = j \/ i \in A[j] \/ j \in A[i],
         \A i, j \in S : i \in A[j] => A[i] \subseteq A[j]
  PROVE  \A r \in 0 .. Cardinality(S) - 1 : \E i \in S : Cardinality(A[i]) = r
  <1> DEFINE N == Cardinality(S)
             rank == [i \in S |-> Cardinality(A[i])]
  <1>1. N \in Nat
    BY FS_CardinalityType
  <1>2. \A i \in S : /\ IsFiniteSet(A[i]) /\ Cardinality(A[i]) \in Nat
                     /\ Cardinality(A[i]) < N
    <2> TAKE i \in S
    <2>1. A[i] \in SUBSET S /\ A[i] # S
      OBVIOUS
    <2>2. IsFiniteSet(A[i]) /\ Cardinality(A[i]) <= N /\ Cardinality(A[i]) # N
      BY <2>1, FS_Subset
    <2>3. Cardinality(A[i]) \in Nat
      BY <2>2, FS_CardinalityType
    <2> HIDE DEF N
    <2> QED BY <1>1, <2>2, <2>3
  <1>3. \A i, j \in S : i \in A[j] => Cardinality(A[i]) < Cardinality(A[j])
    <2> SUFFICES ASSUME NEW i \in S, NEW j \in S, i \in A[j]
                 PROVE  Cardinality(A[i]) < Cardinality(A[j])
      OBVIOUS
    <2>1. A[i] \in SUBSET A[j] /\ A[i] # A[j]
      OBVIOUS
    <2>2. Cardinality(A[i]) <= Cardinality(A[j]) /\ Cardinality(A[i]) # Cardinality(A[j])
      BY <1>2, <2>1, FS_Subset
    <2> QED BY <1>2, <2>2
  <1>4. rank \in Injection(S, 0 .. N - 1)
    <2>1. rank \in [S -> 0 .. N - 1]
      <3>1. \A i \in S : Cardinality(A[i]) \in 0 .. N - 1
        <4> HIDE DEF N
        <4> QED BY <1>1, <1>2
      <3> QED BY <3>1
    <2>2. \A i, j \in S : rank[i] = rank[j] => i = j
      <3> SUFFICES ASSUME NEW i \in S, NEW j \in S, rank[i] = rank[j], i # j
                   PROVE  FALSE
        OBVIOUS
      <3>1. i \in A[j] \/ j \in A[i]
        OBVIOUS
      <3>2. Cardinality(A[i]) = Cardinality(A[j])
        OBVIOUS
      <3> QED BY <1>2, <1>3, <3>1, <3>2
    <2> QED BY <2>1, <2>2, Fun_IsInj
  <1>5. rank \in Surjection(S, 0 .. N - 1)
    <2>1. IsFiniteSet(0 .. N - 1) /\ Cardinality(0 .. N - 1) = N
      <3> HIDE DEF N
      <3>1. /\ IsFiniteSet(0 .. N - 1)
            /\ Cardinality(0 .. N - 1) = IF 0 > N - 1 THEN 0 ELSE (N - 1) - 0 + 1
        <4>1. 0 \in Int /\ N - 1 \in Int
          BY <1>1
        <4> QED BY <4>1, FS_Interval
      <3> QED BY <1>1, <3>1
    <2> HIDE DEF rank
    <2> QED BY <1>4, <2>1, FS_Injection
  <1>6. ASSUME NEW r \in 0 .. N - 1 PROVE \E i \in S : Cardinality(A[i]) = r
    <2>1. \E i \in S : rank[i] = r
      <3> HIDE DEF rank, N
      <3> QED BY <1>5 DEF Surjection
    <2> QED BY <2>1
  <1> QED BY <1>6

(* Joining a segment adds bytes of that segment only.                      *)
LEMMA ExtendReaches ==
  ASSUME NEW acc \in Seq(Nat), NEW r \in Nat, NEW data \in Seq(Nat)
  PROVE  /\ Extend(acc, r, data) \in Seq(Nat)
         /\ \A x \in 1 .. Len(Extend(acc, r, data)) :
              x <= Len(acc) \/ (r < x /\ x <= r + Len(data))
  <1> DEFINE a == Len(acc)
             d == Len(data)
  <1>1. a \in Nat /\ d \in Nat
    OBVIOUS
  <1>2. CASE r > a \/ r + d <= a
    BY <1>1, <1>2 DEF Extend
  <1>3. CASE ~ (r > a \/ r + d <= a)
    <2> DEFINE more == SubSeq(data, a - r + 1, d)
    <2>1. a - r + 1 \in 1 .. d
      BY <1>1, <1>3
    <2>2. more \in Seq(Nat) /\ Len(more) = d - (a - r)
      BY <1>1, <2>1
    <2>3. Extend(acc, r, data) = acc \o more
      BY <1>3 DEF Extend
    <2> HIDE DEF more
    <2>4. acc \o more \in Seq(Nat) /\ Len(acc \o more) = a + (d - (a - r))
      BY <2>2
    <2>5. a + (d - (a - r)) = r + d
      BY <1>1
    <2> HIDE DEF a, d
    <2>6. \A x \in 1 .. r + d : x <= a \/ (r < x /\ x <= r + d)
      BY <1>1, <1>3
    <2> QED BY <2>3, <2>4, <2>5, <2>6 DEF a, d
  <1> QED BY <1>2, <1>3

(* Each place of a sort is taken by one of what is sorted.                 *)
LEMMA StableOrderTakes ==
  ASSUME NEW n \in Nat, NEW rel \in [1 .. n -> Nat]
  PROVE  \A k \in 1 .. n : StableOrder(rel)[k] \in 1 .. n
  <1> DEFINE S == 1 .. n
             A == [i \in S |-> Ahead(rel, i)]
  <1>1. DOMAIN rel = S /\ \A i \in S : rel[i] \in Nat
    OBVIOUS
  <1>2. IsFiniteSet(S) /\ Cardinality(S) = n
    BY FS_Interval
  <1>3. \A i, j \in S : i \in Ahead(rel, j) <=> rel[i] < rel[j] \/ (rel[i] = rel[j] /\ i < j)
    BY <1>1 DEF Ahead
  <1>4. /\ A \in [S -> SUBSET S]
        /\ \A i \in S : i \notin A[i]
        /\ \A i, j \in S : i = j \/ i \in A[j] \/ j \in A[i]
        /\ \A i, j \in S : i \in A[j] => A[i] \subseteq A[j]
    <2>1. A \in [S -> SUBSET S]
      BY <1>1 DEF Ahead
    <2>2. \A i \in S : i \notin A[i]
      BY <1>1, <1>3
    <2>3. \A i, j \in S : i = j \/ i \in A[j] \/ j \in A[i]
      BY <1>1, <1>3
    <2>4. ASSUME NEW i \in S, NEW j \in S, i \in A[j], NEW k \in A[i] PROVE k \in A[j]
      <3>1. k \in S /\ k \in Ahead(rel, i) /\ i \in Ahead(rel, j)
        BY <2>1, <2>4
      <3>2. k \in Ahead(rel, j)
        BY <1>1, <1>3, <3>1
      <3> QED BY <3>2
    <2> QED BY <2>1, <2>2, <2>3, <2>4
  <1>5. \A r \in 0 .. n - 1 : \E i \in S : Cardinality(A[i]) = r
    <2> HIDE DEF S, A
    <2> QED BY <1>2, <1>4, RanksTaken
  <1>6. ASSUME NEW k \in 1 .. n PROVE StableOrder(rel)[k] \in 1 .. n
    <2>1. k - 1 \in 0 .. n - 1
      OBVIOUS
    <2>2. \E i \in S : Cardinality(Ahead(rel, i)) = k - 1
      BY <1>5, <2>1
    <2>3. StableOrder(rel)[k] = CHOOSE i \in S : Cardinality(Ahead(rel, i)) = k - 1
      BY <1>1 DEF StableOrder
    <2> QED BY <2>2, <2>3
  <1> QED BY <1>6

(* Each joined byte is one of a segment, at its place.                     *)
LEMMA JoinReaches ==
  ASSUME NEW segs, NEW n \in Nat, Len(segs) = n,
         \A i \in 1 .. n : segs[i].data \in Seq(Nat), NEW rel \in [1 .. n -> Nat]
  PROVE  LET all == Join(segs, rel, StableOrder(rel))
         IN  /\ all \in Seq(Nat)
             /\ \A x \in 1 .. Len(all) : \E i \in 1 .. n :
                  rel[i] < x /\ x <= rel[i] + Len(segs[i].data)
  <1> DEFINE order == StableOrder(rel)
             J == Joined(segs, rel, order)
             Within(v) == /\ v \in Seq(Nat)
                          /\ \A x \in 1 .. Len(v) : \E i \in 1 .. n :
                               rel[i] < x /\ x <= rel[i] + Len(segs[i].data)
             Good == {k \in 0 .. n : Within(J[k])}
  <1>1. J = JoinBody(segs, rel, order, J)
    BY JoinExists
  <1>2. \A k \in 1 .. n : order[k] \in 1 .. n
    BY StableOrderTakes
  <1> HIDE DEF J, order
  <1>3. 0 \in Good
    <2>1. J[0] = << >> /\ 0 \in 0 .. n
      BY <1>1 DEF JoinBody
    <2>2. << >> \in Seq(Nat) /\ 1 .. Len(<< >>) = {}
      OBVIOUS
    <2> QED BY <2>1, <2>2
  <1>4. ASSUME NEW k \in 0 .. n, k \in Good, k + 1 <= n PROVE k + 1 \in Good
    <2> DEFINE v == J[k]
               i == order[k + 1]
               w == Extend(v, rel[i], segs[i].data)
    <2>1. k + 1 \in 0 .. n /\ k + 1 \in 1 .. n /\ k + 1 # 0 /\ (k + 1) - 1 = k
      BY <1>4
    <2>2. J[k + 1] = w
      <3>1. J[k + 1] = Extend(J[(k + 1) - 1], rel[order[k + 1]], segs[order[k + 1]].data)
        BY <1>1, <2>1 DEF JoinBody
      <3> QED BY <2>1, <3>1
    <2>3. i \in 1 .. n /\ rel[i] \in Nat /\ segs[i].data \in Seq(Nat)
      BY <1>2, <2>1
    <2>4. Within(v)
      BY <1>4
    <2> HIDE DEF v, i
    <2>5. /\ w \in Seq(Nat)
          /\ \A x \in 1 .. Len(w) :
               x <= Len(v) \/ (rel[i] < x /\ x <= rel[i] + Len(segs[i].data))
      BY <2>3, <2>4, ExtendReaches
    <2> HIDE DEF w
    <2>6. Within(w)
      <3>1. Len(v) \in Nat /\ Len(w) \in Nat
        BY <2>4, <2>5
      <3>2. \A x \in 1 .. Len(w) : x <= Len(v) => x \in 1 .. Len(v)
        BY <3>1
      <3> QED BY <2>3, <2>4, <2>5, <3>2
    <2> HIDE DEF Within
    <2> QED BY <2>1, <2>2, <2>6
  <1>5. n \in Good
    <2>1. \A k \in 0 .. n : k \in Good /\ k + 1 <= n => k + 1 \in Good
      BY <1>4
    <2>2. n \in 0 .. n /\ 0 \in Nat
      OBVIOUS
    <2> HIDE DEF Good
    <2> QED BY <1>3, <2>1, <2>2, Climb
  <1>6. Join(segs, rel, order) = J[n]
    BY JoinIs DEF J
  <1> QED BY <1>5, <1>6 DEF order

-----------------------------------------------------------------------------
(* Segments that follow one another                                        *)

Start1(segs, i) == Offset(segs[1].seq, segs[i].seq)

LEMMA TilesOffsets ==
  ASSUME NEW Seg, NEW segs \in Seq(Seg), segs # << >>,
         \A s \in Seg : s.seq \in SeqNums /\ Len(s.data) \in Nat,
         Follows(segs), InWindow(segs[1].seq, segs)
  PROVE  /\ Start1(segs, 1) = 0
         /\ \A i \in 1 .. Len(segs) :
              /\ Start1(segs, i) \in Nat
              /\ 2 * (Start1(segs, i) + Len(segs[i].data)) < SeqSpace
         /\ \A i \in 1 .. Len(segs) - 1 :
              Start1(segs, i + 1) = Start1(segs, i) + Len(segs[i].data)
         /\ \A i, j \in 1 .. Len(segs) :
              i < j => Start1(segs, i) + Len(segs[i].data) <= Start1(segs, j)
  <1> DEFINE n == Len(segs)
             o(i) == Start1(segs, i)
             d(i) == Len(segs[i].data)
  <1>1. /\ n \in Nat /\ n >= 1 /\ DOMAIN segs = 1 .. n
        /\ \A i \in 1 .. n : segs[i].seq \in SeqNums /\ d(i) \in Nat
    <2>1. n \in Nat /\ n # 0 /\ DOMAIN segs = 1 .. n
      BY EmptySeq
    <2> QED BY <2>1
  <1>2. SeqSpace \in Nat /\ SeqSpace > 1
    BY SeqSpaceAssumption
  <1>3. \A i \in 1 .. n : o(i) \in 0 .. SeqSpace - 1
    <2>1. 1 \in 1 .. n
      BY <1>1
    <2> QED BY <1>1, <2>1, OffsetFacts DEF Start1
  <1>4. o(1) = 0
    <2>1. \A a \in SeqNums : Offset(a, a) = 0
      <3> TAKE a \in SeqNums
      <3>1. a \in Int
        BY <1>2 DEF SeqNums
      <3> QED BY <3>1, OffsetFacts
    <2>2. segs[1].seq \in SeqNums
      BY <1>1
    <2> QED BY <2>1, <2>2 DEF Start1
  <1>5. \A i \in 1 .. n : 2 * (o(i) + d(i)) < SeqSpace
    BY <1>1 DEF InWindow, Start1
  <1>6. \A i \in 1 .. n - 1 : o(i + 1) = o(i) + d(i)
    <2> TAKE i \in 1 .. n - 1
    <2>1. i \in 1 .. n /\ i + 1 \in 1 .. n /\ 1 \in 1 .. n
      BY <1>1
    <2>2. o(i) \in Nat /\ d(i) \in Nat
      BY <1>1, <1>3, <2>1
    <2>3. o(i) + d(i) < SeqSpace
      <3>1. 2 * (o(i) + d(i)) < SeqSpace
        BY <1>5, <2>1
      <3> HIDE DEF o, d
      <3> QED BY <1>2, <2>2, <3>1
    <2>4. segs[i + 1].seq = (segs[i].seq + d(i)) % SeqSpace
      BY DEF Follows
    <2>5. Offset(segs[1].seq, (segs[i].seq + d(i)) % SeqSpace) = o(i) + d(i)
      <3>1. segs[1].seq \in SeqNums /\ segs[i].seq \in SeqNums
        BY <1>1, <2>1
      <3> QED BY <2>2, <2>3, <3>1, OffsetPlus DEF Start1
    <2> QED BY <2>4, <2>5 DEF Start1
  <1> HIDE DEF o, d
  <1>7. \A i, j \in 1 .. n : i < j => o(i) + d(i) <= o(j)
    <2> SUFFICES ASSUME NEW i \in 1 .. n, NEW k \in 1 .. n, i < k
                 PROVE  o(i) + d(i) <= o(k)
      OBVIOUS
    <2> DEFINE Good == {j \in i + 1 .. n : o(i) + d(i) <= o(j)}
    <2>0. i \in Nat /\ i + 1 \in Nat /\ k \in i + 1 .. n /\ i + 1 \in i + 1 .. n /\ i \in 1 .. n - 1
      BY <1>1
    <2>1. o(i) \in Int /\ d(i) \in Int
      BY <1>1, <1>3 DEF d
    <2>2. i + 1 \in Good
      <3>1. o(i + 1) = o(i) + d(i)
        BY <1>6, <2>0
      <3> QED BY <2>0, <2>1, <3>1
    <2>3. \A j \in i + 1 .. n : j \in Good /\ j + 1 <= n => j + 1 \in Good
      <3> SUFFICES ASSUME NEW j \in i + 1 .. n, j \in Good, j + 1 <= n PROVE j + 1 \in Good
        OBVIOUS
      <3>1. j \in 1 .. n - 1 /\ j + 1 \in i + 1 .. n /\ j \in 1 .. n
        BY <1>1, <2>0
      <3>2. o(j + 1) = o(j) + d(j) /\ o(j) \in Int /\ d(j) \in Nat
        BY <1>1, <1>3, <1>6, <3>1 DEF d
      <3>3. o(i) + d(i) <= o(j + 1)
        BY <2>1, <3>2
      <3> QED BY <3>1, <3>3
    <2> HIDE DEF Good
    <2>4. k \in Good
      BY <1>1, <2>0, <2>2, <2>3, Climb
    <2> QED BY <2>4 DEF Good
  <1> QED BY <1>3, <1>4, <1>5, <1>6, <1>7 DEF o, d

(* concat joins them end to end. *)
LEMMA ConcatOfTiles ==
  ASSUME NEW S, NEW Seg, NEW segs \in Seq(Seg), segs # << >>,
         \A s \in Seg : s.seq \in SeqNums /\ s.data \in Seq(S),
         Follows(segs), InWindow(segs[1].seq, segs)
  PROVE  /\ Concat(segs) \in Seq(S) /\ 2 * Len(Concat(segs)) < SeqSpace
         /\ \A i \in 1 .. Len(segs) :
              /\ Start1(segs, i) + Len(segs[i].data) <= Len(Concat(segs))
              /\ \A y \in 1 .. Len(segs[i].data) :
                   segs[i].data[y] = Concat(segs)[Start1(segs, i) + y]
         /\ \A x \in 1 .. Len(Concat(segs)) : \E i \in 1 .. Len(segs) :
              Start1(segs, i) < x /\ x <= Start1(segs, i) + Len(segs[i].data)
  <1> DEFINE n == Len(segs)
             o(i) == Start1(segs, i)
             d(i) == Len(segs[i].data)
  <1>1. /\ n \in Nat /\ n >= 1 /\ DOMAIN segs = 1 .. n
        /\ \A i \in 1 .. n : segs[i].seq \in SeqNums /\ segs[i].data \in Seq(S) /\ d(i) \in Nat
    <2>1. n \in Nat /\ n # 0 /\ DOMAIN segs = 1 .. n
      BY EmptySeq
    <2> QED BY <2>1
  <1>2. SeqSpace \in Nat /\ SeqSpace > 1
    BY SeqSpaceAssumption
  <1>3. /\ o(1) = 0
        /\ \A i \in 1 .. n : o(i) \in Nat /\ 2 * (o(i) + d(i)) < SeqSpace
        /\ \A i \in 1 .. n - 1 : o(i + 1) = o(i) + d(i)
        /\ \A i, j \in 1 .. n : i < j => o(i) + d(i) <= o(j)
    <2>1. \A s \in Seg : s.seq \in SeqNums /\ Len(s.data) \in Nat
      OBVIOUS
    <2> QED BY <2>1, TilesOffsets
  <1> HIDE DEF o, d
  <1> DEFINE rel == [i \in 1 .. n |-> o(i)]
             order == [k \in 1 .. n |-> k]
             J == Joined(segs, rel, order)
  <1>4. LowestSeq(segs) = segs[1].seq
    <2>1. \A k \in 1 .. n : ~SeqLT(segs[k].seq, segs[1].seq)
      <3> TAKE k \in 1 .. n
      <3>1. 1 \in 1 .. n
        BY <1>1
      <3>2. /\ segs[1].seq \in SeqNums /\ segs[k].seq \in SeqNums
            /\ Offset(segs[1].seq, segs[1].seq) = o(1)
            /\ Offset(segs[1].seq, segs[k].seq) = o(k)
        BY <1>1, <3>1 DEF o, Start1
      <3>3. 2 * o(1) < SeqSpace /\ 2 * o(k) < SeqSpace /\ ~ (o(k) < o(1))
        <4>1. o(k) \in Nat /\ d(k) \in Nat /\ 2 * (o(k) + d(k)) < SeqSpace /\ o(1) = 0
          BY <1>1, <1>3 DEF d
        <4> QED BY <1>2, <4>1
      <3> QED BY <3>2, <3>3, WindowOrder
    <2> QED BY <1>1, <2>1, LowestOfRising
  <1>5. StableOrder(rel) = order
    <2>1. rel \in [1 .. n -> Nat] /\ \A i \in 1 .. n : rel[i] = o(i)
      BY <1>3
    <2>2. \A i, j \in 1 .. n : i < j => o(i) <= o(j)
      <3> TAKE i, j \in 1 .. n
      <3> HAVE i < j
      <3>1. o(i) + d(i) <= o(j) /\ o(i) \in Nat /\ o(j) \in Nat /\ d(i) \in Nat
        BY <1>1, <1>3 DEF d
      <3> QED BY <3>1
    <2>3. \A i, j \in 1 .. n : i < j => rel[i] <= rel[j]
      BY <2>1, <2>2
    <2> HIDE DEF rel
    <2> QED BY <1>1, <2>1, <2>3, OrderOfRising
  <1>6. Concat(segs) = J[n]
    <2>1. rel = [i \in DOMAIN segs |-> (segs[i].seq - LowestSeq(segs)) % SeqSpace]
      BY <1>1, <1>4 DEF o, Start1, Offset
    <2>2. Concat(segs) = Join(segs, rel, StableOrder(rel))
      BY <2>1 DEF Concat
    <2> HIDE DEF rel, order
    <2> QED BY <1>5, <2>2, JoinIs
  <1>7. J = JoinBody(segs, rel, order, J)
    <2> HIDE DEF rel, order
    <2> QED BY <1>1, JoinExists
  <1> HIDE DEF J
  <1>8. J[0] = << >>
    BY <1>1, <1>7 DEF JoinBody
  <1>9. \A k \in 0 .. n : k + 1 <= n => J[k + 1] = Extend(J[k], o(k + 1), segs[k + 1].data)
    <2> SUFFICES ASSUME NEW k \in 0 .. n, k + 1 <= n
                 PROVE  J[k + 1] = Extend(J[k], o(k + 1), segs[k + 1].data)
      OBVIOUS
    <2>1. k + 1 \in 0 .. n /\ k + 1 # 0 /\ (k + 1) - 1 = k /\ k + 1 \in 1 .. n
      BY <1>1
    <2>2. order[k + 1] = k + 1 /\ rel[k + 1] = o(k + 1)
      BY <2>1
    <2> HIDE DEF rel, order
    <2>3. J[k + 1] = Extend(J[(k + 1) - 1], rel[order[k + 1]], segs[order[k + 1]].data)
      BY <1>7, <2>1 DEF JoinBody
    <2> QED BY <2>1, <2>2, <2>3
  <1> HIDE DEF rel, order
  <1> DEFINE end(k) == IF k = 0 THEN 0 ELSE o(k) + d(k)
             Laid(k) == /\ J[k] \in Seq(S) /\ Len(J[k]) = end(k)
                        /\ \A i \in 1 .. k : /\ o(i) + d(i) <= end(k)
                                             /\ \A y \in 1 .. d(i) :
                                                  segs[i].data[y] = J[k][o(i) + y]
                        /\ \A x \in 1 .. end(k) : \E i \in 1 .. k :
                             o(i) < x /\ x <= o(i) + d(i)
             Good == {k \in 0 .. n : Laid(k)}
  <1>10. 0 \in Good
    <2>1. 0 \in 0 .. n /\ 1 .. 0 = {}
      BY <1>1
    <2>2. J[0] \in Seq(S) /\ Len(J[0]) = 0 /\ end(0) = 0
      BY <1>8
    <2> HIDE DEF end
    <2>3. Laid(0)
      BY <2>1, <2>2
    <2> HIDE DEF Laid
    <2> QED BY <2>1, <2>3
  <1>11. \A k \in 0 .. n : k \in Good /\ k + 1 <= n => k + 1 \in Good
    <2> SUFFICES ASSUME NEW k \in 0 .. n, k \in Good, k + 1 <= n PROVE k + 1 \in Good
      OBVIOUS
    <2> DEFINE e == end(k)
               v == J[k]
               w == J[k + 1]
               data == segs[k + 1].data
    <2>1. k + 1 \in 0 .. n /\ k + 1 \in 1 .. n /\ k + 1 # 0
      BY <1>1
    <2>2. Laid(k)
      OBVIOUS
    <2>3. /\ v \in Seq(S) /\ Len(v) = e /\ e \in Nat
          /\ data \in Seq(S) /\ Len(data) = d(k + 1) /\ d(k + 1) \in Nat
      BY <1>1, <2>1, <2>2 DEF d
    <2>4. o(k + 1) = e
      <3>1. CASE k = 0
        BY <1>3, <3>1
      <3>2. CASE k # 0
        <4>1. k \in 1 .. n - 1
          BY <1>1, <3>2
        <4> QED BY <1>3, <3>2, <4>1
      <3> QED BY <3>1, <3>2
    <2>5. end(k + 1) = e + d(k + 1)
      <3>1. end(k + 1) = o(k + 1) + d(k + 1)
        BY <2>1
      <3> HIDE DEF end, e
      <3> QED BY <2>4, <3>1
    <2>6. /\ \A i \in 1 .. k : /\ o(i) + d(i) <= e
                               /\ \A y \in 1 .. d(i) : segs[i].data[y] = v[o(i) + y]
          /\ \A x \in 1 .. e : \E i \in 1 .. k : o(i) < x /\ x <= o(i) + d(i)
      BY <2>2
    <2>7. w = v \o data
      <3>1. w = Extend(v, Len(v), data)
        BY <1>9, <2>1, <2>3, <2>4
      <3> HIDE DEF w, v, data
      <3> QED BY <2>3, <3>1, ExtendAtEnd
    <2>8. \A i \in 1 .. n : o(i) \in Nat /\ d(i) \in Nat
      BY <1>1, <1>3 DEF d
    <2> HIDE DEF end, e, v, w, data
    <2>9. w \in Seq(S) /\ Len(w) = e + d(k + 1)
          /\ \A x \in 1 .. e + d(k + 1) : w[x] = IF x <= e THEN v[x] ELSE data[x - e]
      BY <2>3, <2>7, ConcatProperties
    <2>10. \A i \in 1 .. k + 1 : /\ o(i) + d(i) <= e + d(k + 1)
                                 /\ \A y \in 1 .. d(i) : segs[i].data[y] = w[o(i) + y]
      <3> TAKE i \in 1 .. k + 1
      <3>1. CASE i # k + 1
        <4>1. i \in 1 .. k /\ i \in 1 .. n
          BY <1>1, <2>1, <3>1
        <4>2. o(i) + d(i) <= e /\ o(i) \in Nat /\ d(i) \in Nat
          BY <2>6, <2>8, <4>1
        <4>3. o(i) + d(i) <= e + d(k + 1)
          BY <2>3, <4>2
        <4>4. \A y \in 1 .. d(i) : o(i) + y \in 1 .. e + d(k + 1) /\ o(i) + y <= e
          BY <2>3, <4>2
        <4>5. \A y \in 1 .. d(i) : segs[i].data[y] = v[o(i) + y] /\ w[o(i) + y] = v[o(i) + y]
          BY <2>6, <2>9, <4>1, <4>4
        <4> QED BY <4>3, <4>5
      <3>2. CASE i = k + 1
        <4>1. o(i) = e /\ segs[i].data = data /\ d(i) = d(k + 1)
          BY <2>4, <3>2 DEF data
        <4>2. \A y \in 1 .. d(k + 1) : /\ e + y \in 1 .. e + d(k + 1)
                                       /\ ~ (e + y <= e) /\ (e + y) - e = y
          BY <2>3
        <4>3. \A y \in 1 .. d(k + 1) : data[y] = w[e + y]
          BY <2>9, <4>2
        <4>4. e + d(k + 1) <= e + d(k + 1)
          BY <2>3
        <4> QED BY <4>1, <4>3, <4>4
      <3> QED BY <3>1, <3>2
    <2>11. \A x \in 1 .. e + d(k + 1) : \E i \in 1 .. k + 1 : o(i) < x /\ x <= o(i) + d(i)
      <3> TAKE x \in 1 .. e + d(k + 1)
      <3>1. CASE x <= e
        <4>1. x \in 1 .. e /\ \A i \in 1 .. k : i \in 1 .. k + 1
          BY <2>3, <3>1
        <4> QED BY <2>6, <4>1
      <3>2. CASE ~ (x <= e)
        <4>1. k + 1 \in 1 .. k + 1 /\ o(k + 1) < x /\ x <= o(k + 1) + d(k + 1)
          BY <2>3, <2>4, <3>2
        <4> QED BY <4>1
      <3> QED BY <3>1, <3>2
    <2>12. Laid(k + 1)
      <3>1. J[k + 1] = w
        BY DEF w
      <3> QED BY <2>5, <2>9, <2>10, <2>11, <3>1
    <2> HIDE DEF Laid
    <2> QED BY <2>1, <2>12
  <1>12. Laid(n)
    <2>1. n \in 0 .. n /\ 0 \in Nat
      BY <1>1
    <2> HIDE DEF Good
    <2>2. n \in Good
      BY <1>1, <1>10, <1>11, <2>1, Climb
    <2> QED BY <2>2 DEF Good
  <1> DEFINE C == Concat(segs)
  <1>13. C = J[n] /\ end(n) = o(n) + d(n) /\ 2 * (o(n) + d(n)) < SeqSpace
    <2>1. n \in 1 .. n /\ n # 0
      BY <1>1
    <2> QED BY <1>3, <1>6, <2>1
  <1> HIDE DEF C, end, J
  <1>14. /\ C \in Seq(S) /\ Len(C) = end(n)
         /\ \A i \in 1 .. n : /\ o(i) + d(i) <= Len(C)
                              /\ \A y \in 1 .. d(i) : segs[i].data[y] = C[o(i) + y]
         /\ \A x \in 1 .. Len(C) : \E i \in 1 .. n : o(i) < x /\ x <= o(i) + d(i)
    BY <1>12, <1>13
  <1>15. 2 * Len(C) < SeqSpace
    BY <1>13, <1>14
  <1> QED BY <1>14, <1>15 DEF C, o, d
=============================================================================
