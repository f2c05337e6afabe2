--------------------------- MODULE ReassemblyProofs ---------------------------
(***************************************************************************)
(* Proofs about Reassembly, for streams of every length, wherever they lie *)
(* in the sequence space and however they are cut.                         *)
(***************************************************************************)
EXTENDS Reassembly, ConnectionLemmas, FiniteSetTheorems, SequenceTheorems, TLAPS

From(i) == segs[i].id[1]
To(i) == segs[i].id[2]

(* The segments that carry something. *)
Pieces == {s \in {Cut(a, b) : a, b \in Offsets} : s.id[1] <= s.id[2]}

(* The invariant: what is held are pieces of the stream, in order.         *)
RInv == segs \in Seq(Pieces) /\ Rising(segs)

-----------------------------------------------------------------------------
(* Pieces *)

LEMMA Sizes ==
  /\ Length \in Nat /\ Length > 0 /\ 2 * Length < SeqSpace
  /\ SeqSpace \in Nat /\ SeqSpace > 1 /\ Start \in 0 .. SeqSpace - 1
  BY StreamAssumption, SeqSpaceAssumption DEF SeqNums

(* A part of the stream, byte by byte. *)
LEMMA StreamPart ==
  ASSUME NEW a \in Nat, NEW b \in Nat, 1 <= a, b <= Length, a <= b + 1
  PROVE  /\ SubSeq(Stream, a, b) = [k \in 1 .. b - a + 1 |-> a + k - 1]
         /\ SubSeq(Stream, a, b) \in Seq(Nat)
         /\ Len(SubSeq(Stream, a, b)) = b - a + 1
  <1>1. Stream = [k \in 1 .. Length |-> k] /\ Stream \in Seq(Nat) /\ Len(Stream) = Length
    BY Sizes DEF Stream, Offsets
  <1>2. Len(SubSeq(Stream, a, b)) = b - a + 1 /\ SubSeq(Stream, a, b) \in Seq(Nat)
    BY <1>1, Sizes, SubSeqProperties
  <1>3. \A k \in 1 .. b - a + 1 : SubSeq(Stream, a, b)[k] = a + k - 1
    <2> TAKE k \in 1 .. b - a + 1
    <2>1. a + k - 1 \in 1 .. Length
      BY Sizes
    <2>2. \A i \in a .. b : Stream[i] \in Nat
      BY <1>1, Sizes
    <2>3. k \in 1 .. b - a + 1 /\ a \in Int /\ b \in Int
      OBVIOUS
    <2>4. SubSeq(Stream, a, b)[k] = Stream[a + k - 1]
      BY <2>2, <2>3, SubSeqProperties
    <2> QED BY <1>1, <2>1, <2>4
  <1>4. \A q \in Seq(Nat), n \in Nat : Len(q) = n => q = [k \in 1 .. n |-> q[k]]
    OBVIOUS
  <1>5. SubSeq(Stream, a, b) = [k \in 1 .. b - a + 1 |-> SubSeq(Stream, a, b)[k]]
    <2>1. b - a + 1 \in Nat
      OBVIOUS
    <2> QED BY <1>2, <1>4, <2>1, Zenon
  <1>6. SubSeq(Stream, a, b) = [k \in 1 .. b - a + 1 |-> a + k - 1]
    BY <1>3, <1>5, Zenon
  <1> QED BY <1>2, <1>6

LEMMA SeqOfOffset ==
  ASSUME NEW a \in Offsets
  PROVE  /\ (Start + a - 1) % SeqSpace \in SeqNums
         /\ Offset(Start, (Start + a - 1) % SeqSpace) = a - 1
  <1> DEFINE s == (Start + a - 1) % SeqSpace
  <1>1. a \in Nat /\ 1 <= a /\ a <= Length
    BY Sizes DEF Offsets
  <1>2. s = IF Start + a - 1 < SeqSpace THEN Start + a - 1 ELSE Start + a - 1 - SeqSpace
    <2>1. SeqSpace \in Nat \ {0}
      BY Sizes
    <2>2. CASE Start + a - 1 < SeqSpace
      <3>1. Start + a - 1 \in 0 .. SeqSpace - 1
        BY <1>1, <2>2, Sizes
      <3> QED BY <2>1, <2>2, <3>1, ModFacts
    <2>3. CASE ~ (Start + a - 1 < SeqSpace)
      <3>1. Start + a - 1 \in SeqSpace .. 2 * SeqSpace - 1
        BY <1>1, <2>3, Sizes
      <3>2. (Start + a - 1) % SeqSpace = (Start + a - 1) - SeqSpace
        BY <2>1, <3>1, ModFacts
      <3> QED BY <1>1, <2>3, <3>2, Sizes
    <2> QED BY <2>2, <2>3
  <1> HIDE DEF s
  <1>3. s \in SeqNums /\ Start \in SeqNums
    BY <1>1, <1>2, Sizes DEF SeqNums
  <1>4. Offset(Start, s) = a - 1
    BY <1>1, <1>2, <1>3, OffsetFacts, Sizes
  <1> QED BY <1>3, <1>4 DEF s

LEMMA PieceFacts ==
  ASSUME NEW s \in Pieces
  PROVE  /\ s.id[1] \in 1 .. Length /\ s.id[2] \in 1 .. Length /\ s.id[1] <= s.id[2]
         /\ s.seq = (Start + s.id[1] - 1) % SeqSpace /\ s.seq \in SeqNums
         /\ Offset(Start, s.seq) = s.id[1] - 1
         /\ s.data = SubSeq(Stream, s.id[1], s.id[2])
         /\ Len(s.data) = s.id[2] - s.id[1] + 1
         /\ 2 * (Offset(Start, s.seq) + Len(s.data)) < SeqSpace
  <1>1. PICK a \in Offsets, b \in Offsets : s = Cut(a, b) /\ s.id[1] <= s.id[2]
    BY DEF Pieces
  <1>2. /\ s.id[1] = a /\ s.id[2] = b /\ s.seq = (Start + a - 1) % SeqSpace
        /\ s.data = SubSeq(Stream, a, b) /\ a <= b
    BY <1>1 DEF Cut
  <1>3. a \in 1 .. Length /\ b \in 1 .. Length
    BY DEF Offsets
  <1>4. s.seq \in SeqNums /\ Offset(Start, s.seq) = a - 1
    BY <1>2, SeqOfOffset
  <1>5. Len(s.data) = b - a + 1
    BY <1>2, <1>3, StreamPart, Sizes
  <1>6. 2 * ((a - 1) + (b - a + 1)) < SeqSpace
    BY <1>3, Sizes
  <1> QED BY <1>2, <1>3, <1>4, <1>5, <1>6

LEMMA CutIsPiece ==
  ASSUME NEW a \in Offsets, NEW b \in Offsets, a <= b
  PROVE  Cut(a, b) \in Pieces
  <1>1. Cut(a, b).id[1] = a /\ Cut(a, b).id[2] = b
    BY DEF Cut
  <1> QED BY <1>1 DEF Pieces

-----------------------------------------------------------------------------
(* The list *)

LEMMA RInvInit == Init => RInv
  BY DEF Init, RInv, Rising

LEMMA RInvStep == RInv /\ [Next]_segs => RInv'
  <1> SUFFICES ASSUME RInv, [Next]_segs PROVE RInv'
    OBVIOUS
  <1>1. ASSUME NEW a \in Offsets, NEW b \in Offsets, a <= b, Insert(a, b) PROVE RInv'
    <2>1. segs' \in InsertOutcomes(segs, Cut(a, b)) /\ Cut(a, b) \in Pieces
      BY <1>1, CutIsPiece DEF Insert
    <2>2. segs' \in Seq(Pieces)
      BY <2>1, InsertElements DEF RInv
    <2>3. \A s \in Pieces : s.seq \in SeqNums /\ Len(s.data) \in Nat
      BY PieceFacts
    <2>4. InWindow(Start, segs')
      <3>1. \A i \in DOMAIN segs' : segs'[i] \in Pieces
        BY <2>2
      <3> QED BY <3>1, PieceFacts DEF InWindow
    <2>5. Start \in SeqNums
      BY StreamAssumption
    <2>6. Rising(segs')
      BY <2>1, <2>3, <2>4, <2>5, InsertKeepsOrder DEF RInv
    <2> QED BY <2>2, <2>6 DEF RInv
  <1>2. CASE Clear
    BY <1>2 DEF Clear, RInv, Rising
  <1>3. CASE UNCHANGED segs
    BY <1>3 DEF RInv
  <1> QED BY <1>1, <1>2, <1>3 DEF Next

THEOREM InOrder == Spec => []RInv
  BY RInvInit, RInvStep, PTL DEF Spec

(* What the rest of the module knows of a list that is not empty. *)
LEMMA ListFacts ==
  ASSUME RInv
  PROVE  /\ Len(segs) \in Nat /\ DOMAIN segs = 1 .. Len(segs)
         /\ \A i \in 1 .. Len(segs) :
              /\ segs[i] \in Pieces
              /\ From(i) \in 1 .. Length /\ To(i) \in 1 .. Length
              /\ From(i) <= To(i)
              /\ segs[i].data = SubSeq(Stream, From(i), To(i))
         /\ \A i, j \in 1 .. Len(segs) : i < j => From(i) < From(j)
  <1>1. /\ Len(segs) \in Nat /\ DOMAIN segs = 1 .. Len(segs)
        /\ \A i \in 1 .. Len(segs) : segs[i] \in Pieces
    BY DEF RInv
  <1>2. ASSUME NEW i \in 1 .. Len(segs), NEW j \in 1 .. Len(segs), i < j
        PROVE  From(i) < From(j)
    <2>1. SeqLT(segs[i].seq, segs[j].seq)
      BY <1>1, <1>2 DEF RInv, Rising
    <2>2. /\ segs[i].seq \in SeqNums /\ segs[j].seq \in SeqNums /\ Start \in SeqNums
          /\ From(i) \in 1 .. Length /\ From(j) \in 1 .. Length
          /\ Offset(Start, segs[i].seq) = From(i) - 1
          /\ Offset(Start, segs[j].seq) = From(j) - 1
      BY <1>1, PieceFacts, StreamAssumption DEF From
    <2>3. 2 * (From(i) - 1) < SeqSpace /\ 2 * (From(j) - 1) < SeqSpace
      BY <2>2, Sizes
    <2>4. From(i) - 1 < From(j) - 1
      BY <2>1, <2>2, <2>3, WindowOrder
    <2> QED BY <2>2, <2>4
  <1> QED BY <1>1, <1>2, PieceFacts DEF From, To

(* What is held are segments of the stream, never more than the stream has *)
(* bytes: no two begin at the same one.                                    *)
THEOREM ReassemblyTypes == Spec => []TypeOK
  <1>1. RInv => TypeOK
    <2> SUFFICES ASSUME RInv PROVE TypeOK
      OBVIOUS
    <2>1. segs \in Seq({Cut(a, b) : a, b \in Offsets})
      BY DEF RInv, Pieces
    <2>2. \A i \in 1 .. Len(segs) : i <= From(i)
      <3> DEFINE Good == {i \in 1 .. Len(segs) : i <= From(i)}
      <3>1. CASE Len(segs) = 0
        BY <3>1
      <3>2. CASE Len(segs) # 0
        <4>1. 1 \in Good
          BY <3>2, ListFacts
        <4>2. \A i \in 1 .. Len(segs) : i \in Good /\ i + 1 <= Len(segs) => i + 1 \in Good
          <5> SUFFICES ASSUME NEW i \in 1 .. Len(segs), i <= From(i), i + 1 <= Len(segs)
                       PROVE  i + 1 \in Good
            OBVIOUS
          <5>1. i + 1 \in 1 .. Len(segs) /\ i < i + 1
            BY ListFacts
          <5>2. From(i) < From(i + 1) /\ From(i) \in Nat /\ From(i + 1) \in Nat
            BY <5>1, ListFacts
          <5> QED BY <5>1, <5>2
        <4>3. \A i \in 1 .. Len(segs) : i \in Good
          <5> HIDE DEF Good
          <5> QED BY <4>1, <4>2, Climb, ListFacts
        <4> QED BY <4>3
      <3> QED BY <3>1, <3>2
    <2>3. Len(segs) <= Length
      <3>1. CASE Len(segs) = 0
        BY <3>1, Sizes
      <3>2. CASE Len(segs) # 0
        <4>1. Len(segs) \in 1 .. Len(segs)
          BY <3>2, ListFacts
        <4>2. Len(segs) <= From(Len(segs)) /\ From(Len(segs)) \in 1 .. Length
          BY <2>2, <4>1, ListFacts
        <4> QED BY <4>1, <4>2, Sizes
      <3> QED BY <3>1, <3>2
    <2> QED BY <2>1, <2>3 DEF TypeOK
  <1> QED BY <1>1, InOrder, PTL

-----------------------------------------------------------------------------
(* concat, loop by loop *)

(* The first loop: the first segment of a rising list is the lowest.       *)
LEMMA LowestIsFirst ==
  ASSUME RInv, segs # << >>
  PROVE  LowestSeq(segs) = segs[1].seq
  <1> DEFINE n == Len(segs)
  <1>1. n \in Nat /\ n > 0
    BY ListFacts
  <1>2. \A k \in 1 .. n : ~SeqLT(segs[k].seq, segs[1].seq)
    <2> SUFFICES ASSUME NEW k \in 1 .. n PROVE ~SeqLT(segs[k].seq, segs[1].seq)
      OBVIOUS
    <2>1. /\ segs[k].seq \in SeqNums /\ segs[1].seq \in SeqNums /\ Start \in SeqNums
          /\ From(k) \in 1 .. Length /\ From(1) \in 1 .. Length
          /\ Offset(Start, segs[k].seq) = From(k) - 1
          /\ Offset(Start, segs[1].seq) = From(1) - 1
      BY <1>1, ListFacts, PieceFacts, StreamAssumption DEF From
    <2>2. 2 * (From(k) - 1) < SeqSpace /\ 2 * (From(1) - 1) < SeqSpace
      BY <2>1, Sizes
    <2>3. k = 1 \/ From(1) < From(k)
      BY <1>1, ListFacts
    <2>4. ~ (From(k) - 1 < From(1) - 1)
      BY <2>1, <2>3
    <2> QED BY <2>1, <2>2, <2>4, WindowOrder
  <1> QED BY <1>1, <1>2, LowestOfRising

LEMMA SamePart ==
  ASSUME NEW a \in Nat, NEW b \in Nat, 1 <= a, b <= Length, a <= b + 1,
         NEW q \in Seq(Nat), Len(q) = b - a + 1,
         \A k \in 1 .. b - a + 1 : q[k] = a + k - 1
  PROVE  q = SubSeq(Stream, a, b)
  <1>1. \A p \in Seq(Nat), n \in Nat : Len(p) = n => p = [k \in 1 .. n |-> p[k]]
    OBVIOUS
  <1>2. b - a + 1 \in Nat
    OBVIOUS
  <1>3. q = [k \in 1 .. b - a + 1 |-> q[k]]
    BY <1>1, <1>2, Zenon
  <1>4. q = [k \in 1 .. b - a + 1 |-> a + k - 1]
    BY <1>3, Zenon
  <1> QED BY <1>4, StreamPart

LEMMA PartAt ==
  ASSUME NEW a \in Nat, NEW b \in Nat, 1 <= a, b <= Length, a <= b + 1
  PROVE  /\ SubSeq(Stream, a, b) \in Seq(Nat)
         /\ Len(SubSeq(Stream, a, b)) = b - a + 1
         /\ \A k \in 1 .. b - a + 1 : SubSeq(Stream, a, b)[k] = a + k - 1
  <1>1. SubSeq(Stream, a, b) = [k \in 1 .. b - a + 1 |-> a + k - 1]
    BY StreamPart
  <1>2. \A k \in 1 .. b - a + 1 : SubSeq(Stream, a, b)[k] = a + k - 1
    BY <1>1, Zenon
  <1> QED BY <1>2, StreamPart

(* Two parts of the stream that meet make one. *)
LEMMA PartsMeet ==
  ASSUME NEW f \in Nat, NEW r \in Nat, NEW b \in Nat,
         1 <= f, f <= r + 1, r <= b, b <= Length
  PROVE  SubSeq(Stream, f, r) \o SubSeq(Stream, r + 1, b) = SubSeq(Stream, f, b)
  <1> DEFINE p == SubSeq(Stream, f, r)
             q == SubSeq(Stream, r + 1, b)
  <1>1. /\ p \in Seq(Nat) /\ Len(p) = r - f + 1
        /\ \A k \in 1 .. r - f + 1 : p[k] = f + k - 1
    <2>1. r <= Length
      BY Sizes
    <2> QED BY <2>1, PartAt
  <1>2. /\ q \in Seq(Nat) /\ Len(q) = b - r
        /\ \A k \in 1 .. b - r : q[k] = r + k
    <2>1. r + 1 \in Nat /\ 1 <= r + 1 /\ r + 1 <= b + 1 /\ b - (r + 1) + 1 = b - r
      OBVIOUS
    <2>2. /\ q \in Seq(Nat) /\ Len(q) = b - (r + 1) + 1
          /\ \A k \in 1 .. b - (r + 1) + 1 : q[k] = (r + 1) + k - 1
      BY <2>1, PartAt
    <2> HIDE DEF q
    <2> QED BY <2>1, <2>2
  <1> HIDE DEF p, q
  <1>3. p \o q \in Seq(Nat) /\ Len(p \o q) = b - f + 1
    <2>1. p \o q \in Seq(Nat) /\ Len(p \o q) = Len(p) + Len(q)
      <3>1. p \in Seq(Nat) /\ q \in Seq(Nat)
        BY <1>1, <1>2
      <3> QED BY <3>1, ConcatProperties
    <2> QED BY <1>1, <1>2, <2>1
  <1>4. \A k \in 1 .. b - f + 1 : (p \o q)[k] = f + k - 1
    <2> TAKE k \in 1 .. b - f + 1
    <2>1. CASE k <= r - f + 1
      BY <1>1, <1>2, <2>1
    <2>2. CASE ~ (k <= r - f + 1)
      <3>1. k - (r - f + 1) \in 1 .. b - r /\ r + (k - (r - f + 1)) = f + k - 1
        BY <2>2
      <3>2. (p \o q)[k] = q[k - (r - f + 1)]
        BY <1>1, <1>2, <2>2
      <3> QED BY <1>2, <3>1, <3>2
    <2> QED BY <2>1, <2>2
  <1> QED BY <1>3, <1>4, SamePart DEF p, q

(* The rest of a part is a part. *)
LEMMA RestOfPart ==
  ASSUME NEW a \in Nat, NEW b \in Nat, NEW r \in Nat,
         1 <= a, a <= r + 1, r < b, b <= Length
  PROVE  SubSeq(SubSeq(Stream, a, b), r - a + 2, b - a + 1) = SubSeq(Stream, r + 1, b)
  <1> DEFINE p == SubSeq(Stream, a, b)
             q == SubSeq(p, r - a + 2, b - a + 1)
  <1>1. /\ p \in Seq(Nat) /\ Len(p) = b - a + 1
        /\ \A k \in 1 .. b - a + 1 : p[k] = a + k - 1
    <2>1. a <= b + 1
      OBVIOUS
    <2> QED BY <2>1, PartAt
  <1> HIDE DEF p
  <1>2. r - a + 2 \in Int /\ b - a + 1 \in Int /\ r - a + 2 <= b - a + 1
    OBVIOUS
  <1>3. \A i \in r - a + 2 .. b - a + 1 : p[i] \in Nat
    BY <1>1
  <1>4. /\ q \in Seq(Nat) /\ Len(q) = (b - a + 1) - (r - a + 2) + 1
        /\ \A k \in 1 .. (b - a + 1) - (r - a + 2) + 1 : q[k] = p[(r - a + 2) + k - 1]
    BY <1>2, <1>3, SubSeqProperties
  <1> HIDE DEF q
  <1>5. (b - a + 1) - (r - a + 2) + 1 = b - (r + 1) + 1
    OBVIOUS
  <1>6. \A k \in 1 .. b - (r + 1) + 1 : q[k] = (r + 1) + k - 1
    <2> TAKE k \in 1 .. b - (r + 1) + 1
    <2>1. (r - a + 2) + k - 1 \in 1 .. b - a + 1
          /\ a + ((r - a + 2) + k - 1) - 1 = (r + 1) + k - 1
      OBVIOUS
    <2>2. q[k] = p[(r - a + 2) + k - 1]
      BY <1>4, <1>5
    <2> QED BY <1>1, <2>1, <2>2
  <1>7. r + 1 \in Nat /\ 1 <= r + 1 /\ r + 1 <= b + 1
    OBVIOUS
  <1>8. q = SubSeq(Stream, r + 1, b)
    BY <1>4, <1>5, <1>6, <1>7, SamePart
  <1> QED BY <1>8 DEF p, q

(* One more segment extends a part of the stream by another part of it.    *)
LEMMA ExtendPart ==
  ASSUME NEW f \in Nat, NEW r \in Nat, NEW a \in Nat, NEW b \in Nat,
         1 <= f, f <= r + 1, r <= Length, a <= b, b <= Length, f <= a
  PROVE  Extend(SubSeq(Stream, f, r), a - f, SubSeq(Stream, a, b))
           = SubSeq(Stream, f, IF a > r + 1 \/ b <= r THEN r ELSE b)
  <1> DEFINE acc == SubSeq(Stream, f, r)
             data == SubSeq(Stream, a, b)
  <1>1. Len(acc) = r - f + 1
    BY PartAt, Sizes
  <1>2. Len(data) = b - a + 1
    BY PartAt, Sizes
  <1> HIDE DEF acc, data
  <1>3. /\ a - f > Len(acc) <=> a > r + 1
        /\ (a - f) + Len(data) <= Len(acc) <=> b <= r
    BY <1>1, <1>2
  <1>5. CASE a > r + 1 \/ b <= r
    BY <1>3, <1>5 DEF Extend, acc
  <1>6. CASE ~ (a > r + 1 \/ b <= r)
    <2>1. Len(acc) - (a - f) + 1 = r - a + 2
      BY <1>1
    <2>2. Extend(acc, a - f, data) = acc \o SubSeq(data, r - a + 2, b - a + 1)
      BY <1>2, <1>3, <1>6, <2>1 DEF Extend
    <2>3. a <= r + 1 /\ r < b /\ r <= b /\ 1 <= a
      BY <1>6
    <2>4. SubSeq(data, r - a + 2, b - a + 1) = SubSeq(Stream, r + 1, b)
      BY <2>3, RestOfPart DEF data
    <2>5. acc \o SubSeq(Stream, r + 1, b) = SubSeq(Stream, f, b)
      BY <2>3, PartsMeet DEF acc
    <2> QED BY <1>6, <2>2, <2>4, <2>5 DEF acc, data
  <1> QED BY <1>5, <1>6

LEMMA OffsetBetween ==
  ASSUME NEW x \in SeqNums, NEW y \in SeqNums, NEW s \in SeqNums,
         NEW u \in 1 .. Length, NEW v \in 1 .. Length, v <= u,
         Offset(s, x) = u - 1, Offset(s, y) = v - 1
  PROVE  Offset(y, x) = u - v
  <1>1. /\ Offset(s, x) = IF x < s THEN x - s + SeqSpace ELSE x - s
        /\ Offset(s, y) = IF y < s THEN y - s + SeqSpace ELSE y - s
        /\ Offset(y, x) = IF x < y THEN x - y + SeqSpace ELSE x - y
    BY OffsetFacts
  <1> QED BY <1>1, Sizes DEF SeqNums

(* How far apart two segments begin is how far apart their numbers are.    *)
LEMMA RelIsDistance ==
  ASSUME RInv, segs # << >>
  PROVE  [i \in DOMAIN segs |-> (segs[i].seq - LowestSeq(segs)) % SeqSpace]
           = [i \in 1 .. Len(segs) |-> From(i) - From(1)]
  <1>1. /\ DOMAIN segs = 1 .. Len(segs) /\ LowestSeq(segs) = segs[1].seq
        /\ Len(segs) \in Nat /\ Len(segs) > 0
    BY ListFacts, LowestIsFirst
  <1>2. ASSUME NEW i \in 1 .. Len(segs)
        PROVE  (segs[i].seq - segs[1].seq) % SeqSpace = From(i) - From(1)
    <2>1. /\ segs[i].seq \in SeqNums /\ segs[1].seq \in SeqNums /\ Start \in SeqNums
          /\ From(i) \in 1 .. Length /\ From(1) \in 1 .. Length
          /\ Offset(Start, segs[i].seq) = From(i) - 1
          /\ Offset(Start, segs[1].seq) = From(1) - 1
      BY <1>1, ListFacts, PieceFacts, StreamAssumption DEF From
    <2>2. From(1) <= From(i)
      <3>1. i = 1 \/ 1 < i
        OBVIOUS
      <3>2. 1 \in 1 .. Len(segs)
        BY <1>1
      <3>3. i = 1 \/ From(1) < From(i)
        BY <3>1, <3>2, ListFacts
      <3> QED BY <2>1, <3>3
    <2>4. Offset(segs[1].seq, segs[i].seq) = From(i) - From(1)
      BY <2>1, <2>2, OffsetBetween
    <2> QED BY <2>4 DEF Offset
  <1> QED BY <1>1, <1>2


-----------------------------------------------------------------------------
(* What concat computes *)

(* After k segments v is the stream from the lowest byte held up to R, all *)
(* of it held, and no segment continues it.                                *)
Reached(k, R, v) ==
  /\ R \in Nat /\ From(1) - 1 <= R /\ R <= Length
  /\ v = SubSeq(Stream, From(1), R)
  /\ \A x \in From(1) .. R : \E i \in 1 .. k : From(i) <= x /\ x <= To(i)
  /\ \A i \in 1 .. k : To(i) <= R \/ From(i) > R + 1
  /\ k >= 1 => From(1) <= R

LEMMA ReachedNothing ==
  ASSUME RInv, segs # << >>
  PROVE  Reached(0, From(1) - 1, << >>)
  <1>1. From(1) \in 1 .. Length
    <2>1. 1 \in 1 .. Len(segs)
      BY ListFacts
    <2> QED BY <2>1, ListFacts
  <1> DEFINE a == From(1)
  <1> HIDE DEF a
  <1>2. a \in 1 .. Length
    BY <1>1 DEF a
  <1>3. /\ a \in Nat /\ a - 1 \in Nat /\ 1 <= a /\ a - 1 <= Length
        /\ a <= (a - 1) + 1 /\ (a - 1) - a + 1 = 0
    BY <1>2, Sizes
  <1>4. SubSeq(Stream, a, a - 1) \in Seq(Nat) /\ Len(SubSeq(Stream, a, a - 1)) = 0
    BY <1>3, PartAt
  <1>5. \A q \in Seq(Nat) : Len(q) = 0 => q = << >>
    OBVIOUS
  <1>6. SubSeq(Stream, a, a - 1) = << >>
    BY <1>4, <1>5, Zenon
  <1>7. a .. a - 1 = {} /\ 1 .. 0 = {} /\ ~ (0 >= 1)
    BY <1>3
  <1>8. a - 1 <= a - 1
    BY <1>3
  <1>9. Reached(0, a - 1, << >>) <=> Reached(0, From(1) - 1, << >>)
    BY DEF a
  <1> QED BY <1>3, <1>6, <1>7, <1>8 DEF Reached, a

LEMMA ReachedMore ==
  ASSUME RInv, segs # << >>, NEW k \in Nat, k + 1 <= Len(segs), NEW R, NEW v,
         Reached(k, R, v)
  PROVE  \E R2 : Reached(k + 1, R2, Extend(v, From(k + 1) - From(1), segs[k + 1].data))
  <1> DEFINE f == From(1)
             a == From(k + 1)
             b == To(k + 1)
             w == Extend(v, a - f, segs[k + 1].data)
  <1>1. 1 \in 1 .. Len(segs) /\ k + 1 \in 1 .. Len(segs)
    BY ListFacts
  <1>2. /\ f \in 1 .. Length /\ a \in 1 .. Length /\ b \in 1 .. Length /\ a <= b
        /\ segs[k + 1].data = SubSeq(Stream, a, b)
    BY <1>1, ListFacts
  <1>3. k = 0 \/ f < a
    <2>1. k = 0 \/ 1 < k + 1
      OBVIOUS
    <2> QED BY <1>1, <2>1, ListFacts
  <1>4. k = 0 => a = f
    <2>1. k = 0 => k + 1 = 1
      OBVIOUS
    <2> QED BY <2>1, Zenon
  <1>5. /\ R \in Nat /\ f - 1 <= R /\ R <= Length /\ v = SubSeq(Stream, f, R)
        /\ \A x \in f .. R : \E i \in 1 .. k : From(i) <= x /\ x <= To(i)
        /\ \A i \in 1 .. k : To(i) <= R \/ From(i) > R + 1
        /\ k >= 1 => f <= R
    BY DEF Reached
  <1>6. \A i \in 1 .. k : /\ From(i) \in 1 .. Length /\ To(i) \in 1 .. Length
                          /\ From(i) < a
    <2> TAKE i \in 1 .. k
    <2>1. i \in 1 .. Len(segs) /\ i < k + 1
      BY ListFacts
    <2> QED BY <1>1, <2>1, ListFacts
  <1>7. k = 0 => R = f - 1
    <2> SUFFICES ASSUME k = 0 PROVE R = f - 1
      OBVIOUS
    <2>1. \A x \in f .. R : FALSE
      <3>1. 1 .. k = {}
        OBVIOUS
      <3> QED BY <1>5, <3>1, Zenon
    <2>2. R < f
      <3> SUFFICES ASSUME ~ (R < f) PROVE FALSE
        OBVIOUS
      <3>1. f \in f .. R
        BY <1>2, <1>5
      <3> QED BY <2>1, <3>1
    <2> QED BY <1>2, <1>5, <2>2
  <1>8. w = SubSeq(Stream, f, IF a > R + 1 \/ b <= R THEN R ELSE b)
    <2>1. /\ f \in Nat /\ a \in Nat /\ b \in Nat /\ 1 <= f /\ f <= R + 1 /\ f <= a
          /\ b <= Length
      BY <1>2, <1>3, <1>4, <1>5
    <2>2. Extend(SubSeq(Stream, f, R), a - f, SubSeq(Stream, a, b))
            = SubSeq(Stream, f, IF a > R + 1 \/ b <= R THEN R ELSE b)
      <3> HIDE DEF f, a, b
      <3> QED BY <1>2, <1>5, <2>1, ExtendPart, SMTT(30)
    <2> QED BY <1>2, <1>5, <2>2
  <1> HIDE DEF w
  <1>9. CASE a > R + 1 \/ b <= R
    <2>1. w = SubSeq(Stream, f, R)
      BY <1>8, <1>9
    <2>2. f <= R
      BY <1>2, <1>4, <1>5, <1>7, <1>9
    <2>3. \A x \in f .. R : \E i \in 1 .. k + 1 : From(i) <= x /\ x <= To(i)
      <3> TAKE x \in f .. R
      <3>1. PICK i \in 1 .. k : From(i) <= x /\ x <= To(i)
        BY <1>5
      <3>2. i \in 1 .. k + 1
        OBVIOUS
      <3> QED BY <3>1, <3>2
    <2>4. \A i \in 1 .. k + 1 : To(i) <= R \/ From(i) > R + 1
      <3> TAKE i \in 1 .. k + 1
      <3>1. CASE i \in 1 .. k
        BY <1>5, <3>1
      <3>2. CASE i = k + 1
        BY <1>9, <3>2
      <3> QED BY <3>1, <3>2
    <2> QED BY <1>5, <2>1, <2>2, <2>3, <2>4 DEF Reached, w
  <1>10. CASE ~ (a > R + 1 \/ b <= R)
    <2>1. w = SubSeq(Stream, f, b) /\ f <= b /\ R < b /\ a <= R + 1
      <3>1. w = SubSeq(Stream, f, b)
        BY <1>8, <1>10, Zenon
      <3>2. R < b /\ a <= R + 1 /\ f <= a
        <4> HIDE DEF f, a, b
        <4> QED BY <1>2, <1>3, <1>4, <1>5, <1>10
      <3>3. f <= b
        <4> HIDE DEF f, a, b
        <4> QED BY <1>2, <3>2
      <3> QED BY <3>1, <3>2, <3>3
    <2>2. \A x \in f .. b : \E i \in 1 .. k + 1 : From(i) <= x /\ x <= To(i)
      <3> TAKE x \in f .. b
      <3>1. CASE x <= R
        <4>1. x \in f .. R
          BY <1>2, <1>5, <3>1
        <4>2. PICK i \in 1 .. k : From(i) <= x /\ x <= To(i)
          BY <1>5, <4>1
        <4>3. i \in 1 .. k + 1
          OBVIOUS
        <4> QED BY <4>2, <4>3
      <3>2. CASE R < x
        <4>1. a <= x /\ x <= b /\ k + 1 \in 1 .. k + 1
          BY <1>2, <1>5, <2>1, <3>2
        <4> QED BY <4>1
      <3> QED BY <1>2, <1>5, <3>1, <3>2
    <2>3. \A i \in 1 .. k + 1 : To(i) <= b \/ From(i) > b + 1
      <3> TAKE i \in 1 .. k + 1
      <3>1. CASE i \in 1 .. k
        <4>1. To(i) <= R \/ From(i) > R + 1
          BY <1>5, <3>1
        <4>2. From(i) \in 1 .. Length /\ To(i) \in 1 .. Length /\ From(i) < a
          BY <1>6, <3>1
        <4>3. ~ (From(i) > R + 1)
          BY <1>2, <1>5, <2>1, <4>2
        <4>4. To(i) <= R /\ R < b
          BY <2>1, <4>1, <4>3
        <4> QED BY <1>2, <1>5, <4>2, <4>4
      <3>2. CASE i = k + 1
        BY <1>2, <3>2
      <3> QED BY <3>1, <3>2
    <2>4. b \in Nat /\ f - 1 <= b /\ b <= Length
      BY <1>2, <2>1
    <2> QED BY <2>1, <2>2, <2>3, <2>4 DEF Reached, w
  <1> QED BY <1>9, <1>10

LEMMA ConcatReaches ==
  ASSUME RInv, segs # << >>
  PROVE  \E R : Reached(Len(segs), R, Concat(segs))
  <1> DEFINE n == Len(segs)
             rel == [i \in 1 .. n |-> From(i) - From(1)]
             order == [k \in 1 .. n |-> k]
             J == Joined(segs, rel, order)
             Good == {k \in 0 .. n : \E R : Reached(k, R, J[k])}
  <1>1. n \in Nat /\ DOMAIN segs = 1 .. n
    BY ListFacts
  <1>2. rel \in [1 .. n -> Nat] /\ \A i, j \in 1 .. n : i < j => rel[i] < rel[j]
    <2>1. \A i \in 1 .. n : From(i) \in Nat /\ From(1) \in Nat /\ From(1) <= From(i)
      <3> TAKE i \in 1 .. n
      <3>1. 1 \in 1 .. n /\ (i = 1 \/ 1 < i)
        BY <1>1
      <3>2. From(i) \in Nat /\ From(1) \in Nat
        BY <3>1, ListFacts
      <3>3. i = 1 \/ From(1) < From(i)
        BY <3>1, ListFacts
      <3> QED BY <3>2, <3>3
    <2>2. \A i \in 1 .. n : rel[i] = From(i) - From(1) /\ rel[i] \in Nat
      BY <2>1
    <2>3. \A i, j \in 1 .. n : i < j => From(i) < From(j)
      BY ListFacts
    <2>4. \A i, j \in 1 .. n : i < j => rel[i] < rel[j]
      BY <2>1, <2>2, <2>3
    <2> QED BY <2>2, <2>4
  <1>3. StableOrder(rel) = order
    <2>1. \A i, j \in 1 .. n : rel[i] \in Nat /\ (i < j => rel[i] <= rel[j])
      <3> HIDE DEF rel
      <3> QED BY <1>2
    <2> HIDE DEF rel
    <2> QED BY <1>1, <1>2, <2>1, OrderOfRising
  <1>4. Concat(segs) = J[n]
    <2>1. Concat(segs) = Join(segs, rel, StableOrder(rel))
      BY RelIsDistance DEF Concat
    <2> HIDE DEF rel, order
    <2> QED BY <1>3, <2>1, JoinIs
  <1>5. J = JoinBody(segs, rel, order, J)
    <2> HIDE DEF rel, order
    <2> QED BY <1>1, JoinExists
  <1> HIDE DEF J
  <1>6. J[0] = << >>
    BY <1>1, <1>5 DEF JoinBody
  <1>7. \A k \in 0 .. n : k + 1 <= n =>
          J[k + 1] = Extend(J[k], From(k + 1) - From(1), segs[k + 1].data)
    <2> SUFFICES ASSUME NEW k \in 0 .. n, k + 1 <= n
                 PROVE  J[k + 1] = Extend(J[k], From(k + 1) - From(1), segs[k + 1].data)
      OBVIOUS
    <2>1. k + 1 \in 0 .. n /\ k + 1 # 0 /\ (k + 1) - 1 = k /\ k + 1 \in 1 .. n
      BY <1>1
    <2>2. order[k + 1] = k + 1 /\ rel[k + 1] = From(k + 1) - From(1)
      BY <2>1
    <2> HIDE DEF rel, order
    <2>3. J[k + 1] = Extend(J[(k + 1) - 1], rel[order[k + 1]], segs[order[k + 1]].data)
      BY <1>5, <2>1 DEF JoinBody
    <2> QED BY <2>1, <2>2, <2>3
  <1> HIDE DEF rel, order
  <1>8. 0 \in Good
    <2>1. 0 \in 0 .. n
      BY <1>1
    <2> QED BY <1>6, <2>1, ReachedNothing
  <1>9. \A k \in 0 .. n : k \in Good /\ k + 1 <= n => k + 1 \in Good
    <2> SUFFICES ASSUME NEW k \in 0 .. n, k \in Good, k + 1 <= n PROVE k + 1 \in Good
      OBVIOUS
    <2>1. PICK R : Reached(k, R, J[k])
      OBVIOUS
    <2>2. k \in Nat /\ k + 1 \in 0 .. n
      BY <1>1
    <2>3. \E R2 : Reached(k + 1, R2, J[k + 1])
      BY <1>7, <2>1, <2>2, ReachedMore
    <2> QED BY <2>2, <2>3
  <1>10. n \in Good
    <2> HIDE DEF Good
    <2>1. n \in 0 .. n /\ 0 \in Nat
      BY <1>1
    <2> QED BY <1>1, <1>8, <1>9, <2>1, Climb
  <1> QED BY <1>4, <1>10

(* Reached fixes how far: the bound of the joined bytes is the last byte   *)
(* before the first one missing.                                           *)
LEMMA LowestReach ==
  ASSUME RInv, segs # << >>, NEW R, NEW v, Reached(Len(segs), R, v)
  PROVE  Lowest = From(1) /\ Reach = R
  <1> DEFINE n == Len(segs)
  <1>1. n \in Nat /\ DOMAIN segs = 1 .. n /\ 1 \in 1 .. n
    BY ListFacts
  <1>2. \A x : x \in Covered <=> \E i \in 1 .. n : x \in From(i) .. To(i)
    BY <1>1 DEF Covered, From, To
  <1>3. \A i \in 1 .. n : /\ From(i) \in 1 .. Length /\ To(i) \in 1 .. Length
                          /\ From(i) <= To(i) /\ From(1) <= From(i)
    <2> TAKE i \in 1 .. n
    <2>1. /\ From(i) \in 1 .. Length /\ To(i) \in 1 .. Length /\ From(i) <= To(i)
          /\ From(1) \in 1 .. Length
      BY <1>1, ListFacts
    <2>2. i = 1 \/ 1 < i
      OBVIOUS
    <2>3. i = 1 \/ From(1) < From(i)
      BY <1>1, <2>2, ListFacts
    <2> QED BY <2>1, <2>3
  <1>4. From(1) \in Covered /\ \A x \in Covered : x \in Nat /\ From(1) <= x
    <2>1. From(1) \in From(1) .. To(1)
      BY <1>1, <1>3
    <2>2. ASSUME NEW x \in Covered PROVE x \in Nat /\ From(1) <= x
      <3>1. PICK i \in 1 .. n : x \in From(i) .. To(i)
        BY <1>2, <2>2
      <3>2. From(i) \in 1 .. Length /\ From(1) \in 1 .. Length /\ From(1) <= From(i)
        BY <1>1, <1>3
      <3> QED BY <3>1, <3>2
    <2> QED BY <1>1, <1>2, <2>1, <2>2
  <1>5. Lowest = From(1)
    <2>1. Lowest \in Covered /\ \A x \in Covered : Lowest <= x
      BY <1>4 DEF Lowest
    <2> HIDE DEF Lowest
    <2> QED BY <1>4, <2>1
  <1>6. /\ R \in Nat /\ From(1) <= R
        /\ \A x \in From(1) .. R : \E i \in 1 .. n : From(i) <= x /\ x <= To(i)
        /\ \A i \in 1 .. n : To(i) <= R \/ From(i) > R + 1
    BY <1>1 DEF Reached
  <1>7. From(1) .. R \subseteq Covered
    <2> SUFFICES ASSUME NEW x \in From(1) .. R PROVE x \in Covered
      OBVIOUS
    <2>1. PICK i \in 1 .. n : From(i) <= x /\ x <= To(i)
      BY <1>6
    <2>2. From(i) \in 1 .. Length /\ To(i) \in 1 .. Length /\ From(1) \in 1 .. Length
      BY <1>1, <1>3
    <2>3. x \in From(i) .. To(i)
      BY <1>6, <2>1, <2>2
    <2> QED BY <1>2, <2>3
  <1>8. R + 1 \notin Covered
    <2> SUFFICES ASSUME R + 1 \in Covered PROVE FALSE
      OBVIOUS
    <2>1. PICK i \in 1 .. n : R + 1 \in From(i) .. To(i)
      BY <1>2
    <2>2. From(i) \in 1 .. Length /\ To(i) \in 1 .. Length
      BY <1>3
    <2>3. To(i) <= R \/ From(i) > R + 1
      BY <1>6
    <2> QED BY <1>6, <2>1, <2>2, <2>3
  <1>9. R \in Covered
    <2>1. R \in From(1) .. R
      <3>1. From(1) \in 1 .. Length
        BY <1>1, <1>3
      <3> QED BY <1>6, <3>1
    <2> QED BY <1>7, <2>1
  <1>10. \A y \in Covered : From(1) .. y \subseteq Covered /\ y + 1 \notin Covered => y = R
    <2> SUFFICES ASSUME NEW y \in Covered, From(1) .. y \subseteq Covered, y + 1 \notin Covered,
                        y # R
                 PROVE  FALSE
      OBVIOUS
    <2>1. y \in Nat /\ From(1) <= y /\ From(1) \in Nat
      BY <1>4
    <2>2. CASE y < R
      <3>1. y + 1 \in From(1) .. R
        BY <1>6, <2>1, <2>2
      <3> QED BY <1>7, <3>1
    <2>3. CASE R < y
      <3>1. R + 1 \in From(1) .. y
        BY <1>6, <2>1, <2>3
      <3> QED BY <1>8, <3>1
    <2> QED BY <1>6, <2>1, <2>2, <2>3
  <1>11. Reach = R
    <2>1. /\ Reach \in Covered /\ Lowest .. Reach \subseteq Covered
          /\ Reach + 1 \notin Covered
      BY <1>5, <1>7, <1>8, <1>9 DEF Reach
    <2> HIDE DEF Reach
    <2> QED BY <1>5, <1>10, <2>1
  <1> QED BY <1>5, <1>11

(* concat: whatever was cut out of the stream, in whatever order it came,  *)
(* the payload the modifiers work on is the stream from the lowest byte    *)
(* held up to the first one missing.                                       *)
THEOREM ConcatIsStreamAlways == Spec => []ConcatIsStream
  <1>1. RInv => ConcatIsStream
    <2> SUFFICES ASSUME RInv, segs # << >>
                 PROVE  Concat(segs) = SubSeq(Stream, Lowest, Reach)
      BY DEF ConcatIsStream
    <2>1. PICK R : Reached(Len(segs), R, Concat(segs))
      BY ConcatReaches
    <2>2. Lowest = From(1) /\ Reach = R
      BY <2>1, LowestReach
    <2>3. Concat(segs) = SubSeq(Stream, From(1), R)
      BY <2>1 DEF Reached
    <2> QED BY <2>2, <2>3
  <1> QED BY <1>1, InOrder, PTL

-----------------------------------------------------------------------------
(* What the classifier sees *)

LEMMA TiledFacts ==
  ASSUME RInv, segs # << >>, Tiled
  PROVE  /\ \A i \in 1 .. Len(segs) : From(1) <= From(i) /\ To(i) <= To(Len(segs))
         /\ \A i \in 1 .. Len(segs) : i # 1 => From(i) = To(i - 1) + 1
  <1> DEFINE n == Len(segs)
  <1>1. n \in Nat /\ 1 \in 1 .. n /\ n \in 1 .. n
    BY ListFacts
  <1>2. \A i \in 1 .. n : i # 1 => From(i) = To(i - 1) + 1
    <2> SUFFICES ASSUME NEW i \in 1 .. n, i # 1 PROVE From(i) = To(i - 1) + 1
      OBVIOUS
    <2>1. i - 1 \in 1 .. n - 1 /\ (i - 1) + 1 = i
      BY <1>1
    <2>2. To(i - 1) + 1 = From((i - 1) + 1)
      BY <2>1 DEF Tiled, From, To
    <2> QED BY <2>1, <2>2
  <1>3. ASSUME NEW i \in 1 .. n PROVE From(1) <= From(i) /\ To(i) <= To(n)
    <2>1. /\ From(i) \in 1 .. Length /\ To(i) \in 1 .. Length /\ From(1) \in 1 .. Length
          /\ From(n) \in 1 .. Length /\ To(n) \in 1 .. Length /\ From(n) <= To(n)
      BY <1>1, ListFacts
    <2>2. i = 1 \/ From(1) < From(i)
      <3>1. i = 1 \/ 1 < i
        OBVIOUS
      <3> QED BY <1>1, <3>1, ListFacts
    <2>3. i = n \/ To(i) + 1 <= From(n)
      <3> SUFFICES ASSUME i # n PROVE To(i) + 1 <= From(n)
        OBVIOUS
      <3>1. i + 1 \in 1 .. n /\ i + 1 # 1 /\ (i + 1) - 1 = i
        BY <1>1
      <3>2. From(i + 1) = To(i) + 1
        BY <1>2, <3>1
      <3>3. i + 1 = n \/ i + 1 < n
        BY <3>1
      <3>4. i + 1 = n \/ From(i + 1) < From(n)
        BY <1>1, <3>1, <3>3, ListFacts
      <3>5. From(i + 1) \in 1 .. Length
        BY <3>1, ListFacts
      <3> QED BY <2>1, <3>2, <3>4, <3>5
    <2> QED BY <2>1, <2>2, <2>3
  <1> QED BY <1>2, <1>3

(* Segments that follow one another, end to end, are one part of the stream. *)
LEMMA SortedIsPart ==
  ASSUME RInv, segs # << >>, Tiled
  PROVE  ConcatSorted(segs) = SubSeq(Stream, From(1), To(Len(segs)))
  <1> DEFINE n == Len(segs)
             data == [i \in DOMAIN segs |-> segs[i].data]
             Body(f) == [i \in 1 .. Len(data) |->
                           IF i = 1 THEN data[i] ELSE f[i - 1] \o data[i]]
             flatten == CHOOSE f : f = Body(f)
             part == [i \in 1 .. n |-> SubSeq(Stream, From(1), To(i))]
  <1>1. n \in Nat /\ n > 0 /\ DOMAIN segs = 1 .. n /\ 1 \in 1 .. n
    BY ListFacts
  <1>2. Len(data) = n /\ \A i \in 1 .. n : data[i] = SubSeq(Stream, From(i), To(i))
    BY <1>1, ListFacts
  <1>3. \A i \in 1 .. n : i # 1 =>
          SubSeq(Stream, From(1), To(i - 1)) \o data[i] = SubSeq(Stream, From(1), To(i))
    <2> SUFFICES ASSUME NEW i \in 1 .. n, i # 1
                 PROVE  SubSeq(Stream, From(1), To(i - 1)) \o data[i]
                          = SubSeq(Stream, From(1), To(i))
      OBVIOUS
    <2>1. i - 1 \in 1 .. n
      BY <1>1
    <2>2. From(i) = To(i - 1) + 1
      BY TiledFacts
    <2>3. /\ From(1) \in 1 .. Length /\ From(i - 1) \in 1 .. Length
          /\ To(i - 1) \in 1 .. Length /\ From(i - 1) <= To(i - 1)
          /\ To(i) \in 1 .. Length /\ From(i) <= To(i)
      BY <1>1, <2>1, ListFacts
    <2>4. From(1) <= From(i - 1)
      BY <2>1, TiledFacts
    <2>5. /\ From(1) \in Nat /\ To(i - 1) \in Nat /\ To(i) \in Nat
          /\ 1 <= From(1) /\ From(1) <= To(i - 1) + 1 /\ To(i - 1) <= To(i)
          /\ To(i) <= Length
      BY <2>2, <2>3, <2>4
    <2>6. SubSeq(Stream, From(1), To(i - 1)) \o SubSeq(Stream, To(i - 1) + 1, To(i))
            = SubSeq(Stream, From(1), To(i))
      BY <2>5, PartsMeet
    <2>7. data[i] = SubSeq(Stream, To(i - 1) + 1, To(i))
      BY <1>2, <2>2
    <2> HIDE DEF data
    <2> QED BY <2>6, <2>7
  <1> HIDE DEF data
  <1>4. part = Body(part)
    <2>1. \A i \in 1 .. n : part[i] = IF i = 1 THEN data[i] ELSE part[i - 1] \o data[i]
      <3> TAKE i \in 1 .. n
      <3>1. CASE i = 1
        BY <1>2, <3>1
      <3>2. CASE i # 1
        <4>1. i - 1 \in 1 .. n
          BY <1>1, <3>2
        <4>2. part[i - 1] = SubSeq(Stream, From(1), To(i - 1))
          BY <4>1
        <4> QED BY <1>3, <3>2, <4>2
      <3> QED BY <3>1, <3>2
    <2> QED BY <1>2, <2>1
  <1>5. flatten = Body(flatten)
    <2> HIDE DEF part
    <2>1. \E f : f = Body(f)
      BY <1>4
    <2> QED BY <2>1
  <1> HIDE DEF flatten
  <1>6. flatten[1] = SubSeq(Stream, From(1), To(1))
    BY <1>1, <1>2, <1>5
  <1>7. \A i \in 1 .. n : i # 1 => flatten[i] = flatten[i - 1] \o data[i]
    BY <1>2, <1>5
  <1>8. \A i \in 1 .. n : flatten[i] = SubSeq(Stream, From(1), To(i))
    <2> DEFINE Good == {i \in 1 .. n : flatten[i] = SubSeq(Stream, From(1), To(i))}
    <2>1. 1 \in Good
      BY <1>1, <1>6
    <2>2. \A i \in 1 .. n : i \in Good /\ i + 1 <= n => i + 1 \in Good
      <3> SUFFICES ASSUME NEW i \in 1 .. n, i \in Good, i + 1 <= n PROVE i + 1 \in Good
        OBVIOUS
      <3>1. i + 1 \in 1 .. n /\ i + 1 # 1 /\ (i + 1) - 1 = i
        BY <1>1
      <3>2. flatten[i + 1] = flatten[i] \o data[i + 1]
        BY <1>7, <3>1
      <3>3. SubSeq(Stream, From(1), To(i)) \o data[i + 1] = SubSeq(Stream, From(1), To(i + 1))
        BY <1>3, <3>1
      <3> QED BY <3>1, <3>2, <3>3
    <2>3. \A i \in 1 .. n : i \in Good
      <3> HIDE DEF Good
      <3> QED BY <1>1, <2>1, <2>2, Climb
    <2> QED BY <2>3
  <1>9. ConcatSorted(segs) = flatten[n]
    BY <1>1, <1>2 DEF ConcatSorted, FlattenSeq, flatten, data
  <1> QED BY <1>1, <1>8, <1>9

(* concat_sorted and concat: the classifier judges the bytes the modifiers *)
(* will get whenever the held segments leave no hole and do not overlap.   *)
THEOREM ViewsAgreeAlways == Spec => []ViewsAgreeWhenTiled
  <1>1. ASSUME RInv, segs = << >> PROVE ConcatSorted(segs) = Concat(segs)
    <2>1. [i \in DOMAIN segs |-> segs[i].data] = << >>
      BY <1>1
    <2>2. Len(<< >>) = 0
      OBVIOUS
    <2>3. FlattenSeq(<< >>) = << >>
      BY <2>2, Zenon DEF FlattenSeq
    <2>4. ConcatSorted(segs) = << >>
      BY <2>1, <2>3, Zenon DEF ConcatSorted
    <2>5. Concat(segs) = << >>
      BY <1>1, Zenon DEF Concat
    <2> QED BY <2>4, <2>5
  <1>2. ASSUME RInv, segs # << >>, Tiled PROVE ConcatSorted(segs) = Concat(segs)
    <2> DEFINE n == Len(segs)
    <2>1. PICK R : Reached(n, R, Concat(segs))
      BY <1>2, ConcatReaches
    <2>2. n \in Nat /\ 1 \in 1 .. n /\ n \in 1 .. n
      BY <1>2, ListFacts
    <2>3. \A i \in 1 .. n : /\ From(i) \in 1 .. Length /\ To(i) \in 1 .. Length
                            /\ From(i) <= To(i)
      BY <1>2, ListFacts
    <2>4. /\ R \in Nat /\ From(1) <= R /\ Concat(segs) = SubSeq(Stream, From(1), R)
          /\ \A x \in From(1) .. R : \E i \in 1 .. n : From(i) <= x /\ x <= To(i)
          /\ \A i \in 1 .. n : To(i) <= R \/ From(i) > R + 1
      BY <2>1, <2>2 DEF Reached
    <2>5. R <= To(n)
      <3>1. R \in From(1) .. R
        BY <2>2, <2>3, <2>4
      <3>2. PICK i \in 1 .. n : R <= To(i)
        BY <2>4, <3>1
      <3>3. To(i) <= To(n)
        BY <1>2, TiledFacts
      <3>4. To(i) \in 1 .. Length /\ To(n) \in 1 .. Length /\ R \in Nat
        BY <2>2, <2>3, <2>4
      <3> QED BY <3>2, <3>3, <3>4
    <2>6. \A i \in 1 .. n : To(i) <= R
      <3> DEFINE Good == {i \in 1 .. n : To(i) <= R}
      <3>1. 1 \in Good
        <4>1. To(1) <= R \/ From(1) > R + 1
          BY <2>2, <2>4
        <4> QED BY <2>2, <2>3, <2>4, <4>1
      <3>2. \A i \in 1 .. n : i \in Good /\ i + 1 <= n => i + 1 \in Good
        <4> SUFFICES ASSUME NEW i \in 1 .. n, i \in Good, i + 1 <= n PROVE i + 1 \in Good
          OBVIOUS
        <4>1. i + 1 \in 1 .. n /\ i + 1 # 1 /\ (i + 1) - 1 = i
          BY <2>2
        <4>2. From(i + 1) = To(i) + 1 /\ To(i) <= R
          BY <1>2, <4>1, TiledFacts
        <4>3. To(i + 1) <= R \/ From(i + 1) > R + 1
          BY <2>4, <4>1
        <4>4. To(i) \in 1 .. Length /\ From(i + 1) \in 1 .. Length
          BY <2>3, <4>1
        <4>5. To(i + 1) <= R
          BY <2>4, <4>2, <4>3, <4>4
        <4> QED BY <4>1, <4>5
      <3>3. \A i \in 1 .. n : i \in Good
        <4> HIDE DEF Good
        <4> QED BY <2>2, <3>1, <3>2, Climb
      <3> QED BY <3>3
    <2>7. R = To(n)
      <3>1. To(n) <= R /\ To(n) \in 1 .. Length
        BY <2>2, <2>3, <2>6
      <3> QED BY <2>4, <2>5, <3>1
    <2> QED BY <1>2, <2>4, <2>7, SortedIsPart
  <1>3. RInv => ViewsAgreeWhenTiled
    BY <1>1, <1>2 DEF ViewsAgreeWhenTiled
  <1> QED BY <1>3, InOrder, PTL
=============================================================================
