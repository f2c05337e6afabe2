----------------------------- MODULE Reassembly -----------------------------
(***************************************************************************)
(* Reassembly seen from the stream: segments cut anywhere out of one byte  *)
(* stream are inserted in any order, and the two joins are compared with   *)
(* the stream they were cut from.  The stream starts just below the wrap   *)
(* of the sequence space.                                                  *)
(***************************************************************************)
EXTENDS Connection, FiniteSets

CONSTANTS
  Length,      \* bound: bytes in the stream
  Start        \* sequence number of its first byte

ASSUME StreamAssumption ==
  Length \in Nat \ {0} /\ 2 * Length < SeqSpace /\ Start \in SeqNums

VARIABLE segs  \* what reasm_ holds

Offsets == 1 .. Length

(* Every byte of the stream is different from the others. *)
Stream == [k \in Offsets |-> k]

Cut(a, b) ==
  [id |-> <<a, b>>, seq |-> (Start + a - 1) % SeqSpace, data |-> SubSeq(Stream, a, b)]

Init == segs = << >>

(* reasm_insert of a TCP packet carrying bytes a to b. *)
Insert(a, b) == segs' \in InsertOutcomes(segs, Cut(a, b))

(* reasm_reset, when the classifier has decided. *)
Clear == segs' = << >>

Next == (\E a, b \in Offsets : a <= b /\ Insert(a, b)) \/ Clear

Spec == Init /\ [][Next]_segs

-----------------------------------------------------------------------------
TypeOK ==
  /\ segs \in Seq({Cut(a, b) : a, b \in Offsets})
  /\ Len(segs) <= Length

Covered == UNION {segs[i].id[1] .. segs[i].id[2] : i \in DOMAIN segs}
Lowest == CHOOSE a \in Covered : \A b \in Covered : a <= b
Reach == CHOOSE b \in Covered :
           /\ Lowest .. b \subseteq Covered
           /\ b + 1 \notin Covered

(* What the modifiers join is the stream itself, from the lowest byte held *)
(* up to the first byte missing: overlaps, the order of arrival and the    *)
(* wrap of the sequence space never show.                                  *)
ConcatIsStream ==
  segs # << >> => Concat(segs) = SubSeq(Stream, Lowest, Reach)

(* The classifier judges the bytes the modifiers will get whenever the held*)
(* segments follow one another without gap or overlap.                     *)
Tiled ==
  \A i \in 1 .. Len(segs) - 1 : segs[i].id[2] + 1 = segs[i + 1].id[1]
ViewsAgreeWhenTiled == Tiled => ConcatSorted(segs) = Concat(segs)
=============================================================================
