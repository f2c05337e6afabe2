------------------------- MODULE ModifierProperties -------------------------
(***************************************************************************)
(* What the modifiers may do to a connection, stated over Modifier: what   *)
(* the kernel is told about the packets they were given, what the network  *)
(* sees, and what the peer's TCP makes of it.                              *)
(***************************************************************************)
EXTENDS Modifier

(* The packets as the daemon puts them on the wire.  An accepted one goes  *)
(* out as the kernel has it, whatever was done to the program's copy.      *)
OriginalOf(id) == CHOOSE i \in DOMAIN original : original[i].id = id
Sent ==
  [i \in DOMAIN packets |->
     IF packets[i].action = "ACCEPT" THEN FromHeld(original[OriginalOf(packets[i].id)])
                                     ELSE packets[i]]
OnWire == DOMAIN Sent \ lost

(* The peer (external): it drops a packet with a bad checksum; the TTL or  *)
(* timestamp of a fake packet was chosen so that it never counts there.    *)
Reaches(p) == "cksum" \notin p.altered /\ ~(p.fake /\ p.altered # {})

(* How many bytes after the first one handed over a packet starts.         *)
Signed(n) == IF 2 * n >= SeqSpace THEN n - SeqSpace ELSE n
Place(base, p) == Signed((p.seq - base) % SeqSpace)

(* It waits for the byte after those it has, and takes it, and what follows*)
(* it there, from the first packet to arrive that has it.                  *)
HasNext(base, got, p) ==
  /\ Reaches(p)
  /\ Place(base, p) <= Len(got) /\ Len(got) < Place(base, p) + Len(p.data)
Take(base, got, ps, arrived) ==
  LET having == {k \in arrived : HasNext(base, got, ps[k])}
      p == ps[Min(having)]
  IN  IF having = {} THEN got
      ELSE got \o SubSeq(p.data, Len(got) - Place(base, p) + 1, Len(p.data))

(* It goes on until no packet that has arrived has the next byte (each is  *)
(* used up when it was taken from), whenever another packet arrives.       *)
TakeAll(base, got, ps, arrived) ==
  LET after[k \in 0 .. Len(ps)] ==
        IF k = 0 THEN got ELSE Take(base, after[k - 1], ps, arrived)
  IN  after[Len(ps)]
Received(base, ps, arriving) ==
  LET after[k \in 0 .. Len(ps)] ==
        IF k = 0 THEN << >>
        ELSE TakeAll(base, after[k - 1], ps, arriving \cap (1 .. k))
  IN  after[Len(ps)]

HandedOver == [i \in DOMAIN original |-> FromHeld(original[i])]
Base == original[1].seq
Payload == Concat(original)

Ran == {pipeline[i] : i \in 1 .. next - 1}

-----------------------------------------------------------------------------
(* Every packet that was handed over is answered once, through any         *)
(* pipeline, and no verdict is sent for a packet the program made.         *)
Answered ==
  INSTANCE Handover WITH
    Ids <- UNION {{segs[i].id : i \in DOMAIN segs} : segs \in Deliveries},
    waiting <- {original[i].id : i \in DOMAIN original} \ {m.id : m \in out},
    ended <- pc = "fault"
AnswersEach == Answered!Spec

(* The segments handed over follow one another. *)
Tiled == Follows(original)

(* The originals keep their sequence numbers and checksums, and a fake     *)
(* packet carries a TTL or timestamp that keeps it from counting.  (A bad  *)
(* checksum alone does not: a later split of the packet calculates it anew.)*)
Sound(m) == IF m.fake THEN m.hdr # {} ELSE m.seqOff = 0 /\ ~m.badcksum

(* Where an overlap pads over bytes that the peer has, or gets from another*)
(* packet before it could take the padding for them: it is made before the *)
(* originals are reversed; and one that pads over the first packet, a      *)
(* disorder's, is made over segments that follow one another, after no     *)
(* other overlap, and the first packet is not split after it.              *)
Applied(i) == found.proto \in pipeline[i].l7
Pads(i) == Applied(i) /\ ~pipeline[i].fake /\ pipeline[i].seqovl # {}
PadsOverFirst(i) == Pads(i) /\ pipeline[i].kind = "disorder"
Cuts(i) == Applied(i) /\ ~pipeline[i].fake /\ pipeline[i].splits # << >>
PaddingInPlace ==
  /\ \A j \in 1 .. next - 1 : PadsOverFirst(j) => Tiled
  /\ \A i, j \in 1 .. next - 1 : i < j =>
       /\ Pads(j) => ~(Applied(i) /\ pipeline[i].kind = "disorder")
       /\ PadsOverFirst(j) => ~Pads(i)
       /\ PadsOverFirst(i) => ~Cuts(j)

(* The peer receives the bytes it would have received without the program: *)
(* no cut, reversal, overlap or fake packet changes or loses any of them;  *)
(* and when a packet cannot be sent, it receives them up to some point, and*)
(* never a wrong one.                                                      *)
StreamPreserved ==
  (pc = "done" /\ (\A m \in Ran : Sound(m)) /\ PaddingInPlace) =>
    LET got == Received(Base, Sent, OnWire)
        meant == Received(Base, HandedOver, DOMAIN HandedOver)
    IN  IsPrefix(got, meant) /\ (lost = {} => got = meant)

(* What is handed over are pieces of one stream, the first of them in      *)
(* front, within span bytes, fewer than half the sequence space: where two *)
(* of them have the same place in it, they have the same byte.             *)
OneStream(span) ==
  /\ 2 * span < SeqSpace
  /\ \A segs \in Deliveries :
       LET at(i) == Place(segs[1].seq, segs[i])
       IN  /\ \A i \in DOMAIN segs : 0 <= at(i) /\ at(i) + Len(segs[i].data) <= span
           /\ \A i, j \in DOMAIN segs :
                \A x \in DOMAIN segs[i].data, y \in DOMAIN segs[j].data :
                  at(i) + x = at(j) + y => segs[i].data[x] = segs[j].data[y]

(* No overlap of a splitter is longer than step bytes, and all of a        *)
(* profile's reach back less than half the sequence space.                 *)
RoomToPad(step) ==
  \A ppl \in Pipelines :
    /\ 2 * (step * Len(ppl)) <= SeqSpace
    /\ \A i \in DOMAIN ppl : \A pos \in ppl[i].seqovl : pos.off <= step

(* A modifier moves a packet, or pads it, by step bytes at most; or it     *)
(* overlaps at an offset that wrapped around and lies in no packet.         *)
NoFarther(m, step) ==
  /\ -step <= m.seqOff /\ m.seqOff <= step
  /\ \A pos \in m.seqovl :
       IF m.kind = "splitter" THEN pos.off <= step
       ELSE \A f \in Findings :
              SplitPos(f.markers, pos) \notin step + 1 .. SeqSpace - 1

(* What is handed over lies within span bytes from its first packet on, a  *)
(* fake packet has step bytes at most, and all that a profile's modifiers  *)
(* move and pad stays within half the sequence space.                      *)
RoomToMove(span, step) ==
  /\ Len(Blob) <= step
  /\ \A segs \in Deliveries : \A i \in DOMAIN segs :
       LET at == Place(segs[1].seq, segs[i])
       IN  0 <= at /\ at + Len(segs[i].data) <= span
  /\ \A ppl \in Pipelines :
       /\ 2 * (span + 4 * (step * Len(ppl))) < SeqSpace
       /\ \A i \in DOMAIN ppl : NoFarther(ppl[i], step)

(* A fake packet was put in front of what a disorder then overlapped: the   *)
(* disorder measures the overlap by the fake packet.                        *)
FakeInFront ==
  \E j \in 1 .. next - 1 :
    PadsOverFirst(j) /\ \E i \in 1 .. j - 1 : Applied(i) /\ pipeline[i].fake

(* A cut is where it was asked for: once a modifier that splits has run, no*)
(* packet on the wire has the bytes on both sides of the position together.*)
(* (For segments that follow one another; otherwise the offsets of the     *)
(* payload are not those of the segments.)                                 *)
Asked ==
  {SplitPos(found.markers, pos) : pos \in UNION {Range(m.splits) : m \in
     {q \in Ran : ~q.fake /\ found.proto \in q.l7}}}
CutWhereAsked ==
  (pc = "done" /\ Tiled) =>
    \A k \in Asked \cap 1 .. Len(Payload) - 1 :
      \A i \in OnWire :
        ~ ({Payload[k], Payload[k + 1]} \subseteq Range(Sent[i].data))

(* Cuts are where they were asked for unless a modifier before them put a   *)
(* fake packet or padding in front, which their offsets count.              *)
Shifts(m) == m.fake \/ m.seqovl # {}
CutUnlessShifted ==
  (\A i \in 2 .. Len(pipeline) : ~Shifts(pipeline[i - 1])) => CutWhereAsked

(* To tell by the bytes of a packet what is in it, each byte of a payload   *)
(* must differ from the others, and from those of padding and fake packets; *)
(* and a payload is shorter than half the sequence space, as TCP's window   *)
(* guarantees.                                                              *)
Told(P) ==
  /\ \A i, j \in DOMAIN P : P[i] = P[j] => i = j
  /\ \A i \in DOMAIN P : P[i] \notin {0} \cup Range(Blob)
ToldApart ==
  \A segs \in Deliveries : Follows(segs) =>
    /\ Told(Concat(segs))
    /\ \A i \in DOMAIN segs :
         2 * (((segs[i].seq - segs[1].seq) % SeqSpace) + Len(segs[i].data)) < SeqSpace

(* The ways a modifier ends the program, and no other: a position outside  *)
(* the payload, an overlap with no second packet to put it on (no split, or*)
(* one that hits a fake packet in front, made a second), an overlap        *)
(* at an extension HTTP has not, an MSS used up by the options, and a list *)
(* rebuilt under a view that is used again.                                *)
Outside(m) == \E pos \in Range(m.splits) : SplitPos(found.markers, pos) >= Len(Payload)
Overlaps(m, kind) == m.kind = kind /\ m.seqovl # {}
NoSecond(m) ==
  /\ Overlaps(m, "disorder") /\ Cardinality(Originals(packets)) = 1
  /\ m.splits = << >> \/ packets[1].fake
NoSni(m) == Overlaps(m, "disorder") /\ \E pos \in m.seqovl : SeqovlThrows(pos)
NoRoom(m) ==
  \/ Overlaps(m, "disorder") /\ DisorderMss = 0
  \/ Overlaps(m, "splitter") /\ SplitterMss = 0
ReusesView(m) ==
  /\ m.seqovl # {}
  /\ m.hdr # {} \/ m.seqOff # 0
  /\ m.badcksum \/ (m.kind = "splitter" /\ m.seqOff # 0)
FaultsOnlyWhen ==
  [][(pc # "fault" /\ pc' = "fault") =>
       LET m == pipeline[next]
       IN  /\ ~m.fake
           /\ Outside(m) \/ NoSecond(m) \/ NoSni(m) \/ NoRoom(m) \/ ReusesView(m)]_vars
=============================================================================
