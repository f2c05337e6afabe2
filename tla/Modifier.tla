------------------------------ MODULE Modifier ------------------------------
(***************************************************************************)
(* What happens to the packets of a recognised connection before they are  *)
(* sent (src/src/modify): Modifier::modify runs the profile's modifiers,   *)
(* splitters and disorders, one after the other over one list of packets.  *)
(*                                                                         *)
(* A packet is [id, action, seq, data, fake, altered].  Its id is 0 when   *)
(* the program made it; `altered' names the header tricks it carries.      *)
(* A modifier is [kind, splits, seqovl, fake, hdr, seqOff, badcksum, l7]:  *)
(* positions to split at, at most one seqovl position, whether it has a    *)
(* fake blob, which of TTL and timestamp it sets, the sequence offset (0   *)
(* for none), and the protocols it applies to.                             *)
(*                                                                         *)
(* An operator named Bug... is the one below it with a plausible mistake:  *)
(* nothing uses it; the mutation runs put it in the other's place to see   *)
(* which property notices.                                                 *)
(***************************************************************************)
EXTENDS Connection, Positions, FiniteSets

CONSTANTS
  Deliveries,   \* the lists of held segments that may be handed over
  Pipelines,    \* the lists of modifiers a profile may have
  Findings,     \* [proto, markers]: the protocol recognised and what
                \* find_markers found, a function from marker names to offsets
                \* (it fails unless it finds all of its protocol)
  MssValues,    \* what get_mss may answer
  Blob,         \* the payload of a fake packet
  TcpHdrLen,    \* length of the TCP header, options included
  MaxLost       \* bound: how many packets may fail to be sent

ASSUME ModifierAssumption ==
  /\ MssValues \subseteq Nat /\ TcpHdrLen \in Nat /\ TcpHdrLen >= 20
  /\ MaxLost \in Nat
  /\ \A f \in Findings :
       /\ f.proto \in {"TLS", "HTTP"}
       /\ \A m \in DOMAIN f.markers : f.markers[m] \in Nat
       /\ DOMAIN f.markers = {"hoststart", "hostmid", "hostend"}
                               \cup (IF f.proto = "TLS" THEN {"sniext"} ELSE {})

(* What a profile can hold: a position that could not be read never gets   *)
(* into one.                                                               *)
Position ==
  [arg : Seq(STRING), op : {"none", "+", "-"}, off : 0 .. SizeSpace - 1,
   last : {"word", "number", "sign"}]
ModifierArgs ==
  [kind : {"splitter", "disorder"}, splits : Seq(Position), seqovl : SUBSET Position,
   fake : BOOLEAN, hdr : SUBSET {"ttl", "ts"}, seqOff : Int, badcksum : BOOLEAN,
   l7 : SUBSET {"TLS", "HTTP"}]
ASSUME PipelinesAssumption == Pipelines \subseteq Seq(ModifierArgs) /\ Blob \in Seq(Nat)

(* The kernel numbers the packets it queues from 1 on, and never gives a   *)
(* number to two that wait.                                                *)
HeldSegment == [id : Nat \ {0}, seq : SeqNums, data : Seq(Nat)]
ASSUME DeliveriesAssumption ==
  \A segs \in Deliveries :
    /\ segs \in Seq(HeldSegment) /\ segs # << >>
    /\ \A i, j \in DOMAIN segs : segs[i].id = segs[j].id => i = j

VARIABLES
  original,     \* the held segments that were handed over
  found,        \* the protocol and the markers of their payload
  pipeline,     \* the profile's modifiers
  mss,          \* the MSS of the connection
  packets,      \* the list the modifiers work on
  next,         \* the modifier whose turn it is
  out,          \* verdict messages sent
  lost,         \* the packets that could not be sent
  pc            \* "filter", "modify", "send", "done", or "fault"

vars == <<original, found, pipeline, mss, packets, next, out, lost, pc>>

(* A list of packets is never empty.  The empty one stands for a step that *)
(* has no result because it ended the program: an exception nobody catches *)
(* or undefined behaviour.  Every step leaves it as it is.                 *)
Fault == << >>

FromHeld(seg) ==
  [id |-> seg.id, action |-> "ACCEPT", seq |-> seg.seq, data |-> seg.data,
   fake |-> FALSE, altered |-> {}]

Originals(ps) == {i \in DOMAIN ps : ~ps[i].fake}

(* The checksum of a packet is calculated anew. *)
Checksummed(p) == [p EXCEPT !.altered = @ \ {"cksum"}]

-----------------------------------------------------------------------------
(* Splitting *)

NotFound == [at |-> 0, rel |-> 0]

(* What comes before a packet in sequence order, equal ones as they come,  *)
(* and how many bytes that is.                                             *)
Before(ps, i) ==
  {j \in DOMAIN ps : \/ SeqLT(ps[j].seq, ps[i].seq)
                     \/ ps[j].seq = ps[i].seq /\ j < i}
SizeBefore(ps, i) ==
  Cardinality(UNION {{j} \X DOMAIN ps[j].data : j \in Before(ps, i)})

(* The packet that holds the byte at offset pos when all packets, fake ones*)
(* too, are laid end to end in sequence order; and the offset within it.   *)
BugFindPacketByOffset(ps, pos) ==
  LET hits == {i \in DOMAIN ps : pos - SizeBefore(ps, i) \in 0 .. Len(ps[i].data) - 2}
      i == CHOOSE k \in hits : TRUE
  IN  IF hits = {} THEN NotFound ELSE [at |-> i, rel |-> pos - SizeBefore(ps, i)]
FindPacketByOffset(ps, pos) ==
  LET hits == {i \in DOMAIN ps : pos - SizeBefore(ps, i) \in 0 .. Len(ps[i].data) - 1}
      i == CHOOSE k \in hits : TRUE
  IN  IF hits = {} THEN NotFound ELSE [at |-> i, rel |-> pos - SizeBefore(ps, i)]

(* A packet gives way to others in its place. *)
Replace(ps, at, pieces) ==
  SubSeq(ps, 1, at - 1) \o pieces \o SubSeq(ps, at + 1, Len(ps))

(* The first part keeps the packet's id and verdict, the second is new.    *)
BugFirstAction(p) == p.action
FirstAction(p) == IF p.action = "ACCEPT" THEN "DROP_AND_SEND" ELSE p.action
SplitPacket(ps, at, rel) ==
  LET p == Checksummed(ps[at])
  IN  Replace(ps, at,
        << [p EXCEPT !.data = SubSeq(@, 1, rel), !.action = FirstAction(p)],
           [p EXCEPT !.id = 0, !.action = "SEND", !.seq = (@ + rel) % SeqSpace,
                     !.data = SubSeq(@, rel + 1, Len(@))] >>)

(* Neither split_http nor split_tls checks that a packet was found. *)
Split(ps, pos) ==
  LET hit == FindPacketByOffset(ps, SplitPos(found.markers, pos))
  IN  IF hit = NotFound THEN Fault ELSE SplitPacket(ps, hit.at, hit.rel)

SplitAll(ps, splits) ==
  LET after[k \in 0 .. Len(splits)] ==
        IF k = 0 THEN ps ELSE Split(after[k - 1], splits[k])
  IN  after[Len(splits)]

-----------------------------------------------------------------------------
(* Sequence overlap: a packet is sent again from n bytes earlier, with n   *)
(* bytes of padding in front.                                              *)

Padding(n) == [k \in 1 .. n |-> 0]
Overlapped(p, n) == Padding(n) \o p.data

(* What fits into a segment with the TCP options; the splitter subtracts   *)
(* the size of a pointer where it means the size of a header.              *)
SplitterMss == (mss - (TcpHdrLen - 8)) % SizeSpace
DisorderMss == (mss - (TcpHdrLen - 20)) % SizeSpace

(* Pieces of at most size bytes; the first one keeps id and verdict.       *)
BugPieceAction(p, k) == IF p.action = "SEND" THEN "SEND" ELSE "DROP_AND_SEND"
PieceAction(p, k) ==
  IF k > 1 \/ p.action = "SEND" THEN "SEND" ELSE "DROP_AND_SEND"
Piece(p, k, seq, data) ==
  [Checksummed(p) EXCEPT
     !.id = IF k = 1 THEN @ ELSE 0, !.action = PieceAction(p, k),
     !.seq = seq % SeqSpace, !.data = data]

Segmentize(data, size, p, start) ==
  [k \in 1 .. (Len(data) + size - 1) \div size |->
     Piece(p, k, start + (k - 1) * size,
           SubSeq(data, (k - 1) * size + 1, Min({k * size, Len(data)})))]

Segments(p, n, size) == Len(Overlapped(p, n)) > size

BugStart(p, n) == p.seq
Start(p, n) == (p.seq - n) % SeqSpace

(* A segment size of zero is a division by zero. *)
Overlap(ps, at, n, size) ==
  LET p == ps[at]
      pieces == IF Segments(p, n, size)
                THEN Segmentize(Overlapped(p, n), size, p, Start(p, n))
                ELSE <<Piece(p, 1, Start(p, n), Overlapped(p, n))>>
  IN  IF Segments(p, n, size) /\ size = 0 THEN Fault
      ELSE Replace(ps, at, pieces)

-----------------------------------------------------------------------------
(* Header tricks *)

OffsetSeq(p, off) ==
  IF off = 0 THEN p ELSE [Checksummed(p) EXCEPT !.seq = (@ + off) % SeqSpace]

(* Setting the TTL leaves the checksum, shifting the timestamp renews it.  *)
SetHeader(p, hdr) ==
  [(IF "ts" \in hdr THEN Checksummed(p) ELSE p) EXCEPT !.altered = @ \cup hdr]

BadChecksum(p, bad) == IF bad THEN [p EXCEPT !.altered = @ \cup {"cksum"}] ELSE p

OnOriginals(ps, Op(_)) ==
  [i \in DOMAIN ps |-> IF ps[i].fake THEN ps[i] ELSE Op(ps[i])]

(* A fake packet with the header of the first one, tricked and put first.  *)
InsertFake(ps, m) ==
  LET copy == [Checksummed(ps[1]) EXCEPT !.id = 0, !.action = "SEND", !.data = Blob,
                                         !.fake = TRUE]
  IN  <<BadChecksum(OffsetSeq(SetHeader(copy, m.hdr), m.seqOff), m.badcksum)>> \o ps

-----------------------------------------------------------------------------
(* The two modifiers.  Each answers with the set of lists it may leave.    *)

(* The filtered view keeps the place of its first packet once it was used; *)
(* when the list is rebuilt in between, using it again may be undefined.   *)
Outcomes(result, stale) == IF stale THEN {result, Fault} ELSE {result}

SplitterOutcomes(ps, m) ==
  LET cut == OnOriginals(SplitAll(ps, m.splits), LAMBDA p : SetHeader(p, m.hdr))
      n == IF m.seqovl = {} THEN 0 ELSE (CHOOSE pos \in m.seqovl : TRUE).off
      first == Min(Originals(cut))
      overlaps == m.seqovl # {} /\ Originals(cut) # {}
      done == IF overlaps THEN Overlap(cut, first, n, SplitterMss) ELSE cut
  IN  Outcomes(
        OnOriginals(done, LAMBDA p : BadChecksum(OffsetSeq(p, m.seqOff), m.badcksum)),
        /\ overlaps /\ Segments(cut[first], n, SplitterMss)
        /\ m.hdr # {} /\ (m.seqOff # 0 \/ m.badcksum))

(* An overlap at the SNI extension throws for HTTP, which has none.        *)
SeqovlThrows(pos) == pos.arg = <<"sniext">> /\ "sniext" \notin DOMAIN found.markers

(* The first packet of the list, which may be a fake one. *)
TooBig(ps, n) == n >= Len(ps[1].data)

DisorderOutcomes(ps, m) ==
  LET cut == OnOriginals(SplitAll(ps, m.splits),
               LAMBDA p : SetHeader(OffsetSeq(p, m.seqOff), m.hdr))
      pos == CHOOSE q \in m.seqovl : TRUE
      n == SplitPos(found.markers, pos)
      second == Min(Originals(cut)) + 1
      overlaps == /\ m.seqovl # {} /\ Originals(cut) # {}
                  /\ ~SeqovlThrows(pos) /\ ~TooBig(cut, n)
      inside == second <= Len(cut)
      done == IF m.seqovl # {} /\ SeqovlThrows(pos) THEN Fault
              ELSE IF ~overlaps THEN cut
              ELSE IF inside THEN Overlap(cut, second, n, DisorderMss) ELSE Fault
  IN  Outcomes(
        OnOriginals(done, LAMBDA p : BadChecksum(p, m.badcksum)),
        /\ overlaps /\ inside /\ Segments(cut[second], n, DisorderMss)
        /\ (m.hdr # {} \/ m.seqOff # 0) /\ m.badcksum)

(* The originals in reverse order, in the places originals have. *)
Rank(ps, i) == Cardinality({j \in Originals(ps) : j < i})
Mirror(ps, i) ==
  CHOOSE j \in Originals(ps) : Rank(ps, j) + Rank(ps, i) + 1 = Cardinality(Originals(ps))
ReverseOriginals(ps) ==
  [i \in DOMAIN ps |-> IF ps[i].fake THEN ps[i] ELSE ps[Mirror(ps, i)]]

-----------------------------------------------------------------------------
(* Modifier::modify, and the loop of cb_loop that sends what it leaves *)

Init ==
  /\ original \in Deliveries
  /\ found \in Findings
  /\ pipeline \in Pipelines
  /\ mss \in MssValues
  /\ packets = [i \in DOMAIN original |-> FromHeld(original[i])]
  /\ next = 1
  /\ out = {} /\ lost = {}
  /\ pc = "filter"

(* The address and the host are allowed, and there are markers; or not.    *)
Filter ==
  /\ pc = "filter"
  /\ pc' \in {"modify", "send"}
  /\ UNCHANGED <<original, found, pipeline, mss, packets, next, out, lost>>

Turn(kind) ==
  /\ pc = "modify"
  /\ next <= Len(pipeline)
  /\ pipeline[next].kind = kind
  /\ found.proto \in pipeline[next].l7
  /\ next' = next + 1
  /\ UNCHANGED <<original, found, pipeline, mss, out, lost>>

Leaves(result) ==
  /\ packets' = result
  /\ pc' = IF result = Fault THEN "fault" ELSE "modify"

(* A modifier with a fake blob does nothing to the originals. *)
Splitter ==
  /\ Turn("splitter")
  /\ IF pipeline[next].fake
     THEN Leaves(InsertFake(packets, pipeline[next]))
     ELSE \E result \in SplitterOutcomes(packets, pipeline[next]) : Leaves(result)

(* A disorder reverses the originals whether it has a fake blob or not.    *)
Disorder ==
  /\ Turn("disorder")
  /\ IF pipeline[next].fake
     THEN Leaves(ReverseOriginals(InsertFake(packets, pipeline[next])))
     ELSE \E result \in DisorderOutcomes(packets, pipeline[next]) :
            Leaves(ReverseOriginals(result))

Skip ==
  /\ pc = "modify"
  /\ next <= Len(pipeline)
  /\ found.proto \notin pipeline[next].l7
  /\ next' = next + 1
  /\ UNCHANGED <<original, found, pipeline, mss, packets, out, lost, pc>>

Finished ==
  /\ pc = "modify"
  /\ next > Len(pipeline)
  /\ pc' = "send"
  /\ UNCHANGED <<original, found, pipeline, mss, packets, next, out, lost>>

(* One message for each packet but those the program made. *)
Verdicts ==
  {[pos |-> i, id |-> packets[i].id,
    verdict |-> IF packets[i].action = "ACCEPT" THEN "ACCEPT" ELSE "DROP"] :
   i \in {k \in DOMAIN packets : packets[k].action # "SEND"}}

(* A replaced packet is dropped before it is known whether its replacement *)
(* can be sent; if it cannot, the loop goes on.                            *)
Send ==
  /\ pc = "send"
  /\ out' = Verdicts
  /\ lost' \in {S \in SUBSET {i \in DOMAIN packets : packets[i].action # "ACCEPT"} :
                  Cardinality(S) <= MaxLost}
  /\ pc' = "done"
  /\ UNCHANGED <<original, found, pipeline, mss, packets, next>>

Next == Filter \/ Splitter \/ Disorder \/ Skip \/ Finished \/ Send

Spec == Init /\ [][Next]_vars
=============================================================================
