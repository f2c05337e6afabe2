----------------------------- MODULE Connection -----------------------------
(***************************************************************************)
(* One tracked connection (src/src/conntrack): the TCP state the tracker   *)
(* guesses from the packets it sees, the MSS it learns, the segments it    *)
(* holds until the classifier has enough of the stream, and the two ways   *)
(* the program joins held segments into one payload.                       *)
(*                                                                         *)
(* The module has no state of its own: Dispatcher keeps one of these       *)
(* records per connection and moves it with these operators.               *)
(*                                                                         *)
(* An operator named Bug... is the one below it with a plausible mistake:  *)
(* nothing uses it; the mutation runs put it in the other's place to see   *)
(* which property notices.                                                 *)
(***************************************************************************)
EXTENDS Integers, Sequences, SequencesExt, Functions, FiniteSets, Classifier

CONSTANTS
  SeqSpace,                          \* size of the sequence space (2^32)
  DEFAULT_CONNECTION_TIMEOUT_SECS,   \* time units before a silent ...
  SYN_TCP_CONNECTION_TIMEOUT_SECS,   \* ... connection is dead, by state
  ESTAB_TCP_CONNECTION_TIMEOUT_SECS,
  FIN_TCP_CONNECTION_TIMEOUT_SECS,
  CLOSE_TCP_CONNECTION_TIMEOUT_SECS

ASSUME SeqSpaceAssumption == SeqSpace \in Nat /\ SeqSpace > 1

ASSUME TimeoutAssumption ==
  /\ DEFAULT_CONNECTION_TIMEOUT_SECS \in Nat
  /\ SYN_TCP_CONNECTION_TIMEOUT_SECS \in Nat
  /\ ESTAB_TCP_CONNECTION_TIMEOUT_SECS \in Nat
  /\ FIN_TCP_CONNECTION_TIMEOUT_SECS \in Nat
  /\ CLOSE_TCP_CONNECTION_TIMEOUT_SECS \in Nat

SeqNums == 0 .. SeqSpace - 1
TcpStates == {"UNKNOWN", "SYN", "ESTAB", "FIN", "CLOSED"}
DEFAULT_MSS == 536

NewConnection ==
  [state |-> "UNKNOWN", expected |-> 0, mss |-> DEFAULT_MSS, segs |-> << >>,
   done |-> FALSE, l7 |-> "UNKNOWN", age |-> 0]

-----------------------------------------------------------------------------
(* TCP tracking *)

(* What parse_mss_opt answers for the options of a SYN, an option being    *)
(* [kind, val] with kind "NOP", "MSS", "OTHER", or "BAD" for one that is   *)
(* cut short or has the wrong size.  Every `return false` of the function  *)
(* becomes an engaged optional that holds 0.                               *)
NoAnswer == -1
Stops(opts, i) ==
  /\ opts[i].kind \in {"MSS", "BAD"}
  /\ \A j \in 1 .. i - 1 : opts[j].kind \notin {"MSS", "BAD"}
ParseMssOpt(opts) ==
  LET answers == {i \in DOMAIN opts : Stops(opts, i) /\ opts[i].kind = "MSS"}
  IN  IF opts = << >> THEN 0
      ELSE IF answers # {} THEN opts[CHOOSE i \in answers : TRUE].val
      ELSE IF \E i \in DOMAIN opts : opts[i].kind = "BAD" THEN 0
      ELSE NoAnswer

LearnMss(c, p) ==
  IF p.syn /\ ParseMssOpt(p.opts) # NoAnswer
  THEN [c EXCEPT !.mss = ParseMssOpt(p.opts)] ELSE c

BugNextSeq(p) == p.seq + 1
NextSeq(p) == (p.seq + 1) % SeqSpace
Handshake(c, p) ==
  CASE c.state = "UNKNOWN" /\ p.syn /\ ~p.ack ->
         [c EXCEPT !.state = "SYN", !.expected = NextSeq(p)]
    [] c.state = "SYN" /\ p.ack /\ p.seq = c.expected ->
         [c EXCEPT !.state = "ESTAB", !.expected = 0]
    [] c.state = "UNKNOWN" /\ p.syn /\ p.ack ->
         [c EXCEPT !.state = "ESTAB"]
    [] OTHER -> c

BugFinish(c, p) == IF p.fin THEN [c EXCEPT !.state = "FIN"] ELSE c
Finish(c, p) ==
  IF c.state = "ESTAB" /\ p.fin THEN [c EXCEPT !.state = "FIN"] ELSE c

Reset(c, p) == IF p.rst THEN [c EXCEPT !.state = "CLOSED"] ELSE c

TrackTcp(c, p) == Reset(Finish(Handshake(LearnMss(c, p), p), p), p)

(* The whole of Connection::track: the packet also makes the connection young. *)
Track(proto, c, p) ==
  [IF proto = "TCP" THEN TrackTcp(c, p) ELSE c EXCEPT !.age = 0]

TimeoutFor(c) ==
  CASE c.state = "SYN"    -> SYN_TCP_CONNECTION_TIMEOUT_SECS
    [] c.state = "ESTAB"  -> ESTAB_TCP_CONNECTION_TIMEOUT_SECS
    [] c.state = "FIN"    -> FIN_TCP_CONNECTION_TIMEOUT_SECS
    [] c.state = "CLOSED" -> CLOSE_TCP_CONNECTION_TIMEOUT_SECS
    [] OTHER              -> DEFAULT_CONNECTION_TIMEOUT_SECS

-----------------------------------------------------------------------------
(* Reassembly.  A held segment is [id, seq, data]. *)

(* static_cast<int32_t>(a - b) < 0: RFC 1982 order, right across the wrap. *)
SeqLT(a, b) == 2 * ((a - b) % SeqSpace) >= SeqSpace

BugOnlyFirst(segs, seq) == segs # << >> /\ segs[1].seq = seq
BugOnlyLast(segs, seq) == segs # << >> /\ segs[Len(segs)].seq = seq
IsDuplicate(segs, seq) == \E i \in DOMAIN segs : segs[i].seq = seq

InSeqOrder(segs) ==
  \A i, j \in DOMAIN segs : i < j => ~SeqLT(segs[j].seq, segs[i].seq)

(* The reorderings of a sequence. *)
Shuffles(segs) ==
  {[i \in DOMAIN segs |-> segs[f[i]]] : f \in Bijection(DOMAIN segs, DOMAIN segs)}

(* What std::sort may leave: an ordered permutation; any permutation when  *)
(* the held segments span so much of the sequence space that the comparison*)
(* is not an order and none is ordered.                                    *)
SortOutcomes(segs) ==
  LET ordered == {s \in Shuffles(segs) : InSeqOrder(s)}
  IN  IF ordered # {} THEN ordered ELSE Shuffles(segs)

(* The append test adds a 32-bit number and a size_t, so it does not wrap. *)
FollowsLast(segs, seg) ==
  segs[Len(segs)].seq + Len(segs[Len(segs)].data) = seg.seq

(* The segments held after reasm_insert of a TCP packet. *)
InsertOutcomes(segs, seg) ==
  IF segs = << >> THEN {<<seg>>}
  ELSE IF IsDuplicate(segs, seg.seq) THEN {segs}
  ELSE IF FollowsLast(segs, seg) THEN {Append(segs, seg)}
  ELSE SortOutcomes(Append(segs, seg))

-----------------------------------------------------------------------------
(* Joining segments *)

(* Segments with no hole and no overlap between them.                      *)
Follows(segs) ==
  \A i \in 1 .. Len(segs) - 1 :
    (segs[i].seq + Len(segs[i].data)) % SeqSpace = segs[i + 1].seq

(* What the classifier sees: the payloads in held order, end to end.       *)
ConcatSorted(segs) == FlattenSeq([i \in DOMAIN segs |-> segs[i].data])

(* One step of concat: acc are the bytes from the lowest sequence number on, *)
(* data starts rel bytes after it.  A covered segment and one behind a hole*)
(* add nothing; after a hole every later segment is behind it too.         *)
BugExtendWhole(acc, rel, data) == IF rel > Len(acc) THEN acc ELSE acc \o data
BugExtendHole(acc, rel, data) ==
  IF acc # << >> /\ (rel >= Len(acc) \/ rel + Len(data) <= Len(acc))
  THEN acc ELSE acc \o SubSeq(data, Len(acc) - rel + 1, Len(data))
Extend(acc, rel, data) ==
  IF rel > Len(acc) \/ rel + Len(data) <= Len(acc)
  THEN acc ELSE acc \o SubSeq(data, Len(acc) - rel + 1, Len(data))

(* The lowest sequence number, as concat finds it. *)
LowestSeq(segs) ==
  LET lowest[k \in 1 .. Len(segs)] ==
        IF k = 1 THEN segs[1].seq
        ELSE IF SeqLT(segs[k].seq, lowest[k - 1]) THEN segs[k].seq ELSE lowest[k - 1]
  IN  lowest[Len(segs)]

(* std::stable_sort by rel: the position of the k-th.                      *)
Ahead(rel, i) == {j \in DOMAIN rel : rel[j] < rel[i] \/ (rel[j] = rel[i] /\ j < i)}
StableOrder(rel) ==
  [k \in DOMAIN rel |->
     CHOOSE i \in DOMAIN rel : Cardinality(Ahead(rel, i)) = k - 1]

Join(segs, rel, order) ==
  LET joined[k \in 0 .. Len(segs)] ==
        IF k = 0 THEN << >>
        ELSE Extend(joined[k - 1], rel[order[k]], segs[order[k]].data)
  IN  joined[Len(segs)]

(* What the modifiers see: the bytes from the lowest sequence number up to *)
(* the first hole, overlaps taken once.                                    *)
Concat(segs) ==
  LET rel == [i \in DOMAIN segs |-> (segs[i].seq - LowestSeq(segs)) % SeqSpace]
  IN  IF segs = << >> THEN << >> ELSE Join(segs, rel, StableOrder(rel))
=============================================================================
