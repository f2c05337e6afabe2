----------------------------- MODULE MCModifier -----------------------------
(* Small instances of Modifier: what is handed over, and profiles. *)
EXTENDS ModifierProperties

(* Six different bytes from -3 on, across the wrap of SeqSpace.            *)
Held(id, a, b) ==
  [id |-> id, seq |-> (SeqSpace - 4 + a) % SeqSpace, data |-> [k \in 1 .. b - a + 1 |-> a + k - 1]]

Whole == <<Held(1, 1, 6)>>
Halves == <<Held(1, 1, 3), Held(2, 4, 6)>>
Thirds == <<Held(3, 1, 2), Held(1, 3, 5), Held(2, 6, 6)>>
Overlapping == <<Held(1, 1, 3), Held(2, 2, 6)>>
WithHole == <<Held(1, 1, 2), Held(2, 4, 6)>>
AllDeliveries == {Whole, Halves, Thirds, Overlapping, WithHole}
TiledDeliveries == {Whole, Halves, Thirds}

InTls == [proto |-> "TLS", markers |->
            [hoststart |-> 2, hostmid |-> 3, hostend |-> 5, sniext |-> 1]]
InHttp == [proto |-> "HTTP", markers |-> [hoststart |-> 2, hostmid |-> 3, hostend |-> 5]]
OnlyInTls == {InTls}
InBoth == {InTls, InHttp}

At(k) == ParsePosition(<<Number(k)>>)
Mark(arg, op, k) ==
  ParsePosition(IF op = "none" THEN <<Word(arg)>> ELSE <<Word(arg), Sign(op), Number(k)>>)

Plain(kind) ==
  [kind |-> kind, splits |-> << >>, seqovl |-> {}, fake |-> FALSE, hdr |-> {},
   seqOff |-> 0, badcksum |-> FALSE, l7 |-> {"TLS", "HTTP"}]

Splits ==
  { << >>, <<At(2)>>, <<At(2), Mark("hoststart", "+", 1)>>,
    <<Mark("hostend", "-", 1), Mark("hostmid", "none", 0)>>,
    <<Mark("sniext", "none", 0), At(5)>> }
Blobs ==
  { [Plain("splitter") EXCEPT !.fake = TRUE, !.hdr = {"ttl"}],
    [Plain("splitter") EXCEPT !.fake = TRUE, !.hdr = {"ts"}, !.seqOff = -3],
    [Plain("disorder") EXCEPT !.fake = TRUE, !.hdr = {"ttl"}] }
Cutters ==
  {[Plain(kind) EXCEPT !.splits = s] :
     kind \in {"splitter", "disorder"}, s \in Splits}
Overlappers ==
  {[Plain("splitter") EXCEPT !.splits = s, !.seqovl = {At(n)}] :
     s \in Splits, n \in 1 .. 4}
    \cup {[Plain("disorder") EXCEPT !.splits = s, !.seqovl = {At(n)}]
            : s \in {<<At(3)>>, <<At(3), At(5)>>}, n \in 1 .. 4}
FakeCutters ==
  {[Plain("disorder") EXCEPT !.splits = <<At(n)>>, !.seqovl = {At(1)}] : n \in 2 .. 3}
OnlyTls == [Plain("splitter") EXCEPT !.splits = <<At(1)>>, !.l7 = {"TLS"}]

(* One modifier alone, two cuts, a cut behind a fake packet or an overlap.  *)
Harmless ==
  {<<m>> : m \in Cutters \cup Overlappers}
    \cup {<<m, n>> : m \in Cutters, n \in Cutters}
    \cup {<<b, m>> : b \in Blobs, m \in Cutters \cup FakeCutters}
    \cup {<<m, n>> : m \in {q \in Overlappers : q.kind = "splitter"}, n \in Cutters}
    \cup {<<m, Plain("disorder")>> : m \in Overlappers}
    \cup {<<[Plain("splitter") EXCEPT !.seqovl = {At(n)}], m>> :
             n \in 1 .. 4, m \in {q \in Overlappers : q.kind = "splitter"}}

(* Anything at all, positions outside the payload and every trick included.*)
Wild ==
  {[Plain(kind) EXCEPT !.splits = s, !.seqovl = o, !.fake = f, !.hdr = h,
                       !.seqOff = q, !.badcksum = c] :
     kind \in {"splitter", "disorder"}, s \in {<< >>, <<At(3)>>, <<At(5)>>, <<At(9)>>},
     o \in {{}, {At(2)}, {Mark("sniext", "+", 1)}}, f \in BOOLEAN,
     h \in {{}, {"ttl"}, {"ts"}}, q \in {0, -2}, c \in BOOLEAN}
WildPipelines == {<<m>> : m \in Wild} \cup {<<m, Plain("disorder")>> : m \in Wild}
  \cup {<<OnlyTls, Plain("disorder")>>}

AnyPipelines == Harmless \cup WildPipelines

(* The profile of config/config.toml: a fake packet, then a splitter.      *)
ShippedProfile ==
  {<<[Plain("splitter") EXCEPT !.fake = TRUE, !.hdr = {"ts"}, !.l7 = {"TLS"},
        !.splits = <<At(2), Mark("hoststart", "+", 1)>>],
     [Plain("splitter") EXCEPT !.l7 = {"TLS"},
        !.splits = <<At(2), Mark("hoststart", "+", 1)>>]>>}

(* A fake packet, then a disorder that overlaps by as much as the first    *)
(* held segment of Thirds has, and less than the fake has.                 *)
FakeThenOverlap ==
  {<<[Plain("splitter") EXCEPT !.fake = TRUE, !.hdr = {"ttl"}],
     [Plain("disorder") EXCEPT !.seqovl = {At(2)}]>>}

(* With options of 12 bytes: segments of 4 bytes from the splitter and of  *)
(* 16 from the disorder, or of any size and of 4.                          *)
MssPlain == {28, 16}
(* Besides, none left for the splitter, none left for the disorder, and no *)
(* MSS at all.                                                             *)
MssTight == {28, 16, 24, 12, 0}

FakePayload == <<90, 91, 92, 93>>

(* What the proofs assume of deliveries and profiles holds here.           *)
ASSUME RunsAreToldApart == ToldApart
ASSUME RunsAreOneStream == OneStream(6)
ASSUME RunsHaveRoomToPad == RoomToPad(4)
ASSUME RunsHaveRoomToMove == RoomToMove(6, 4)
=============================================================================
