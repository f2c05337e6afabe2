---------------------------- MODULE ModifierProofs ----------------------------
(***************************************************************************)
(* Proofs about Modifier: for all packets that may be handed over, all     *)
(* profiles and any MSS, the modifiers answer for what they were given and *)
(* cut it where they were asked to; and when it is pieces of one stream,   *)
(* the peer receives that stream.  They end the program for the reasons    *)
(* that FaultsOnlyWhen gives and for no other, when they have room to move *)
(* packets in.                                                             *)
(***************************************************************************)
EXTENDS ModifierProperties, ConnectionLemmas, FiniteSetTheorems, FunctionTheorems,
        SequenceTheorems, TLAPS

Packets ==
  [id : Nat, action : {"ACCEPT", "DROP_AND_SEND", "SEND"}, seq : SeqNums,
   data : Seq(Nat), fake : BOOLEAN, altered : SUBSET {"ttl", "ts", "cksum"}]

(* The packets of a list that a verdict will be sent for. *)
Owed(ps) == {i \in DOMAIN ps : ps[i].action # "SEND"}

Handed == {original[i].id : i \in DOMAIN original}

(* Each packet that was handed over is in the list, once, and nothing else *)
(* that would be answered.                                                 *)
Keeps(ps) ==
  /\ {ps[i].id : i \in Owed(ps)} = Handed
  /\ \A i, j \in Owed(ps) : ps[i].id = ps[j].id => i = j

Sane(ps) == ps \in Seq(Packets) /\ ps # << >> /\ Keeps(ps)

MInv ==
  /\ original \in Deliveries /\ found \in Findings /\ pipeline \in Pipelines
  /\ mss \in MssValues
  /\ next \in Nat /\ next >= 1
  /\ pc \in {"filter", "modify", "send"} => Sane(packets) /\ out = {}
  /\ pc = "fault" => out = {}
  /\ pc \in {"filter", "modify", "send", "done", "fault"}

-----------------------------------------------------------------------------
(* Lists *)

LEMMA Sizes ==
  /\ SeqSpace \in Nat \ {0} /\ SizeSpace \in Nat \ {0}
  /\ TcpHdrLen \in Nat /\ MssValues \subseteq Nat
  /\ \A x \in Int : x % SeqSpace \in SeqNums
  /\ \A x \in Int : x % SizeSpace \in 0 .. SizeSpace - 1
  <1>1. SeqSpace \in Nat \ {0} /\ SizeSpace \in Nat \ {0}
    BY SeqSpaceAssumption, SizesAssumption
  <1>2. /\ \A x \in Int : x % SeqSpace \in 0 .. SeqSpace - 1
        /\ \A x \in Int : x % SizeSpace \in 0 .. SizeSpace - 1
    BY <1>1, ModFacts
  <1> QED BY <1>1, <1>2, ModifierAssumption DEF SeqNums

LEMMA SeqNumsAreInts == SeqNums \subseteq Int
  BY SeqSpaceAssumption DEF SeqNums

(* The list, position by position, after a packet gave way to others.      *)
LEMMA ReplaceFacts ==
  ASSUME NEW S, NEW ps \in Seq(S), NEW at \in DOMAIN ps, NEW pieces \in Seq(S)
  PROVE  /\ Replace(ps, at, pieces) \in Seq(S)
         /\ Len(Replace(ps, at, pieces)) = Len(ps) - 1 + Len(pieces)
         /\ \A k \in 1 .. Len(ps) - 1 + Len(pieces) :
              Replace(ps, at, pieces)[k] =
                IF k < at THEN ps[k]
                ELSE IF k < at + Len(pieces) THEN pieces[k - at + 1]
                ELSE ps[k - Len(pieces) + 1]
  <1> DEFINE n == Len(ps)
             m == Len(pieces)
             a == SubSeq(ps, 1, at - 1)
             c == SubSeq(ps, at + 1, n)
  <1>1. n \in Nat /\ m \in Nat /\ at \in 1 .. n
    OBVIOUS
  <1>2. /\ a \in Seq(S) /\ Len(a) = at - 1
        /\ \A k \in 1 .. at - 1 : a[k] = ps[k]
    <2>1. \A i \in 1 .. at - 1 : ps[i] \in S
      BY <1>1
    <2>2. CASE 1 <= at - 1
      <3>1. a \in Seq(S) /\ Len(a) = (at - 1) - 1 + 1
            /\ \A k \in 1 .. (at - 1) - 1 + 1 : a[k] = ps[1 + k - 1]
        BY <1>1, <2>1, <2>2, SubSeqProperties
      <3> QED BY <1>1, <3>1
    <2>3. CASE ~ (1 <= at - 1)
      <3>1. at - 1 < 1 /\ at - 1 \in Int
        BY <1>1, <2>3
      <3>2. a \in Seq(S) /\ Len(a) = 0
        BY <2>1, <3>1, SubSeqProperties
      <3> QED BY <1>1, <2>3, <3>2
    <2> QED BY <2>2, <2>3
  <1>3. /\ c \in Seq(S) /\ Len(c) = n - at
        /\ \A k \in 1 .. n - at : c[k] = ps[at + k]
    <2>1. \A i \in at + 1 .. n : ps[i] \in S
      BY <1>1
    <2>2. CASE at + 1 <= n
      <3>1. c \in Seq(S) /\ Len(c) = n - (at + 1) + 1
            /\ \A k \in 1 .. n - (at + 1) + 1 : c[k] = ps[(at + 1) + k - 1]
        BY <1>1, <2>1, <2>2, SubSeqProperties
      <3> QED BY <1>1, <3>1
    <2>3. CASE ~ (at + 1 <= n)
      <3>1. n < at + 1 /\ at + 1 \in Int /\ n \in Int
        BY <1>1, <2>3
      <3>2. c \in Seq(S) /\ Len(c) = 0
        BY <2>1, <3>1, SubSeqProperties
      <3> QED BY <1>1, <2>3, <3>2
    <2> QED BY <2>2, <2>3
  <1> HIDE DEF a, c
  <1> DEFINE ab == a \o pieces
             all == ab \o c
  <1>4. ab \in Seq(S) /\ Len(ab) = at - 1 + m
        /\ \A k \in 1 .. at - 1 + m :
             ab[k] = IF k <= at - 1 THEN a[k] ELSE pieces[k - (at - 1)]
    BY <1>1, <1>2, ConcatProperties, SMTT(30)
  <1> HIDE DEF ab
  <1>5. all \in Seq(S) /\ Len(all) = n - 1 + m
        /\ \A k \in 1 .. n - 1 + m :
             all[k] = IF k <= at - 1 + m THEN ab[k] ELSE c[k - (at - 1 + m)]
    <2>1. all \in Seq(S) /\ Len(all) = Len(ab) + Len(c)
          /\ \A k \in 1 .. Len(ab) + Len(c) :
               all[k] = IF k <= Len(ab) THEN ab[k] ELSE c[k - Len(ab)]
      BY <1>3, <1>4, ConcatProperties, Zenon
    <2>2. Len(ab) = at - 1 + m /\ Len(c) = n - at
      BY <1>3, <1>4
    <2>3. (at - 1 + m) + (n - at) = n - 1 + m
      BY <1>1
    <2> QED BY <2>1, <2>2, <2>3, Zenon
  <1> HIDE DEF all
  <1>6. \A k \in 1 .. n - 1 + m :
          all[k] = IF k < at THEN ps[k]
                   ELSE IF k < at + m THEN pieces[k - at + 1] ELSE ps[k - m + 1]
    <2> SUFFICES ASSUME NEW k \in 1 .. n - 1 + m
                 PROVE  all[k] = IF k < at THEN ps[k]
                                 ELSE IF k < at + m THEN pieces[k - at + 1]
                                 ELSE ps[k - m + 1]
      OBVIOUS
    <2>1. CASE k < at
      <3>1. k \in 1 .. at - 1 /\ k <= at - 1 /\ k <= at - 1 + m /\ k \in 1 .. at - 1 + m
        BY <1>1, <2>1
      <3> QED BY <1>2, <1>4, <1>5, <2>1, <3>1
    <2>2. CASE ~ (k < at) /\ k < at + m
      <3>1. /\ ~ (k <= at - 1) /\ k <= at - 1 + m /\ k \in 1 .. at - 1 + m
            /\ k - (at - 1) = k - at + 1
        BY <1>1, <2>2
      <3> QED BY <1>4, <1>5, <2>2, <3>1
    <2>3. CASE ~ (k < at) /\ ~ (k < at + m)
      <3>1. /\ ~ (k <= at - 1 + m) /\ k - (at - 1 + m) \in 1 .. n - at
            /\ at + (k - (at - 1 + m)) = k - m + 1
        BY <1>1, <2>3
      <3> QED BY <1>3, <1>5, <2>3, <3>1
    <2> QED BY <2>1, <2>2, <2>3
  <1>7. all = Replace(ps, at, pieces)
    BY DEF all, ab, a, c, Replace
  <1> QED BY <1>5, <1>6, <1>7

(* A packet that gives way to pieces of which the first answers for it and *)
(* no other answers for anything.                                          *)
LEMMA ReplaceKeeps ==
  ASSUME NEW ps, Sane(ps), NEW at \in DOMAIN ps,
         NEW pieces \in Seq(Packets), Len(pieces) >= 1,
         pieces[1].id = ps[at].id,
         pieces[1].action = "SEND" <=> ps[at].action = "SEND",
         \A k \in 2 .. Len(pieces) : pieces[k].action = "SEND"
  PROVE  Sane(Replace(ps, at, pieces))
  <1> DEFINE n == Len(ps)
             m == Len(pieces)
             qs == Replace(ps, at, pieces)
             From(k) == IF k <= at THEN k ELSE k - m + 1
             To(i) == IF i <= at THEN i ELSE i + m - 1
  <1>1. /\ ps \in Seq(Packets) /\ n \in Nat /\ m \in Nat /\ m >= 1 /\ at \in 1 .. n
        /\ DOMAIN ps = 1 .. n
    BY DEF Sane
  <1>2. /\ qs \in Seq(Packets) /\ Len(qs) = n - 1 + m
        /\ \A k \in 1 .. n - 1 + m :
             qs[k] = IF k < at THEN ps[k]
                     ELSE IF k < at + m THEN pieces[k - at + 1] ELSE ps[k - m + 1]
    BY <1>1, ReplaceFacts
  <1> HIDE DEF qs
  <1>3. qs # << >> /\ DOMAIN qs = 1 .. n - 1 + m
    <2>1. Len(qs) > 0
      BY <1>1, <1>2
    <2> QED BY <1>2, <2>1
  (* What is owed after is owed before, in the place From gives. *)
  <1>4. \A k \in Owed(qs) : /\ From(k) \in Owed(ps) /\ qs[k].id = ps[From(k)].id
                            /\ k = To(From(k))
    <2> SUFFICES ASSUME NEW k \in Owed(qs)
                 PROVE  /\ From(k) \in Owed(ps) /\ qs[k].id = ps[From(k)].id
                        /\ k = To(From(k))
      OBVIOUS
    <2>1. k \in 1 .. n - 1 + m /\ qs[k].action # "SEND"
      BY <1>3 DEF Owed
    <2>2. CASE k < at
      <3>1. qs[k] = ps[k] /\ From(k) = k /\ k \in 1 .. n /\ To(k) = k
        BY <1>1, <1>2, <2>1, <2>2
      <3> QED BY <1>1, <2>1, <3>1 DEF Owed
    <2>3. CASE k = at
      <3>0. ~ (k < at) /\ k < at + m /\ k - at + 1 = 1
        BY <1>1, <2>3
      <3>1. qs[k] = pieces[k - at + 1] /\ k - at + 1 = 1
        BY <1>2, <2>1, <3>0
      <3>2. From(k) = at /\ To(at) = k
        BY <1>1, <2>3
      <3> QED BY <2>1, <3>1, <3>2 DEF Owed
    <2>4. CASE at < k /\ k < at + m
      <3>1. qs[k] = pieces[k - at + 1] /\ k - at + 1 \in 2 .. m
        BY <1>1, <1>2, <2>1, <2>4
      <3> QED BY <2>1, <3>1
    <2>5. CASE at + m <= k
      <3>1. qs[k] = ps[k - m + 1] /\ k - m + 1 \in 1 .. n /\ k - m + 1 > at /\ k > at
        BY <1>1, <1>2, <2>1, <2>5
      <3>2. From(k) = k - m + 1 /\ To(k - m + 1) = k
        BY <1>1, <2>1, <3>1
      <3> QED BY <1>1, <2>1, <3>1, <3>2 DEF Owed
    <2> QED BY <1>1, <2>1, <2>2, <2>3, <2>4, <2>5
  (* And what is owed before is owed after. *)
  <1>5. \A i \in Owed(ps) : To(i) \in Owed(qs) /\ qs[To(i)].id = ps[i].id
    <2> SUFFICES ASSUME NEW i \in Owed(ps)
                 PROVE  To(i) \in Owed(qs) /\ qs[To(i)].id = ps[i].id
      OBVIOUS
    <2>1. i \in 1 .. n /\ ps[i].action # "SEND"
      BY <1>1 DEF Owed
    <2>2. CASE i < at
      <3>1. To(i) = i /\ i \in 1 .. n - 1 + m /\ qs[i] = ps[i]
        BY <1>1, <1>2, <2>1, <2>2
      <3> QED BY <1>3, <2>1, <3>1 DEF Owed
    <2>3. CASE i = at
      <3>1. To(i) = at /\ at \in 1 .. n - 1 + m /\ at < at + m /\ ~ (at < at)
            /\ at - at + 1 = 1
        BY <1>1, <2>1, <2>3
      <3>2. qs[at] = pieces[1]
        BY <1>2, <3>1
      <3> QED BY <1>3, <2>1, <2>3, <3>1, <3>2 DEF Owed
    <2>4. CASE i > at
      <3>1. To(i) = i + m - 1 /\ i + m - 1 \in 1 .. n - 1 + m /\ ~ (i + m - 1 < at)
            /\ ~ (i + m - 1 < at + m) /\ (i + m - 1) - m + 1 = i
        BY <1>1, <2>1, <2>4
      <3>2. qs[i + m - 1] = ps[i]
        BY <1>2, <3>1
      <3> QED BY <1>3, <2>1, <3>1, <3>2, SMTT(30) DEF Owed
    <2> QED BY <1>1, <2>1, <2>2, <2>3, <2>4
  <1> HIDE DEF From, To
  <1>6. {qs[k].id : k \in Owed(qs)} = Handed
    <2>1. {ps[i].id : i \in Owed(ps)} = Handed
      BY DEF Sane, Keeps
    <2> QED BY <1>4, <1>5, <2>1
  <1>7. \A k, l \in Owed(qs) : qs[k].id = qs[l].id => k = l
    <2> SUFFICES ASSUME NEW k \in Owed(qs), NEW l \in Owed(qs), qs[k].id = qs[l].id
                 PROVE  k = l
      OBVIOUS
    <2>1. From(k) = From(l)
      BY <1>4 DEF Sane, Keeps
    <2> QED BY <1>4, <2>1
  <1> QED BY <1>2, <1>3, <1>6, <1>7 DEF Sane, Keeps, qs

(* A list of the same packets, changed in what is not their id or action.  *)
LEMMA MapKeeps ==
  ASSUME NEW ps, Sane(ps), NEW qs, qs = [i \in DOMAIN ps |-> qs[i]],
         \A i \in DOMAIN ps : /\ qs[i] \in Packets
                              /\ qs[i].id = ps[i].id /\ qs[i].action = ps[i].action
  PROVE  Sane(qs)
  <1>1. ps \in Seq(Packets) /\ Len(ps) \in Nat /\ DOMAIN ps = 1 .. Len(ps) /\ Len(ps) # 0
    BY DEF Sane
  <1>2. DOMAIN qs = 1 .. Len(ps)
    BY <1>1
  <1>3. qs \in [1 .. Len(ps) -> Packets]
    BY <1>1, <1>2
  <1>4. qs \in Seq(Packets) /\ Len(qs) = Len(ps)
    BY <1>1, <1>3
  <1>5. qs # << >>
    BY <1>1, <1>4
  <1>6. Owed(qs) = Owed(ps)
    BY <1>1, <1>2 DEF Owed
  <1>7. \A i \in Owed(ps) : qs[i].id = ps[i].id
    BY DEF Owed
  <1>8. {qs[i].id : i \in Owed(qs)} = {ps[i].id : i \in Owed(ps)}
    BY <1>6, <1>7
  <1>9. \A i, j \in Owed(qs) : qs[i].id = qs[j].id => i = j
    <2>1. \A i, j \in Owed(ps) : ps[i].id = ps[j].id => i = j
      BY DEF Sane, Keeps
    <2> QED BY <1>6, <1>7, <2>1
  <1>10. {ps[i].id : i \in Owed(ps)} = Handed
    BY DEF Sane, Keeps
  <1> QED BY <1>4, <1>5, <1>8, <1>9, <1>10, Zenon DEF Sane, Keeps

-----------------------------------------------------------------------------
(* Splitting *)

LEMMA ListOf ==
  ASSUME NEW ps, Sane(ps)
  PROVE  /\ ps \in Seq(Packets) /\ Len(ps) \in Nat /\ Len(ps) >= 1
         /\ DOMAIN ps = 1 .. Len(ps)
         /\ \A i \in 1 .. Len(ps) : /\ ps[i] \in Packets
                                    /\ ps[i].id \in Nat /\ ps[i].seq \in SeqNums
                                    /\ ps[i].action \in {"ACCEPT", "DROP_AND_SEND", "SEND"}
                                    /\ ps[i].data \in Seq(Nat) /\ Len(ps[i].data) \in Nat
                                    /\ ps[i].fake \in BOOLEAN
                                    /\ ps[i].altered \in SUBSET {"ttl", "ts", "cksum"}
  <1>1. /\ ps \in Seq(Packets) /\ Len(ps) \in Nat /\ Len(ps) # 0
        /\ DOMAIN ps = 1 .. Len(ps)
    BY DEF Sane
  <1>2. \A i \in 1 .. Len(ps) : ps[i] \in Packets
    BY <1>1
  <1>3. \A p \in Packets : /\ p.id \in Nat /\ p.seq \in SeqNums
                           /\ p.action \in {"ACCEPT", "DROP_AND_SEND", "SEND"}
                           /\ p.data \in Seq(Nat) /\ Len(p.data) \in Nat
                           /\ p.fake \in BOOLEAN
                           /\ p.altered \in SUBSET {"ttl", "ts", "cksum"}
    BY DEF Packets
  <1> QED BY <1>1, <1>2, <1>3

LEMMA ChecksummedIs ==
  ASSUME NEW p \in Packets
  PROVE  /\ Checksummed(p) \in Packets
         /\ Checksummed(p).id = p.id /\ Checksummed(p).action = p.action
         /\ Checksummed(p).data = p.data /\ Checksummed(p).seq = p.seq
         /\ Checksummed(p).fake = p.fake
         /\ Checksummed(p).altered = p.altered \ {"cksum"}
  BY DEF Checksummed, Packets

(* A hit is a packet of the list and a byte of that packet. *)
LEMMA HitIsInside ==
  ASSUME NEW ps, NEW pos, pos \in Nat, Sane(ps), FindPacketByOffset(ps, pos) # NotFound
  PROVE  LET hit == FindPacketByOffset(ps, pos)
         IN  /\ hit.at \in DOMAIN ps
             /\ hit.rel \in 0 .. Len(ps[hit.at].data) - 1
  <1> DEFINE hits == {i \in DOMAIN ps : pos - SizeBefore(ps, i) \in 0 .. Len(ps[i].data) - 1}
             i == CHOOSE k \in hits : TRUE
  <1>1. hits # {}
    BY DEF FindPacketByOffset
  <1>2. i \in hits
    BY <1>1
  <1>3. FindPacketByOffset(ps, pos) = [at |-> i, rel |-> pos - SizeBefore(ps, i)]
    BY <1>1 DEF FindPacketByOffset
  <1> HIDE DEF i
  <1> QED BY <1>2, <1>3

LEMMA SplitPacketKeeps ==
  ASSUME NEW ps, Sane(ps), NEW at \in DOMAIN ps,
         NEW rel \in 0 .. Len(ps[at].data) - 1
  PROVE  Sane(SplitPacket(ps, at, rel))
  <1> DEFINE p == Checksummed(ps[at])
             one == [p EXCEPT !.data = SubSeq(@, 1, rel), !.action = FirstAction(p)]
             two == [p EXCEPT !.id = 0, !.action = "SEND", !.seq = (@ + rel) % SeqSpace,
                              !.data = SubSeq(@, rel + 1, Len(@))]
  <1>1. ps[at] \in Packets /\ Len(ps[at].data) \in Nat
    BY ListOf
  <1>2. /\ p \in Packets /\ p.id = ps[at].id /\ p.action = ps[at].action
        /\ p.data = ps[at].data
    BY <1>1, ChecksummedIs
  <1> HIDE DEF p
  <1>3. /\ p.seq \in SeqNums /\ p.data \in Seq(Nat) /\ Len(p.data) \in Nat
        /\ p.action \in {"ACCEPT", "DROP_AND_SEND", "SEND"} /\ rel \in 0 .. Len(p.data)
        /\ p.seq + rel \in Int
    <2>1. /\ p.seq \in SeqNums /\ p.data \in Seq(Nat)
          /\ p.action \in {"ACCEPT", "DROP_AND_SEND", "SEND"}
      BY <1>2 DEF Packets
    <2>2. Len(p.data) \in Nat /\ rel \in 0 .. Len(p.data)
      BY <1>1, <1>2
    <2>3. p.seq \in Int /\ rel \in Int
      <3>1. p.seq \in Int
        BY <2>1, SeqNumsAreInts
      <3>2. rel \in Int
        BY <1>1
      <3> QED BY <3>1, <3>2
    <2> QED BY <2>1, <2>2, <2>3
  <1>4. SubSeq(p.data, 1, rel) \in Seq(Nat) /\ SubSeq(p.data, rel + 1, Len(p.data)) \in Seq(Nat)
    <2>1. \A s \in Seq(Nat), a, b \in Int : 1 <= a /\ b <= Len(s) => SubSeq(s, a, b) \in Seq(Nat)
      <3> SUFFICES ASSUME NEW s \in Seq(Nat), NEW a \in Int, NEW b \in Int, 1 <= a, b <= Len(s)
                   PROVE  SubSeq(s, a, b) \in Seq(Nat)
        OBVIOUS
      <3>1. \A k \in a .. b : s[k] \in Nat
        OBVIOUS
      <3> QED BY <3>1, SubSeqProperties
    <2>2. 1 \in Int /\ rel \in Int /\ rel + 1 \in Int /\ Len(p.data) \in Int
          /\ 1 <= 1 /\ rel <= Len(p.data) /\ 1 <= rel + 1 /\ Len(p.data) <= Len(p.data)
      BY <1>3
    <2> QED BY <1>3, <2>1, <2>2
  <1>5. (p.seq + rel) % SeqSpace \in SeqNums
    BY <1>3, Sizes
  <1>6. /\ FirstAction(p) \in {"DROP_AND_SEND", "SEND"}
        /\ FirstAction(p) = "SEND" <=> p.action = "SEND"
    BY <1>3 DEF FirstAction
  <1>7. /\ one \in Packets /\ one.id = ps[at].id
        /\ one.action = "SEND" <=> ps[at].action = "SEND"
    BY <1>2, <1>4, <1>6 DEF Packets
  <1>8. two \in Packets /\ two.action = "SEND"
    BY <1>2, <1>4, <1>5 DEF Packets
  <1> HIDE DEF one, two
  <1>9. /\ <<one, two>> \in Seq(Packets) /\ Len(<<one, two>>) = 2
        /\ <<one, two>>[1] = one /\ <<one, two>>[2] = two
    BY <1>7, <1>8
  <1>10. \A k \in 2 .. Len(<<one, two>>) : <<one, two>>[k].action = "SEND"
    <2>1. \A k \in 2 .. 2 : k = 2
      OBVIOUS
    <2> QED BY <1>8, <1>9, <2>1
  <1>11. Sane(Replace(ps, at, <<one, two>>))
    <2> DEFINE pieces == <<one, two>>
    <2>1. /\ pieces \in Seq(Packets) /\ Len(pieces) >= 1 /\ pieces[1].id = ps[at].id
          /\ pieces[1].action = "SEND" <=> ps[at].action = "SEND"
          /\ \A k \in 2 .. Len(pieces) : pieces[k].action = "SEND"
      BY <1>7, <1>9, <1>10
    <2> HIDE DEF pieces
    <2>2. Sane(Replace(ps, at, pieces))
      BY <2>1, ReplaceKeeps
    <2> QED BY <2>2 DEF pieces
  <1>12. SplitPacket(ps, at, rel) = Replace(ps, at, <<one, two>>)
    BY DEF SplitPacket, p, one, two
  <1> QED BY <1>11, <1>12

(* A position is an offset size_t can hold or a marker's. *)
LEMMA SplitPosIsNat ==
  ASSUME found \in Findings, NEW pos \in Position
  PROVE  SplitPos(found.markers, pos) \in Nat
  <1>1. \A m \in DOMAIN found.markers : found.markers[m] \in Nat
    BY ModifierAssumption
  <1>2. pos.off \in Nat /\ pos.op \in {"none", "+", "-"}
    BY Sizes DEF Position
  <1>3. \A start \in Nat : DoOperation(start, pos) \in Nat
    <2> TAKE start \in Nat
    <2>1. start + pos.off \in Int /\ start - pos.off \in Int
      BY <1>2
    <2>2. (start + pos.off) % SizeSpace \in Nat /\ (start - pos.off) % SizeSpace \in Nat
      <3>1. /\ (start + pos.off) % SizeSpace \in 0 .. SizeSpace - 1
            /\ (start - pos.off) % SizeSpace \in 0 .. SizeSpace - 1
        BY <2>1, Sizes
      <3> QED BY <3>1
    <2> QED BY <1>2, <2>2 DEF DoOperation
  <1>4. CASE \E m \in DOMAIN found.markers : pos.arg = <<m>>
    <2> DEFINE m == CHOOSE k \in DOMAIN found.markers : pos.arg = <<k>>
    <2>1. m \in DOMAIN found.markers
      BY <1>4
    <2>2. SplitPos(found.markers, pos) = DoOperation(found.markers[m], pos)
      BY <1>4 DEF SplitPos
    <2> HIDE DEF m
    <2> QED BY <1>1, <1>3, <2>1, <2>2
  <1>5. CASE ~ \E m \in DOMAIN found.markers : pos.arg = <<m>>
    <2>1. SplitPos(found.markers, pos) = pos.off
      BY <1>5 DEF SplitPos
    <2> QED BY <1>2, <2>1
  <1> QED BY <1>4, <1>5

(* A step of a modifier leaves a list that keeps its promise, or none.     *)
Ok(ps) == ps = Fault \/ Sane(ps)

LEMMA SplitKeeps ==
  ASSUME found \in Findings, NEW ps, Ok(ps), NEW pos \in Position
  PROVE  Ok(Split(ps, pos))
  <1> DEFINE at == SplitPos(found.markers, pos)
             hit == FindPacketByOffset(ps, at)
  <1>1. at \in Nat
    BY SplitPosIsNat
  <1> HIDE DEF at
  <1>2. CASE ps = Fault
    <2>1. DOMAIN ps = {}
      BY <1>2 DEF Fault
    <2>2. hit = NotFound
      BY <2>1 DEF FindPacketByOffset
    <2> QED BY <2>2 DEF Split, Ok, at
  <1>3. CASE Sane(ps) /\ hit = NotFound
    BY <1>3 DEF Split, Ok, at
  <1>4. CASE Sane(ps) /\ hit # NotFound
    <2>1. hit.at \in DOMAIN ps /\ hit.rel \in 0 .. Len(ps[hit.at].data) - 1
      BY <1>1, <1>4, HitIsInside
    <2> HIDE DEF hit
    <2>2. Sane(SplitPacket(ps, hit.at, hit.rel))
      BY <1>4, <2>1, SplitPacketKeeps
    <2> QED BY <1>4, <2>2 DEF Split, Ok, at, hit
  <1> QED BY <1>2, <1>3, <1>4 DEF Ok

(* The splits are made one after the other. *)
Steps(f, ps, splits) ==
  /\ f[0] = ps
  /\ \A k \in 1 .. Len(splits) : f[k] = Split(f[k - 1], splits[k])
  /\ SplitAll(ps, splits) = f[Len(splits)]

LEMMA SplitAllSteps ==
  ASSUME NEW ps, NEW splits \in Seq(Position)
  PROVE  \E f : Steps(f, ps, splits)
  <1> DEFINE n == Len(splits)
             Upto(m, f) == f = [k \in 0 .. m |-> IF k = 0 THEN ps ELSE Split(f[k - 1], splits[k])]
             after == CHOOSE f : Upto(n, f)
             Good == {m \in 0 .. n : \E f : Upto(m, f)}
  <1>1. n \in Nat /\ \A k \in 1 .. n : splits[k] \in Position
    OBVIOUS
  <1>2. 0 \in Good
    <2>1. Upto(0, [k \in 0 .. 0 |-> ps])
      OBVIOUS
    <2>2. 0 \in 0 .. n
      BY <1>1
    <2> HIDE DEF Upto
    <2> QED BY <2>1, <2>2
  <1>3. \A m \in 0 .. n : m \in Good /\ m + 1 <= n => m + 1 \in Good
    <2> SUFFICES ASSUME NEW m \in 0 .. n, m \in Good, m + 1 <= n PROVE m + 1 \in Good
      OBVIOUS
    <2>1. PICK f : Upto(m, f)
      OBVIOUS
    <2> DEFINE more == Split(f[m], splits[m + 1])
               g == [k \in 0 .. m + 1 |-> IF k = m + 1 THEN more ELSE f[k]]
    <2>3. \A k \in 0 .. m + 1 : g[k] = IF k = 0 THEN ps ELSE Split(g[k - 1], splits[k])
      <3> TAKE k \in 0 .. m + 1
      <3>1. CASE k = 0
        BY <2>1, <3>1
      <3>2. CASE k # 0 /\ k # m + 1
        <4>1. k \in 0 .. m /\ k - 1 \in 0 .. m + 1 /\ k - 1 # m + 1
          BY <3>2
        <4>2. g[k] = f[k] /\ g[k - 1] = f[k - 1]
          BY <3>2, <4>1
        <4> QED BY <2>1, <3>2, <4>1, <4>2
      <3>3. CASE k = m + 1
        <4>1. k - 1 = m /\ m \in 0 .. m + 1 /\ m # m + 1 /\ k # 0
          BY <3>3
        <4>2. g[k] = more /\ g[m] = f[m]
          BY <3>3, <4>1
        <4> QED BY <3>3, <4>1, <4>2
      <3> QED BY <3>1, <3>2, <3>3
    <2>5. Upto(m + 1, g)
      BY <2>3
    <2>6. m + 1 \in 0 .. n
      BY <1>1
    <2> HIDE DEF Upto, g
    <2> QED BY <2>5, <2>6
  <1>4. n \in Good
    <2> HIDE DEF Good
    <2>1. n \in 0 .. n
      BY <1>1
    <2> QED BY <1>1, <1>2, <1>3, <2>1, Climb
  <1>5. Upto(n, after)
    <2> HIDE DEF Upto
    <2> QED BY <1>4
  <1> HIDE DEF after
  <1>6. after[0] = ps /\ \A k \in 1 .. n : after[k] = Split(after[k - 1], splits[k])
    <2>1. 0 \in 0 .. n /\ \A k \in 1 .. n : k \in 0 .. n /\ k # 0
      BY <1>1
    <2> QED BY <1>5, <2>1
  <1>7. SplitAll(ps, splits) = after[n]
    BY DEF SplitAll, after, Upto
  <1>8. Steps(after, ps, splits)
    BY <1>6, <1>7 DEF Steps
  <1> QED BY <1>8

LEMMA SplitAllKeeps ==
  ASSUME found \in Findings, NEW ps, Ok(ps), NEW splits \in Seq(Position)
  PROVE  Ok(SplitAll(ps, splits))
  <1> DEFINE n == Len(splits)
  <1>1. n \in Nat /\ \A k \in 1 .. n : splits[k] \in Position
    OBVIOUS
  <1>2. \E after : Steps(after, ps, splits)
    BY SplitAllSteps
  <1>3. PICK after : /\ after[0] = ps
                     /\ \A k \in 1 .. n : after[k] = Split(after[k - 1], splits[k])
                     /\ SplitAll(ps, splits) = after[n]
    BY <1>2 DEF Steps
  <1> DEFINE Fine == {k \in 0 .. n : Ok(after[k])}
  <1>4. n \in Fine
    <2>1. 0 \in Fine
      BY <1>1, <1>3
    <2>2. \A k \in 0 .. n : k \in Fine /\ k + 1 <= n => k + 1 \in Fine
      <3> SUFFICES ASSUME NEW k \in 0 .. n, k \in Fine, k + 1 <= n PROVE k + 1 \in Fine
        OBVIOUS
      <3>1. k + 1 \in 1 .. n /\ (k + 1) - 1 = k /\ k + 1 \in 0 .. n
        BY <1>1
      <3>2. after[k + 1] = Split(after[k], splits[k + 1])
        BY <1>3, <3>1
      <3>3. Ok(after[k]) /\ splits[k + 1] \in Position
        BY <1>1, <3>1
      <3> QED BY <3>1, <3>2, <3>3, SplitKeeps
    <2>3. n \in 0 .. n
      BY <1>1
    <2> HIDE DEF Fine
    <2> QED BY <1>1, <2>1, <2>2, <2>3, Climb
  <1> QED BY <1>3, <1>4

-----------------------------------------------------------------------------
(* Sequence overlap *)

LEMMA PieceIs ==
  ASSUME NEW p \in Packets, NEW k \in Nat \ {0}, NEW s \in Int, NEW d \in Seq(Nat)
  PROVE  /\ Piece(p, k, s, d) \in Packets
         /\ k = 1 => Piece(p, k, s, d).id = p.id
         /\ Piece(p, k, s, d).action = IF k > 1 \/ p.action = "SEND"
                                       THEN "SEND" ELSE "DROP_AND_SEND"
         /\ Piece(p, k, s, d).data = d
  <1>1. s % SeqSpace \in SeqNums
    BY Sizes
  <1>2. Checksummed(p) \in Packets /\ Checksummed(p).id = p.id
    BY ChecksummedIs
  <1> QED BY <1>1, <1>2 DEF Piece, PieceAction, Packets

LEMMA PiecesOf ==
  ASSUME NEW p \in Packets, NEW data \in Seq(Nat), NEW size \in Nat \ {0},
         NEW s \in Int, Len(data) > size
  PROVE  LET pieces == Segmentize(data, size, p, s)
         IN  /\ pieces \in Seq(Packets) /\ Len(pieces) >= 1
             /\ pieces[1].id = p.id
             /\ pieces[1].action = "SEND" <=> p.action = "SEND"
             /\ \A k \in 2 .. Len(pieces) : pieces[k].action = "SEND"
             /\ \A k \in 1 .. Len(pieces) : /\ pieces[k].action # "ACCEPT"
                                            /\ Range(pieces[k].data) \subseteq Range(data)
  <1> DEFINE m == (Len(data) + size - 1) \div size
             upto(k) == Min({k * size, Len(data)})
             piece(k) == Piece(p, k, s + (k - 1) * size,
                               SubSeq(data, (k - 1) * size + 1, upto(k)))
             pieces == [k \in 1 .. m |-> piece(k)]
  <1>1. m \in Nat /\ m >= 1
    <2>1. Len(data) + size - 1 \in Nat /\ Len(data) + size - 1 >= size
      OBVIOUS
    <2> QED BY <2>1, DivFacts
  <1> HIDE DEF m
  <1>2. \A k \in 1 .. m : /\ piece(k) \in Packets
                          /\ k = 1 => piece(k).id = p.id
                          /\ piece(k).action = IF k > 1 \/ p.action = "SEND"
                                               THEN "SEND" ELSE "DROP_AND_SEND"
                          /\ Range(piece(k).data) \subseteq Range(data)
    <2> SUFFICES ASSUME NEW k \in 1 .. m
                 PROVE  /\ piece(k) \in Packets
                        /\ k = 1 => piece(k).id = p.id
                        /\ piece(k).action = IF k > 1 \/ p.action = "SEND"
                                             THEN "SEND" ELSE "DROP_AND_SEND"
                        /\ Range(piece(k).data) \subseteq Range(data)
      OBVIOUS
    <2>1. k * size \in Nat /\ (k - 1) * size \in Nat
      <3>1. \A x \in Nat : x * size \in Nat
        OBVIOUS
      <3>2. k \in Nat /\ k - 1 \in Nat
        BY <1>1
      <3> QED BY <3>1, <3>2
    <2>2. upto(k) \in Int /\ upto(k) <= Len(data)
      <3> DEFINE x == k * size
      <3> HIDE DEF x
      <3>1. x \in Nat /\ Len(data) \in Nat
        BY <2>1 DEF x
      <3>2. Min({x, Len(data)}) \in Int /\ Min({x, Len(data)}) <= Len(data)
        <4>1. \E y \in {x, Len(data)} : \A z \in {x, Len(data)} : y <= z
          BY <3>1
        <4>2. /\ Min({x, Len(data)}) \in {x, Len(data)}
              /\ \A z \in {x, Len(data)} : Min({x, Len(data)}) <= z
          BY <4>1 DEF Min
        <4> QED BY <3>1, <4>2
      <3> QED BY <3>2 DEF x
    <2>3. /\ SubSeq(data, (k - 1) * size + 1, upto(k)) \in Seq(Nat)
          /\ Range(SubSeq(data, (k - 1) * size + 1, upto(k))) \subseteq Range(data)
      <3> HIDE DEF upto
      <3>1. (k - 1) * size + 1 \in Int /\ 1 <= (k - 1) * size + 1
        BY <2>1
      <3> QED BY <2>2, <3>1, PartOfData
    <2>4. s + (k - 1) * size \in Int /\ k \in Nat \ {0}
      BY <1>1, <2>1
    <2> HIDE DEF upto
    <2> DEFINE d == SubSeq(data, (k - 1) * size + 1, upto(k))
               t == s + (k - 1) * size
    <2>5. piece(k) = Piece(p, k, t, d)
      BY DEF piece
    <2>6. d \in Seq(Nat) /\ t \in Int /\ Range(d) \subseteq Range(data)
      BY <2>3, <2>4
    <2> HIDE DEF d, t, piece
    <2> QED BY <2>4, <2>5, <2>6, PieceIs
  <1> HIDE DEF piece
  <1>3. pieces \in Seq(Packets) /\ Len(pieces) = m /\ \A k \in 1 .. m : pieces[k] = piece(k)
    BY <1>1, <1>2
  <1> HIDE DEF pieces
  <1>4. 1 \in 1 .. m /\ ~ (1 > 1)
    BY <1>1
  <1>5. pieces[1].id = p.id /\ pieces[1].action = "SEND" <=> p.action = "SEND"
    BY <1>2, <1>3, <1>4
  <1>6. pieces[1].id = p.id
    BY <1>2, <1>3, <1>4
  <1>7. \A k \in 2 .. m : pieces[k].action = "SEND"
    <2> TAKE k \in 2 .. m
    <2>1. k \in 1 .. m /\ k > 1
      OBVIOUS
    <2> QED BY <1>2, <1>3, <2>1
  <1>8. Segmentize(data, size, p, s) = pieces
    BY DEF Segmentize, pieces, piece, m
  <1>9. \A k \in 1 .. m : /\ pieces[k].action # "ACCEPT"
                          /\ Range(pieces[k].data) \subseteq Range(data)
    BY <1>2, <1>3
  <1> QED BY <1>1, <1>3, <1>5, <1>6, <1>7, <1>8, <1>9

(* A packet gives way to pieces of it and of the padding. *)
PiecesFor(pieces, p) ==
  /\ pieces \in Seq(Packets) /\ Len(pieces) >= 1 /\ pieces[1].id = p.id
  /\ pieces[1].action = "SEND" <=> p.action = "SEND"
  /\ \A k \in 2 .. Len(pieces) : pieces[k].action = "SEND"
  /\ \A k \in 1 .. Len(pieces) : /\ pieces[k].action # "ACCEPT"
                                 /\ Range(pieces[k].data) \subseteq Range(p.data) \cup {0}

LEMMA OverlapIs ==
  ASSUME NEW ps, Sane(ps), NEW at \in DOMAIN ps, NEW n \in Nat, NEW size \in Nat,
         Overlap(ps, at, n, size) # Fault
  PROVE  \E pieces : /\ PiecesFor(pieces, ps[at])
                     /\ Overlap(ps, at, n, size) = Replace(ps, at, pieces)
  <1> DEFINE p == ps[at]
             data == Overlapped(p, n)
             pieces == IF Segments(p, n, size)
                       THEN Segmentize(data, size, p, Start(p, n))
                       ELSE <<Piece(p, 1, Start(p, n), data)>>
  <1>1. p \in Packets /\ p.data \in Seq(Nat) /\ p.seq \in Int
    <2>1. p \in Packets /\ p.data \in Seq(Nat) /\ p.seq \in SeqNums
      BY ListOf
    <2> QED BY <2>1, SeqNumsAreInts
  <1> HIDE DEF p
  <1>2. data \in Seq(Nat) /\ Range(data) \subseteq Range(p.data) \cup {0}
    <2> DEFINE pad == Padding(n)
    <2>0. data = pad \o p.data
      BY DEF Overlapped
    <2>1. pad \in Seq(Nat) /\ Len(pad) = n /\ \A k \in 1 .. n : pad[k] = 0
      BY DEF Padding
    <2> HIDE DEF data, pad
    <2>2. /\ data \in Seq(Nat) /\ Len(data) = n + Len(p.data)
          /\ \A k \in 1 .. n + Len(p.data) :
               data[k] = IF k <= n THEN pad[k] ELSE p.data[k - n]
      <3>1. /\ data \in Seq(Nat) /\ Len(data) = Len(pad) + Len(p.data)
            /\ \A k \in 1 .. Len(pad) + Len(p.data) :
                 data[k] = IF k <= Len(pad) THEN pad[k] ELSE p.data[k - Len(pad)]
        BY <1>1, <2>0, <2>1, ConcatProperties, Zenon
      <3> QED BY <2>1, <3>1
    <2>3. DOMAIN data = 1 .. n + Len(p.data) /\ DOMAIN p.data = 1 .. Len(p.data)
      BY <1>1, <2>2
    <2>4. ASSUME NEW k \in 1 .. n + Len(p.data) PROVE data[k] \in Range(p.data) \cup {0}
      <3>1. CASE k <= n
        BY <2>1, <2>2, <3>1
      <3>2. CASE ~ (k <= n)
        <4>1. k - n \in 1 .. Len(p.data)
          BY <1>1, <3>2
        <4> QED BY <2>2, <2>3, <3>2, <4>1 DEF Range
      <3> QED BY <3>1, <3>2
    <2>5. Range(data) \subseteq Range(p.data) \cup {0}
      <3>1. \A z \in Range(data) : \E k \in DOMAIN data : z = data[k]
        BY DEF Range
      <3> QED BY <2>3, <2>4, <3>1
    <2> QED BY <2>2, <2>5
  <1>3. Start(p, n) \in Int
    <2>1. p.seq - n \in Int
      BY <1>1
    <2>2. (p.seq - n) % SeqSpace \in SeqNums
      BY <2>1, Sizes
    <2> QED BY <2>2, SeqNumsAreInts DEF Start
  <1> HIDE DEF data
  <1>4. ~ (Segments(p, n, size) /\ size = 0)
    BY DEF Overlap, p
  <1>5. PiecesFor(pieces, p)
    <2>1. CASE Segments(p, n, size)
      <3>1. size \in Nat \ {0} /\ Len(data) > size
        BY <1>4, <2>1 DEF Segments, data
      <3> DEFINE q == Segmentize(data, size, p, Start(p, n))
      <3>2. /\ q \in Seq(Packets) /\ Len(q) >= 1 /\ q[1].id = p.id
            /\ q[1].action = "SEND" <=> p.action = "SEND"
            /\ \A k \in 2 .. Len(q) : q[k].action = "SEND"
            /\ \A k \in 1 .. Len(q) : /\ q[k].action # "ACCEPT"
                                      /\ Range(q[k].data) \subseteq Range(data)
        BY <1>1, <1>2, <1>3, <3>1, PiecesOf
      <3>3. pieces = q
        BY <2>1
      <3> HIDE DEF q, pieces
      <3>4. PiecesFor(q, p)
        BY <1>2, <3>2 DEF PiecesFor
      <3> QED BY <3>3, <3>4
    <2>2. CASE ~ Segments(p, n, size)
      <3> DEFINE only == Piece(p, 1, Start(p, n), data)
      <3>1. /\ only \in Packets /\ only.id = p.id /\ only.data = data
            /\ only.action = IF 1 > 1 \/ p.action = "SEND" THEN "SEND" ELSE "DROP_AND_SEND"
        BY <1>1, <1>2, <1>3, PieceIs
      <3>2. (only.action = "SEND" <=> p.action = "SEND") /\ only.action # "ACCEPT"
        BY <3>1
      <3>3. pieces = <<only>>
        BY <2>2
      <3> HIDE DEF only, pieces
      <3>4. <<only>> \in Seq(Packets) /\ Len(<<only>>) = 1 /\ <<only>>[1] = only
        BY <3>1
      <3>5. 2 .. 1 = {} /\ 1 .. 1 = {1}
        OBVIOUS
      <3>6. PiecesFor(<<only>>, p)
        BY <1>2, <3>1, <3>2, <3>4, <3>5 DEF PiecesFor
      <3> QED BY <3>3, <3>6
    <2> QED BY <2>1, <2>2
  <1>6. Overlap(ps, at, n, size) = Replace(ps, at, pieces)
    BY <1>4 DEF Overlap, p, data
  <1> HIDE DEF pieces
  <1> QED BY <1>5, <1>6 DEF p

LEMMA OverlapKeeps ==
  ASSUME NEW ps, Sane(ps), NEW at \in DOMAIN ps, NEW n \in Nat, NEW size \in Nat
  PROVE  Ok(Overlap(ps, at, n, size))
  <1> SUFFICES ASSUME Overlap(ps, at, n, size) # Fault PROVE Sane(Overlap(ps, at, n, size))
    BY DEF Ok
  <1>1. PICK pieces : /\ PiecesFor(pieces, ps[at])
                      /\ Overlap(ps, at, n, size) = Replace(ps, at, pieces)
    BY OverlapIs
  <1>2. Sane(Replace(ps, at, pieces))
    BY <1>1, ReplaceKeeps DEF PiecesFor
  <1> QED BY <1>1, <1>2

-----------------------------------------------------------------------------
(* Reversal and header tricks *)

LEMMA OriginalsFinite ==
  ASSUME NEW ps, Sane(ps)
  PROVE  /\ Originals(ps) \in SUBSET (1 .. Len(ps)) /\ Originals(ps) \in SUBSET Nat
         /\ IsFiniteSet(Originals(ps))
  <1>1. Len(ps) \in Nat /\ DOMAIN ps = 1 .. Len(ps)
    BY ListOf
  <1>2. Originals(ps) \subseteq 1 .. Len(ps)
    BY <1>1 DEF Originals
  <1>3. IsFiniteSet(1 .. Len(ps))
    BY <1>1, FS_Interval
  <1>4. IsFiniteSet(Originals(ps))
    BY <1>2, <1>3, FS_Subset
  <1> QED BY <1>1, <1>2, <1>4

LEMMA FirstOriginal ==
  ASSUME NEW ps, Sane(ps), Originals(ps) # {}
  PROVE  Min(Originals(ps)) \in Originals(ps)
  <1>1. \E i \in Originals(ps) : \A j \in Originals(ps) : i <= j
    BY OriginalsFinite, LeastElement
  <1> QED BY <1>1 DEF Min

(* The originals are ranked from 0 on, each rank given once. *)
LEMMA RanksFacts ==
  ASSUME NEW ps, Sane(ps)
  PROVE  LET S == Originals(ps)
         IN  /\ Cardinality(S) \in Nat
             /\ \A i \in S : Rank(ps, i) \in 0 .. Cardinality(S) - 1
             /\ \A i, j \in S : Rank(ps, i) = Rank(ps, j) => i = j
             /\ \A r \in 0 .. Cardinality(S) - 1 : \E i \in S : Rank(ps, i) = r
  <1> DEFINE S == Originals(ps)
             N == Cardinality(S)
             Below(i) == {j \in S : j < i}
             rank == [i \in S |-> Rank(ps, i)]
  <1>1. S \in SUBSET Nat /\ IsFiniteSet(S) /\ N \in Nat
    BY OriginalsFinite, FS_CardinalityType
  <1>2. \A i \in S : Rank(ps, i) = Cardinality(Below(i))
    BY DEF Rank
  <1> HIDE DEF S
  <1>3. \A i \in S : Rank(ps, i) \in Nat /\ Rank(ps, i) < N
    <2> TAKE i \in S
    <2>1. Below(i) \subseteq S /\ Below(i) # S
      BY <1>1
    <2>2. Cardinality(Below(i)) \in Nat /\ Cardinality(Below(i)) < N
      BY <1>1, <2>1, FS_Subset, FS_CardinalityType
    <2> QED BY <1>2, <2>2
  <1>4. \A i, j \in S : i < j => Rank(ps, i) < Rank(ps, j)
    <2> SUFFICES ASSUME NEW i \in S, NEW j \in S, i < j PROVE Rank(ps, i) < Rank(ps, j)
      OBVIOUS
    <2>1. IsFiniteSet(Below(j))
      BY <1>1, FS_Subset
    <2>2. Below(i) \subseteq Below(j) /\ Below(i) # Below(j)
      <3>1. i \in Nat /\ j \in Nat /\ \A k \in S : k \in Nat
        BY <1>1
      <3>2. \A k \in S : k < i => k < j
        BY <3>1
      <3>3. i \in Below(j) /\ i \notin Below(i)
        BY <3>1
      <3> QED BY <3>2, <3>3
    <2>3. Cardinality(Below(i)) < Cardinality(Below(j))
      BY <2>1, <2>2, FS_Subset, FS_CardinalityType
    <2> QED BY <1>2, <2>3
  <1>5. \A i, j \in S : Rank(ps, i) = Rank(ps, j) => i = j
    <2> SUFFICES ASSUME NEW i \in S, NEW j \in S, Rank(ps, i) = Rank(ps, j), i # j
                 PROVE  FALSE
      OBVIOUS
    <2>1. i < j \/ j < i
      BY <1>1
    <2>2. Rank(ps, i) \in Nat /\ Rank(ps, j) \in Nat
      BY <1>3
    <2> QED BY <1>4, <2>1, <2>2
  <1>6. rank \in Injection(S, 0 .. N - 1)
    <2>1. rank \in [S -> 0 .. N - 1]
      BY <1>1, <1>3
    <2>2. \A i, j \in S : rank[i] = rank[j] => i = j
      BY <1>5
    <2> QED BY <2>1, <2>2, Fun_IsInj
  <1>7. rank \in Surjection(S, 0 .. N - 1)
    <2>1. IsFiniteSet(0 .. N - 1) /\ Cardinality(0 .. N - 1) = N
      <3> HIDE DEF N
      <3>1. 0 \in Int /\ N - 1 \in Int /\ N \in Nat
        BY <1>1
      <3>2. /\ IsFiniteSet(0 .. N - 1)
            /\ Cardinality(0 .. N - 1) = IF 0 > N - 1 THEN 0 ELSE (N - 1) - 0 + 1
        BY <3>1, FS_Interval
      <3> QED BY <3>1, <3>2
    <2> HIDE DEF rank
    <2> QED BY <1>1, <1>6, <2>1, FS_Injection
  <1>8. \A r \in 0 .. N - 1 : \E i \in S : Rank(ps, i) = r
    <2> TAKE r \in 0 .. N - 1
    <2>1. \E i \in S : rank[i] = r
      <3> HIDE DEF rank, N
      <3> QED BY <1>7 DEF Surjection
    <2> QED BY <2>1
  <1> QED BY <1>1, <1>3, <1>5, <1>8 DEF S

LEMMA MirrorFacts ==
  ASSUME NEW ps, Sane(ps)
  PROVE  \A i \in Originals(ps) : /\ Mirror(ps, i) \in Originals(ps)
                                  /\ Mirror(ps, Mirror(ps, i)) = i
  <1> DEFINE S == Originals(ps)
             N == Cardinality(S)
  <1>1. /\ N \in Nat
        /\ \A i \in S : Rank(ps, i) \in 0 .. N - 1
        /\ \A i, j \in S : Rank(ps, i) = Rank(ps, j) => i = j
        /\ \A r \in 0 .. N - 1 : \E i \in S : Rank(ps, i) = r
    BY RanksFacts
  <1>2. \A i \in S : /\ Mirror(ps, i) \in S
                     /\ Rank(ps, Mirror(ps, i)) + Rank(ps, i) + 1 = N
    <2> SUFFICES ASSUME NEW i \in S
                 PROVE  /\ Mirror(ps, i) \in S
                        /\ Rank(ps, Mirror(ps, i)) + Rank(ps, i) + 1 = N
      OBVIOUS
    <2>1. N - 1 - Rank(ps, i) \in 0 .. N - 1
      BY <1>1
    <2>2. PICK j \in S : Rank(ps, j) = N - 1 - Rank(ps, i)
      BY <1>1, <2>1
    <2>3. Rank(ps, j) + Rank(ps, i) + 1 = N
      BY <1>1, <2>2
    <2> HIDE DEF N
    <2> QED BY <2>3 DEF Mirror, N
  <1> HIDE DEF S, N
  <1>3. \A i \in S : Mirror(ps, Mirror(ps, i)) = i
    <2> TAKE i \in S
    <2> DEFINE j == Mirror(ps, i)
               k == Mirror(ps, j)
    <2>1. j \in S /\ Rank(ps, j) + Rank(ps, i) + 1 = N
      BY <1>2
    <2>2. k \in S /\ Rank(ps, k) + Rank(ps, j) + 1 = N
      BY <1>2, <2>1
    <2> HIDE DEF j, k
    <2>3. Rank(ps, k) = Rank(ps, i)
      BY <1>1, <2>1, <2>2
    <2>4. k = i
      BY <1>1, <2>2, <2>3
    <2> QED BY <2>4 DEF j, k
  <1> QED BY <1>2, <1>3 DEF S

LEMMA ReverseKeeps ==
  ASSUME NEW ps, Ok(ps)
  PROVE  Ok(ReverseOriginals(ps)) /\ (ReverseOriginals(ps) = Fault <=> ps = Fault)
  <1> DEFINE qs == ReverseOriginals(ps)
             at(i) == IF ps[i].fake THEN i ELSE Mirror(ps, i)
  <1>1. CASE ps = Fault
    <2>1. DOMAIN ps = {} /\ ps = << >>
      BY <1>1 DEF Fault
    <2>2. ReverseOriginals(ps) = << >>
      BY <2>1 DEF ReverseOriginals
    <2> QED BY <1>1, <2>2 DEF Ok, Fault
  <1>2. CASE Sane(ps)
    <2>1. /\ ps \in Seq(Packets) /\ Len(ps) \in Nat /\ Len(ps) >= 1
          /\ DOMAIN ps = 1 .. Len(ps)
          /\ \A i \in 1 .. Len(ps) : ps[i] \in Packets /\ ps[i].fake \in BOOLEAN
      BY <1>2, ListOf
    <2>2. \A i \in DOMAIN ps : i \in Originals(ps) <=> ~ps[i].fake
      BY DEF Originals
    <2>3. \A i \in DOMAIN ps : at(i) \in DOMAIN ps /\ at(at(i)) = i
      <3> TAKE i \in DOMAIN ps
      <3>1. CASE ps[i].fake
        BY <3>1
      <3>2. CASE ~ps[i].fake
        <4>1. i \in Originals(ps)
          BY <2>2, <3>2
        <4>2. Mirror(ps, i) \in Originals(ps) /\ Mirror(ps, Mirror(ps, i)) = i
          BY <1>2, <4>1, MirrorFacts
        <4>3. Mirror(ps, i) \in DOMAIN ps /\ ~ps[Mirror(ps, i)].fake
          BY <4>2 DEF Originals
        <4> QED BY <3>2, <4>2, <4>3
      <3> QED BY <3>1, <3>2
    <2>4. DOMAIN qs = DOMAIN ps /\ \A i \in DOMAIN ps : qs[i] = ps[at(i)]
      BY DEF ReverseOriginals
    <2>5. qs \in Seq(Packets) /\ Len(qs) = Len(ps)
      <3>1. qs \in [1 .. Len(ps) -> Packets]
        <4>1. \A i \in 1 .. Len(ps) : qs[i] \in Packets
          BY <2>1, <2>3, <2>4
        <4>2. qs = [i \in 1 .. Len(ps) |-> qs[i]]
          BY <2>1 DEF ReverseOriginals
        <4> HIDE DEF qs
        <4> QED BY <4>1, <4>2
      <3> HIDE DEF qs
      <3> QED BY <2>1, <3>1
    <2> HIDE DEF qs, at
    <2>6. \A i \in Owed(qs) : at(i) \in Owed(ps) /\ qs[i].id = ps[at(i)].id
      BY <2>3, <2>4 DEF Owed
    <2>7. \A i \in Owed(ps) : at(i) \in Owed(qs) /\ qs[at(i)].id = ps[i].id
      BY <2>3, <2>4 DEF Owed
    <2>8. {qs[i].id : i \in Owed(qs)} = Handed
      <3>1. {ps[i].id : i \in Owed(ps)} = Handed
        BY <1>2 DEF Sane, Keeps
      <3> QED BY <2>6, <2>7, <3>1
    <2>9. \A i, j \in Owed(qs) : qs[i].id = qs[j].id => i = j
      <3> SUFFICES ASSUME NEW i \in Owed(qs), NEW j \in Owed(qs), qs[i].id = qs[j].id
                   PROVE  i = j
        OBVIOUS
      <3>1. at(i) = at(j)
        BY <1>2, <2>6 DEF Sane, Keeps
      <3>2. i \in DOMAIN ps /\ j \in DOMAIN ps
        BY <2>4 DEF Owed
      <3> QED BY <2>3, <3>1, <3>2
    <2>10. qs # << >>
      BY <2>1, <2>5
    <2>11. Sane(qs)
      BY <2>5, <2>8, <2>9, <2>10 DEF Sane, Keeps
    <2> QED BY <1>2, <2>10, <2>11 DEF Ok, Fault, qs, Sane
  <1> QED BY <1>1, <1>2 DEF Ok

(* What a header trick does to one packet. *)
SameCustody(p, q) == q \in Packets /\ q.id = p.id /\ q.action = p.action

LEMMA TricksKeep ==
  ASSUME NEW p \in Packets, NEW off \in Int, NEW hdr \in SUBSET {"ttl", "ts"},
         NEW bad \in BOOLEAN
  PROVE  /\ SameCustody(p, OffsetSeq(p, off))
         /\ SameCustody(p, SetHeader(p, hdr))
         /\ SameCustody(p, BadChecksum(p, bad))
  <1>1. /\ Checksummed(p) \in Packets
        /\ Checksummed(p).id = p.id /\ Checksummed(p).action = p.action
        /\ Checksummed(p).seq = p.seq
    BY ChecksummedIs
  <1>2. (p.seq + off) % SeqSpace \in SeqNums
    <2>1. p.seq \in SeqNums
      BY DEF Packets
    <2>2. p.seq \in Int
      BY <2>1, SeqNumsAreInts
    <2>3. p.seq + off \in Int
      BY <2>2
    <2> QED BY <2>3, Sizes
  <1>3. SameCustody(p, OffsetSeq(p, off))
    <2>1. CASE off = 0
      BY <2>1 DEF OffsetSeq, SameCustody
    <2>2. CASE off # 0
      <3> DEFINE c == Checksummed(p)
      <3>1. OffsetSeq(p, off) = [c EXCEPT !.seq = (c.seq + off) % SeqSpace]
        BY <2>2 DEF OffsetSeq
      <3>2. c \in Packets /\ c.id = p.id /\ c.action = p.action
            /\ (c.seq + off) % SeqSpace \in SeqNums
        BY <1>1, <1>2
      <3> HIDE DEF c
      <3> QED BY <3>1, <3>2 DEF SameCustody, Packets
    <2> QED BY <2>1, <2>2
  <1>4. SameCustody(p, SetHeader(p, hdr))
    <2> DEFINE c == IF "ts" \in hdr THEN Checksummed(p) ELSE p
    <2>1. c \in Packets /\ c.id = p.id /\ c.action = p.action
      BY <1>1
    <2>2. SetHeader(p, hdr) = [c EXCEPT !.altered = c.altered \cup hdr]
      BY DEF SetHeader
    <2> HIDE DEF c
    <2>3. c.altered \cup hdr \in SUBSET {"ttl", "ts", "cksum"}
      BY <2>1 DEF Packets
    <2> QED BY <2>1, <2>2, <2>3 DEF SameCustody, Packets
  <1>5. SameCustody(p, BadChecksum(p, bad))
    <2>1. p.altered \cup {"cksum"} \in SUBSET {"ttl", "ts", "cksum"}
      BY DEF Packets
    <2> QED BY <2>1 DEF BadChecksum, SameCustody, Packets
  <1> QED BY <1>3, <1>4, <1>5

(* A trick is played on the originals of a list, packet by packet.         *)
LEMMA OnOriginalsKeeps ==
  ASSUME NEW ps, Ok(ps), NEW qs,
         qs = [i \in DOMAIN ps |-> IF ps[i].fake THEN ps[i] ELSE qs[i]],
         \A i \in DOMAIN ps : ps[i].fake \/ SameCustody(ps[i], qs[i])
  PROVE  Ok(qs)
  <1>1. CASE ps = Fault
    <2>1. DOMAIN ps = {}
      BY <1>1 DEF Fault
    <2>2. qs = << >>
      BY <2>1
    <2> QED BY <2>2 DEF Ok, Fault
  <1>2. CASE Sane(ps)
    <2>1. \A i \in DOMAIN ps : ps[i] \in Packets
      BY <1>2, ListOf
    <2>2. \A i \in DOMAIN ps : SameCustody(ps[i], qs[i])
      BY <2>1 DEF SameCustody
    <2>3. qs = [i \in DOMAIN ps |-> qs[i]]
      OBVIOUS
    <2>4. Sane(qs)
      BY <1>2, <2>2, <2>3, MapKeeps DEF SameCustody
    <2> QED BY <2>4 DEF Ok
  <1> QED BY <1>1, <1>2 DEF Ok

LEMMA TrickedBefore ==
  ASSUME NEW ps, Ok(ps), NEW m \in ModifierArgs
  PROVE  /\ Ok(OnOriginals(ps, LAMBDA p : SetHeader(p, m.hdr)))
         /\ Ok(OnOriginals(ps, LAMBDA p : SetHeader(OffsetSeq(p, m.seqOff), m.hdr)))
  <1> DEFINE qs == OnOriginals(ps, LAMBDA p : SetHeader(p, m.hdr))
             rs == OnOriginals(ps, LAMBDA p : SetHeader(OffsetSeq(p, m.seqOff), m.hdr))
  <1>1. m.hdr \in SUBSET {"ttl", "ts"} /\ m.seqOff \in Int
    BY DEF ModifierArgs
  <1>2. \A i \in DOMAIN ps : ps[i] \in Packets
    BY ListOf DEF Ok, Fault
  <1>3. Ok(qs)
    <2>1. qs = [i \in DOMAIN ps |-> IF ps[i].fake THEN ps[i] ELSE SetHeader(ps[i], m.hdr)]
      BY DEF OnOriginals
    <2>2. \A i \in DOMAIN ps : SameCustody(ps[i], SetHeader(ps[i], m.hdr))
      BY <1>1, <1>2, TricksKeep
    <2> HIDE DEF qs
    <2>3. qs = [i \in DOMAIN ps |-> IF ps[i].fake THEN ps[i] ELSE qs[i]]
      BY <2>1
    <2>4. \A i \in DOMAIN ps : ps[i].fake \/ SameCustody(ps[i], qs[i])
      BY <2>1, <2>2
    <2> QED BY <2>3, <2>4, OnOriginalsKeeps
  <1>4. Ok(rs)
    <2> DEFINE t(p) == SetHeader(OffsetSeq(p, m.seqOff), m.hdr)
    <2>1. rs = [i \in DOMAIN ps |-> IF ps[i].fake THEN ps[i] ELSE t(ps[i])]
      BY DEF OnOriginals
    <2>2. \A i \in DOMAIN ps : SameCustody(ps[i], t(ps[i]))
      <3> TAKE i \in DOMAIN ps
      <3> DEFINE p == ps[i]
                 o == OffsetSeq(p, m.seqOff)
      <3>1. p \in Packets /\ SameCustody(p, o)
        BY <1>1, <1>2, TricksKeep
      <3> HIDE DEF o, p
      <3>2. SameCustody(o, SetHeader(o, m.hdr))
        BY <1>1, <3>1, TricksKeep DEF SameCustody
      <3>3. SameCustody(p, SetHeader(o, m.hdr))
        BY <3>1, <3>2 DEF SameCustody
      <3> QED BY <3>3 DEF o, p
    <2> HIDE DEF rs, t
    <2>3. rs = [i \in DOMAIN ps |-> IF ps[i].fake THEN ps[i] ELSE rs[i]]
      BY <2>1
    <2>4. \A i \in DOMAIN ps : ps[i].fake \/ SameCustody(ps[i], rs[i])
      BY <2>1, <2>2
    <2> QED BY <2>3, <2>4, OnOriginalsKeeps
  <1> QED BY <1>3, <1>4

LEMMA TrickedAfter ==
  ASSUME NEW ps, Ok(ps), NEW m \in ModifierArgs
  PROVE  /\ Ok(OnOriginals(ps, LAMBDA p : BadChecksum(OffsetSeq(p, m.seqOff), m.badcksum)))
         /\ Ok(OnOriginals(ps, LAMBDA p : BadChecksum(p, m.badcksum)))
  <1> DEFINE qs == OnOriginals(ps, LAMBDA p : BadChecksum(p, m.badcksum))
             rs == OnOriginals(ps, LAMBDA p : BadChecksum(OffsetSeq(p, m.seqOff), m.badcksum))
  <1>1. m.badcksum \in BOOLEAN /\ m.seqOff \in Int
    BY DEF ModifierArgs
  <1>2. \A i \in DOMAIN ps : ps[i] \in Packets
    BY ListOf DEF Ok, Fault
  <1>3. Ok(qs)
    <2>1. qs = [i \in DOMAIN ps |->
                  IF ps[i].fake THEN ps[i] ELSE BadChecksum(ps[i], m.badcksum)]
      BY DEF OnOriginals
    <2>2. \A i \in DOMAIN ps : SameCustody(ps[i], BadChecksum(ps[i], m.badcksum))
      BY <1>1, <1>2, TricksKeep
    <2> HIDE DEF qs
    <2>3. qs = [i \in DOMAIN ps |-> IF ps[i].fake THEN ps[i] ELSE qs[i]]
      BY <2>1
    <2>4. \A i \in DOMAIN ps : ps[i].fake \/ SameCustody(ps[i], qs[i])
      BY <2>1, <2>2
    <2> QED BY <2>3, <2>4, OnOriginalsKeeps
  <1>4. Ok(rs)
    <2> DEFINE t(p) == BadChecksum(OffsetSeq(p, m.seqOff), m.badcksum)
    <2>1. rs = [i \in DOMAIN ps |-> IF ps[i].fake THEN ps[i] ELSE t(ps[i])]
      BY DEF OnOriginals
    <2>2. \A i \in DOMAIN ps : SameCustody(ps[i], t(ps[i]))
      <3> TAKE i \in DOMAIN ps
      <3> DEFINE p == ps[i]
                 o == OffsetSeq(p, m.seqOff)
      <3>1. p \in Packets /\ SameCustody(p, o)
        BY <1>1, <1>2, TricksKeep
      <3> HIDE DEF o, p
      <3>2. SameCustody(o, BadChecksum(o, m.badcksum))
        BY <1>1, <3>1, TricksKeep DEF SameCustody
      <3>3. SameCustody(p, BadChecksum(o, m.badcksum))
        BY <3>1, <3>2 DEF SameCustody
      <3> QED BY <3>3 DEF o, p
    <2> HIDE DEF rs, t
    <2>3. rs = [i \in DOMAIN ps |-> IF ps[i].fake THEN ps[i] ELSE rs[i]]
      BY <2>1
    <2>4. \A i \in DOMAIN ps : ps[i].fake \/ SameCustody(ps[i], rs[i])
      BY <2>1, <2>2
    <2> QED BY <2>3, <2>4, OnOriginalsKeeps
  <1> QED BY <1>3, <1>4

(* A packet the program made, in front. *)
LEMMA InsertFakeKeeps ==
  ASSUME NEW ps, Sane(ps), NEW m \in ModifierArgs
  PROVE  Sane(InsertFake(ps, m))
  <1> DEFINE n == Len(ps)
             copy == [Checksummed(ps[1]) EXCEPT !.id = 0, !.action = "SEND", !.data = Blob,
                                                !.fake = TRUE]
             fake == BadChecksum(OffsetSeq(SetHeader(copy, m.hdr), m.seqOff), m.badcksum)
             qs == <<fake>> \o ps
  <1>1. /\ ps \in Seq(Packets) /\ n \in Nat /\ n >= 1 /\ DOMAIN ps = 1 .. n
        /\ ps[1] \in Packets
    BY ListOf
  <1>2. m.hdr \in SUBSET {"ttl", "ts"} /\ m.seqOff \in Int /\ m.badcksum \in BOOLEAN
    BY DEF ModifierArgs
  <1>3. copy \in Packets /\ copy.action = "SEND"
    <2>1. Checksummed(ps[1]) \in Packets
      BY <1>1, ChecksummedIs
    <2>2. Blob \in Seq(Nat)
      BY PipelinesAssumption
    <2> QED BY <2>1, <2>2 DEF Packets
  <1> HIDE DEF copy
  <1>4. fake \in Packets /\ fake.action = "SEND"
    <2> DEFINE h == SetHeader(copy, m.hdr)
               o == OffsetSeq(h, m.seqOff)
    <2>1. h \in Packets /\ h.action = "SEND"
      BY <1>2, <1>3, TricksKeep DEF SameCustody
    <2> HIDE DEF h
    <2>2. o \in Packets /\ o.action = "SEND"
      BY <1>2, <2>1, TricksKeep DEF SameCustody
    <2> HIDE DEF o
    <2>3. BadChecksum(o, m.badcksum) \in Packets /\ BadChecksum(o, m.badcksum).action = "SEND"
      BY <1>2, <2>2, TricksKeep DEF SameCustody
    <2> QED BY <2>3 DEF h, o
  <1> HIDE DEF fake
  <1>5. /\ qs \in Seq(Packets) /\ Len(qs) = n + 1 /\ qs[1] = fake
        /\ \A k \in 1 .. n : qs[k + 1] = ps[k]
    <2>1. <<fake>> \in Seq(Packets) /\ Len(<<fake>>) = 1 /\ <<fake>>[1] = fake
      BY <1>4
    <2>2. /\ qs \in Seq(Packets) /\ Len(qs) = 1 + n
          /\ \A k \in 1 .. 1 + n : qs[k] = IF k <= 1 THEN <<fake>>[k] ELSE ps[k - 1]
      BY <1>1, <2>1, ConcatProperties
    <2> HIDE DEF qs
    <2>3. 1 \in 1 .. 1 + n /\ 1 <= 1
      BY <1>1
    <2>4. \A k \in 1 .. n : k + 1 \in 1 .. 1 + n /\ ~ (k + 1 <= 1) /\ (k + 1) - 1 = k
      BY <1>1
    <2> QED BY <1>1, <2>1, <2>2, <2>3, <2>4
  <1> HIDE DEF qs
  <1>6. DOMAIN qs = 1 .. n + 1 /\ qs # << >>
    BY <1>1, <1>5
  <1>7. \A k \in Owed(qs) : k - 1 \in Owed(ps) /\ qs[k].id = ps[k - 1].id
    <2> TAKE k \in Owed(qs)
    <2>1. k \in 1 .. n + 1 /\ k # 1 /\ qs[k].action # "SEND"
      BY <1>4, <1>5, <1>6 DEF Owed
    <2>2. k - 1 \in 1 .. n /\ (k - 1) + 1 = k
      BY <1>1, <2>1
    <2>3. qs[k] = ps[k - 1]
      BY <1>5, <2>2
    <2> QED BY <1>1, <2>1, <2>2, <2>3 DEF Owed
  <1>8. \A i \in Owed(ps) : i + 1 \in Owed(qs) /\ qs[i + 1].id = ps[i].id
    <2> TAKE i \in Owed(ps)
    <2>1. i \in 1 .. n /\ ps[i].action # "SEND"
      BY <1>1 DEF Owed
    <2>2. i + 1 \in 1 .. n + 1 /\ qs[i + 1] = ps[i]
      BY <1>1, <1>5, <2>1
    <2> QED BY <1>6, <2>1, <2>2 DEF Owed
  <1>9. {qs[k].id : k \in Owed(qs)} = Handed
    <2>1. {ps[i].id : i \in Owed(ps)} = Handed
      BY DEF Sane, Keeps
    <2> QED BY <1>7, <1>8, <2>1
  <1>10. \A k, l \in Owed(qs) : qs[k].id = qs[l].id => k = l
    <2> SUFFICES ASSUME NEW k \in Owed(qs), NEW l \in Owed(qs), qs[k].id = qs[l].id
                 PROVE  k = l
      OBVIOUS
    <2>1. k - 1 = l - 1
      BY <1>7 DEF Sane, Keeps
    <2>2. k \in Int /\ l \in Int
      BY <1>1, <1>6 DEF Owed
    <2> QED BY <2>1, <2>2
  <1>11. Sane(qs)
    BY <1>5, <1>6, <1>9, <1>10 DEF Sane, Keeps
  <1> QED BY <1>11 DEF qs, fake, copy, InsertFake

-----------------------------------------------------------------------------
(* The two modifiers *)

LEMMA MssIsNat ==
  ASSUME mss \in MssValues
  PROVE  SplitterMss \in Nat /\ DisorderMss \in Nat
  <1>1. mss \in Nat /\ TcpHdrLen \in Nat
    BY Sizes
  <1>2. mss - (TcpHdrLen - 8) \in Int /\ mss - (TcpHdrLen - 20) \in Int
    BY <1>1
  <1>3. /\ (mss - (TcpHdrLen - 8)) % SizeSpace \in 0 .. SizeSpace - 1
        /\ (mss - (TcpHdrLen - 20)) % SizeSpace \in 0 .. SizeSpace - 1
    BY <1>2, Sizes
  <1>4. \A x \in 0 .. SizeSpace - 1 : x \in Nat
    OBVIOUS
  <1> QED BY <1>3, <1>4 DEF SplitterMss, DisorderMss

LEMMA OriginalsOfFault == Originals(Fault) = {}
  BY DEF Originals, Fault

LEMMA SplitterKeeps ==
  ASSUME found \in Findings, mss \in MssValues,
         NEW ps, Sane(ps), NEW m \in ModifierArgs, NEW result \in SplitterOutcomes(ps, m)
  PROVE  Ok(result)
  <1> DEFINE cut == OnOriginals(SplitAll(ps, m.splits), LAMBDA p : SetHeader(p, m.hdr))
             n == IF m.seqovl = {} THEN 0 ELSE (CHOOSE pos \in m.seqovl : TRUE).off
             first == Min(Originals(cut))
             overlaps == m.seqovl # {} /\ Originals(cut) # {}
             done == IF overlaps THEN Overlap(cut, first, n, SplitterMss) ELSE cut
             tricked == OnOriginals(done,
                          LAMBDA p : BadChecksum(OffsetSeq(p, m.seqOff), m.badcksum))
  <1>1. Ok(cut)
    <2>1. m.splits \in Seq(Position)
      BY DEF ModifierArgs
    <2>2. Ok(SplitAll(ps, m.splits))
      BY <2>1, SplitAllKeeps DEF Ok
    <2> QED BY <2>2, TrickedBefore
  <1>2. n \in Nat
    <2>1. m.seqovl \in SUBSET Position
      BY DEF ModifierArgs
    <2>2. \A pos \in Position : pos.off \in Nat
      BY Sizes DEF Position
    <2> QED BY <2>1, <2>2
  <1> HIDE DEF cut, n
  <1>3. Ok(done)
    <2>1. CASE overlaps
      <3>1. Sane(cut)
        BY <1>1, <2>1, OriginalsOfFault DEF Ok
      <3>2. first \in DOMAIN cut
        <4>1. first \in Originals(cut)
          BY <2>1, <3>1, FirstOriginal
        <4> HIDE DEF first
        <4> QED BY <4>1 DEF Originals
      <3> HIDE DEF first
      <3>3. Ok(Overlap(cut, first, n, SplitterMss))
        BY <1>2, <3>1, <3>2, MssIsNat, OverlapKeeps
      <3> QED BY <2>1, <3>3
    <2>2. CASE ~overlaps
      BY <1>1, <2>2
    <2> QED BY <2>1, <2>2
  <1> HIDE DEF done
  <1>4. Ok(tricked)
    BY <1>3, TrickedAfter
  <1>5. result = tricked \/ result = Fault
    BY DEF SplitterOutcomes, Outcomes, tricked, done, overlaps, first, n, cut
  <1> QED BY <1>4, <1>5 DEF Ok

LEMMA DisorderKeeps ==
  ASSUME found \in Findings, mss \in MssValues,
         NEW ps, Sane(ps), NEW m \in ModifierArgs, NEW result \in DisorderOutcomes(ps, m)
  PROVE  Ok(result)
  <1> DEFINE cut == OnOriginals(SplitAll(ps, m.splits),
                      LAMBDA p : SetHeader(OffsetSeq(p, m.seqOff), m.hdr))
             pos == CHOOSE q \in m.seqovl : TRUE
             n == SplitPos(found.markers, pos)
             second == Min(Originals(cut)) + 1
             overlaps == /\ m.seqovl # {} /\ Originals(cut) # {}
                         /\ ~SeqovlThrows(pos) /\ ~TooBig(cut, n)
             inside == second <= Len(cut)
             done == IF m.seqovl # {} /\ SeqovlThrows(pos) THEN Fault
                     ELSE IF ~overlaps THEN cut
                     ELSE IF inside THEN Overlap(cut, second, n, DisorderMss) ELSE Fault
             tricked == OnOriginals(done, LAMBDA p : BadChecksum(p, m.badcksum))
  <1>1. Ok(cut)
    <2>1. m.splits \in Seq(Position)
      BY DEF ModifierArgs
    <2>2. Ok(SplitAll(ps, m.splits))
      BY <2>1, SplitAllKeeps DEF Ok
    <2> QED BY <2>2, TrickedBefore
  <1>2. m.seqovl # {} => n \in Nat
    <2> SUFFICES ASSUME m.seqovl # {} PROVE n \in Nat
      OBVIOUS
    <2>1. m.seqovl \in SUBSET Position
      BY DEF ModifierArgs
    <2>2. pos \in Position
      BY <2>1
    <2> HIDE DEF pos
    <2> QED BY <2>2, SplitPosIsNat
  <1> HIDE DEF cut, n, pos
  <1>3. Ok(done)
    <2>1. CASE overlaps /\ inside
      <3>1. Sane(cut)
        BY <1>1, <2>1, OriginalsOfFault DEF Ok
      <3>2. second \in DOMAIN cut
        <4> DEFINE f == Min(Originals(cut))
        <4>1. f \in Originals(cut)
          BY <2>1, <3>1, FirstOriginal
        <4>2. second = f + 1 /\ f + 1 <= Len(cut)
          BY <2>1
        <4> HIDE DEF f, second
        <4>3. Len(cut) \in Nat /\ DOMAIN cut = 1 .. Len(cut)
          BY <3>1, ListOf
        <4>4. f \in 1 .. Len(cut)
          BY <4>1, <4>3 DEF Originals
        <4> QED BY <4>2, <4>3, <4>4
      <3> HIDE DEF second
      <3>3. Ok(Overlap(cut, second, n, DisorderMss))
        BY <1>2, <2>1, <3>1, <3>2, MssIsNat, OverlapKeeps
      <3>4. done = Overlap(cut, second, n, DisorderMss)
        BY <2>1
      <3> HIDE DEF done
      <3> QED BY <3>3, <3>4
    <2>2. CASE ~ (overlaps /\ inside)
      <3>1. done = Fault \/ done = cut
        BY <2>2
      <3> HIDE DEF done
      <3> QED BY <1>1, <3>1 DEF Ok
    <2> QED BY <2>1, <2>2
  <1> HIDE DEF done
  <1>4. Ok(tricked)
    BY <1>3, TrickedAfter
  <1>5. result = tricked \/ result = Fault
    BY DEF DisorderOutcomes, Outcomes, tricked, done, overlaps, inside, second, n, pos, cut
  <1> QED BY <1>4, <1>5 DEF Ok

-----------------------------------------------------------------------------
(* The invariant *)

LEMMA Delivered ==
  ASSUME original \in Deliveries
  PROVE  /\ original \in Seq(HeldSegment) /\ Len(original) \in Nat /\ Len(original) >= 1
         /\ DOMAIN original = 1 .. Len(original)
         /\ \A i, j \in DOMAIN original : original[i].id = original[j].id => i = j
         /\ Handed # {}
  <1>1. /\ original \in Seq(HeldSegment) /\ original # << >>
        /\ \A i, j \in DOMAIN original : original[i].id = original[j].id => i = j
    BY DeliveriesAssumption
  <1>2. Len(original) \in Nat /\ Len(original) # 0 /\ DOMAIN original = 1 .. Len(original)
    BY <1>1
  <1>3. 1 \in DOMAIN original
    BY <1>2
  <1> QED BY <1>1, <1>2, <1>3 DEF Handed

LEMMA MInvInit == Init => MInv
  <1> SUFFICES ASSUME Init PROVE MInv
    OBVIOUS
  <1>1. /\ original \in Deliveries /\ found \in Findings /\ pipeline \in Pipelines
        /\ mss \in MssValues /\ next = 1 /\ pc = "filter" /\ out = {}
        /\ packets = [i \in DOMAIN original |-> FromHeld(original[i])]
    BY DEF Init
  <1>2. \A i \in DOMAIN original : /\ FromHeld(original[i]) \in Packets
                                   /\ FromHeld(original[i]).id = original[i].id
                                   /\ FromHeld(original[i]).action = "ACCEPT"
    <2> TAKE i \in DOMAIN original
    <2>1. original[i] \in HeldSegment
      BY <1>1, Delivered
    <2> QED BY <2>1 DEF HeldSegment, FromHeld, Packets
  <1>3. packets \in Seq(Packets) /\ Len(packets) = Len(original)
    <2>1. packets \in [1 .. Len(original) -> Packets]
      BY <1>1, <1>2, Delivered
    <2> QED BY <1>1, <2>1, Delivered
  <1>4. DOMAIN packets = DOMAIN original
    BY <1>1
  <1>5. \A i \in DOMAIN original : packets[i] = FromHeld(original[i])
    BY <1>1
  <1>6. Owed(packets) = DOMAIN original
    BY <1>2, <1>4, <1>5 DEF Owed
  <1>7. \A i \in DOMAIN original : packets[i].id = original[i].id
    BY <1>2, <1>5
  <1>8. Keeps(packets)
    <2>1. {packets[i].id : i \in Owed(packets)} = Handed
      BY <1>6, <1>7 DEF Handed
    <2>2. \A i, j \in Owed(packets) : packets[i].id = packets[j].id => i = j
      BY <1>1, <1>6, <1>7, Delivered
    <2> QED BY <2>1, <2>2 DEF Keeps
  <1>9. packets # << >>
    BY <1>1, <1>3, Delivered
  <1> QED BY <1>1, <1>3, <1>8, <1>9 DEF MInv, Sane

(* What a turn may leave. *)
LEMMA TurnLeaves ==
  ASSUME MInv, Splitter \/ Disorder
  PROVE  /\ Sane(packets) /\ out = {} /\ pc = "modify"
         /\ Ok(packets') /\ pc' = IF packets' = Fault THEN "fault" ELSE "modify"
         /\ next' = next + 1
         /\ UNCHANGED <<original, found, pipeline, mss, out, lost>>
  <1> DEFINE m == pipeline[next]
  <1>1. /\ pc = "modify" /\ next <= Len(pipeline) /\ next' = next + 1
        /\ UNCHANGED <<original, found, pipeline, mss, out, lost>>
    BY DEF Splitter, Disorder, Turn
  <1>2. /\ Sane(packets) /\ out = {} /\ found \in Findings /\ mss \in MssValues
        /\ next \in Nat /\ next >= 1 /\ pipeline \in Pipelines
    BY <1>1 DEF MInv
  <1>3. m \in ModifierArgs
    <2>1. pipeline \in Seq(ModifierArgs)
      BY <1>2, PipelinesAssumption
    <2>2. next \in 1 .. Len(pipeline)
      BY <1>1, <1>2, <2>1
    <2> QED BY <2>1, <2>2
  <1>4. ASSUME NEW result, Leaves(result), Ok(result)
        PROVE  Ok(packets') /\ pc' = IF packets' = Fault THEN "fault" ELSE "modify"
    BY <1>4 DEF Leaves
  <1>5. CASE Splitter
    <2>1. CASE m.fake
      <3>1. Leaves(InsertFake(packets, m))
        BY <1>5, <2>1 DEF Splitter
      <3>2. Ok(InsertFake(packets, m))
        BY <1>2, <1>3, InsertFakeKeeps DEF Ok
      <3> QED BY <1>1, <1>2, <1>4, <3>1, <3>2
    <2>2. CASE ~m.fake
      <3>1. PICK result \in SplitterOutcomes(packets, m) : Leaves(result)
        BY <1>5, <2>2 DEF Splitter
      <3>2. Ok(result)
        BY <1>2, <1>3, SplitterKeeps
      <3> QED BY <1>1, <1>2, <1>4, <3>1, <3>2
    <2> QED BY <2>1, <2>2
  <1>6. CASE Disorder
    <2>1. CASE m.fake
      <3>1. Leaves(ReverseOriginals(InsertFake(packets, m)))
        BY <1>6, <2>1 DEF Disorder
      <3>2. Ok(InsertFake(packets, m))
        BY <1>2, <1>3, InsertFakeKeeps DEF Ok
      <3>3. Ok(ReverseOriginals(InsertFake(packets, m)))
        BY <3>2, ReverseKeeps
      <3> QED BY <1>1, <1>2, <1>4, <3>1, <3>3
    <2>2. CASE ~m.fake
      <3>1. PICK result \in DisorderOutcomes(packets, m) : Leaves(ReverseOriginals(result))
        BY <1>6, <2>2 DEF Disorder
      <3>2. Ok(result)
        BY <1>2, <1>3, DisorderKeeps
      <3>3. Ok(ReverseOriginals(result))
        BY <3>2, ReverseKeeps
      <3> QED BY <1>1, <1>2, <1>4, <3>1, <3>3
    <2> QED BY <2>1, <2>2
  <1> QED BY <1>5, <1>6

LEMMA MInvStep == MInv /\ [Next]_vars => MInv'
  <1> SUFFICES ASSUME MInv, [Next]_vars PROVE MInv'
    OBVIOUS
  <1>0. ASSUME UNCHANGED <<original, packets>>, Sane(packets) PROVE Sane(packets)'
    <2>1. original' = original /\ packets' = packets
      BY <1>0
    <2>2. Handed' = Handed
      BY <2>1 DEF Handed
    <2>3. Keeps(packets) /\ packets \in Seq(Packets) /\ packets # << >>
      BY <1>0 DEF Sane
    <2>4. Keeps(packets)'
      BY <2>1, <2>2, <2>3 DEF Keeps, Owed
    <2> QED BY <2>1, <2>3, <2>4 DEF Sane
  <1>1. CASE Filter
    <2>1. /\ pc = "filter" /\ pc' \in {"modify", "send"}
          /\ UNCHANGED <<original, found, pipeline, mss, packets, next, out, lost>>
      BY <1>1 DEF Filter
    <2>2. Sane(packets) /\ out = {}
      BY <2>1 DEF MInv
    <2>3. Sane(packets)'
      BY <1>0, <2>1, <2>2
    <2> QED BY <2>1, <2>2, <2>3 DEF MInv
  <1>2. CASE Splitter \/ Disorder
    <2>1. /\ Ok(packets') /\ pc' = IF packets' = Fault THEN "fault" ELSE "modify"
          /\ next' = next + 1 /\ out = {} /\ out' = out
          /\ original' = original /\ found' = found /\ pipeline' = pipeline /\ mss' = mss
      BY <1>2, TurnLeaves
    <2>2. packets' # Fault => Sane(packets)'
      BY <2>1 DEF Ok, Sane, Keeps, Handed
    <2> QED BY <2>1, <2>2 DEF MInv
  <1>3. CASE Skip
    <2>1. /\ pc = "modify" /\ pc' = pc /\ next' = next + 1
          /\ UNCHANGED <<original, found, pipeline, mss, packets, out, lost>>
      BY <1>3 DEF Skip
    <2>2. Sane(packets) /\ out = {}
      BY <2>1 DEF MInv
    <2>3. Sane(packets)'
      BY <1>0, <2>1, <2>2
    <2> QED BY <2>1, <2>2, <2>3 DEF MInv
  <1>4. CASE Finished
    <2>1. /\ pc = "modify" /\ pc' = "send"
          /\ UNCHANGED <<original, found, pipeline, mss, packets, next, out, lost>>
      BY <1>4 DEF Finished
    <2>2. Sane(packets) /\ out = {}
      BY <2>1 DEF MInv
    <2>3. Sane(packets)'
      BY <1>0, <2>1, <2>2
    <2> QED BY <2>1, <2>2, <2>3 DEF MInv
  <1>5. CASE Send
    BY <1>5 DEF Send, MInv
  <1>6. CASE UNCHANGED vars
    <2>1. UNCHANGED <<original, found, pipeline, mss, packets, next, out, lost, pc>>
      BY <1>6 DEF vars
    <2>2. Sane(packets) => Sane(packets)'
      BY <1>0, <2>1
    <2> QED BY <2>1, <2>2 DEF MInv
  <1> QED BY <1>1, <1>2, <1>3, <1>4, <1>5, <1>6 DEF Next

(* Whatever a profile does, the list holds each packet that was handed     *)
(* over once until its verdict is sent.                                    *)
THEOREM Custody == Spec => []MInv
  BY MInvInit, MInvStep, PTL DEF Spec

-----------------------------------------------------------------------------
(* The promise the packet loop relies on *)

LEMMA VerdictsAnswerEach ==
  ASSUME MInv, pc = "send"
  PROVE  /\ {v.id : v \in Verdicts} = Handed
         /\ \A v, w \in Verdicts : v.id = w.id => v = w
  <1> DEFINE verdict(i) ==
        [pos |-> i, id |-> packets[i].id,
         verdict |-> IF packets[i].action = "ACCEPT" THEN "ACCEPT" ELSE "DROP"]
  <1>1. /\ {packets[i].id : i \in Owed(packets)} = Handed
        /\ \A i, j \in Owed(packets) : packets[i].id = packets[j].id => i = j
    BY DEF MInv, Sane, Keeps
  <1>2. Verdicts = {verdict(i) : i \in Owed(packets)}
    BY DEF Verdicts, Owed
  <1>3. \A i : verdict(i).id = packets[i].id
    OBVIOUS
  <1> HIDE DEF verdict
  <1>4. {v.id : v \in Verdicts} = Handed
    BY <1>1, <1>2, <1>3
  <1>5. \A v, w \in Verdicts : v.id = w.id => v = w
    <2> SUFFICES ASSUME NEW v \in Verdicts, NEW w \in Verdicts, v.id = w.id PROVE v = w
      OBVIOUS
    <2>1. PICK i \in Owed(packets) : v = verdict(i)
      BY <1>2
    <2>2. PICK j \in Owed(packets) : w = verdict(j)
      BY <1>2
    <2>3. i = j
      BY <1>1, <1>3, <2>1, <2>2
    <2> QED BY <2>1, <2>2, <2>3
  <1> QED BY <1>4, <1>5

(* Every packet handed over is answered, once, all in one go, and nothing  *)
(* else is, or the program ends and answers none: for every list of held   *)
(* packets, every profile and every MSS.                                   *)
THEOREM AnswersEachAlways == Spec => AnswersEach
  <1> DEFINE waiting == Handed \ {m.id : m \in out}
             Ids == UNION {{segs[i].id : i \in DOMAIN segs} : segs \in Deliveries}
  <1>1. Init => Answered!Init
    <2> SUFFICES ASSUME Init PROVE Answered!Init
      OBVIOUS
    <2>1. original \in Deliveries /\ out = {} /\ pc = "filter"
      BY DEF Init
    <2>2. Handed \subseteq Ids
      BY <2>1 DEF Handed
    <2>3. (pc = "fault") = FALSE
      BY <2>1
    <2> QED BY <2>1, <2>2, <2>3 DEF Answered!Init, Handed
  <1>2. MInv /\ [Next]_vars => [Answered!Next]_(Answered!vars)
    <2> SUFFICES ASSUME MInv, [Next]_vars PROVE [Answered!Next]_(Answered!vars)
      OBVIOUS
    <2>1. ASSUME UNCHANGED <<original, out>>, (pc' = "fault") = (pc = "fault")
          PROVE  UNCHANGED Answered!vars
      BY <2>1 DEF Answered!vars
    <2>2. CASE Filter
      <3>1. UNCHANGED <<original, out>> /\ (pc' = "fault") = (pc = "fault")
        BY <2>2 DEF Filter
      <3> QED BY <2>1, <3>1
    <2>3. CASE Splitter \/ Disorder
      <3>1. /\ Sane(packets) /\ out = {} /\ pc = "modify"
            /\ pc' = IF packets' = Fault THEN "fault" ELSE "modify"
            /\ UNCHANGED <<original, out>>
        BY <2>3, TurnLeaves
      <3>2. CASE packets' = Fault
        <4>1. (pc = "fault") = FALSE /\ (pc' = "fault") = TRUE
          BY <3>1, <3>2
        <4>2. waiting # {}
          BY <3>1, Delivered DEF MInv
        <4>3. Answered!End
          BY <3>1, <4>1, <4>2 DEF Answered!End, Handed
        <4> QED BY <4>3 DEF Answered!Next
      <3>3. CASE packets' # Fault
        <4>1. (pc' = "fault") = (pc = "fault")
          BY <3>1, <3>3
        <4> QED BY <2>1, <3>1, <4>1
      <3> QED BY <3>2, <3>3
    <2>4. CASE Skip
      <3>1. UNCHANGED <<original, out>> /\ (pc' = "fault") = (pc = "fault")
        BY <2>4 DEF Skip
      <3> QED BY <2>1, <3>1
    <2>5. CASE Finished
      <3>1. UNCHANGED <<original, out>> /\ (pc' = "fault") = (pc = "fault")
        BY <2>5 DEF Finished
      <3> QED BY <2>1, <3>1
    <2>6. CASE Send
      <3>1. pc = "send" /\ out' = Verdicts /\ pc' = "done" /\ UNCHANGED original
        BY <2>6 DEF Send
      <3>2. out = {}
        BY <3>1 DEF MInv
      <3>3. {v.id : v \in out'} = Handed /\ \A v, w \in out' : v.id = w.id => v = w
        BY <3>1, VerdictsAnswerEach
      <3>4. waiting = Handed
        BY <3>2
      <3>5. waiting' = {}
        BY <3>1, <3>3 DEF Handed
      <3>6. (pc = "fault") = FALSE /\ (pc' = "fault") = FALSE
        BY <3>1
      <3>7. Answered!Answer
        BY <3>3, <3>4, <3>5, <3>6 DEF Answered!Answer, Handed
      <3> QED BY <3>7 DEF Answered!Next
    <2>7. CASE UNCHANGED vars
      <3>1. UNCHANGED <<original, out>> /\ (pc' = "fault") = (pc = "fault")
        BY <2>7 DEF vars
      <3> QED BY <2>1, <3>1
    <2> QED BY <2>2, <2>3, <2>4, <2>5, <2>6, <2>7 DEF Next
  <1> QED BY <1>1, <1>2, Custody, PTL DEF Spec, AnswersEach, Answered!Spec

-----------------------------------------------------------------------------
(* The originals lay out the payload *)

Carries(B, p, x) ==
  Offset(B, p.seq) < x /\ x <= Offset(B, p.seq) + Len(p.data)

(* With sequence numbers counted from B, each byte of P is in one packet,  *)
(* at its place.                                                           *)
Placed(P, B, ps) ==
  /\ B \in SeqNums /\ P \in Seq(Nat) /\ 2 * Len(P) < SeqSpace
  /\ \A i \in DOMAIN ps :
       /\ ~ps[i].fake
       /\ Offset(B, ps[i].seq) + Len(ps[i].data) <= Len(P)
       /\ \A y \in 1 .. Len(ps[i].data) : ps[i].data[y] = P[Offset(B, ps[i].seq) + y]
  /\ \A x \in 1 .. Len(P) : \E i \in DOMAIN ps : Carries(B, ps[i], x)
  /\ \A i, j \in DOMAIN ps, x \in 1 .. Len(P) :
       Carries(B, ps[i], x) /\ Carries(B, ps[j], x) => i = j

LEMMA PlacedFacts ==
  ASSUME NEW ps, Sane(ps), NEW P, NEW B, Placed(P, B, ps)
  PROVE  /\ Len(P) \in Nat
         /\ \A i \in 1 .. Len(ps) :
              /\ Offset(B, ps[i].seq) \in Nat /\ Len(ps[i].data) \in Nat
              /\ Offset(B, ps[i].seq) + Len(ps[i].data) <= Len(P)
              /\ Offset(B, ps[i].seq) + Len(ps[i].data) < SeqSpace
              /\ 2 * Offset(B, ps[i].seq) < SeqSpace
  <1>1. /\ P \in Seq(Nat) /\ Len(P) \in Nat /\ B \in SeqNums /\ 2 * Len(P) < SeqSpace
        /\ SeqSpace \in Nat /\ SeqSpace > 1
    BY SeqSpaceAssumption DEF Placed
  <1> SUFFICES ASSUME NEW i \in 1 .. Len(ps)
               PROVE  /\ Offset(B, ps[i].seq) \in Nat /\ Len(ps[i].data) \in Nat
                      /\ Offset(B, ps[i].seq) + Len(ps[i].data) <= Len(P)
                      /\ Offset(B, ps[i].seq) + Len(ps[i].data) < SeqSpace
                      /\ 2 * Offset(B, ps[i].seq) < SeqSpace
    BY <1>1
  <1> DEFINE o == Offset(B, ps[i].seq)
             d == Len(ps[i].data)
  <1>2. i \in DOMAIN ps /\ ps[i].seq \in SeqNums /\ d \in Nat
    BY ListOf
  <1>3. o \in 0 .. SeqSpace - 1
    BY <1>1, <1>2, OffsetFacts
  <1>4. o + d <= Len(P)
    BY <1>2 DEF Placed
  <1> HIDE DEF o, d
  <1>5. o \in Nat /\ o + d < SeqSpace /\ 2 * o < SeqSpace
    BY <1>1, <1>2, <1>3, <1>4
  <1> QED BY <1>2, <1>4, <1>5 DEF o, d

(* What comes before a packet are the bytes up to its offset.              *)
LEMMA SizeBeforeIs ==
  ASSUME NEW ps, Sane(ps), NEW P, NEW B, Placed(P, B, ps),
         NEW at \in DOMAIN ps, Len(ps[at].data) > 0
  PROVE  SizeBefore(ps, at) = Offset(B, ps[at].seq)
  <1> DEFINE n == Len(ps)
             o(i) == Offset(B, ps[i].seq)
             d(i) == Len(ps[i].data)
             Has(i, x) == Carries(B, ps[i], x)
             S == Before(ps, at)
             cells == UNION {{j} \X DOMAIN ps[j].data : j \in S}
  <1>1. /\ DOMAIN ps = 1 .. n /\ at \in 1 .. n /\ Len(P) \in Nat
        /\ \A i \in 1 .. n : /\ ps[i].seq \in SeqNums /\ DOMAIN ps[i].data = 1 .. d(i)
                             /\ o(i) \in Nat /\ d(i) \in Nat /\ o(i) + d(i) <= Len(P)
                             /\ 2 * o(i) < SeqSpace
    <2>1. \A i \in 1 .. n : ps[i].data \in Seq(Nat) /\ ps[i].seq \in SeqNums
      BY ListOf
    <2>2. DOMAIN ps = 1 .. n
      BY ListOf
    <2> QED BY <2>1, <2>2, PlacedFacts
  <1>2. B \in SeqNums /\ d(at) > 0
    BY DEF Placed
  <1>3. \A i \in 1 .. n, x \in 1 .. Len(P) : Has(i, x) <=> o(i) < x /\ x <= o(i) + d(i)
    BY DEF Carries
  <1>4. /\ \A x \in 1 .. Len(P) : \E i \in 1 .. n : Has(i, x)
        /\ \A i, j \in 1 .. n, x \in 1 .. Len(P) : Has(i, x) /\ Has(j, x) => i = j
    BY <1>1 DEF Placed
  <1>5. \A j \in 1 .. n : j \in S <=> o(j) < o(at) \/ (ps[j].seq = ps[at].seq /\ j < at)
    <2>1. \A j \in 1 .. n : SeqLT(ps[j].seq, ps[at].seq) <=> o(j) < o(at)
      BY <1>1, <1>2, WindowOrder
    <2> QED BY <1>1, <2>1 DEF Before
  <1>6. S \subseteq 1 .. n /\ \A j \in 1 .. n : ps[j].seq = ps[at].seq => o(j) = o(at)
    BY <1>1 DEF Before
  <1>7. SizeBefore(ps, at) = Cardinality(cells)
    BY DEF SizeBefore
  <1>8. \A c : c \in cells <=> \E j \in S : \E y \in 1 .. d(j) : c = <<j, y>>
    <2> TAKE c
    <2>1. c \in cells <=> \E j \in S : c \in {j} \X DOMAIN ps[j].data
      OBVIOUS
    <2>2. \A j \in S : c \in {j} \X DOMAIN ps[j].data <=> \E y \in 1 .. d(j) : c = <<j, y>>
      <3> TAKE j \in S
      <3>1. DOMAIN ps[j].data = 1 .. d(j)
        BY <1>1, <1>6
      <3> QED BY <3>1
    <2> QED BY <2>1, <2>2
  <1> HIDE DEF cells, S, Has, o, d
  <1> DEFINE c(x) == CHOOSE i \in 1 .. n : Has(i, x)
             m == o(at)
             f == [x \in 1 .. m |-> <<c(x), x - o(c(x))>>]
  <1>9. \A x \in 1 .. m : /\ x \in 1 .. Len(P) /\ c(x) \in 1 .. n /\ Has(c(x), x)
                          /\ o(c(x)) < x /\ x <= o(c(x)) + d(c(x))
                          /\ c(x) \in S /\ x - o(c(x)) \in 1 .. d(c(x))
    <2> TAKE x \in 1 .. m
    <2>1. x \in 1 .. Len(P)
      <3>1. m \in Nat /\ d(at) \in Nat /\ m + d(at) <= Len(P)
        BY <1>1 DEF d
      <3> QED BY <1>1, <3>1
    <2>2. c(x) \in 1 .. n /\ Has(c(x), x)
      BY <1>4, <2>1
    <2> HIDE DEF c
    <2>3. o(c(x)) < x /\ x <= o(c(x)) + d(c(x)) /\ o(c(x)) \in Nat /\ d(c(x)) \in Nat /\ m \in Nat
      BY <1>1, <1>3, <2>1, <2>2 DEF d
    <2>4. o(c(x)) < o(at)
      BY <2>3
    <2> QED BY <1>5, <2>1, <2>2, <2>3, <2>4
  <1> HIDE DEF c
  <1>10. f \in [1 .. m -> cells]
    <2>1. \A x \in 1 .. m : <<c(x), x - o(c(x))>> \in cells
      BY <1>8, <1>9
    <2> QED BY <2>1
  <1>11. \A x, z \in 1 .. m : f[x] = f[z] => x = z
    <2> SUFFICES ASSUME NEW x \in 1 .. m, NEW z \in 1 .. m, f[x] = f[z] PROVE x = z
      OBVIOUS
    <2>1. c(x) = c(z) /\ x - o(c(x)) = z - o(c(z))
      OBVIOUS
    <2>2. o(c(x)) \in Nat /\ x \in Int /\ z \in Int
      BY <1>1, <1>9
    <2> QED BY <2>1, <2>2
  <1>12. ASSUME NEW e \in cells PROVE \E x \in 1 .. m : f[x] = e
    <2>1. PICK j \in S : \E y \in 1 .. d(j) : e = <<j, y>>
      BY <1>8
    <2>2. PICK y \in 1 .. d(j) : e = <<j, y>>
      BY <2>1
    <2>3. /\ j \in 1 .. n /\ o(j) \in Nat /\ d(j) \in Nat /\ o(j) + d(j) <= Len(P)
          /\ m \in Nat /\ d(at) \in Nat /\ d(at) > 0 /\ m + d(at) <= Len(P)
      BY <1>1, <1>2, <1>6 DEF d
    <2>4. o(j) + y \in 1 .. Len(P) /\ Has(j, o(j) + y)
      <3>1. o(j) + y \in 1 .. Len(P) /\ o(j) < o(j) + y /\ o(j) + y <= o(j) + d(j)
        BY <1>1, <2>3
      <3> QED BY <1>3, <2>3, <3>1
    <2>5. m + 1 \in 1 .. Len(P) /\ Has(at, m + 1)
      <3>1. m + 1 \in 1 .. Len(P) /\ m < m + 1 /\ m + 1 <= m + d(at)
        BY <1>1, <2>3
      <3> QED BY <1>1, <1>3, <3>1
    <2>6. o(j) + y <= m
      <3> SUFFICES ASSUME ~ (o(j) + y <= m) PROVE FALSE
        OBVIOUS
      <3>1. o(j) < o(at) \/ (o(j) = o(at) /\ j < at)
        BY <1>5, <1>6, <2>3
      <3>2. o(j) <= m
        BY <2>3, <3>1
      <3>3. o(j) < m + 1 /\ m + 1 <= o(j) + d(j)
        BY <2>3, <3>2
      <3>4. Has(j, m + 1)
        BY <1>3, <2>3, <2>5, <3>3
      <3>5. j = at
        BY <1>1, <1>4, <2>3, <2>5, <3>4
      <3> QED BY <1>1, <2>3, <3>1, <3>5
    <2> DEFINE x == o(j) + y
    <2>7. x \in 1 .. m
      BY <2>3, <2>6
    <2>8. c(x) = j
      BY <1>4, <1>9, <2>3, <2>4, <2>7
    <2>9. x - o(j) = y
      BY <2>3
    <2> HIDE DEF x
    <2>10. f[x] = <<j, y>>
      BY <2>7, <2>8, <2>9
    <2> QED BY <2>2, <2>7, <2>10
  <1> HIDE DEF f
  <1>13. f \in Bijection(1 .. m, cells)
    BY <1>10, <1>11, <1>12, Fun_IsBij
  <1>14. Cardinality(cells) = m
    <2>1. m \in Nat
      BY <1>1
    <2>2. IsFiniteSet(1 .. m) /\ Cardinality(1 .. m) = m
      <3> HIDE DEF m
      <3>1. 1 \in Int /\ m \in Int
        BY <2>1
      <3>2. /\ IsFiniteSet(1 .. m)
            /\ Cardinality(1 .. m) = IF 1 > m THEN 0 ELSE m - 1 + 1
        BY <3>1, FS_Interval
      <3> QED BY <2>1, <3>2
    <2> HIDE DEF m
    <2>3. ExistsBijection(1 .. m, cells)
      BY <1>13 DEF ExistsBijection
    <2> QED BY <2>2, <2>3, FS_Bijection
  <1> QED BY <1>7, <1>14 DEF o

-----------------------------------------------------------------------------
(* A split parts the two bytes it is asked to part *)

LEMMA HitOf ==
  ASSUME NEW ps, Sane(ps), NEW P, NEW B, Placed(P, B, ps), NEW pos \in Nat,
         FindPacketByOffset(ps, pos) # NotFound
  PROVE  LET hit == FindPacketByOffset(ps, pos)
         IN  /\ hit.at \in DOMAIN ps /\ hit.rel \in 0 .. Len(ps[hit.at].data) - 1
             /\ Offset(B, ps[hit.at].seq) + hit.rel = pos
  <1> DEFINE hits == {i \in DOMAIN ps : pos - SizeBefore(ps, i) \in 0 .. Len(ps[i].data) - 1}
             i == CHOOSE k \in hits : TRUE
  <1>1. hits # {}
    BY DEF FindPacketByOffset
  <1>2. i \in hits
    BY <1>1
  <1>3. FindPacketByOffset(ps, pos) = [at |-> i, rel |-> pos - SizeBefore(ps, i)]
    BY <1>1 DEF FindPacketByOffset
  <1> HIDE DEF i
  <1>4. i \in DOMAIN ps /\ pos - SizeBefore(ps, i) \in 0 .. Len(ps[i].data) - 1
    BY <1>2
  <1>5. /\ i \in 1 .. Len(ps)
        /\ Len(ps[i].data) \in Nat /\ Offset(B, ps[i].seq) \in Nat
    <2>1. i \in 1 .. Len(ps)
      BY <1>4, ListOf
    <2> QED BY <2>1, PlacedFacts
  <1>6. Len(ps[i].data) > 0
    BY <1>4, <1>5
  <1>7. SizeBefore(ps, i) = Offset(B, ps[i].seq)
    BY <1>4, <1>6, SizeBeforeIs
  <1>8. Offset(B, ps[i].seq) + (pos - SizeBefore(ps, i)) = pos
    BY <1>5, <1>7
  <1> QED BY <1>3, <1>4, <1>8

(* The list after a split, packet by packet. *)
LEMMA SplitFacts ==
  ASSUME NEW ps, Sane(ps), NEW at \in DOMAIN ps,
         NEW rel \in 0 .. Len(ps[at].data) - 1
  PROVE  LET qs == SplitPacket(ps, at, rel)
             n == Len(ps)
             data == ps[at].data
         IN  /\ Len(qs) = n + 1 /\ DOMAIN qs = 1 .. n + 1
             /\ \A k \in 1 .. n + 1 : /\ k < at => qs[k] = ps[k]
                                      /\ k > at + 1 => qs[k] = ps[k - 1]
             /\ qs[at].seq = ps[at].seq /\ qs[at].fake = ps[at].fake
             /\ qs[at].action # "ACCEPT" /\ Len(qs[at].data) = rel
             /\ \A y \in 1 .. rel : qs[at].data[y] = data[y]
             /\ qs[at + 1].seq = (ps[at].seq + rel) % SeqSpace
             /\ qs[at + 1].fake = ps[at].fake
             /\ qs[at + 1].action # "ACCEPT" /\ Len(qs[at + 1].data) = Len(data) - rel
             /\ \A y \in 1 .. Len(data) - rel : qs[at + 1].data[y] = data[rel + y]
             /\ qs[at].altered = ps[at].altered \ {"cksum"}
             /\ qs[at + 1].altered = ps[at].altered \ {"cksum"}
  <1> DEFINE n == Len(ps)
             p == Checksummed(ps[at])
             one == [p EXCEPT !.data = SubSeq(@, 1, rel), !.action = FirstAction(p)]
             two == [p EXCEPT !.id = 0, !.action = "SEND", !.seq = (@ + rel) % SeqSpace,
                              !.data = SubSeq(@, rel + 1, Len(@))]
             qs == SplitPacket(ps, at, rel)
  <1>1. /\ ps \in Seq(Packets) /\ n \in Nat /\ at \in 1 .. n /\ DOMAIN ps = 1 .. n
        /\ ps[at] \in Packets /\ ps[at].data \in Seq(Nat) /\ Len(ps[at].data) \in Nat
    BY ListOf
  <1>2. /\ p \in Packets /\ p.data = ps[at].data /\ p.seq = ps[at].seq
        /\ p.fake = ps[at].fake /\ p.altered = ps[at].altered \ {"cksum"}
    <2>1. p.fake = ps[at].fake /\ p.altered = ps[at].altered \ {"cksum"}
      BY <1>1 DEF Checksummed, Packets
    <2> QED BY <1>1, <2>1, ChecksummedIs
  <1> HIDE DEF p
  <1>3. one \in Packets /\ two \in Packets
    <2>1. /\ rel \in Nat /\ rel <= Len(p.data) /\ 0 \in Nat /\ 0 <= rel /\ Len(p.data) \in Nat
          /\ Len(p.data) <= Len(p.data)
      BY <1>1, <1>2
    <2>2. SubSeq(p.data, 1, rel) \in Seq(Nat)
      <3>1. p.data \in Seq(Nat) /\ 1 \in Int /\ rel \in Int /\ 1 <= 1 /\ rel <= Len(p.data)
        BY <1>1, <1>2, <2>1
      <3> QED BY <3>1, PartOfData
    <2>3. SubSeq(p.data, rel + 1, Len(p.data)) \in Seq(Nat)
      BY <1>1, <1>2, <2>1, PartOfData
    <2>4. (p.seq + rel) % SeqSpace \in SeqNums
      <3>1. p.seq \in SeqNums
        BY <1>2 DEF Packets
      <3>2. p.seq \in Int /\ rel \in Int
        <4>1. p.seq \in Int
          BY <3>1, SeqNumsAreInts
        <4>2. rel \in Int
          BY <2>1
        <4> QED BY <4>1, <4>2
      <3>3. p.seq + rel \in Int
        BY <3>2
      <3> QED BY <3>3, Sizes
    <2>5. FirstAction(p) \in {"DROP_AND_SEND", "SEND"}
      BY <1>2 DEF FirstAction, Packets
    <2>6. one \in Packets
      BY <1>2, <2>2, <2>5 DEF Packets
    <2>7. two \in Packets
      BY <1>2, <2>3, <2>4 DEF Packets
    <2> QED BY <2>6, <2>7
  <1>4. /\ one.seq = ps[at].seq /\ one.fake = ps[at].fake /\ one.action # "ACCEPT"
        /\ one.data = SubSeq(ps[at].data, 1, rel) /\ one.altered = ps[at].altered \ {"cksum"}
    <2>1. /\ one.seq = p.seq /\ one.fake = p.fake /\ one.action = FirstAction(p)
          /\ one.data = SubSeq(p.data, 1, rel) /\ one.altered = p.altered
      BY <1>2 DEF Packets
    <2>2. FirstAction(p) # "ACCEPT"
      BY DEF FirstAction
    <2> HIDE DEF one
    <2> QED BY <1>2, <2>1, <2>2
  <1>5. /\ two.seq = (ps[at].seq + rel) % SeqSpace /\ two.fake = ps[at].fake
        /\ two.action # "ACCEPT"
        /\ two.data = SubSeq(ps[at].data, rel + 1, Len(ps[at].data))
        /\ two.altered = ps[at].altered \ {"cksum"}
    <2>1. /\ two.seq = (p.seq + rel) % SeqSpace /\ two.fake = p.fake /\ two.action = "SEND"
          /\ two.data = SubSeq(p.data, rel + 1, Len(p.data)) /\ two.altered = p.altered
      BY <1>2 DEF Packets
    <2> HIDE DEF two
    <2> QED BY <1>2, <2>1
  <1>6. qs = Replace(ps, at, <<one, two>>)
    BY DEF SplitPacket, p
  <1> HIDE DEF one, two, qs
  <1>7. /\ Len(one.data) = rel /\ \A y \in 1 .. rel : one.data[y] = ps[at].data[y]
    <2>1. rel \in Nat /\ 0 \in Nat /\ 0 <= rel /\ rel <= Len(ps[at].data)
      BY <1>1
    <2>2. /\ Len(SubSeq(ps[at].data, 0 + 1, rel)) = rel - 0
          /\ \A y \in 1 .. rel - 0 : SubSeq(ps[at].data, 0 + 1, rel)[y] = ps[at].data[0 + y]
      BY <1>1, <2>1, Slice
    <2>3. 0 + 1 = 1 /\ rel - 0 = rel /\ \A y \in 1 .. rel : 0 + y = y
      BY <2>1
    <2> QED BY <1>4, <2>2, <2>3
  <1>8. /\ Len(two.data) = Len(ps[at].data) - rel
        /\ \A y \in 1 .. Len(ps[at].data) - rel : two.data[y] = ps[at].data[rel + y]
    <2>1. /\ rel \in Nat /\ Len(ps[at].data) \in Nat /\ rel <= Len(ps[at].data)
          /\ Len(ps[at].data) <= Len(ps[at].data)
      BY <1>1
    <2> QED BY <1>1, <1>5, <2>1, Slice
  <1>9. /\ Len(qs) = n + 1 /\ DOMAIN qs = 1 .. n + 1
        /\ \A k \in 1 .. n + 1 : qs[k] = IF k < at THEN ps[k]
                                         ELSE IF k < at + 2 THEN <<one, two>>[k - at + 1]
                                         ELSE ps[k - 2 + 1]
    <2>1. <<one, two>> \in Seq(Packets) /\ Len(<<one, two>>) = 2
      BY <1>3
    <2> DEFINE pieces == <<one, two>>
    <2> HIDE DEF pieces
    <2>2. pieces \in Seq(Packets) /\ Len(pieces) = 2 /\ qs = Replace(ps, at, pieces)
      BY <1>6, <2>1 DEF pieces
    <2>3. /\ qs \in Seq(Packets) /\ Len(qs) = n - 1 + 2
          /\ \A k \in 1 .. n - 1 + 2 : qs[k] = IF k < at THEN ps[k]
                                               ELSE IF k < at + 2 THEN pieces[k - at + 1]
                                               ELSE ps[k - 2 + 1]
      <3>1. /\ Replace(ps, at, pieces) \in Seq(Packets)
            /\ Len(Replace(ps, at, pieces)) = n - 1 + Len(pieces)
            /\ \A k \in 1 .. n - 1 + Len(pieces) :
                 Replace(ps, at, pieces)[k] =
                   IF k < at THEN ps[k]
                   ELSE IF k < at + Len(pieces) THEN pieces[k - at + 1]
                   ELSE ps[k - Len(pieces) + 1]
        BY <1>1, <2>2, ReplaceFacts, Zenon
      <3> QED BY <2>2, <3>1, Zenon
    <2>4. n - 1 + 2 = n + 1
      BY <1>1
    <2>5. DOMAIN qs = 1 .. n + 1
      BY <2>3, <2>4
    <2> QED BY <2>3, <2>4, <2>5 DEF pieces
  <1>10. /\ \A k \in 1 .. n + 1 : k < at => qs[k] = ps[k]
         /\ \A k \in 1 .. n + 1 : k > at + 1 => qs[k] = ps[k - 1]
    <2>1. \A k \in 1 .. n + 1 : k > at + 1 => ~ (k < at) /\ ~ (k < at + 2) /\ k - 2 + 1 = k - 1
      BY <1>1
    <2> QED BY <1>9, <2>1
  <1>11. qs[at] = one /\ qs[at + 1] = two
    <2>0. \A m \in Nat : \A a \in 1 .. m :
            /\ a \in 1 .. m + 1 /\ ~ (a < a) /\ a < a + 2 /\ a - a + 1 = 1
            /\ a + 1 \in 1 .. m + 1 /\ ~ (a + 1 < a) /\ a + 1 < a + 2 /\ (a + 1) - a + 1 = 2
      OBVIOUS
    <2>1. /\ at \in 1 .. n + 1 /\ ~ (at < at) /\ at < at + 2 /\ at - at + 1 = 1
          /\ at + 1 \in 1 .. n + 1 /\ ~ (at + 1 < at) /\ at + 1 < at + 2 /\ (at + 1) - at + 1 = 2
      BY <1>1, <2>0, Zenon
    <2>2. qs[at] = <<one, two>>[1] /\ qs[at + 1] = <<one, two>>[2]
      BY <1>9, <2>1
    <2> QED BY <2>2
  <1> QED BY <1>4, <1>5, <1>7, <1>8, <1>9, <1>10, <1>11 DEF qs

LEMMA SplitPlaces ==
  ASSUME NEW ps, Sane(ps), NEW P, NEW B, Placed(P, B, ps), NEW at \in DOMAIN ps,
         NEW rel \in 0 .. Len(ps[at].data) - 1
  PROVE  LET qs == SplitPacket(ps, at, rel)
         IN  /\ Placed(P, B, qs)
             /\ Offset(B, qs[at + 1].seq) = Offset(B, ps[at].seq) + rel
             /\ Len(qs[at + 1].data) = Len(ps[at].data) - rel
  <1> DEFINE qs == SplitPacket(ps, at, rel)
             n == Len(ps)
             o == Offset(B, ps[at].seq)
             d == Len(ps[at].data)
             From(k) == IF k <= at THEN k ELSE k - 1
  <1>1. /\ n \in Nat /\ DOMAIN ps = 1 .. n /\ at \in 1 .. n /\ Len(P) \in Nat
        /\ o \in Nat /\ d \in Nat /\ o + d <= Len(P) /\ o + d < SeqSpace
        /\ ps[at].seq \in SeqNums /\ B \in SeqNums
    <2>1. /\ n \in Nat /\ DOMAIN ps = 1 .. n /\ at \in 1 .. n /\ ps[at].seq \in SeqNums
      BY ListOf
    <2>2. B \in SeqNums
      BY DEF Placed
    <2> QED BY <2>1, <2>2, PlacedFacts
  <1>2. /\ DOMAIN qs = 1 .. n + 1
        /\ \A k \in 1 .. n + 1 : k < at => qs[k] = ps[k]
        /\ \A k \in 1 .. n + 1 : k > at + 1 => qs[k] = ps[k - 1]
        /\ qs[at].seq = ps[at].seq /\ qs[at].fake = ps[at].fake /\ Len(qs[at].data) = rel
        /\ \A y \in 1 .. rel : qs[at].data[y] = ps[at].data[y]
        /\ qs[at + 1].seq = (ps[at].seq + rel) % SeqSpace /\ qs[at + 1].fake = ps[at].fake
        /\ Len(qs[at + 1].data) = d - rel
        /\ \A y \in 1 .. d - rel : qs[at + 1].data[y] = ps[at].data[rel + y]
    BY SplitFacts
  <1> HIDE DEF qs
  <1>3. Offset(B, qs[at + 1].seq) = o + rel
    <2>1. rel \in Nat /\ rel < d /\ rel <= d
      BY <1>1
    <2>2. o + rel < SeqSpace
      <3> HIDE DEF o, d
      <3> QED BY <1>1, <2>1, SeqSpaceAssumption
    <2> QED BY <1>1, <1>2, <2>1, <2>2, OffsetPlus
  <1>4. /\ \A i \in 1 .. n : ~ps[i].fake /\ Offset(B, ps[i].seq) + Len(ps[i].data) <= Len(P)
        /\ \A i \in 1 .. n : \A y \in 1 .. Len(ps[i].data) :
             ps[i].data[y] = P[Offset(B, ps[i].seq) + y]
        /\ \A x \in 1 .. Len(P) : \E i \in 1 .. n : Carries(B, ps[i], x)
        /\ \A i, j \in 1 .. n, x \in 1 .. Len(P) :
             Carries(B, ps[i], x) /\ Carries(B, ps[j], x) => i = j
    BY <1>1 DEF Placed
  <1> HIDE DEF o, d
  <1>0. rel \in Nat /\ rel < d
    BY <1>1 DEF d
  <1>5. /\ \A x \in 1 .. Len(P) : Carries(B, ps[at], x) <=> o < x /\ x <= o + d
        /\ \A x \in 1 .. Len(P) : Carries(B, qs[at], x) <=> o < x /\ x <= o + rel
        /\ \A x \in 1 .. Len(P) : Carries(B, qs[at + 1], x) <=> o + rel < x /\ x <= o + d
    <2>1. (o + rel) + (d - rel) = o + d
      BY <1>0, <1>1
    <2> QED BY <1>2, <1>3, <2>1 DEF Carries, o, d
  <1>6. \A k \in 1 .. n + 1, x \in 1 .. Len(P) :
          Carries(B, qs[k], x) => /\ From(k) \in 1 .. n /\ Carries(B, ps[From(k)], x)
                                  /\ k = at => x <= o + rel
                                  /\ k = at + 1 => o + rel < x
    <2> SUFFICES ASSUME NEW k \in 1 .. n + 1, NEW x \in 1 .. Len(P), Carries(B, qs[k], x)
                 PROVE  /\ From(k) \in 1 .. n /\ Carries(B, ps[From(k)], x)
                        /\ k = at => x <= o + rel
                        /\ k = at + 1 => o + rel < x
      OBVIOUS
    <2>1. CASE k < at
      <3>1. k <= at /\ k \in 1 .. n /\ k # at /\ k # at + 1
        <4>1. k \in Nat /\ at \in Nat /\ n \in Nat /\ 1 <= k /\ at <= n
          BY <1>1
        <4> QED BY <2>1, <4>1
      <3>2. qs[k] = ps[k]
        BY <1>2, <2>1
      <3> QED BY <3>1, <3>2
    <2>2. CASE k = at
      <3>1. From(k) = at /\ k # at + 1
        BY <1>1, <2>2
      <3>2. o < x /\ x <= o + rel
        BY <1>5, <2>2
      <3>3. x <= o + d
        BY <1>0, <1>1, <3>2
      <3> QED BY <1>1, <1>5, <3>1, <3>2, <3>3
    <2>3. CASE k = at + 1
      <3>1. From(k) = at /\ k # at
        BY <1>1, <2>3
      <3>2. o + rel < x /\ x <= o + d
        BY <1>5, <2>3
      <3>3. o < x
        BY <1>0, <1>1, <3>2
      <3> QED BY <1>1, <1>5, <3>1, <3>2, <3>3
    <2>4. CASE k > at + 1
      <3>1. From(k) = k - 1 /\ k - 1 \in 1 .. n /\ k # at /\ k # at + 1 /\ qs[k] = ps[k - 1]
        BY <1>1, <1>2, <2>4
      <3> QED BY <3>1
    <2> QED BY <1>1, <2>1, <2>2, <2>3, <2>4
  <1>7. \A k, l \in 1 .. n + 1, x \in 1 .. Len(P) :
          Carries(B, qs[k], x) /\ Carries(B, qs[l], x) => k = l
    <2> SUFFICES ASSUME NEW k \in 1 .. n + 1, NEW l \in 1 .. n + 1, NEW x \in 1 .. Len(P),
                        Carries(B, qs[k], x), Carries(B, qs[l], x)
                 PROVE  k = l
      OBVIOUS
    <2>1. /\ From(k) \in 1 .. n /\ From(l) \in 1 .. n
          /\ Carries(B, ps[From(k)], x) /\ Carries(B, ps[From(l)], x)
          /\ (k = at \/ l = at) => x <= o + rel
          /\ (k = at + 1 \/ l = at + 1) => o + rel < x
      BY <1>6
    <2> HIDE DEF From
    <2>2. From(k) = From(l)
      BY <1>4, <2>1
    <2>3. k = l \/ (k = at /\ l = at + 1) \/ (k = at + 1 /\ l = at)
      BY <1>1, <2>2 DEF From
    <2>4. ~ (x <= o + rel /\ o + rel < x)
      BY <1>0, <1>1
    <2> QED BY <2>1, <2>3, <2>4
  <1>8. \A x \in 1 .. Len(P) : \E k \in 1 .. n + 1 : Carries(B, qs[k], x)
    <2> TAKE x \in 1 .. Len(P)
    <2>1. PICK i \in 1 .. n : Carries(B, ps[i], x)
      BY <1>4
    <2>2. CASE i < at
      <3>1. i \in 1 .. n + 1 /\ qs[i] = ps[i]
        BY <1>1, <1>2, <2>2
      <3> QED BY <2>1, <3>1
    <2>3. CASE i = at
      <3>1. o < x /\ x <= o + d
        BY <1>5, <2>1, <2>3
      <3>2. at \in 1 .. n + 1 /\ at + 1 \in 1 .. n + 1 /\ (x <= o + rel \/ o + rel < x)
        BY <1>0, <1>1
      <3>3. Carries(B, qs[at], x) \/ Carries(B, qs[at + 1], x)
        BY <1>5, <3>1, <3>2
      <3> QED BY <3>2, <3>3
    <2>4. CASE i > at
      <3>1. i + 1 \in 1 .. n + 1 /\ i + 1 > at + 1 /\ (i + 1) - 1 = i
        BY <1>1, <2>4
      <3>2. qs[i + 1] = ps[i]
        BY <1>2, <3>1
      <3> QED BY <2>1, <3>1, <3>2
    <2> QED BY <1>1, <2>2, <2>3, <2>4
  <1>9. \A k \in 1 .. n + 1 :
          /\ ~qs[k].fake
          /\ Offset(B, qs[k].seq) + Len(qs[k].data) <= Len(P)
          /\ \A y \in 1 .. Len(qs[k].data) : qs[k].data[y] = P[Offset(B, qs[k].seq) + y]
    <2> TAKE k \in 1 .. n + 1
    <2>1. CASE k < at
      <3>1. qs[k] = ps[k] /\ k \in 1 .. n
        BY <1>1, <1>2, <2>1
      <3> QED BY <1>4, <3>1
    <2>2. CASE k = at
      <3>1. ~qs[k].fake /\ Len(qs[k].data) = rel /\ Offset(B, qs[k].seq) = o
        BY <1>1, <1>2, <1>4, <2>2 DEF o
      <3>2. o + rel <= Len(P)
        BY <1>0, <1>1
      <3>3. \A y \in 1 .. rel : y \in 1 .. d
        BY <1>0, <1>1
      <3>4. \A y \in 1 .. rel : qs[k].data[y] = P[o + y]
        BY <1>1, <1>2, <1>4, <2>2, <3>3 DEF o, d
      <3> QED BY <3>1, <3>2, <3>4
    <2>3. CASE k = at + 1
      <3>1. ~qs[k].fake /\ Len(qs[k].data) = d - rel /\ Offset(B, qs[k].seq) = o + rel
        BY <1>1, <1>2, <1>3, <1>4, <2>3
      <3>2. (o + rel) + (d - rel) <= Len(P)
        BY <1>0, <1>1
      <3>3. \A y \in 1 .. d - rel : rel + y \in 1 .. d /\ o + (rel + y) = (o + rel) + y
        BY <1>0, <1>1
      <3>4. \A y \in 1 .. d - rel : qs[k].data[y] = ps[at].data[rel + y]
        BY <1>2, <2>3
      <3>5. \A z \in 1 .. d : ps[at].data[z] = P[o + z]
        BY <1>1, <1>4 DEF o, d
      <3>6. \A y \in 1 .. d - rel : qs[k].data[y] = P[(o + rel) + y]
        BY <3>3, <3>4, <3>5
      <3> QED BY <3>1, <3>2, <3>6
    <2>4. CASE k > at + 1
      <3>1. qs[k] = ps[k - 1] /\ k - 1 \in 1 .. n
        BY <1>1, <1>2, <2>4
      <3> QED BY <1>4, <3>1
    <2> QED BY <1>1, <2>1, <2>2, <2>3, <2>4
  <1>10. Placed(P, B, qs)
    <2>1. B \in SeqNums /\ P \in Seq(Nat) /\ 2 * Len(P) < SeqSpace
      BY DEF Placed
    <2> QED BY <1>2, <1>7, <1>8, <1>9, <2>1 DEF Placed
  <1> QED BY <1>2, <1>3, <1>10 DEF qs, o, d

-----------------------------------------------------------------------------
(* Where the bytes of a packet come from *)

(* The bytes of each packet of qs were in one packet of ps, or are padding *)
(* or a fake packet's; one that is still accepted is as it was.            *)
Draws(qs, ps) ==
  \A k \in DOMAIN qs : \E j \in DOMAIN ps :
    /\ Range(qs[k].data) \subseteq Range(ps[j].data) \cup {0} \cup Range(Blob)
    /\ qs[k].action = "ACCEPT" =>
         ps[j].action = "ACCEPT" /\ qs[k].id = ps[j].id /\ qs[k].data = ps[j].data

LEMMA DrawsSame == ASSUME NEW ps PROVE Draws(ps, ps)
  BY DEF Draws

LEMMA DrawsThrough ==
  ASSUME NEW ps, NEW qs, NEW rs, Draws(qs, ps), Draws(rs, qs)
  PROVE  Draws(rs, ps)
  <1> DEFINE Pad == {0} \cup Range(Blob)
             From(q, p) == /\ Range(q.data) \subseteq Range(p.data) \cup Pad
                           /\ q.action = "ACCEPT" =>
                                p.action = "ACCEPT" /\ q.id = p.id /\ q.data = p.data
  <1>1. \A p, q, r : From(q, p) /\ From(r, q) => From(r, p)
    OBVIOUS
  <1>2. \A a, b : a \cup {0} \cup Range(Blob) = a \cup Pad
    OBVIOUS
  <1>3. /\ \A k \in DOMAIN qs : \E j \in DOMAIN ps : From(qs[k], ps[j])
        /\ \A k \in DOMAIN rs : \E j \in DOMAIN qs : From(rs[k], qs[j])
    BY <1>2 DEF Draws
  <1> HIDE DEF From
  <1>4. \A k \in DOMAIN rs : \E j \in DOMAIN ps : From(rs[k], ps[j])
    BY <1>1, <1>3
  <1> QED BY <1>2, <1>4 DEF Draws, From

LEMMA DrawsFault == ASSUME NEW ps PROVE Draws(Fault, ps)
  BY DEF Draws, Fault

(* No packet has the k-th byte and the next one. *)
Apart(P, ps, k) ==
  \A i \in DOMAIN ps : ~ ({P[k], P[k + 1]} \subseteq Range(ps[i].data))

LEMMA ApartStays ==
  ASSUME NEW P, P \in Seq(Nat), Told(P), NEW k \in 1 .. Len(P) - 1, NEW ps, NEW qs,
         Apart(P, ps, k), Draws(qs, ps)
  PROVE  Apart(P, qs, k)
  <1>1. k \in DOMAIN P /\ k + 1 \in DOMAIN P
    OBVIOUS
  <1>2. P[k] \notin {0} \cup Range(Blob) /\ P[k + 1] \notin {0} \cup Range(Blob)
    BY <1>1 DEF Told
  <1>3. ASSUME NEW i \in DOMAIN qs, {P[k], P[k + 1]} \subseteq Range(qs[i].data) PROVE FALSE
    <2>1. PICK j \in DOMAIN ps :
            Range(qs[i].data) \subseteq Range(ps[j].data) \cup {0} \cup Range(Blob)
      BY DEF Draws
    <2>2. {P[k], P[k + 1]} \subseteq Range(ps[j].data)
      BY <1>2, <1>3, <2>1
    <2> QED BY <2>2 DEF Apart
  <1> QED BY <1>3 DEF Apart

(* When each byte is in one packet, two bytes are apart if no packet       *)
(* carries both.                                                           *)
LEMMA ApartIf ==
  ASSUME NEW ps, Sane(ps), NEW P, Told(P), NEW B, Placed(P, B, ps),
         NEW k \in 1 .. Len(P) - 1, NEW i \in DOMAIN ps, Carries(B, ps[i], k + 1),
         ~Carries(B, ps[i], k)
  PROVE  Apart(P, ps, k)
  <1>1. /\ P \in Seq(Nat) /\ DOMAIN P = 1 .. Len(P) /\ Len(P) \in Nat
        /\ k \in 1 .. Len(P) /\ k + 1 \in 1 .. Len(P)
    <2>1. P \in Seq(Nat)
      BY DEF Placed
    <2>2. Len(P) \in Nat /\ DOMAIN P = 1 .. Len(P)
      BY <2>1
    <2> QED BY <2>1, <2>2
  <1>2. ASSUME NEW j \in DOMAIN ps, NEW x \in 1 .. Len(P), P[x] \in Range(ps[j].data)
        PROVE  Carries(B, ps[j], x)
    <2> DEFINE o == Offset(B, ps[j].seq)
               d == Len(ps[j].data)
    <2>1. /\ j \in 1 .. Len(ps) /\ ps[j].data \in Seq(Nat)
      BY ListOf
    <2>2. o \in Nat /\ d \in Nat /\ o + d <= Len(P) /\ DOMAIN ps[j].data = 1 .. d
      BY <2>1, PlacedFacts
    <2>3. PICK y \in 1 .. d : ps[j].data[y] = P[x]
      BY <1>2, <2>2 DEF Range
    <2>4. ps[j].data[y] = P[o + y]
      BY DEF Placed
    <2> HIDE DEF o, d
    <2>5. o + y \in 1 .. Len(P) /\ o < o + y /\ o + y <= o + d
      <3>1. y \in Nat /\ 1 <= y /\ y <= d /\ o \in Nat /\ d \in Nat /\ o + d <= Len(P)
        BY <2>2
      <3>2. Len(P) \in Nat
        BY <1>1
      <3> QED BY <3>1, <3>2
    <2>6. o + y = x
      BY <1>1, <2>3, <2>4, <2>5 DEF Told
    <2> QED BY <2>5, <2>6 DEF Carries, o, d
  <1>3. ASSUME NEW j \in DOMAIN ps, {P[k], P[k + 1]} \subseteq Range(ps[j].data) PROVE FALSE
    <2>1. Carries(B, ps[j], k) /\ Carries(B, ps[j], k + 1)
      BY <1>1, <1>2, <1>3
    <2>2. j = i
      BY <1>1, <2>1 DEF Placed
    <2> QED BY <2>1, <2>2
  <1> QED BY <1>3 DEF Apart

LEMMA SplitDraws ==
  ASSUME NEW ps, Sane(ps), NEW at \in DOMAIN ps,
         NEW rel \in 0 .. Len(ps[at].data) - 1
  PROVE  Draws(SplitPacket(ps, at, rel), ps)
  <1> DEFINE qs == SplitPacket(ps, at, rel)
             n == Len(ps)
             d == Len(ps[at].data)
  <1>1. /\ n \in Nat /\ DOMAIN ps = 1 .. n /\ at \in 1 .. n /\ d \in Nat
        /\ DOMAIN ps[at].data = 1 .. d
    <2>1. /\ n \in Nat /\ DOMAIN ps = 1 .. n /\ at \in 1 .. n /\ ps[at].data \in Seq(Nat)
      BY ListOf
    <2> QED BY <2>1
  <1>2. /\ DOMAIN qs = 1 .. n + 1
        /\ \A k \in 1 .. n + 1 : k < at => qs[k] = ps[k]
        /\ \A k \in 1 .. n + 1 : k > at + 1 => qs[k] = ps[k - 1]
        /\ qs[at].action # "ACCEPT" /\ Len(qs[at].data) = rel
        /\ \A y \in 1 .. rel : qs[at].data[y] = ps[at].data[y]
        /\ qs[at + 1].action # "ACCEPT" /\ Len(qs[at + 1].data) = d - rel
        /\ \A y \in 1 .. d - rel : qs[at + 1].data[y] = ps[at].data[rel + y]
    BY SplitFacts
  <1>3. Sane(qs)
    BY SplitPacketKeeps
  <1> HIDE DEF qs
  <1>4. \A k \in 1 .. n + 1 : DOMAIN qs[k].data = 1 .. Len(qs[k].data)
    <2>1. \A k \in DOMAIN qs : qs[k].data \in Seq(Nat)
      BY <1>3, ListOf
    <2> QED BY <1>2, <2>1
  <1>5. ASSUME NEW k \in 1 .. n + 1
        PROVE  \E j \in 1 .. n :
                 /\ Range(qs[k].data) \subseteq Range(ps[j].data) \cup {0} \cup Range(Blob)
                 /\ qs[k].action = "ACCEPT" =>
                      ps[j].action = "ACCEPT" /\ qs[k].id = ps[j].id /\ qs[k].data = ps[j].data
    <2>1. CASE k < at
      <3>1. qs[k] = ps[k] /\ k \in 1 .. n
        BY <1>1, <1>2, <2>1
      <3> QED BY <3>1
    <2>2. CASE k = at
      <3>1. \A y \in 1 .. rel : y \in 1 .. d
        BY <1>1
      <3>2. Range(qs[at].data) \subseteq Range(ps[at].data)
        <4>1. DOMAIN qs[at].data = 1 .. rel
          BY <1>1, <1>2, <1>4, <2>2
        <4>2. \A y \in DOMAIN qs[at].data : \E z \in DOMAIN ps[at].data :
                qs[at].data[y] = ps[at].data[z]
          BY <1>1, <1>2, <3>1, <4>1
        <4> QED BY <4>2, RangeWithin
      <3> QED BY <1>1, <1>2, <2>2, <3>2
    <2>3. CASE k = at + 1
      <3>1. \A y \in 1 .. d - rel : rel + y \in 1 .. d
        BY <1>1
      <3>2. Range(qs[at + 1].data) \subseteq Range(ps[at].data)
        <4>1. DOMAIN qs[at + 1].data = 1 .. d - rel
          BY <1>1, <1>2, <1>4, <2>3
        <4>2. \A y \in DOMAIN qs[at + 1].data : \E z \in DOMAIN ps[at].data :
                qs[at + 1].data[y] = ps[at].data[z]
          BY <1>1, <1>2, <3>1, <4>1
        <4> QED BY <4>2, RangeWithin
      <3> QED BY <1>1, <1>2, <2>3, <3>2
    <2>4. CASE k > at + 1
      <3>1. qs[k] = ps[k - 1] /\ k - 1 \in 1 .. n
        BY <1>1, <1>2, <2>4
      <3> QED BY <3>1
    <2> QED BY <1>1, <2>1, <2>2, <2>3, <2>4
  <1> QED BY <1>1, <1>2, <1>5 DEF Draws, qs

LEMMA SplitOfFault ==
  ASSUME NEW pos
  PROVE  Split(Fault, pos) = Fault
  <1>1. FindPacketByOffset(Fault, SplitPos(found.markers, pos)) = NotFound
    BY DEF FindPacketByOffset, Fault
  <1> QED BY <1>1 DEF Split

LEMMA SplitParts ==
  ASSUME found \in Findings, NEW ps, Sane(ps), NEW P, Told(P), NEW B, Placed(P, B, ps),
         NEW pos \in Position, Split(ps, pos) # Fault
  PROVE  /\ Sane(Split(ps, pos)) /\ Placed(P, B, Split(ps, pos)) /\ Draws(Split(ps, pos), ps)
         /\ SplitPos(found.markers, pos) \in 1 .. Len(P) - 1 =>
              Apart(P, Split(ps, pos), SplitPos(found.markers, pos))
  <1> DEFINE at == SplitPos(found.markers, pos)
             hit == FindPacketByOffset(ps, at)
  <1>1. at \in Nat
    BY SplitPosIsNat
  <1> HIDE DEF at
  <1>2. hit # NotFound /\ Split(ps, pos) = SplitPacket(ps, hit.at, hit.rel)
    BY DEF Split, at
  <1>3. /\ hit.at \in DOMAIN ps /\ hit.rel \in 0 .. Len(ps[hit.at].data) - 1
        /\ Offset(B, ps[hit.at].seq) + hit.rel = at
    BY <1>1, <1>2, HitOf
  <1> HIDE DEF hit
  <1> DEFINE i == hit.at
             rel == hit.rel
             qs == SplitPacket(ps, i, rel)
             o == Offset(B, ps[i].seq)
             d == Len(ps[i].data)
  <1>4. /\ i \in DOMAIN ps /\ rel \in 0 .. d - 1 /\ o + rel = at /\ Split(ps, pos) = qs
    BY <1>2, <1>3
  <1> HIDE DEF i, rel
  <1>5. Sane(qs) /\ Draws(qs, ps)
    BY <1>4, SplitPacketKeeps, SplitDraws
  <1>6. Placed(P, B, qs) /\ Offset(B, qs[i + 1].seq) = o + rel /\ Len(qs[i + 1].data) = d - rel
    <2>1. /\ Placed(P, B, SplitPacket(ps, i, rel))
          /\ Offset(B, SplitPacket(ps, i, rel)[i + 1].seq) = Offset(B, ps[i].seq) + rel
          /\ Len(SplitPacket(ps, i, rel)[i + 1].data) = Len(ps[i].data) - rel
      BY <1>4, SplitPlaces, Zenon
    <2> QED BY <2>1
  <1>7. i + 1 \in DOMAIN qs /\ o \in Nat /\ d \in Nat
    <2>1. DOMAIN qs = 1 .. Len(ps) + 1
      BY <1>4, SplitFacts
    <2>2. i \in 1 .. Len(ps) /\ Len(ps) \in Nat
      BY <1>4, ListOf
    <2>3. i + 1 \in DOMAIN qs
      BY <2>1, <2>2
    <2> QED BY <2>2, <2>3, PlacedFacts
  <1> HIDE DEF qs
  <1>8. ASSUME at \in 1 .. Len(P) - 1 PROVE Apart(P, qs, at)
    <2>1. Carries(B, qs[i + 1], at + 1) /\ ~Carries(B, qs[i + 1], at)
      <3> HIDE DEF o, d
      <3>1. at < at + 1 /\ at + 1 <= at + (d - rel) /\ ~ (at < at)
        BY <1>1, <1>4, <1>7
      <3>2. Offset(B, qs[i + 1].seq) = at /\ Len(qs[i + 1].data) = d - rel
        BY <1>4, <1>6
      <3> QED BY <3>1, <3>2 DEF Carries
    <2> QED BY <1>5, <1>6, <1>7, <1>8, <2>1, ApartIf
  <1> QED BY <1>4, <1>5, <1>6, <1>8 DEF at

(* All of the splits do. *)
LEMMA SplitAllParts ==
  ASSUME found \in Findings, NEW ps, Sane(ps), NEW P, Told(P), NEW B, Placed(P, B, ps),
         NEW splits \in Seq(Position), SplitAll(ps, splits) # Fault
  PROVE  LET cut == SplitAll(ps, splits)
         IN  /\ Sane(cut) /\ Placed(P, B, cut) /\ Draws(cut, ps)
             /\ \A j \in 1 .. Len(splits) :
                  SplitPos(found.markers, splits[j]) \in 1 .. Len(P) - 1 =>
                    Apart(P, cut, SplitPos(found.markers, splits[j]))
  <1> DEFINE n == Len(splits)
             at(j) == SplitPos(found.markers, splits[j])
             Fine(k, qs) == /\ Sane(qs) /\ Placed(P, B, qs) /\ Draws(qs, ps)
                            /\ \A j \in 1 .. k : at(j) \in 1 .. Len(P) - 1 => Apart(P, qs, at(j))
  <1>1. n \in Nat /\ \A k \in 1 .. n : splits[k] \in Position
    OBVIOUS
  <1>0. \E f : Steps(f, ps, splits)
    BY SplitAllSteps
  <1>2. PICK f : /\ f[0] = ps
                 /\ \A k \in 1 .. n : f[k] = Split(f[k - 1], splits[k])
                 /\ SplitAll(ps, splits) = f[n]
    BY <1>0 DEF Steps
  <1> HIDE DEF at
  <1> DEFINE Good == {k \in 0 .. n : f[k] = Fault \/ Fine(k, f[k])}
  <1>3. 0 \in Good
    <2>1. 0 \in 0 .. n /\ 1 .. 0 = {}
      BY <1>1
    <2> QED BY <1>2, <2>1, DrawsSame
  <1>4. \A k \in 0 .. n : k \in Good /\ k + 1 <= n => k + 1 \in Good
    <2> SUFFICES ASSUME NEW k \in 0 .. n, k \in Good, k + 1 <= n PROVE k + 1 \in Good
      OBVIOUS
    <2> DEFINE qs == f[k]
               rs == f[k + 1]
    <2>1. k + 1 \in 1 .. n /\ (k + 1) - 1 = k /\ k + 1 \in 0 .. n
      BY <1>1
    <2>2. rs = Split(qs, splits[k + 1]) /\ splits[k + 1] \in Position
      BY <1>1, <1>2, <2>1
    <2>3. qs = Fault \/ Fine(k, qs)
      OBVIOUS
    <2>4. rs = Fault \/ Fine(k + 1, rs)
      <3> SUFFICES ASSUME rs # Fault PROVE Fine(k + 1, rs)
        OBVIOUS
      <3> HIDE DEF qs, rs
      <3>1. qs # Fault
        BY <2>2, SplitOfFault
      <3>2. Fine(k, qs)
        BY <2>3, <3>1
      <3>3. /\ Sane(rs) /\ Placed(P, B, rs) /\ Draws(rs, qs)
            /\ at(k + 1) \in 1 .. Len(P) - 1 => Apart(P, rs, at(k + 1))
        BY <2>2, <3>2, SplitParts DEF at
      <3>4. Draws(rs, ps)
        BY <3>2, <3>3, DrawsThrough
      <3>5. P \in Seq(Nat)
        BY DEF Placed
      <3>6. \A j \in 1 .. k : at(j) \in 1 .. Len(P) - 1 => Apart(P, rs, at(j))
        <4> TAKE j \in 1 .. k
        <4> HAVE at(j) \in 1 .. Len(P) - 1
        <4>1. Apart(P, qs, at(j))
          BY <3>2
        <4> QED BY <3>3, <3>5, <4>1, ApartStays
      <3>7. \A j \in 1 .. k + 1 : j \in 1 .. k \/ j = k + 1
        BY <2>1
      <3> QED BY <3>3, <3>4, <3>6, <3>7
    <2> HIDE DEF Fine
    <2> QED BY <2>1, <2>4
  <1>5. n \in Good
    <2>1. n \in 0 .. n /\ 0 \in Nat
      BY <1>1
    <2> HIDE DEF Good
    <2> QED BY <1>1, <1>3, <1>4, <2>1, Climb
  <1> QED BY <1>2, <1>5 DEF at

-----------------------------------------------------------------------------
(* Header tricks leave the bytes, and move the sequence number at most.    *)

Alike(p, q) ==
  q.id = p.id /\ q.action = p.action /\ q.data = p.data /\ q.fake = p.fake

LEMMA TricksAlike ==
  ASSUME NEW p \in Packets, NEW off \in Int, NEW hdr \in SUBSET {"ttl", "ts"},
         NEW bad \in BOOLEAN
  PROVE  /\ Alike(p, OffsetSeq(p, off)) /\ OffsetSeq(p, off).seq = (p.seq + off) % SeqSpace
         /\ Alike(p, SetHeader(p, hdr)) /\ SetHeader(p, hdr).seq = p.seq
         /\ Alike(p, BadChecksum(p, bad)) /\ BadChecksum(p, bad).seq = p.seq
  <1>1. /\ Checksummed(p) \in Packets /\ Alike(p, Checksummed(p))
        /\ Checksummed(p).seq = p.seq
    BY DEF Packets, Checksummed, Alike
  <1>2. Alike(p, OffsetSeq(p, off)) /\ OffsetSeq(p, off).seq = (p.seq + off) % SeqSpace
    <2>1. CASE off = 0
      <3>1. p.seq \in 0 .. SeqSpace - 1 /\ SeqSpace \in Nat \ {0}
        BY Sizes DEF Packets, SeqNums
      <3>2. \A x \in 0 .. SeqSpace - 1 : x % SeqSpace = x
        BY <3>1, ModFacts, Zenon
      <3>4. \A x \in 0 .. SeqSpace - 1 : x + 0 = x
        OBVIOUS
      <3>3. p.seq % SeqSpace = p.seq /\ p.seq + 0 = p.seq
        BY <3>1, <3>2, <3>4, Zenon
      <3> QED BY <2>1, <3>3 DEF OffsetSeq, Alike
    <2>2. CASE off # 0
      <3> DEFINE c == Checksummed(p)
                 t == (p.seq + off) % SeqSpace
      <3>1. OffsetSeq(p, off) = [c EXCEPT !.seq = t]
        BY <1>1, <2>2 DEF OffsetSeq
      <3>2. c \in Packets /\ Alike(p, c)
        BY <1>1
      <3> HIDE DEF c, t
      <3>3. Alike(p, [c EXCEPT !.seq = t]) /\ [c EXCEPT !.seq = t].seq = t
        BY <3>2 DEF Packets, Alike
      <3> QED BY <3>1, <3>3 DEF t
    <2> QED BY <2>1, <2>2
  <1>3. Alike(p, SetHeader(p, hdr)) /\ SetHeader(p, hdr).seq = p.seq
    <2> DEFINE c == IF "ts" \in hdr THEN Checksummed(p) ELSE p
    <2>1. c \in Packets /\ Alike(p, c) /\ c.seq = p.seq
      BY <1>1 DEF Alike
    <2>2. SetHeader(p, hdr) = [c EXCEPT !.altered = c.altered \cup hdr]
      BY DEF SetHeader
    <2> HIDE DEF c
    <2> QED BY <2>1, <2>2 DEF Packets, Alike
  <1>4. Alike(p, BadChecksum(p, bad)) /\ BadChecksum(p, bad).seq = p.seq
    BY DEF BadChecksum, Alike, Packets
  <1> QED BY <1>2, <1>3, <1>4

LEMMA AlikeThrough ==
  ASSUME NEW p, NEW q, NEW r, Alike(p, q), Alike(q, r)
  PROVE  Alike(p, r)
  BY DEF Alike

LEMMA AlikeDraws ==
  ASSUME NEW ps, NEW qs, DOMAIN qs = DOMAIN ps,
         \A i \in DOMAIN ps : Alike(ps[i], qs[i])
  PROVE  Draws(qs, ps)
  BY DEF Draws, Alike

(* The list is that of before with its sequence numbers moved by off.      *)
Moved(ps, qs, off) ==
  /\ DOMAIN qs = DOMAIN ps
  /\ \A i \in DOMAIN ps :
       /\ Alike(ps[i], qs[i])
       /\ ~ps[i].fake => qs[i].seq = (ps[i].seq + off) % SeqSpace

LEMMA MovedDraws ==
  ASSUME NEW ps, NEW qs, NEW off, Moved(ps, qs, off)
  PROVE  Draws(qs, ps)
  BY AlikeDraws DEF Moved

LEMMA PlacedMoved ==
  ASSUME NEW ps, Sane(ps), NEW qs, NEW off \in Int, Moved(ps, qs, off),
         NEW P, NEW B, Placed(P, B, ps)
  PROVE  Placed(P, (B + off) % SeqSpace, qs)
  <1> DEFINE C == (B + off) % SeqSpace
  <1>1. B \in SeqNums /\ P \in Seq(Nat) /\ 2 * Len(P) < SeqSpace
    BY DEF Placed
  <1>2. C \in SeqNums
    <2>1. B + off \in Int
      BY <1>1, SeqNumsAreInts
    <2> QED BY <2>1, Sizes
  <1>3. \A i \in DOMAIN ps : ~ps[i].fake /\ ps[i].seq \in SeqNums
    BY ListOf DEF Placed
  <1>4. \A i \in DOMAIN ps : /\ qs[i].data = ps[i].data /\ ~qs[i].fake
                             /\ Offset(C, qs[i].seq) = Offset(B, ps[i].seq)
    <2> TAKE i \in DOMAIN ps
    <2>1. /\ qs[i].data = ps[i].data /\ ~qs[i].fake
          /\ qs[i].seq = (ps[i].seq + off) % SeqSpace
      BY <1>3 DEF Moved, Alike
    <2>2. Offset(C, (ps[i].seq + off) % SeqSpace) = Offset(B, ps[i].seq)
      BY <1>1, <1>3, OffsetShift
    <2> QED BY <2>1, <2>2
  <1>5. DOMAIN qs = DOMAIN ps
    BY DEF Moved
  <1>6. \A i \in DOMAIN ps, x \in 1 .. Len(P) : Carries(C, qs[i], x) <=> Carries(B, ps[i], x)
    BY <1>4 DEF Carries
  <1> HIDE DEF C
  <1>7. Placed(P, C, qs)
    BY <1>1, <1>2, <1>4, <1>5, <1>6 DEF Placed
  <1> QED BY <1>7 DEF C

(* Reversal leaves each packet as it is. *)
LEMMA ReverseDraws ==
  ASSUME NEW ps, Sane(ps)
  PROVE  Draws(ReverseOriginals(ps), ps)
  <1>1. \A i \in Originals(ps) : Mirror(ps, i) \in DOMAIN ps
    BY MirrorFacts DEF Originals
  <1>2. \A i \in DOMAIN ps : \E j \in DOMAIN ps : ReverseOriginals(ps)[i] = ps[j]
    BY <1>1 DEF ReverseOriginals, Originals
  <1>3. DOMAIN ReverseOriginals(ps) = DOMAIN ps
    BY DEF ReverseOriginals
  <1> QED BY <1>2, <1>3 DEF Draws

LEMMA PlacedReversed ==
  ASSUME NEW ps, Sane(ps), NEW P, NEW B, Placed(P, B, ps)
  PROVE  Placed(P, B, ReverseOriginals(ps))
  <1> DEFINE qs == ReverseOriginals(ps)
             f(i) == Mirror(ps, i)
  <1>1. Originals(ps) = DOMAIN ps
    BY DEF Originals, Placed
  <1>2. DOMAIN qs = DOMAIN ps /\ \A i \in DOMAIN ps : qs[i] = ps[f(i)]
    BY <1>1 DEF ReverseOriginals, Originals
  <1>3. \A i \in DOMAIN ps : f(i) \in DOMAIN ps /\ f(f(i)) = i
    BY <1>1, MirrorFacts
  <1> HIDE DEF qs, f
  <1>4. \A i \in DOMAIN ps :
          /\ ~qs[i].fake
          /\ Offset(B, qs[i].seq) + Len(qs[i].data) <= Len(P)
          /\ \A y \in 1 .. Len(qs[i].data) : qs[i].data[y] = P[Offset(B, qs[i].seq) + y]
    BY <1>2, <1>3 DEF Placed
  <1>5. \A x \in 1 .. Len(P) : \E i \in DOMAIN qs : Carries(B, qs[i], x)
    <2> TAKE x \in 1 .. Len(P)
    <2>1. PICK i \in DOMAIN ps : Carries(B, ps[i], x)
      BY DEF Placed
    <2>2. f(i) \in DOMAIN ps /\ qs[f(i)] = ps[i]
      BY <1>2, <1>3
    <2> QED BY <1>2, <2>1, <2>2
  <1>6. \A i, j \in DOMAIN qs, x \in 1 .. Len(P) :
          Carries(B, qs[i], x) /\ Carries(B, qs[j], x) => i = j
    <2> TAKE i, j \in DOMAIN qs, x \in 1 .. Len(P)
    <2> HAVE Carries(B, qs[i], x) /\ Carries(B, qs[j], x)
    <2>1. f(i) = f(j)
      BY <1>2, <1>3 DEF Placed
    <2> QED BY <1>2, <1>3, <2>1
  <1>7. Placed(P, B, qs)
    BY <1>2, <1>4, <1>5, <1>6 DEF Placed
  <1> QED BY <1>7 DEF qs

(* The list with the same sequence numbers. *)
Still(ps, qs) ==
  /\ DOMAIN qs = DOMAIN ps
  /\ \A i \in DOMAIN ps : Alike(ps[i], qs[i]) /\ qs[i].seq = ps[i].seq

LEMMA StillMoved ==
  ASSUME NEW ps, NEW qs, NEW rs, NEW off, Still(ps, qs), Moved(qs, rs, off)
  PROVE  Moved(ps, rs, off)
  <1>1. DOMAIN rs = DOMAIN ps
    BY DEF Still, Moved
  <1>2. \A i \in DOMAIN ps : /\ Alike(ps[i], qs[i]) /\ qs[i].seq = ps[i].seq
                             /\ Alike(qs[i], rs[i])
                             /\ ~qs[i].fake => rs[i].seq = (qs[i].seq + off) % SeqSpace
    BY DEF Still, Moved
  <1> QED BY <1>1, <1>2 DEF Moved, Alike

LEMMA MovedStill ==
  ASSUME NEW ps, NEW qs, NEW rs, NEW off, Moved(ps, qs, off), Still(qs, rs)
  PROVE  Moved(ps, rs, off)
  <1>1. DOMAIN rs = DOMAIN ps
    BY DEF Still, Moved
  <1>2. \A i \in DOMAIN ps : /\ Alike(qs[i], rs[i]) /\ rs[i].seq = qs[i].seq
                             /\ Alike(ps[i], qs[i])
                             /\ ~ps[i].fake => qs[i].seq = (ps[i].seq + off) % SeqSpace
    BY DEF Still, Moved
  <1> QED BY <1>1, <1>2 DEF Moved, Alike

LEMMA StillDraws ==
  ASSUME NEW ps, NEW qs, Still(ps, qs)
  PROVE  Draws(qs, ps)
  BY AlikeDraws DEF Still

(* What the tricks of the two modifiers do to a list. *)
LEMMA Tricked ==
  ASSUME NEW ps, Ok(ps), NEW m \in ModifierArgs
  PROVE  /\ Still(ps, OnOriginals(ps, LAMBDA p : SetHeader(p, m.hdr)))
         /\ Moved(ps, OnOriginals(ps, LAMBDA p : SetHeader(OffsetSeq(p, m.seqOff), m.hdr)),
                  m.seqOff)
         /\ Moved(ps, OnOriginals(ps,
                    LAMBDA p : BadChecksum(OffsetSeq(p, m.seqOff), m.badcksum)), m.seqOff)
         /\ Still(ps, OnOriginals(ps, LAMBDA p : BadChecksum(p, m.badcksum)))
  <1> DEFINE t1(p) == SetHeader(p, m.hdr)
             t2(p) == SetHeader(OffsetSeq(p, m.seqOff), m.hdr)
             t3(p) == BadChecksum(OffsetSeq(p, m.seqOff), m.badcksum)
             t4(p) == BadChecksum(p, m.badcksum)
             q1 == OnOriginals(ps, LAMBDA p : SetHeader(p, m.hdr))
             q2 == OnOriginals(ps, LAMBDA p : SetHeader(OffsetSeq(p, m.seqOff), m.hdr))
             q3 == OnOriginals(ps, LAMBDA p : BadChecksum(OffsetSeq(p, m.seqOff), m.badcksum))
             q4 == OnOriginals(ps, LAMBDA p : BadChecksum(p, m.badcksum))
  <1>1. m.hdr \in SUBSET {"ttl", "ts"} /\ m.seqOff \in Int /\ m.badcksum \in BOOLEAN
    BY DEF ModifierArgs
  <1>2. \A i \in DOMAIN ps : ps[i] \in Packets
    BY ListOf DEF Ok, Fault
  <1>3. \A i \in DOMAIN ps :
          /\ Alike(ps[i], t1(ps[i])) /\ t1(ps[i]).seq = ps[i].seq
          /\ Alike(ps[i], t4(ps[i])) /\ t4(ps[i]).seq = ps[i].seq
    BY <1>1, <1>2, TricksAlike
  <1>4. \A i \in DOMAIN ps :
          /\ Alike(ps[i], t2(ps[i])) /\ t2(ps[i]).seq = (ps[i].seq + m.seqOff) % SeqSpace
          /\ Alike(ps[i], t3(ps[i])) /\ t3(ps[i]).seq = (ps[i].seq + m.seqOff) % SeqSpace
    <2> TAKE i \in DOMAIN ps
    <2> DEFINE o == OffsetSeq(ps[i], m.seqOff)
    <2>1. ps[i] \in Packets
      BY <1>2
    <2>2. /\ Alike(ps[i], o) /\ o.seq = (ps[i].seq + m.seqOff) % SeqSpace /\ o \in Packets
      BY <1>1, <2>1, TricksAlike, TricksKeep DEF SameCustody
    <2> HIDE DEF o
    <2>3. /\ Alike(o, SetHeader(o, m.hdr)) /\ SetHeader(o, m.hdr).seq = o.seq
          /\ Alike(o, BadChecksum(o, m.badcksum)) /\ BadChecksum(o, m.badcksum).seq = o.seq
      BY <1>1, <2>2, TricksAlike
    <2>4. /\ Alike(ps[i], SetHeader(o, m.hdr)) /\ Alike(ps[i], BadChecksum(o, m.badcksum))
          /\ SetHeader(o, m.hdr).seq = (ps[i].seq + m.seqOff) % SeqSpace
          /\ BadChecksum(o, m.badcksum).seq = (ps[i].seq + m.seqOff) % SeqSpace
      BY <2>2, <2>3, AlikeThrough
    <2> QED BY <2>4 DEF o
  <1>5. /\ q1 = [i \in DOMAIN ps |-> IF ps[i].fake THEN ps[i] ELSE t1(ps[i])]
        /\ q2 = [i \in DOMAIN ps |-> IF ps[i].fake THEN ps[i] ELSE t2(ps[i])]
        /\ q3 = [i \in DOMAIN ps |-> IF ps[i].fake THEN ps[i] ELSE t3(ps[i])]
        /\ q4 = [i \in DOMAIN ps |-> IF ps[i].fake THEN ps[i] ELSE t4(ps[i])]
    BY DEF OnOriginals
  <1> HIDE DEF t1, t2, t3, t4, q1, q2, q3, q4
  <1>6. \A p \in Packets : Alike(p, p)
    BY DEF Alike
  <1>7. Still(ps, q1) /\ Still(ps, q4)
    BY <1>2, <1>3, <1>5, <1>6 DEF Still
  <1>8. Moved(ps, q2, m.seqOff) /\ Moved(ps, q3, m.seqOff)
    BY <1>2, <1>4, <1>5, <1>6 DEF Moved
  <1> QED BY <1>7, <1>8 DEF q1, q2, q3, q4

-----------------------------------------------------------------------------
(* Overlaps and fake packets *)

LEMMA OverlapDraws ==
  ASSUME NEW ps, Sane(ps), NEW at \in DOMAIN ps, NEW n \in Nat, NEW size \in Nat
  PROVE  Draws(Overlap(ps, at, n, size), ps)
  <1>1. CASE Overlap(ps, at, n, size) = Fault
    BY <1>1, DrawsFault
  <1>2. CASE Overlap(ps, at, n, size) # Fault
    <2>1. PICK pieces : /\ PiecesFor(pieces, ps[at])
                        /\ Overlap(ps, at, n, size) = Replace(ps, at, pieces)
      BY <1>2, OverlapIs
    <2> DEFINE qs == Replace(ps, at, pieces)
               l == Len(ps)
               c == Len(pieces)
    <2>2. /\ ps \in Seq(Packets) /\ l \in Nat /\ DOMAIN ps = 1 .. l /\ at \in 1 .. l
      BY ListOf
    <2>3. /\ pieces \in Seq(Packets) /\ c \in Nat /\ c >= 1
          /\ \A k \in 1 .. c : /\ pieces[k].action # "ACCEPT"
                               /\ Range(pieces[k].data) \subseteq Range(ps[at].data) \cup {0}
      BY <2>1 DEF PiecesFor
    <2>4. /\ qs \in Seq(Packets) /\ Len(qs) = l - 1 + c
          /\ \A k \in 1 .. l - 1 + c :
               qs[k] = IF k < at THEN ps[k]
                       ELSE IF k < at + c THEN pieces[k - at + 1]
                       ELSE ps[k - c + 1]
      BY <2>2, <2>3, ReplaceFacts
    <2> HIDE DEF qs
    <2>5. DOMAIN qs = 1 .. l - 1 + c
      BY <2>4
    <2> HIDE DEF l, c
    <2>6. ASSUME NEW k \in 1 .. l - 1 + c
          PROVE  \E j \in 1 .. l :
                   /\ Range(qs[k].data) \subseteq Range(ps[j].data) \cup {0} \cup Range(Blob)
                   /\ qs[k].action = "ACCEPT" =>
                        ps[j].action = "ACCEPT" /\ qs[k].id = ps[j].id /\ qs[k].data = ps[j].data
      <3>1. CASE k < at
        <4>1. k \in 1 .. l /\ qs[k] = ps[k]
          BY <2>2, <2>4, <3>1
        <4> QED BY <4>1
      <3>2. CASE ~ (k < at) /\ k < at + c
        <4>1. k - at + 1 \in 1 .. c
          BY <2>2, <2>3, <3>2
        <4>2. qs[k] = pieces[k - at + 1]
          BY <2>4, <3>2
        <4>3. /\ qs[k].action # "ACCEPT"
              /\ Range(qs[k].data) \subseteq Range(ps[at].data) \cup {0}
          BY <2>3, <4>1, <4>2
        <4> QED BY <2>2, <4>3
      <3>3. CASE ~ (k < at) /\ ~ (k < at + c)
        <4>1. k - c + 1 \in 1 .. l
          BY <2>2, <2>3, <3>3
        <4>2. qs[k] = ps[k - c + 1]
          BY <2>4, <3>3
        <4> QED BY <4>1, <4>2
      <3> QED BY <3>1, <3>2, <3>3
    <2>7. Draws(qs, ps)
      BY <2>2, <2>5, <2>6 DEF Draws
    <2> QED BY <2>1, <2>7 DEF qs
  <1> QED BY <1>1, <1>2

LEMMA InsertFakeDraws ==
  ASSUME NEW ps, Sane(ps), NEW m \in ModifierArgs
  PROVE  Draws(InsertFake(ps, m), ps)
  <1> DEFINE n == Len(ps)
             copy == [Checksummed(ps[1]) EXCEPT !.id = 0, !.action = "SEND", !.data = Blob,
                                                !.fake = TRUE]
             fake == BadChecksum(OffsetSeq(SetHeader(copy, m.hdr), m.seqOff), m.badcksum)
             qs == <<fake>> \o ps
  <1>1. /\ ps \in Seq(Packets) /\ n \in Nat /\ n >= 1 /\ DOMAIN ps = 1 .. n
        /\ ps[1] \in Packets
    BY ListOf
  <1>2. m.hdr \in SUBSET {"ttl", "ts"} /\ m.seqOff \in Int /\ m.badcksum \in BOOLEAN
    BY DEF ModifierArgs
  <1>3. copy \in Packets /\ copy.action = "SEND" /\ copy.data = Blob
    <2>1. Checksummed(ps[1]) \in Packets
      BY <1>1, ChecksummedIs
    <2>2. Blob \in Seq(Nat)
      BY PipelinesAssumption
    <2> QED BY <2>1, <2>2 DEF Packets
  <1> HIDE DEF copy
  <1>4. fake \in Packets /\ fake.action = "SEND" /\ fake.data = Blob
    <2> DEFINE h == SetHeader(copy, m.hdr)
               o == OffsetSeq(h, m.seqOff)
    <2>1. h \in Packets /\ h.action = "SEND" /\ h.data = Blob
      BY <1>2, <1>3, TricksKeep, TricksAlike DEF SameCustody, Alike
    <2> HIDE DEF h
    <2>2. o \in Packets /\ o.action = "SEND" /\ o.data = Blob
      BY <1>2, <2>1, TricksKeep, TricksAlike DEF SameCustody, Alike
    <2> HIDE DEF o
    <2>3. /\ BadChecksum(o, m.badcksum) \in Packets /\ BadChecksum(o, m.badcksum).action = "SEND"
          /\ BadChecksum(o, m.badcksum).data = Blob
      <3>1. SameCustody(o, BadChecksum(o, m.badcksum))
        BY <1>2, <2>2, TricksKeep
      <3>2. Alike(o, BadChecksum(o, m.badcksum))
        BY <1>2, <2>2, TricksAlike
      <3> QED BY <2>2, <3>1, <3>2 DEF SameCustody, Alike
    <2> QED BY <2>3 DEF h, o
  <1> HIDE DEF fake
  <1>5. DOMAIN qs = 1 .. n + 1 /\ qs[1] = fake /\ \A k \in 1 .. n : qs[k + 1] = ps[k]
    <2>1. <<fake>> \in Seq(Packets) /\ Len(<<fake>>) = 1 /\ <<fake>>[1] = fake
      BY <1>4
    <2>2. /\ qs \in Seq(Packets) /\ Len(qs) = 1 + n
          /\ \A k \in 1 .. 1 + n : qs[k] = IF k <= 1 THEN <<fake>>[k] ELSE ps[k - 1]
      BY <1>1, <2>1, ConcatProperties
    <2> HIDE DEF qs
    <2>3. 1 \in 1 .. 1 + n /\ 1 <= 1 /\ 1 + n = n + 1
      BY <1>1
    <2>4. \A k \in 1 .. n : k + 1 \in 1 .. 1 + n /\ ~ (k + 1 <= 1) /\ (k + 1) - 1 = k
      BY <1>1
    <2>5. DOMAIN qs = 1 .. n + 1
      BY <2>2, <2>3
    <2>6. \A k \in 1 .. 1 + n : qs[k] = IF k <= 1 THEN <<fake>>[k] ELSE ps[k - 1]
      BY <2>2
    <2>7. qs[1] = fake
      BY <2>1, <2>3, <2>6, Zenon
    <2>8. \A k \in 1 .. n : qs[k + 1] = ps[k]
      <3> TAKE k \in 1 .. n
      <3>1. qs[k + 1] = IF k + 1 <= 1 THEN <<fake>>[k + 1] ELSE ps[(k + 1) - 1]
        BY <2>4, <2>6, Zenon
      <3> QED BY <2>4, <3>1, Zenon
    <2> QED BY <2>5, <2>7, <2>8
  <1> HIDE DEF qs
  <1>6. ASSUME NEW k \in 1 .. n + 1
        PROVE  \E j \in 1 .. n :
                 /\ Range(qs[k].data) \subseteq Range(ps[j].data) \cup {0} \cup Range(Blob)
                 /\ qs[k].action = "ACCEPT" =>
                      ps[j].action = "ACCEPT" /\ qs[k].id = ps[j].id /\ qs[k].data = ps[j].data
    <2>1. CASE k = 1
      BY <1>1, <1>4, <1>5, <2>1
    <2>2. CASE k # 1
      <3>1. k - 1 \in 1 .. n /\ (k - 1) + 1 = k
        BY <1>1, <2>2
      <3>2. qs[k] = ps[k - 1]
        BY <1>5, <3>1
      <3> QED BY <3>1, <3>2
    <2> QED BY <2>1, <2>2
  <1>7. Draws(qs, ps)
    BY <1>1, <1>5, <1>6 DEF Draws
  <1> QED BY <1>7 DEF qs, fake, copy, InsertFake

-----------------------------------------------------------------------------
(* The two modifiers *)

LEMMA SplitterDraws ==
  ASSUME found \in Findings, mss \in MssValues,
         NEW ps, Sane(ps), NEW m \in ModifierArgs, NEW result \in SplitterOutcomes(ps, m),
         result # Fault
  PROVE  LET all == SplitAll(ps, m.splits)
         IN  /\ all # Fault /\ Draws(result, all)
             /\ m.seqovl = {} => Moved(all, result, m.seqOff)
  <1> DEFINE all == SplitAll(ps, m.splits)
             cut == OnOriginals(all, LAMBDA p : SetHeader(p, m.hdr))
             n == IF m.seqovl = {} THEN 0 ELSE (CHOOSE pos \in m.seqovl : TRUE).off
             first == Min(Originals(cut))
             overlaps == m.seqovl # {} /\ Originals(cut) # {}
             done == IF overlaps THEN Overlap(cut, first, n, SplitterMss) ELSE cut
             tricked == OnOriginals(done,
                          LAMBDA p : BadChecksum(OffsetSeq(p, m.seqOff), m.badcksum))
  <1>1. result = tricked
    BY DEF SplitterOutcomes, Outcomes, tricked, done, overlaps, first, n, cut, all
  <1>2. Ok(all)
    <2>1. m.splits \in Seq(Position)
      BY DEF ModifierArgs
    <2> QED BY <2>1, SplitAllKeeps DEF Ok
  <1> HIDE DEF all
  <1>3. Still(all, cut) /\ Ok(cut)
    BY <1>2, Tricked, TrickedBefore
  <1>4. n \in Nat
    <2>1. m.seqovl \in SUBSET Position
      BY DEF ModifierArgs
    <2>2. \A pos \in Position : pos.off \in Nat
      BY Sizes DEF Position
    <2> QED BY <2>1, <2>2
  <1>5. all = Fault => cut = Fault
    <2>1. OnOriginals(Fault, LAMBDA p : SetHeader(p, m.hdr)) = Fault
      BY DEF OnOriginals, Fault
    <2> QED BY <2>1
  <1> HIDE DEF cut, n
  <1>6. /\ Ok(done) /\ Draws(done, cut) /\ (m.seqovl = {} => done = cut)
        /\ cut = Fault => done = Fault
    <2>1. CASE overlaps
      <3>1. cut # Fault
        BY <2>1, OriginalsOfFault
      <3>2. Sane(cut)
        BY <1>3, <3>1 DEF Ok
      <3>3. first \in DOMAIN cut
        <4>1. first \in Originals(cut)
          BY <2>1, <3>2, FirstOriginal
        <4> HIDE DEF first
        <4> QED BY <4>1 DEF Originals
      <3> HIDE DEF first
      <3>4. /\ Ok(Overlap(cut, first, n, SplitterMss))
            /\ Draws(Overlap(cut, first, n, SplitterMss), cut)
        BY <1>4, <3>2, <3>3, MssIsNat, OverlapKeeps, OverlapDraws
      <3> QED BY <2>1, <3>1, <3>4
    <2>2. CASE ~overlaps
      BY <1>3, <2>2, DrawsSame
    <2> QED BY <2>1, <2>2
  <1> HIDE DEF done
  <1>7. Moved(done, tricked, m.seqOff)
    BY <1>6, Tricked
  <1>8. done = Fault => tricked = Fault
    <2>1. OnOriginals(Fault, LAMBDA p : BadChecksum(OffsetSeq(p, m.seqOff), m.badcksum)) = Fault
      BY DEF OnOriginals, Fault
    <2> QED BY <2>1
  <1> HIDE DEF tricked
  <1>9. all # Fault
    BY <1>1, <1>5, <1>6, <1>8
  <1>10. Draws(tricked, all)
    BY <1>3, <1>6, <1>7, StillDraws, MovedDraws, DrawsThrough
  <1>11. m.seqovl = {} => Moved(all, tricked, m.seqOff)
    <2> SUFFICES ASSUME m.seqovl = {} PROVE Moved(all, tricked, m.seqOff)
      OBVIOUS
    <2>1. Still(all, cut) /\ Moved(cut, tricked, m.seqOff)
      BY <1>3, <1>6, <1>7
    <2> QED BY <2>1, StillMoved
  <1> QED BY <1>1, <1>9, <1>10, <1>11 DEF all

LEMMA DisorderDraws ==
  ASSUME found \in Findings, mss \in MssValues,
         NEW ps, Sane(ps), NEW m \in ModifierArgs, NEW result \in DisorderOutcomes(ps, m),
         result # Fault
  PROVE  LET all == SplitAll(ps, m.splits)
         IN  /\ all # Fault /\ Draws(result, all)
             /\ m.seqovl = {} => Moved(all, result, m.seqOff)
  <1> DEFINE all == SplitAll(ps, m.splits)
             cut == OnOriginals(all, LAMBDA p : SetHeader(OffsetSeq(p, m.seqOff), m.hdr))
             pos == CHOOSE q \in m.seqovl : TRUE
             n == SplitPos(found.markers, pos)
             second == Min(Originals(cut)) + 1
             overlaps == /\ m.seqovl # {} /\ Originals(cut) # {}
                         /\ ~SeqovlThrows(pos) /\ ~TooBig(cut, n)
             inside == second <= Len(cut)
             done == IF m.seqovl # {} /\ SeqovlThrows(pos) THEN Fault
                     ELSE IF ~overlaps THEN cut
                     ELSE IF inside THEN Overlap(cut, second, n, DisorderMss) ELSE Fault
             tricked == OnOriginals(done, LAMBDA p : BadChecksum(p, m.badcksum))
  <1>1. result = tricked
    BY DEF DisorderOutcomes, Outcomes, tricked, done, overlaps, inside, second, n, pos, cut, all
  <1>2. Ok(all)
    <2>1. m.splits \in Seq(Position)
      BY DEF ModifierArgs
    <2> QED BY <2>1, SplitAllKeeps DEF Ok
  <1> HIDE DEF all
  <1>3. Moved(all, cut, m.seqOff) /\ Ok(cut)
    BY <1>2, Tricked, TrickedBefore
  <1>4. m.seqovl # {} => n \in Nat
    <2> SUFFICES ASSUME m.seqovl # {} PROVE n \in Nat
      OBVIOUS
    <2>1. m.seqovl \in SUBSET Position
      BY DEF ModifierArgs
    <2>2. pos \in Position
      BY <2>1
    <2> HIDE DEF pos
    <2> QED BY <2>2, SplitPosIsNat
  <1>5. all = Fault => cut = Fault
    <2>1. OnOriginals(Fault, LAMBDA p : SetHeader(OffsetSeq(p, m.seqOff), m.hdr)) = Fault
      BY DEF OnOriginals, Fault
    <2> QED BY <2>1
  <1> HIDE DEF cut, n, pos
  <1>6. /\ Ok(done) /\ Draws(done, cut) /\ (m.seqovl = {} => done = cut)
        /\ cut = Fault => done = Fault
    <2>1. CASE overlaps /\ inside
      <3>1. cut # Fault
        BY <2>1, OriginalsOfFault
      <3>2. Sane(cut)
        BY <1>3, <3>1 DEF Ok
      <3>3. second \in DOMAIN cut
        <4> DEFINE f == Min(Originals(cut))
        <4>1. f \in Originals(cut)
          BY <2>1, <3>2, FirstOriginal
        <4>2. second = f + 1 /\ f + 1 <= Len(cut)
          BY <2>1
        <4> HIDE DEF f, second
        <4>3. Len(cut) \in Nat /\ DOMAIN cut = 1 .. Len(cut)
          BY <3>2, ListOf
        <4>4. f \in 1 .. Len(cut)
          BY <4>1, <4>3 DEF Originals
        <4> QED BY <4>2, <4>3, <4>4
      <3> HIDE DEF second
      <3>4. /\ Ok(Overlap(cut, second, n, DisorderMss))
            /\ Draws(Overlap(cut, second, n, DisorderMss), cut)
        BY <1>4, <2>1, <3>2, <3>3, MssIsNat, OverlapKeeps, OverlapDraws
      <3>5. done = Overlap(cut, second, n, DisorderMss) /\ m.seqovl # {}
        BY <2>1
      <3> HIDE DEF done
      <3> QED BY <3>1, <3>4, <3>5
    <2>2. CASE ~ (overlaps /\ inside)
      <3>1. /\ done = Fault \/ done = cut
            /\ m.seqovl = {} => done = cut
        BY <2>2
      <3> HIDE DEF done
      <3> QED BY <1>3, <3>1, DrawsSame, DrawsFault DEF Ok
    <2> QED BY <2>1, <2>2
  <1> HIDE DEF done
  <1>7. Still(done, tricked)
    BY <1>6, Tricked
  <1>8. done = Fault => tricked = Fault
    <2>1. OnOriginals(Fault, LAMBDA p : BadChecksum(p, m.badcksum)) = Fault
      BY DEF OnOriginals, Fault
    <2> QED BY <2>1
  <1> HIDE DEF tricked
  <1>9. all # Fault
    BY <1>1, <1>5, <1>6, <1>8
  <1>10. Draws(tricked, all)
    BY <1>3, <1>6, <1>7, StillDraws, MovedDraws, DrawsThrough
  <1>11. m.seqovl = {} => Moved(all, tricked, m.seqOff)
    BY <1>3, <1>6, <1>7, MovedStill
  <1> QED BY <1>1, <1>9, <1>10, <1>11 DEF all

(* What a modifier makes of a list with the bytes in place: no packet has  *)
(* both sides of a position it was asked for, and the bytes stay in place  *)
(* unless it overlaps.                                                     *)
CutAt(P, m, ps) ==
  \A j \in 1 .. Len(m.splits) :
    SplitPos(found.markers, m.splits[j]) \in 1 .. Len(P) - 1 =>
      Apart(P, ps, SplitPos(found.markers, m.splits[j]))

LEMMA CutAtStays ==
  ASSUME NEW P, P \in Seq(Nat), Told(P), NEW m, NEW ps, NEW qs, CutAt(P, m, ps), Draws(qs, ps)
  PROVE  CutAt(P, m, qs)
  <1> SUFFICES ASSUME NEW j \in 1 .. Len(m.splits),
                      SplitPos(found.markers, m.splits[j]) \in 1 .. Len(P) - 1
               PROVE  Apart(P, qs, SplitPos(found.markers, m.splits[j]))
    BY DEF CutAt
  <1>1. Apart(P, ps, SplitPos(found.markers, m.splits[j]))
    BY DEF CutAt
  <1> QED BY <1>1, ApartStays

LEMMA CutParts ==
  ASSUME found \in Findings, NEW ps, Sane(ps), NEW m \in ModifierArgs,
         NEW P, Told(P), NEW B, Placed(P, B, ps), NEW result,
         SplitAll(ps, m.splits) # Fault, Draws(result, SplitAll(ps, m.splits)),
         m.seqovl = {} => Moved(SplitAll(ps, m.splits), result, m.seqOff)
  PROVE  /\ Draws(result, ps) /\ CutAt(P, m, result)
         /\ m.seqovl = {} => \E C : Placed(P, C, result)
  <1> DEFINE all == SplitAll(ps, m.splits)
  <1>1. m.splits \in Seq(Position) /\ m.seqOff \in Int /\ P \in Seq(Nat)
    BY DEF ModifierArgs, Placed
  <1>2. /\ Sane(all) /\ Placed(P, B, all) /\ Draws(all, ps)
        /\ \A j \in 1 .. Len(m.splits) :
             SplitPos(found.markers, m.splits[j]) \in 1 .. Len(P) - 1 =>
               Apart(P, all, SplitPos(found.markers, m.splits[j]))
    BY <1>1, SplitAllParts, Zenon
  <1>3. Draws(result, all) /\ (m.seqovl = {} => Moved(all, result, m.seqOff))
    OBVIOUS
  <1> HIDE DEF all
  <1>4. Draws(result, ps)
    BY <1>2, <1>3, DrawsThrough
  <1>5. CutAt(P, m, all)
    BY <1>2 DEF CutAt
  <1>6. CutAt(P, m, result)
    BY <1>1, <1>3, <1>5, CutAtStays
  <1>7. ASSUME m.seqovl = {} PROVE Placed(P, (B + m.seqOff) % SeqSpace, result)
    BY <1>1, <1>2, <1>3, <1>7, PlacedMoved
  <1> QED BY <1>4, <1>6, <1>7

LEMMA TurnParts ==
  ASSUME MInv, Splitter \/ Disorder, packets' # Fault,
         NEW P, Told(P), NEW B, Placed(P, B, packets)
  PROVE  /\ Draws(packets', packets)
         /\ ~pipeline[next].fake => CutAt(P, pipeline[next], packets')
         /\ ~Shifts(pipeline[next]) => \E C : Placed(P, C, packets')
  <1> DEFINE m == pipeline[next]
             Result(qs) == /\ Draws(qs, packets)
                           /\ ~m.fake => CutAt(P, m, qs)
                           /\ ~Shifts(m) => \E C : Placed(P, C, qs)
  <1>1. /\ Sane(packets) /\ found \in Findings /\ mss \in MssValues
        /\ m \in ModifierArgs /\ P \in Seq(Nat)
    <2>1. pc = "modify" /\ next <= Len(pipeline)
      BY DEF Splitter, Disorder, Turn
    <2>2. pipeline \in Seq(ModifierArgs) /\ next \in Nat /\ next >= 1
      BY PipelinesAssumption DEF MInv
    <2>3. next \in 1 .. Len(pipeline)
      BY <2>1, <2>2
    <2> QED BY <2>1, <2>2, <2>3 DEF MInv, Placed
  <1>2. CASE m.fake
    <2> DEFINE qs == InsertFake(packets, m)
    <2>1. packets' = qs \/ packets' = ReverseOriginals(qs)
      BY <1>2 DEF Splitter, Disorder, Leaves
    <2>2. Sane(qs) /\ Draws(qs, packets)
      BY <1>1, InsertFakeKeeps, InsertFakeDraws
    <2> HIDE DEF qs
    <2>3. Draws(ReverseOriginals(qs), packets)
      BY <2>2, ReverseDraws, DrawsThrough
    <2> QED BY <1>2, <2>1, <2>2, <2>3 DEF Shifts
  <1>3. ASSUME ~m.fake, NEW qs, qs # Fault,
               qs \in SplitterOutcomes(packets, m) \/ qs \in DisorderOutcomes(packets, m)
        PROVE  Sane(qs) /\ Result(qs)
    <2>1. Sane(qs)
      BY <1>1, <1>3, SplitterKeeps, DisorderKeeps DEF Ok
    <2>2. /\ SplitAll(packets, m.splits) # Fault
          /\ Draws(qs, SplitAll(packets, m.splits))
          /\ m.seqovl = {} => Moved(SplitAll(packets, m.splits), qs, m.seqOff)
      <3> HIDE DEF m
      <3>1. CASE qs \in SplitterOutcomes(packets, m)
        BY <1>1, <1>3, <3>1, SplitterDraws, Zenon
      <3>2. CASE qs \in DisorderOutcomes(packets, m)
        BY <1>1, <1>3, <3>2, DisorderDraws, Zenon
      <3> QED BY <1>3, <3>1, <3>2
    <2>3. /\ Draws(qs, packets) /\ CutAt(P, m, qs)
          /\ m.seqovl = {} => \E C : Placed(P, C, qs)
      <3> HIDE DEF m
      <3> QED BY <1>1, <2>2, CutParts
    <2> QED BY <1>3, <2>1, <2>3 DEF Shifts
  <1>4. CASE ~m.fake /\ Splitter
    <2>1. packets' \in SplitterOutcomes(packets, m)
      BY <1>4 DEF Splitter, Leaves
    <2> HIDE DEF Result
    <2>2. Result(packets')
      BY <1>3, <1>4, <2>1
    <2> QED BY <2>2 DEF Result
  <1>5. CASE ~m.fake /\ Disorder
    <2>1. PICK qs \in DisorderOutcomes(packets, m) : packets' = ReverseOriginals(qs)
      BY <1>5 DEF Disorder, Leaves
    <2>2. qs # Fault
      BY <2>1, ReverseKeeps DEF Ok
    <2>3. Sane(qs) /\ Result(qs)
      BY <1>3, <1>5, <2>1, <2>2
    <2> DEFINE rs == ReverseOriginals(qs)
    <2>4. Draws(rs, qs)
      BY <2>3, ReverseDraws
    <2>5. \A C : Placed(P, C, qs) => Placed(P, C, rs)
      BY <2>3, PlacedReversed
    <2>6. rs = packets'
      BY <2>1
    <2> HIDE DEF rs, m
    <2>7. Draws(rs, packets) /\ CutAt(P, m, rs)
      BY <1>1, <1>5, <2>3, <2>4, DrawsThrough, CutAtStays
    <2>8. ~Shifts(m) => \E C : Placed(P, C, rs)
      BY <2>3, <2>5
    <2> QED BY <2>6, <2>7, <2>8 DEF m
  <1> QED BY <1>2, <1>4, <1>5

-----------------------------------------------------------------------------
(* The cuts *)

(* What is still accepted has the bytes that were handed over. *)
AsHeld(ps) ==
  \A i \in DOMAIN ps : ps[i].action = "ACCEPT" =>
    \E j \in DOMAIN original :
      original[j].id = ps[i].id /\ original[j].data = ps[i].data

ShiftsOnlyLast == \A i \in 2 .. Len(pipeline) : ~Shifts(pipeline[i - 1])

(* The bytes are in place whenever there is a modifier left, and apart     *)
(* where they were to be cut.                                              *)
CInv ==
  /\ MInv
  /\ Tiled /\ ShiftsOnlyLast =>
       /\ AsHeld(packets)
       /\ \A k \in Asked \cap 1 .. Len(Payload) - 1 : Apart(Payload, packets, k)
       /\ pc \in {"filter", "modify"} /\ next <= Len(pipeline) =>
            \E B : Placed(Payload, B, packets)

LEMMA AsHeldStays ==
  ASSUME NEW ps, NEW qs, AsHeld(ps), Draws(qs, ps)
  PROVE  AsHeld(qs)
  <1> SUFFICES ASSUME NEW k \in DOMAIN qs, qs[k].action = "ACCEPT"
               PROVE  \E j \in DOMAIN original :
                        original[j].id = qs[k].id /\ original[j].data = qs[k].data
    BY DEF AsHeld
  <1>1. PICK i \in DOMAIN ps :
          ps[i].action = "ACCEPT" /\ qs[k].id = ps[i].id /\ qs[k].data = ps[i].data
    BY DEF Draws
  <1> QED BY <1>1 DEF AsHeld

LEMMA PlacedAtFirst ==
  ASSUME ToldApart, original \in Deliveries, Tiled,
         NEW ps, ps = [i \in DOMAIN original |-> FromHeld(original[i])]
  PROVE  Placed(Payload, Base, ps)
  <1> DEFINE n == Len(original)
             o(i) == Start1(original, i)
             d(i) == Len(original[i].data)
  <1>1. /\ original \in Seq(HeldSegment) /\ n \in Nat /\ n >= 1 /\ DOMAIN original = 1 .. n
        /\ original # << >>
    BY Delivered, DeliveriesAssumption
  <1>2. \A s \in HeldSegment : /\ s.seq \in SeqNums /\ s.data \in Seq(Nat) /\ Len(s.data) \in Nat
    BY DEF HeldSegment
  <1>3. Follows(original) /\ InWindow(original[1].seq, original)
    BY DEF ToldApart, Tiled, InWindow, Offset
  <1>4. /\ \A i \in 1 .. n : o(i) \in Nat
        /\ \A i, j \in 1 .. n : i < j => o(i) + d(i) <= o(j)
    BY <1>1, <1>2, <1>3, TilesOffsets
  <1>5. /\ Payload \in Seq(Nat) /\ 2 * Len(Payload) < SeqSpace
        /\ \A i \in 1 .. n :
             /\ o(i) + d(i) <= Len(Payload)
             /\ \A y \in 1 .. d(i) : original[i].data[y] = Payload[o(i) + y]
        /\ \A x \in 1 .. Len(Payload) : \E i \in 1 .. n : o(i) < x /\ x <= o(i) + d(i)
    BY <1>1, <1>2, <1>3, ConcatOfTiles DEF Payload
  <1>6. /\ DOMAIN ps = 1 .. n
        /\ \A i \in 1 .. n : /\ ~ps[i].fake /\ ps[i].data = original[i].data
                             /\ Len(ps[i].data) = d(i) /\ Offset(Base, ps[i].seq) = o(i)
    BY <1>1 DEF FromHeld, Start1, Base
  <1>7. \A i \in 1 .. n : d(i) \in Nat
    BY <1>1, <1>2
  <1> HIDE DEF o, d
  <1>8. \A i \in 1 .. n, x \in 1 .. Len(Payload) :
          Carries(Base, ps[i], x) <=> o(i) < x /\ x <= o(i) + d(i)
    BY <1>6 DEF Carries
  <1>9. \A i, j \in 1 .. n, x \in 1 .. Len(Payload) :
          Carries(Base, ps[i], x) /\ Carries(Base, ps[j], x) => i = j
    <2> TAKE i, j \in 1 .. n, x \in 1 .. Len(Payload)
    <2> HAVE Carries(Base, ps[i], x) /\ Carries(Base, ps[j], x)
    <2>1. o(i) < x /\ x <= o(i) + d(i) /\ o(j) < x /\ x <= o(j) + d(j)
      BY <1>8
    <2>2. /\ o(i) \in Nat /\ d(i) \in Nat /\ o(j) \in Nat /\ d(j) \in Nat /\ x \in Nat
          /\ i < j => o(i) + d(i) <= o(j)
          /\ j < i => o(j) + d(j) <= o(i)
      BY <1>4, <1>7
    <2>3. ~ (i < j) /\ ~ (j < i)
      BY <2>1, <2>2
    <2> QED BY <1>1, <2>3
  <1>10. Base \in SeqNums
    <2>1. 1 \in 1 .. n
      BY <1>1
    <2> QED BY <1>1, <1>2, <2>1 DEF Base
  <1>11. \A i \in 1 .. n :
           /\ Offset(Base, ps[i].seq) + Len(ps[i].data) <= Len(Payload)
           /\ \A y \in 1 .. Len(ps[i].data) : ps[i].data[y] = Payload[Offset(Base, ps[i].seq) + y]
    BY <1>5, <1>6
  <1>12. \A x \in 1 .. Len(Payload) : \E i \in 1 .. n : Carries(Base, ps[i], x)
    BY <1>5, <1>8
  <1>13. \A i \in DOMAIN ps : ~ps[i].fake
    BY <1>6
  <1> HIDE DEF n
  <1>14. Payload \in Seq(Nat) /\ 2 * Len(Payload) < SeqSpace
    BY <1>5
  <1>15. DOMAIN ps = 1 .. n
    BY <1>6
  <1>16. \A i \in DOMAIN ps :
             /\ Offset(Base, ps[i].seq) + Len(ps[i].data) <= Len(Payload)
             /\ \A y \in 1 .. Len(ps[i].data) :
                  ps[i].data[y] = Payload[Offset(Base, ps[i].seq) + y]
    BY <1>11, <1>15, Zenon
  <1>17. \A x \in 1 .. Len(Payload) : \E i \in DOMAIN ps : Carries(Base, ps[i], x)
    BY <1>12, <1>15, Zenon
  <1>18. \A i, j \in DOMAIN ps, x \in 1 .. Len(Payload) :
           Carries(Base, ps[i], x) /\ Carries(Base, ps[j], x) => i = j
    BY <1>9, <1>15, Zenon
  <1> QED BY <1>10, <1>13, <1>14, <1>16, <1>17, <1>18 DEF Placed

LEMMA CInvInit == ToldApart /\ Init => CInv
  <1> SUFFICES ASSUME ToldApart, Init PROVE CInv
    OBVIOUS
  <1>1. MInv
    BY MInvInit
  <1>2. /\ original \in Deliveries /\ next = 1
        /\ packets = [i \in DOMAIN original |-> FromHeld(original[i])]
    BY DEF Init
  <1>3. AsHeld(packets)
    BY <1>2 DEF AsHeld, FromHeld
  <1>4. Asked = {}
    <2>1. 1 .. next - 1 = {}
      BY <1>2
    <2> QED BY <2>1 DEF Asked, Ran
  <1>5. Tiled => Placed(Payload, Base, packets)
    BY <1>2, PlacedAtFirst
  <1> QED BY <1>1, <1>3, <1>4, <1>5 DEF CInv

(* A modifier asks for what it splits at. *)
LEMMA AskedGrows ==
  ASSUME MInv, next <= Len(pipeline), next' = next + 1, UNCHANGED <<found, pipeline>>
  PROVE  \A k \in Asked' :
           \/ k \in Asked
           \/ /\ ~pipeline[next].fake /\ found.proto \in pipeline[next].l7
              /\ \E j \in 1 .. Len(pipeline[next].splits) :
                   k = SplitPos(found.markers, pipeline[next].splits[j])
  <1> DEFINE m == pipeline[next]
             Asks(q) == ~q.fake /\ found.proto \in q.l7
             At(q) == {SplitPos(found.markers, pos) : pos \in Range(q.splits)}
  <1>1. next \in Nat /\ next >= 1 /\ pipeline \in Seq(ModifierArgs)
    BY PipelinesAssumption DEF MInv
  <1>2. Ran' = Ran \cup {m}
    <2>1. 1 .. (next + 1) - 1 = (1 .. next - 1) \cup {next}
      BY <1>1
    <2>2. Ran' = {pipeline[i] : i \in 1 .. (next + 1) - 1}
      BY DEF Ran
    <2> QED BY <2>1, <2>2 DEF Ran
  <1>3. \A R : {SplitPos(found.markers, pos) : pos \in UNION {Range(q.splits) : q \in
                 {r \in R : ~r.fake /\ found.proto \in r.l7}}}
                 = UNION {At(q) : q \in {r \in R : Asks(r)}}
    OBVIOUS
  <1>4. Asked = UNION {At(q) : q \in {r \in Ran : Asks(r)}}
    BY <1>3 DEF Asked
  <1>5. Asked' = UNION {At(q) : q \in {r \in Ran' : Asks(r)}}
    <2>1. Asked' = {SplitPos(found.markers, pos) : pos \in UNION {Range(q.splits) : q \in
                      {r \in Ran' : ~r.fake /\ found.proto \in r.l7}}}
      BY DEF Asked
    <2> QED BY <1>3, <2>1
  <1>6. \A k \in Asked' : k \in Asked \/ (Asks(m) /\ k \in At(m))
    <2> HIDE DEF Asks, At, m
    <2> QED BY <1>2, <1>4, <1>5
  <1>7. DOMAIN m.splits = 1 .. Len(m.splits)
    <2>1. next \in 1 .. Len(pipeline)
      BY <1>1
    <2>2. m \in ModifierArgs
      BY <1>1, <2>1
    <2> HIDE DEF m
    <2>3. m.splits \in Seq(Position)
      BY <2>2 DEF ModifierArgs
    <2> QED BY <2>3
  <1>8. \A k \in At(m) : \E j \in 1 .. Len(m.splits) : k = SplitPos(found.markers, m.splits[j])
    <2>1. \A pos \in Range(m.splits) : \E j \in 1 .. Len(m.splits) : pos = m.splits[j]
      BY <1>7 DEF Range
    <2> QED BY <2>1
  <1> QED BY <1>6, <1>8

LEMMA CInvTurn ==
  ASSUME ToldApart, CInv, Splitter \/ Disorder
  PROVE  CInv'
  <1> DEFINE m == pipeline[next]
  <1>1. /\ MInv /\ MInv'
    <2>1. [Next]_vars
      BY DEF Next
    <2> QED BY <2>1, MInvStep DEF CInv
  <1>2. /\ pc = "modify" /\ next <= Len(pipeline) /\ next' = next + 1
        /\ original' = original /\ found' = found /\ pipeline' = pipeline
        /\ pc' = IF packets' = Fault THEN "fault" ELSE "modify"
    <2>1. next <= Len(pipeline)
      BY DEF Splitter, Disorder, Turn
    <2> QED BY <1>1, <2>1, TurnLeaves
  <1>3. Tiled' = Tiled /\ ShiftsOnlyLast' = ShiftsOnlyLast /\ Payload' = Payload
    BY <1>2 DEF Tiled, ShiftsOnlyLast, Payload
  <1>5. ASSUME Tiled, ShiftsOnlyLast
        PROVE  /\ AsHeld(packets)'
               /\ \A k \in Asked' \cap 1 .. Len(Payload) - 1 : Apart(Payload, packets', k)
               /\ pc' \in {"filter", "modify"} /\ next' <= Len(pipeline) =>
                    \E B : Placed(Payload, B, packets')
    <2>1. /\ AsHeld(packets)
          /\ \A k \in Asked \cap 1 .. Len(Payload) - 1 : Apart(Payload, packets, k)
      BY <1>5 DEF CInv
    <2>2. PICK B : Placed(Payload, B, packets)
      BY <1>2, <1>5 DEF CInv
    <2>3. Told(Payload) /\ Payload \in Seq(Nat)
      BY <1>1, <1>5, <2>2 DEF ToldApart, MInv, Tiled, Payload, Placed
    <2>4. CASE packets' = Fault
      <3>1. DOMAIN packets' = {}
        BY <2>4 DEF Fault
      <3> QED BY <1>2, <2>4, <3>1 DEF AsHeld, Apart
    <2>5. CASE packets' # Fault
      <3>1. /\ Draws(packets', packets)
            /\ ~m.fake => CutAt(Payload, m, packets')
            /\ ~Shifts(m) => \E C : Placed(Payload, C, packets')
        BY <1>1, <2>2, <2>3, <2>5, TurnParts
      <3>2. AsHeld(packets')
        BY <2>1, <3>1, AsHeldStays
      <3>3. AsHeld(packets)'
        BY <1>2, <3>2 DEF AsHeld
      <3>4. ASSUME NEW k \in Asked' \cap 1 .. Len(Payload) - 1
            PROVE  Apart(Payload, packets', k)
        <4>1. CASE k \in Asked
          BY <2>1, <2>3, <3>1, <4>1, ApartStays
        <4>2. CASE k \notin Asked
          <5>1. /\ ~m.fake
                /\ \E j \in 1 .. Len(m.splits) : k = SplitPos(found.markers, m.splits[j])
            BY <1>1, <1>2, <4>2, AskedGrows
          <5> QED BY <3>1, <5>1 DEF CutAt
        <4> QED BY <4>1, <4>2
      <3>5. ASSUME next' <= Len(pipeline)
            PROVE  \E C : Placed(Payload, C, packets')
        <4>1. next \in Nat /\ next >= 1 /\ pipeline \in Seq(ModifierArgs)
          BY <1>1, PipelinesAssumption DEF MInv
        <4>2. next + 1 \in 2 .. Len(pipeline) /\ (next + 1) - 1 = next
          BY <1>2, <3>5, <4>1
        <4>3. ~Shifts(m)
          BY <1>5, <4>2 DEF ShiftsOnlyLast
        <4> QED BY <3>1, <4>3
      <3> QED BY <3>3, <3>4, <3>5
    <2> QED BY <2>4, <2>5
  <1>6. CInv' = ( /\ MInv'
                  /\ Tiled' /\ ShiftsOnlyLast' =>
                       /\ AsHeld(packets)'
                       /\ \A k \in Asked' \cap 1 .. Len(Payload') - 1 :
                            Apart(Payload', packets', k)
                       /\ pc' \in {"filter", "modify"} /\ next' <= Len(pipeline') =>
                            \E B : Placed(Payload', B, packets') )
    BY DEF CInv
  <1> QED BY <1>1, <1>2, <1>3, <1>5, <1>6

LEMMA CInvStep == ToldApart /\ CInv /\ [Next]_vars => CInv'
  <1> SUFFICES ASSUME ToldApart, CInv, [Next]_vars PROVE CInv'
    OBVIOUS
  <1>1. MInv'
    BY MInvStep DEF CInv
  <1>2. ASSUME UNCHANGED <<original, found, pipeline, packets>>,
               Asked' \subseteq Asked, next' = next \/ next' = next + 1,
               pc' \in {"filter", "modify"} => pc \in {"filter", "modify"}
        PROVE  CInv'
    <2>1. /\ Tiled' = Tiled /\ ShiftsOnlyLast' = ShiftsOnlyLast /\ Payload' = Payload
          /\ packets' = packets /\ pipeline' = pipeline
      BY <1>2 DEF Tiled, ShiftsOnlyLast, Payload
    <2>2. AsHeld(packets)' <=> AsHeld(packets)
      BY <1>2 DEF AsHeld
    <2>3. next' <= Len(pipeline) => next <= Len(pipeline)
      <3>1. next \in Nat /\ pipeline \in Seq(ModifierArgs)
        BY PipelinesAssumption DEF CInv, MInv
      <3> QED BY <1>2, <3>1
    <2>4. Tiled /\ ShiftsOnlyLast =>
            /\ AsHeld(packets)'
            /\ \A k \in Asked' \cap 1 .. Len(Payload) - 1 : Apart(Payload, packets, k)
            /\ pc' \in {"filter", "modify"} /\ next' <= Len(pipeline) =>
                 \E B : Placed(Payload, B, packets)
      BY <1>2, <2>2, <2>3 DEF CInv
    <2> QED BY <1>1, <2>1, <2>4 DEF CInv
  <1>3. UNCHANGED <<found, pipeline, next>> => Asked' = Asked
    BY DEF Asked, Ran
  <1>4. CASE Filter
    BY <1>2, <1>3, <1>4 DEF Filter
  <1>5. CASE Splitter \/ Disorder
    BY <1>5, CInvTurn
  <1>6. CASE Skip
    <2>1. /\ pc' = pc /\ next' = next + 1 /\ next <= Len(pipeline)
          /\ found.proto \notin pipeline[next].l7
          /\ UNCHANGED <<original, found, pipeline, packets>>
      BY <1>6 DEF Skip
    <2>2. \A k \in Asked' : k \in Asked
      BY <2>1, AskedGrows DEF CInv
    <2> QED BY <1>2, <2>1, <2>2
  <1>7. CASE Finished
    BY <1>2, <1>3, <1>7 DEF Finished
  <1>8. CASE Send
    BY <1>2, <1>3, <1>8 DEF Send
  <1>9. CASE UNCHANGED vars
    BY <1>2, <1>3, <1>9 DEF vars
  <1> QED BY <1>4, <1>5, <1>6, <1>7, <1>8, <1>9 DEF Next

(* What goes on the wire has the bytes of the list. *)
LEMMA CutsOnWire == CInv => CutUnlessShifted
  <1> SUFFICES ASSUME CInv, ShiftsOnlyLast, pc = "done", Tiled,
                      NEW k \in Asked \cap 1 .. Len(Payload) - 1, NEW i \in OnWire
               PROVE  ~ ({Payload[k], Payload[k + 1]} \subseteq Range(Sent[i].data))
    BY DEF CutUnlessShifted, CutWhereAsked, ShiftsOnlyLast
  <1>1. AsHeld(packets) /\ Apart(Payload, packets, k) /\ original \in Deliveries
    BY DEF CInv, MInv
  <1>2. i \in DOMAIN packets
    BY DEF OnWire, Sent
  <1>3. Sent[i].data = packets[i].data
    <2>1. CASE packets[i].action = "ACCEPT"
      <3>1. PICK j \in DOMAIN original :
              original[j].id = packets[i].id /\ original[j].data = packets[i].data
        BY <1>1, <1>2, <2>1 DEF AsHeld
      <3>2. OriginalOf(packets[i].id) = j
        <4>1. \A l \in DOMAIN original : original[l].id = packets[i].id => l = j
          BY <1>1, <3>1, Delivered
        <4> QED BY <3>1, <4>1 DEF OriginalOf
      <3> QED BY <1>2, <2>1, <3>1, <3>2 DEF Sent, FromHeld
    <2>2. CASE packets[i].action # "ACCEPT"
      BY <1>2, <2>2 DEF Sent
    <2> QED BY <2>1, <2>2
  <1> QED BY <1>1, <1>2, <1>3 DEF Apart

(* A cut is where it was asked for: of segments that follow one another,   *)
(* no packet on the wire has the bytes on both sides of a position a       *)
(* modifier split at, unless one before the last put a fake packet or      *)
(* padding in front, whatever the other modifiers did.                     *)
THEOREM CutUnlessShiftedAlways ==
  ASSUME ToldApart
  PROVE  Spec => []CutUnlessShifted
  <1>1. Init => CInv
    BY CInvInit
  <1>2. CInv /\ [Next]_vars => CInv'
    BY CInvStep
  <1> QED BY <1>1, <1>2, CutsOnWire, PTL DEF Spec

-----------------------------------------------------------------------------
(* The peer *)

Legible(base, ps) ==
  /\ Len(ps) \in Nat
  /\ \A k \in 1 .. Len(ps) : ps[k].data \in Seq(Nat) /\ Place(base, ps[k]) \in Int

(* A packet brings the byte at place x of the stream T, counted from 1.    *)
Brings(base, p, x) ==
  /\ Reaches(p)
  /\ Place(base, p) < x /\ x <= Place(base, p) + Len(p.data)

(* From byte w + 1 of the stream on, the bytes of a packet are the stream's.*)
RightFrom(base, T, w, p) ==
  \A y \in 1 .. Len(p.data) :
    Place(base, p) + y > w => p.data[y] = T[Place(base, p) + y]

(* No packet has a wrong byte from w + 1 on; a packet with the first byte  *)
(* has none at all, and all bytes up to w.                                 *)
Clear(base, T, w, ps, on) ==
  \A k \in on : Reaches(ps[k]) =>
    /\ RightFrom(base, T, w, ps[k])
    /\ Brings(base, ps[k], 1) =>
         RightFrom(base, T, 0, ps[k]) /\ w <= Place(base, ps[k]) + Len(ps[k].data)

(* What was taken so far is right, and up to nothing or at least to w.     *)
Heard(base, T, w, ps, on, got) ==
  /\ got \in Seq(Nat)
  /\ \A x \in 1 .. Len(got) :
       got[x] = T[x] /\ \E k \in on : Brings(base, ps[k], x)
  /\ got = << >> \/ w <= Len(got)

(* Nothing more can be taken. *)
Settled(base, got, ps, arrived) == \A k \in arrived : ~HasNext(base, got, ps[k])

(* What the peer has after it took from a packet, or found none to take    *)
(* from.                                                                   *)
Taken(base, T, w, ps, on, arrived, got, new) ==
  /\ Heard(base, T, w, ps, on, new)
  /\ Len(got) <= Len(new)
  /\ Settled(base, got, ps, arrived) => new = got
  /\ ~Settled(base, got, ps, arrived) => \E k \in arrived :
       /\ HasNext(base, got, ps[k])
       /\ Len(new) = Place(base, ps[k]) + Len(ps[k].data)

LEMMA TakeHears ==
  ASSUME NEW base, NEW T, NEW w \in Nat, NEW ps, Legible(base, ps),
         NEW on \in SUBSET (1 .. Len(ps)), Clear(base, T, w, ps, on),
         NEW arrived \in SUBSET on,
         NEW got, Heard(base, T, w, ps, on, got)
  PROVE  Taken(base, T, w, ps, on, arrived, got, Take(base, got, ps, arrived))
  <1> DEFINE having == {k \in arrived : HasNext(base, got, ps[k])}
             first == Min(having)
             p == ps[first]
             n == Len(got)
             at == Place(base, p)
             more == SubSeq(p.data, n - at + 1, Len(p.data))
             new == Take(base, got, ps, arrived)
  <1>1. n \in Nat /\ got \in Seq(Nat) /\ Len(ps) \in Nat
    BY DEF Heard, Legible
  <1>2. CASE having = {}
    <2>1. new = got /\ Settled(base, got, ps, arrived)
      BY <1>2, Zenon DEF Take, Settled
    <2> HIDE DEF new
    <2>2. Len(got) <= Len(new)
      BY <1>1, <2>1
    <2>3. Taken(base, T, w, ps, on, arrived, got, new)
      BY <2>1, <2>2, Zenon DEF Taken
    <2> QED BY <2>3 DEF new
  <1>3. CASE having # {}
    <2>1. first \in having
      <3>0. arrived \in SUBSET Nat
        BY <1>1
      <3>1. having \in SUBSET Nat
        BY <3>0
      <3> HIDE DEF having
      <3>2. \E k \in having : \A j \in having : k <= j
        BY <1>3, <3>1, LeastElement, Zenon
      <3> QED BY <3>2 DEF Min
    <2>2. new = got \o more
      BY <1>3, Zenon DEF Take
    <2>3. first \in arrived /\ HasNext(base, got, p) /\ ~Settled(base, got, ps, arrived)
      BY <2>1 DEF Settled
    <2>4. /\ first \in on /\ p.data \in Seq(Nat) /\ at \in Int /\ Len(p.data) \in Nat
          /\ Reaches(p) /\ at <= n /\ n < at + Len(p.data)
      <3>1. first \in on /\ first \in 1 .. Len(ps)
        BY <2>3
      <3>2. p.data \in Seq(Nat) /\ at \in Int
        BY <3>1 DEF Legible
      <3>3. Reaches(p) /\ at <= n /\ n < at + Len(p.data)
        BY <2>3 DEF HasNext
      <3> QED BY <3>1, <3>2, <3>3
    <2> HIDE DEF first, having, new
    <2>5. n - at \in Nat /\ n - at <= Len(p.data)
      BY <1>1, <2>4
    <2>6. /\ more \in Seq(Nat) /\ Len(more) = Len(p.data) - (n - at)
          /\ \A y \in 1 .. Len(p.data) - (n - at) : more[y] = p.data[(n - at) + y]
      <3> DEFINE a == n - at
                 d == p.data
      <3>1. a \in Nat /\ a <= Len(d) /\ Len(d) \in Nat /\ d \in Seq(Nat)
        BY <2>4, <2>5
      <3> HIDE DEF a, d
      <3>2. /\ SubSeq(d, a + 1, Len(d)) \in Seq(Nat)
            /\ Len(SubSeq(d, a + 1, Len(d))) = Len(d) - a
            /\ \A y \in 1 .. Len(d) - a : SubSeq(d, a + 1, Len(d))[y] = d[a + y]
        BY <3>1, Slice
      <3> QED BY <3>2, Zenon DEF a, d, more
    <2> HIDE DEF more
    <2>7. /\ new \in Seq(Nat) /\ Len(new) = at + Len(p.data)
          /\ \A x \in 1 .. at + Len(p.data) :
               new[x] = IF x <= n THEN got[x] ELSE p.data[x - at]
      <3>1. /\ new \in Seq(Nat) /\ Len(new) = n + Len(more)
            /\ \A x \in 1 .. n + Len(more) : new[x] = IF x <= n THEN got[x] ELSE more[x - n]
        BY <1>1, <2>2, <2>6, ConcatProperties
      <3>2. n + Len(more) = at + Len(p.data)
        BY <1>1, <2>4, <2>6
      <3>3. \A x \in 1 .. at + Len(p.data) : ~ (x <= n) =>
              /\ x - n \in 1 .. Len(p.data) - (n - at)
              /\ (n - at) + (x - n) = x - at
        BY <1>1, <2>4
      <3> QED BY <2>6, <3>1, <3>2, <3>3
    <2>8. RightFrom(base, T, n, p) /\ w <= at + Len(p.data)
      <3>1. CASE n = 0
        <4>1. Brings(base, p, 1)
          BY <2>4, <3>1 DEF Brings
        <4> QED BY <2>4, <3>1, <4>1 DEF Clear
      <3>2. CASE n # 0
        <4>1. w <= n
          BY <1>1, <3>2 DEF Heard
        <4>2. RightFrom(base, T, w, p)
          BY <2>4 DEF Clear
        <4>3. \A y \in 1 .. Len(p.data) : at + y > n => at + y > w
          BY <1>1, <2>4, <4>1
        <4> QED BY <1>1, <2>4, <4>1, <4>2, <4>3 DEF RightFrom
      <3> QED BY <3>1, <3>2
    <2>9. \A x \in 1 .. Len(new) : new[x] = T[x] /\ \E k \in on : Brings(base, ps[k], x)
      <3> TAKE x \in 1 .. Len(new)
      <3>1. CASE x <= n
        <4>1. x \in 1 .. n /\ x \in 1 .. at + Len(p.data)
          BY <1>1, <2>4, <2>7, <3>1
        <4>2. new[x] = got[x]
          BY <2>7, <3>1, <4>1
        <4> QED BY <4>1, <4>2 DEF Heard
      <3>2. CASE ~ (x <= n)
        <4>1. x \in 1 .. at + Len(p.data) /\ x - at \in 1 .. Len(p.data) /\ at + (x - at) = x
              /\ x > n /\ at < x
          BY SMTT(30), <1>1, <2>4, <2>7, <3>2
        <4>2. new[x] = p.data[x - at]
          BY <2>7, <3>2, <4>1
        <4>3. p.data[x - at] = T[x]
          BY <2>8, <4>1 DEF RightFrom
        <4>4. Brings(base, p, x)
          BY <2>4, <4>1 DEF Brings
        <4> QED BY <2>4, <4>2, <4>3, <4>4
      <3> QED BY <3>1, <3>2
    <2>10. Heard(base, T, w, ps, on, new)
      BY <2>7, <2>8, <2>9 DEF Heard
    <2>11. n <= Len(new)
      BY <1>1, <2>4, <2>7
    <2>12. Taken(base, T, w, ps, on, arrived, got, new)
      BY <2>3, <2>7, <2>10, <2>11, Zenon DEF Taken
    <2> QED BY <2>12, Zenon DEF new
  <1> QED BY <1>2, <1>3

(* The peer takes from one packet after another. *)
Takes(f, base, got, ps, arrived) ==
  /\ f[0] = got
  /\ \A k \in 1 .. Len(ps) : f[k] = Take(base, f[k - 1], ps, arrived)
  /\ TakeAll(base, got, ps, arrived) = f[Len(ps)]

LEMMA TakeAllSteps ==
  ASSUME NEW base, NEW got, NEW ps, NEW arrived, Len(ps) \in Nat
  PROVE  \E f : Takes(f, base, got, ps, arrived)
  <1> DEFINE n == Len(ps)
             more(g, k) == Take(base, g, ps, arrived)
             Upto(m, f) == f = [k \in 0 .. m |-> IF k = 0 THEN got ELSE more(f[k - 1], k)]
             all == CHOOSE f : Upto(n, f)
             Good == {m \in 0 .. n : \E f : Upto(m, f)}
  <1>1. TakeAll(base, got, ps, arrived) = all[n]
    BY DEF TakeAll
  <1> HIDE DEF more
  <1>2. 0 \in Good
    <2>1. Upto(0, [k \in 0 .. 0 |-> got])
      OBVIOUS
    <2>2. 0 \in 0 .. n
      OBVIOUS
    <2> HIDE DEF Upto
    <2> QED BY <2>1, <2>2
  <1>3. \A m \in 0 .. n : m \in Good /\ m + 1 <= n => m + 1 \in Good
    <2> SUFFICES ASSUME NEW m \in 0 .. n, m \in Good, m + 1 <= n PROVE m + 1 \in Good
      OBVIOUS
    <2>1. PICK f : Upto(m, f)
      OBVIOUS
    <2> DEFINE last == more(f[m], m + 1)
               g == [k \in 0 .. m + 1 |-> IF k = m + 1 THEN last ELSE f[k]]
    <2>2. \A k \in 0 .. m + 1 : g[k] = IF k = 0 THEN got ELSE more(g[k - 1], k)
      <3> TAKE k \in 0 .. m + 1
      <3>1. CASE k = 0
        BY <2>1, <3>1
      <3>2. CASE k # 0 /\ k # m + 1
        <4>1. k \in 0 .. m /\ k - 1 \in 0 .. m + 1 /\ k - 1 # m + 1
          BY <3>2
        <4>2. g[k] = f[k] /\ g[k - 1] = f[k - 1]
          BY <3>2, <4>1
        <4> QED BY <2>1, <3>2, <4>1, <4>2
      <3>3. CASE k = m + 1
        <4>1. k - 1 = m /\ m \in 0 .. m + 1 /\ m # m + 1 /\ k # 0
          BY <3>3
        <4>2. g[k] = last /\ g[m] = f[m]
          BY <3>3, <4>1
        <4> QED BY <3>3, <4>1, <4>2
      <3> QED BY <3>1, <3>2, <3>3
    <2>3. Upto(m + 1, g)
      BY <2>2
    <2>4. m + 1 \in 0 .. n
      OBVIOUS
    <2> HIDE DEF Upto, g
    <2> QED BY <2>3, <2>4
  <1>4. n \in Good
    <2> HIDE DEF Good
    <2>1. n \in 0 .. n
      OBVIOUS
    <2> QED BY <1>2, <1>3, <2>1, Climb
  <1>5. Upto(n, all)
    <2> HIDE DEF Upto
    <2> QED BY <1>4
  <1> HIDE DEF all
  <1>6. all[0] = got /\ \A k \in 1 .. n : all[k] = more(all[k - 1], k)
    <2>1. 0 \in 0 .. n /\ \A k \in 1 .. n : k \in 0 .. n /\ k # 0
      OBVIOUS
    <2> QED BY <1>5, <2>1
  <1>7. Takes(all, base, got, ps, arrived)
    BY <1>1, <1>6 DEF Takes, more
  <1> QED BY <1>7

(* The packets arrive one after another. *)
Arrives(f, base, ps, on) ==
  /\ f[0] = << >>
  /\ \A k \in 1 .. Len(ps) : f[k] = TakeAll(base, f[k - 1], ps, on \cap (1 .. k))
  /\ Received(base, ps, on) = f[Len(ps)]

LEMMA ReceivedSteps ==
  ASSUME NEW base, NEW ps, NEW on, Len(ps) \in Nat
  PROVE  \E f : Arrives(f, base, ps, on)
  <1> DEFINE n == Len(ps)
             more(g, k) == TakeAll(base, g, ps, on \cap (1 .. k))
             Upto(m, f) == f = [k \in 0 .. m |-> IF k = 0 THEN << >> ELSE more(f[k - 1], k)]
             all == CHOOSE f : Upto(n, f)
             Good == {m \in 0 .. n : \E f : Upto(m, f)}
  <1>1. Received(base, ps, on) = all[n]
    BY DEF Received
  <1> HIDE DEF more
  <1>2. 0 \in Good
    <2>1. Upto(0, [k \in 0 .. 0 |-> << >>])
      OBVIOUS
    <2>2. 0 \in 0 .. n
      OBVIOUS
    <2> HIDE DEF Upto
    <2> QED BY <2>1, <2>2
  <1>3. \A m \in 0 .. n : m \in Good /\ m + 1 <= n => m + 1 \in Good
    <2> SUFFICES ASSUME NEW m \in 0 .. n, m \in Good, m + 1 <= n PROVE m + 1 \in Good
      OBVIOUS
    <2>1. PICK f : Upto(m, f)
      OBVIOUS
    <2> DEFINE last == more(f[m], m + 1)
               g == [k \in 0 .. m + 1 |-> IF k = m + 1 THEN last ELSE f[k]]
    <2>2. \A k \in 0 .. m + 1 : g[k] = IF k = 0 THEN << >> ELSE more(g[k - 1], k)
      <3> TAKE k \in 0 .. m + 1
      <3>1. CASE k = 0
        BY <2>1, <3>1
      <3>2. CASE k # 0 /\ k # m + 1
        <4>1. k \in 0 .. m /\ k - 1 \in 0 .. m + 1 /\ k - 1 # m + 1
          BY <3>2
        <4>2. g[k] = f[k] /\ g[k - 1] = f[k - 1]
          BY <3>2, <4>1
        <4> QED BY <2>1, <3>2, <4>1, <4>2
      <3>3. CASE k = m + 1
        <4>1. k - 1 = m /\ m \in 0 .. m + 1 /\ m # m + 1 /\ k # 0
          BY <3>3
        <4>2. g[k] = last /\ g[m] = f[m]
          BY <3>3, <4>1
        <4> QED BY <3>3, <4>1, <4>2
      <3> QED BY <3>1, <3>2, <3>3
    <2>3. Upto(m + 1, g)
      BY <2>2
    <2>4. m + 1 \in 0 .. n
      OBVIOUS
    <2> HIDE DEF Upto, g
    <2> QED BY <2>3, <2>4
  <1>4. n \in Good
    <2> HIDE DEF Good
    <2>1. n \in 0 .. n
      OBVIOUS
    <2> QED BY <1>2, <1>3, <2>1, Climb
  <1>5. Upto(n, all)
    <2> HIDE DEF Upto
    <2> QED BY <1>4
  <1> HIDE DEF all
  <1>6. all[0] = << >> /\ \A k \in 1 .. n : all[k] = more(all[k - 1], k)
    <2>1. 0 \in 0 .. n /\ \A k \in 1 .. n : k \in 0 .. n /\ k # 0
      OBVIOUS
    <2> QED BY <1>5, <2>1
  <1>7. Arrives(all, base, ps, on)
    BY <1>1, <1>6 DEF Arrives, more
  <1> QED BY <1>7

(* The packets of which all bytes are behind. *)
Used(base, got, ps) ==
  {k \in 1 .. Len(ps) : Place(base, ps[k]) + Len(ps[k].data) <= Len(got)}

LEMMA TakeAllHears ==
  ASSUME NEW base, NEW T, NEW w \in Nat, NEW ps, Legible(base, ps),
         NEW on \in SUBSET (1 .. Len(ps)), Clear(base, T, w, ps, on),
         NEW arrived \in SUBSET on,
         NEW got, Heard(base, T, w, ps, on, got)
  PROVE  LET new == TakeAll(base, got, ps, arrived)
         IN  Heard(base, T, w, ps, on, new) /\ Settled(base, new, ps, arrived)
  <1> DEFINE n == Len(ps)
  <1>1. n \in Nat
    BY DEF Legible
  <1>2. PICK f : Takes(f, base, got, ps, arrived)
    BY <1>1, TakeAllSteps
  <1> DEFINE Far(m) == Cardinality(Used(base, f[m], ps)) >= m
             Good == {m \in 0 .. n : /\ Heard(base, T, w, ps, on, f[m])
                                     /\ Settled(base, f[m], ps, arrived) \/ Far(m)}
  <1>3. \A m \in 0 .. n : /\ Used(base, f[m], ps) \in SUBSET (1 .. n)
                          /\ IsFiniteSet(Used(base, f[m], ps))
                          /\ Cardinality(Used(base, f[m], ps)) \in Nat
    <2> TAKE m \in 0 .. n
    <2> DEFINE U == Used(base, f[m], ps)
    <2>1. U \in SUBSET (1 .. n)
      BY DEF Used
    <2>2. IsFiniteSet(1 .. n)
      <3>1. 1 \in Int /\ n \in Int
        BY <1>1
      <3> QED BY <3>1, FS_Interval
    <2> HIDE DEF U
    <2>3. IsFiniteSet(U) /\ Cardinality(U) \in Nat
      BY <2>1, <2>2, FS_Subset, FS_CardinalityType
    <2> QED BY <2>1, <2>3 DEF U
  <1>4. 0 \in Good
    <2>1. 0 \in 0 .. n /\ f[0] = got
      BY <1>1, <1>2 DEF Takes
    <2>2. Cardinality(Used(base, f[0], ps)) >= 0
      BY <1>3, <2>1
    <2> QED BY <2>1, <2>2
  <1>5. \A m \in 0 .. n : m \in Good /\ m + 1 <= n => m + 1 \in Good
    <2> SUFFICES ASSUME NEW m \in 0 .. n, m \in Good, m + 1 <= n PROVE m + 1 \in Good
      OBVIOUS
    <2> DEFINE g == f[m]
               h == f[m + 1]
               U == Used(base, g, ps)
               V == Used(base, h, ps)
    <2>1. h = Take(base, g, ps, arrived)
      <3>1. m + 1 \in 1 .. n /\ (m + 1) - 1 = m
        BY <1>1
      <3> QED BY <1>2, <3>1 DEF Takes
    <2>2. Heard(base, T, w, ps, on, g) /\ (Settled(base, g, ps, arrived) \/ Far(m))
      OBVIOUS
    <2>3. m + 1 \in 0 .. n
      BY <1>1
    <2> HIDE DEF g, h
    <2>4. /\ Heard(base, T, w, ps, on, h) /\ Len(g) <= Len(h)
          /\ Settled(base, g, ps, arrived) => h = g
          /\ ~Settled(base, g, ps, arrived) => \E k \in arrived :
               /\ HasNext(base, g, ps[k])
               /\ Len(h) = Place(base, ps[k]) + Len(ps[k].data)
      <3>1. Taken(base, T, w, ps, on, arrived, g, Take(base, g, ps, arrived))
        BY <2>2, TakeHears
      <3>2. Taken(base, T, w, ps, on, arrived, g, h)
        BY <2>1, <3>1
      <3> QED BY <3>2, Zenon DEF Taken
    <2>5. CASE Settled(base, g, ps, arrived)
      BY <2>3, <2>4, <2>5 DEF h
    <2>6. CASE ~Settled(base, g, ps, arrived)
      <3>1. PICK k \in arrived : /\ HasNext(base, g, ps[k])
                                 /\ Len(h) = Place(base, ps[k]) + Len(ps[k].data)
        BY <2>4, <2>6
      <3>2. /\ k \in 1 .. n /\ Len(g) \in Nat /\ Len(h) \in Nat
            /\ \A j \in 1 .. n : Place(base, ps[j]) \in Int /\ Len(ps[j].data) \in Nat
        <4>1. k \in 1 .. n
          OBVIOUS
        <4>2. Len(g) \in Nat /\ Len(h) \in Nat
          BY <2>2, <2>4 DEF Heard
        <4>3. \A j \in 1 .. n : Place(base, ps[j]) \in Int /\ Len(ps[j].data) \in Nat
          BY DEF Legible
        <4> QED BY <4>1, <4>2, <4>3
      <3>3. k \notin U /\ k \in V
        BY <3>1, <3>2 DEF HasNext, Used
      <3>4. U \subseteq V
        BY SMTT(30), <2>4, <3>2 DEF Used
      <3>5. /\ IsFiniteSet(U) /\ IsFiniteSet(V)
            /\ Cardinality(U) \in Nat /\ Cardinality(V) \in Nat
        BY <1>3, <2>3 DEF g, h
      <3>6. Cardinality(U) < Cardinality(V)
        <4> HIDE DEF U, V
        <4>1. U # V
          BY <3>3
        <4>2. Cardinality(U) <= Cardinality(V) /\ (Cardinality(U) = Cardinality(V) => U = V)
          BY <3>4, <3>5, FS_Subset
        <4> QED BY <3>5, <4>1, <4>2
      <3>7. Cardinality(U) >= m
        BY <2>2, <2>6 DEF g
      <3>8. Far(m + 1)
        <4> HIDE DEF U
        <4>1. Cardinality(V) >= m + 1
          BY <3>5, <3>6, <3>7
        <4> QED BY <4>1 DEF h
      <3> QED BY <2>3, <2>4, <3>8 DEF h
    <2> QED BY <2>5, <2>6
  <1>6. n \in Good
    <2> HIDE DEF Good
    <2>1. n \in 0 .. n
      BY <1>1
    <2> QED BY <1>1, <1>4, <1>5, <2>1, Climb
  <1>7. Settled(base, f[n], ps, arrived)
    <2> SUFFICES ASSUME Far(n) PROVE Settled(base, f[n], ps, arrived)
      BY <1>6
    <2> DEFINE U == Used(base, f[n], ps)
    <2>1. U = 1 .. n
      <3>0. n \in 0 .. n
        BY <1>1
      <3>1. /\ U \in SUBSET (1 .. n) /\ IsFiniteSet(1 .. n) /\ Cardinality(1 .. n) = n
            /\ Cardinality(U) \in Nat /\ Cardinality(U) >= n
        <4>1. 1 \in Int /\ n \in Int
          BY <1>1
        <4>2. IsFiniteSet(1 .. n) /\ Cardinality(1 .. n) = IF 1 > n THEN 0 ELSE n - 1 + 1
          BY <4>1, FS_Interval, Zenon
        <4> HIDE DEF U
        <4>3. Cardinality(1 .. n) = n
          BY <1>1, <4>2
        <4> QED BY <1>3, <3>0, <4>2, <4>3 DEF U
      <3> HIDE DEF U
      <3>2. Cardinality(U) <= Cardinality(1 .. n)
            /\ (Cardinality(U) = Cardinality(1 .. n) => U = 1 .. n)
        BY <3>1, FS_Subset
      <3> QED BY <1>1, <3>1, <3>2
    <2>2. Heard(base, T, w, ps, on, f[n])
      BY <1>6
    <2> HIDE DEF Good
    <2>3. \A k \in arrived : ~HasNext(base, f[n], ps[k])
      <3> TAKE k \in arrived
      <3>1. k \in 1 .. n /\ Len(f[n]) \in Nat
        BY <2>2 DEF Heard
      <3>2. /\ Place(base, ps[k]) + Len(ps[k].data) <= Len(f[n])
            /\ Place(base, ps[k]) \in Int /\ Len(ps[k].data) \in Nat
        <4>1. Place(base, ps[k]) \in Int /\ Len(ps[k].data) \in Nat
          BY <3>1 DEF Legible
        <4>2. k \in Used(base, f[n], ps)
          BY <2>1, <3>1
        <4> QED BY <4>1, <4>2 DEF Used
      <3> QED BY <3>1, <3>2 DEF HasNext
    <2> QED BY <2>3 DEF Settled
  <1>8. TakeAll(base, got, ps, arrived) = f[n] /\ Heard(base, T, w, ps, on, f[n])
    BY <1>2, <1>6 DEF Takes
  <1> QED BY <1>7, <1>8

(* What the peer receives is right, came with a packet byte by byte, and   *)
(* goes on as far as the packets that arrived.                             *)
LEMMA PeerHears ==
  ASSUME NEW base, NEW T, NEW w \in Nat, NEW ps, Legible(base, ps),
         NEW on \in SUBSET (1 .. Len(ps)), Clear(base, T, w, ps, on)
  PROVE  LET got == Received(base, ps, on)
         IN  Heard(base, T, w, ps, on, got) /\ Settled(base, got, ps, on)
  <1> DEFINE n == Len(ps)
  <1>1. n \in Nat
    BY DEF Legible
  <1>2. PICK f : Arrives(f, base, ps, on)
    BY <1>1, ReceivedSteps
  <1> DEFINE Good == {m \in 0 .. n : /\ Heard(base, T, w, ps, on, f[m])
                                     /\ Settled(base, f[m], ps, on \cap (1 .. m))}
  <1>3. 0 \in Good
    <2>1. 0 \in 0 .. n /\ f[0] = << >> /\ on \cap (1 .. 0) = {}
      BY <1>1, <1>2 DEF Arrives
    <2>2. Heard(base, T, w, ps, on, << >>)
      BY DEF Heard
    <2>3. Settled(base, << >>, ps, {})
      BY DEF Settled
    <2> QED BY <2>1, <2>2, <2>3
  <1>4. \A m \in 0 .. n : m \in Good /\ m + 1 <= n => m + 1 \in Good
    <2> SUFFICES ASSUME NEW m \in 0 .. n, m \in Good, m + 1 <= n PROVE m + 1 \in Good
      OBVIOUS
    <2> DEFINE arrived == on \cap (1 .. m + 1)
    <2>1. f[m + 1] = TakeAll(base, f[m], ps, arrived)
      <3>1. m + 1 \in 1 .. n /\ (m + 1) - 1 = m
        BY <1>1
      <3> QED BY <1>2, <3>1 DEF Arrives
    <2>2. Heard(base, T, w, ps, on, f[m]) /\ arrived \in SUBSET on
      OBVIOUS
    <2> HIDE DEF arrived
    <2>3. Heard(base, T, w, ps, on, f[m + 1]) /\ Settled(base, f[m + 1], ps, arrived)
      BY <2>1, <2>2, TakeAllHears
    <2>4. m + 1 \in 0 .. n
      BY <1>1
    <2> QED BY <2>3, <2>4 DEF arrived
  <1>5. n \in Good
    <2> HIDE DEF Good
    <2>1. n \in 0 .. n
      BY <1>1
    <2> QED BY <1>1, <1>3, <1>4, <2>1, Climb
  <1>6. on \cap (1 .. n) = on /\ Received(base, ps, on) = f[n]
    BY <1>2 DEF Arrives
  <1> QED BY <1>5, <1>6

(* Two lists that bring bytes of the same stream: the peer gets from one a *)
(* beginning of what it gets from the other if it brings no other bytes,   *)
(* and the same if they bring the same ones.                               *)
LEMMA PeersAgree ==
  ASSUME NEW T, NEW base, NEW v \in Nat, NEW w \in Nat,
         NEW ps, Legible(base, ps), NEW on \in SUBSET (1 .. Len(ps)),
         Clear(base, T, v, ps, on),
         NEW qs, Legible(base, qs), NEW all \in SUBSET (1 .. Len(qs)),
         Clear(base, T, w, qs, all),
         \A x \in Nat \ {0} : \A k \in on : Brings(base, ps[k], x) =>
           \E j \in all : Brings(base, qs[j], x),
         NEW same \in BOOLEAN,
         same => \A x \in Nat \ {0} : \A j \in all : Brings(base, qs[j], x) =>
                   \E k \in on : Brings(base, ps[k], x)
  PROVE  LET got == Received(base, ps, on)
             meant == Received(base, qs, all)
         IN  IsPrefix(got, meant) /\ (same => got = meant)
  <1> DEFINE got == Received(base, ps, on)
             meant == Received(base, qs, all)
             n == Len(got)
             l == Len(meant)
  <1>1. Heard(base, T, v, ps, on, got) /\ Settled(base, got, ps, on)
    BY PeerHears
  <1>2. Heard(base, T, w, qs, all, meant) /\ Settled(base, meant, qs, all)
    BY PeerHears
  <1> HIDE DEF got, meant
  <1>3. n \in Nat /\ l \in Nat /\ got \in Seq(Nat) /\ meant \in Seq(Nat)
    BY <1>1, <1>2 DEF Heard
  <1>4. \A k \in on : ~Brings(base, ps[k], n + 1)
    <2> TAKE k \in on
    <2>1. ~HasNext(base, got, ps[k]) /\ Place(base, ps[k]) \in Int /\ Len(ps[k].data) \in Nat
      BY <1>1 DEF Settled, Legible
    <2> QED BY <1>3, <2>1 DEF HasNext, Brings
  <1>5. \A j \in all : ~Brings(base, qs[j], l + 1)
    <2> TAKE j \in all
    <2>1. ~HasNext(base, meant, qs[j]) /\ Place(base, qs[j]) \in Int /\ Len(qs[j].data) \in Nat
      BY <1>2 DEF Settled, Legible
    <2> QED BY <1>3, <2>1 DEF HasNext, Brings
  <1>6. n <= l
    <2> SUFFICES ASSUME ~ (n <= l) PROVE FALSE
      OBVIOUS
    <2>1. l + 1 \in 1 .. n /\ l + 1 \in Nat \ {0}
      BY <1>3
    <2>2. \E k \in on : Brings(base, ps[k], l + 1)
      BY <1>1, <2>1 DEF Heard
    <2> QED BY <1>5, <2>1, <2>2
  <1>7. \A x \in 1 .. n : got[x] = meant[x]
    <2> TAKE x \in 1 .. n
    <2>1. x \in 1 .. l
      BY <1>3, <1>6
    <2>2. got[x] = T[x]
      BY <1>1 DEF Heard
    <2>3. meant[x] = T[x]
      BY <1>2, <2>1 DEF Heard
    <2> QED BY <2>2, <2>3
  <1>8. IsPrefix(got, meant)
    <2>1. n <= l /\ \A x \in 1 .. n : got[x] = meant[x]
      BY <1>6, <1>7
    <2> QED BY <1>3, <2>1 DEF IsPrefix
  <1>9. same => got = meant
    <2> SUFFICES ASSUME same PROVE got = meant
      OBVIOUS
    <2>1. l <= n
      <3> SUFFICES ASSUME ~ (l <= n) PROVE FALSE
        OBVIOUS
      <3>1. n + 1 \in 1 .. l /\ n + 1 \in Nat \ {0}
        BY <1>3
      <3>2. \E j \in all : Brings(base, qs[j], n + 1)
        BY <1>2, <3>1 DEF Heard
      <3> QED BY <1>4, <3>1, <3>2
    <2>2. n = l
      BY <1>3, <1>6, <2>1
    <2> QED BY <1>3, <1>7, <2>2, SeqEqual
  <1> QED BY <1>8, <1>9 DEF got, meant

-----------------------------------------------------------------------------
(* Places in the stream *)

LEMMA SignedIs ==
  ASSUME NEW v \in Int, 2 * v < SeqSpace, -SeqSpace <= 2 * v
  PROVE  Signed(v % SeqSpace) = v
  <1>1. SeqSpace \in Nat \ {0}
    BY Sizes
  <1>2. CASE v >= 0
    <2>1. v \in 0 .. SeqSpace - 1
      BY <1>1, <1>2
    <2>2. v % SeqSpace = v
      BY <1>1, <2>1, ModFacts
    <2> QED BY <1>1, <2>2 DEF Signed
  <1>3. CASE v < 0
    <2>1. -SeqSpace <= v
      BY <1>1, <1>3
    <2>2. v % SeqSpace = v + SeqSpace
      BY <1>1, <1>3, <2>1, ModFacts
    <2>3. 2 * (v + SeqSpace) >= SeqSpace /\ (v + SeqSpace) - SeqSpace = v
      BY <1>1
    <2> HIDE DEF Signed
    <2>4. Signed(v + SeqSpace) = (v + SeqSpace) - SeqSpace
      BY <2>3, Zenon DEF Signed
    <2> QED BY <2>2, <2>3, <2>4
  <1> QED BY <1>2, <1>3

LEMMA PlaceIs ==
  ASSUME NEW base \in SeqNums, NEW p, p.seq \in SeqNums
  PROVE  /\ Place(base, p) \in Int
         /\ 2 * Place(base, p) < SeqSpace /\ -SeqSpace <= 2 * Place(base, p)
         /\ \E k \in Int : p.seq - base = Place(base, p) + k * SeqSpace
  <1> DEFINE S == SeqSpace
             d == p.seq - base
             r == d % S
             k == d \div S
  <1>1. S \in Nat \ {0} /\ S \in Int /\ p.seq \in Int /\ base \in Int
    <2>1. S \in Nat \ {0} /\ S \in Int
      BY SeqSpaceAssumption
    <2>2. p.seq \in Int /\ base \in Int
      BY SeqNumsAreInts, Zenon
    <2> QED BY <2>1, <2>2
  <1>2. d \in Int
    BY <1>1
  <1>3. k \in Int /\ d = k * S + r /\ r \in 0 .. S - 1
    BY <1>1, <1>2, ModSums, ModFacts
  <1>4. Place(base, p) = IF 2 * r >= S THEN r - S ELSE r
    BY Zenon DEF Place, Signed, r, d, S
  <1>5. k + 1 \in Int /\ (k + 1) * S \in Int /\ k * S \in Int /\ (k + 1) * S = k * S + S
    <2> HIDE DEF k, S
    <2>1. k * S \in Int /\ (k + 1) * S = k * S + S /\ S \in Int
      BY <1>1, <1>3
    <2> QED BY <1>3, <2>1
  <1> HIDE DEF S, d, r, k
  <1>6. CASE 2 * r >= S
    <2>1. Place(base, p) = r - S
      BY <1>4, <1>6
    <2>2. d = (r - S) + (k + 1) * S
      BY <1>1, <1>3, <1>5
    <2>3. r - S \in Int /\ 2 * (r - S) < S /\ -S <= 2 * (r - S)
      BY <1>1, <1>3, <1>6
    <2> QED BY <1>5, <2>1, <2>2, <2>3 DEF d, S
  <1>7. CASE ~ (2 * r >= S)
    <2>1. Place(base, p) = r
      BY <1>4, <1>7
    <2>2. d = r + k * S
      BY <1>1, <1>3, <1>5
    <2>3. r \in Int /\ 2 * r < S /\ -S <= 2 * r
      BY <1>1, <1>3, <1>7
    <2> QED BY <1>3, <2>1, <2>2, <2>3 DEF d, S
  <1> QED BY <1>6, <1>7

(* A sequence number moved by d within half the sequence space. *)
LEMMA PlaceMoves ==
  ASSUME NEW base \in SeqNums, NEW p, p.seq \in SeqNums, NEW d \in Int,
         2 * (Place(base, p) + d) < SeqSpace, -SeqSpace <= 2 * (Place(base, p) + d),
         NEW q, q.seq = (p.seq + d) % SeqSpace
  PROVE  Place(base, q) = Place(base, p) + d
  <1> DEFINE S == SeqSpace
             v == Place(base, p) + d
             e == p.seq + d
             j == e \div S
  <1>1. S \in Nat \ {0} /\ S \in Int /\ p.seq \in Int /\ base \in Int
    <2>1. S \in Nat \ {0} /\ S \in Int
      BY SeqSpaceAssumption
    <2>2. p.seq \in Int /\ base \in Int
      BY SeqNumsAreInts, Zenon
    <2> QED BY <2>1, <2>2
  <1>2. PICK k \in Int : p.seq - base = Place(base, p) + k * S
    BY PlaceIs
  <1>3. Place(base, p) \in Int /\ v \in Int /\ e \in Int
    <2>1. Place(base, p) \in Int
      BY PlaceIs
    <2> QED BY <1>1, <2>1
  <1>4. j \in Int /\ e = j * S + (e % S) /\ e % S \in Int
    <2> HIDE DEF e
    <2>1. e % S \in 0 .. S - 1
      BY <1>1, <1>3, ModFacts
    <2> QED BY <1>1, <1>3, <2>1, ModSums
  <1>5. k - j \in Int /\ (k - j) * S = k * S - j * S /\ k * S \in Int /\ j * S \in Int
    <2> HIDE DEF j, S
    <2> QED BY <1>1, <1>2, <1>4, Distributes
  <1>6. q.seq - base = v + (k - j) * S
    <2> DEFINE u == e % S
               pl == Place(base, p)
               a == k * S
               b == j * S
               c == (k - j) * S
    <2>1. /\ q.seq = u /\ u \in Int /\ a \in Int /\ b \in Int /\ pl \in Int
          /\ p.seq + d = b + u /\ p.seq - base = pl + a /\ c = a - b
      BY <1>2, <1>3, <1>4, <1>5
    <2>2. v = pl + d
      OBVIOUS
    <2> HIDE DEF u, pl, a, b, c, v, S
    <2>3. q.seq - base = v + c
      BY <1>1, <2>1, <2>2
    <2> QED BY <2>3 DEF c
  <1>7. (q.seq - base) % S = v % S
    <2> HIDE DEF v, S, j
    <2>1. (v + (k - j) * S) % S = v % S
      BY <1>1, <1>3, <1>5, ModShift
    <2> QED BY <1>6, <2>1
  <1>8. Signed(v % S) = v
    <2> HIDE DEF v
    <2>1. 2 * v < SeqSpace /\ -SeqSpace <= 2 * v
      BY DEF v
    <2> QED BY <1>3, <2>1, SignedIs
  <1> HIDE DEF v
  <1>9. Place(base, q) = v
    BY <1>7, <1>8 DEF Place
  <1> QED BY <1>9 DEF v

-----------------------------------------------------------------------------
(* The pieces of a packet with padding in front *)

(* A piece of p with n bytes in front: behind the place of p, its bytes are*)
(* those of p.                                                             *)
PieceOf(base, p, n, q) ==
  /\ q \in Packets /\ q.action # "ACCEPT"
  /\ q.fake = p.fake /\ q.altered = p.altered \ {"cksum"}
  /\ Place(base, p) - n <= Place(base, q)
  /\ Place(base, q) + Len(q.data) <= Place(base, p) + Len(p.data)
  /\ \A y \in 1 .. Len(q.data) : Place(base, q) + y > Place(base, p) =>
       q.data[y] = p.data[Place(base, q) + y - Place(base, p)]

LEMMA PieceOfIs ==
  ASSUME NEW base \in SeqNums, NEW p \in Packets, NEW n \in Nat,
         2 * (Place(base, p) + Len(p.data)) < SeqSpace,
         -SeqSpace <= 2 * (Place(base, p) - n),
         NEW k \in Nat \ {0}, NEW a \in Nat, NEW b \in Nat,
         a <= b, b <= n + Len(p.data),
         NEW d \in Seq(Nat), Len(d) = b - a,
         \A y \in 1 .. b - a : d[y] = Overlapped(p, n)[a + y],
         NEW q, q = Piece(p, k, Start(p, n) + a, d)
  PROVE  /\ PieceOf(base, p, n, q)
         /\ Place(base, q) = Place(base, p) - n + a /\ q.data = d
  <1> DEFINE S == SeqSpace
             l == Len(p.data)
             at == Place(base, p)
             e == p.seq - n
             j == e \div S
  <1>1. /\ S \in Nat \ {0} /\ p.seq \in SeqNums /\ p.data \in Seq(Nat) /\ l \in Nat
        /\ p.seq \in Int /\ e \in Int
    <2>1. p.seq \in SeqNums /\ p.data \in Seq(Nat)
      BY DEF Packets
    <2>2. p.seq \in Int
      BY <2>1, SeqNumsAreInts, Zenon
    <2>3. S \in Nat \ {0}
      BY SeqSpaceAssumption
    <2> QED BY <2>1, <2>2, <2>3
  <1>2. at \in Int
    BY <1>1, PlaceIs
  <1>3. /\ e % S \in Int /\ j \in Int /\ e = j * S + (e % S)
    <2> HIDE DEF e
    <2>1. \A x \in Int : x \div S \in Int /\ x = (x \div S) * S + (x % S)
      BY <1>1, ModSums
    <2>2. \A x \in Int : x % S \in Int
      BY <1>1, ModFacts
    <2> QED BY <1>1, <2>1, <2>2, Zenon
  <1>4. (Start(p, n) + a) % S = (p.seq + (a - n)) % S
    <2> DEFINE st == e % S
               x == e + a
    <2>1. -j \in Int /\ (-j) * S = -(j * S) /\ j * S \in Int
      <3> HIDE DEF j, S, e
      <3>1. 0 * S = 0 /\ (0 - j) * S = 0 * S - j * S /\ j * S \in Int
        BY <1>1, <1>3, Distributes
      <3>2. -j = 0 - j /\ -j \in Int
        BY <1>3
      <3> DEFINE u == j * S
                 v == (0 - j) * S
      <3>3. v = 0 - u /\ u \in Int
        BY <3>1
      <3>4. (-j) * S = v
        BY <3>2
      <3> HIDE DEF u, v
      <3>5. (-j) * S = -u
        BY <3>3, <3>4
      <3> QED BY <3>2, <3>3, <3>5 DEF u
    <2>2. st + a = x + (-j) * S
      <3> DEFINE u == j * S
                 v == (-j) * S
      <3>1. v = -u /\ u \in Int /\ e = u + st /\ st \in Int /\ e \in Int
        BY <1>1, <1>3, <2>1
      <3> HIDE DEF u, v, st, e
      <3>2. st + a = (e + a) + v
        BY <3>1
      <3> QED BY <3>2 DEF v
    <2>3. (x + (-j) * S) % S = x % S
      <3>1. x \in Int
        BY <1>1
      <3> HIDE DEF x, j, S
      <3> QED BY <1>1, <2>1, <3>1, ModShift
    <2>4. x = p.seq + (a - n)
      BY <1>1
    <2>5. Start(p, n) = st
      BY DEF Start
    <2> HIDE DEF x, st, j, S
    <2> QED BY <2>2, <2>3, <2>4, <2>5
  <1>5. /\ q \in Packets /\ q.data = d /\ q.action # "ACCEPT"
        /\ q.seq = (p.seq + (a - n)) % S
        /\ q.fake = p.fake /\ q.altered = p.altered \ {"cksum"}
    <2> DEFINE s == Start(p, n) + a
    <2>1. s \in Int
      <3>1. Start(p, n) = e % S
        BY DEF Start
      <3> HIDE DEF e, S
      <3> QED BY <1>3, <3>1
    <2>2. s % S = (p.seq + (a - n)) % S
      BY <1>4
    <2> HIDE DEF s
    <2>3. q = Piece(p, k, s, d)
      BY DEF s
    <2>4. q \in Packets /\ q.data = d /\ q.action # "ACCEPT"
      BY <2>1, <2>3, PieceIs
    <2>5. q.seq = s % SeqSpace /\ q.fake = p.fake /\ q.altered = p.altered \ {"cksum"}
      BY <2>3 DEF Piece, Checksummed, Packets
    <2> QED BY <2>2, <2>4, <2>5
  <1>6. Place(base, q) = at + (a - n)
    <2>1. a - n \in Int /\ 2 * (at + (a - n)) < SeqSpace /\ -SeqSpace <= 2 * (at + (a - n))
      <3>1. /\ 2 * (at + l) < SeqSpace /\ -SeqSpace <= 2 * (at - n)
            /\ b <= n + l /\ SeqSpace \in Nat
        BY <1>1
      <3>2. at \in Int /\ a \in Nat /\ n \in Nat /\ b \in Nat /\ l \in Nat /\ a <= b
        BY <1>1, <1>2
      <3> HIDE DEF at, l, S
      <3>3. a - n <= l
        BY <3>1, <3>2
      <3>4. 2 * (at + (a - n)) < SeqSpace
        BY <3>1, <3>2, <3>3
      <3>5. -SeqSpace <= 2 * (at + (a - n))
        BY <3>1, <3>2
      <3> QED BY <3>2, <3>4, <3>5
    <2> QED BY <1>1, <1>5, <2>1, PlaceMoves
  <1> HIDE DEF at, l
  <1>7. Place(base, q) = at - n + a /\ Len(q.data) = b - a
    BY SMTT(30), <1>2, <1>5, <1>6
  <1>8. at - n <= Place(base, q) /\ Place(base, q) + Len(q.data) <= at + l
    <2>1. b <= n + l
      BY DEF l
    <2> QED BY SMTT(30), <1>1, <1>2, <1>7, <2>1
  <1>9. \A y \in 1 .. Len(q.data) : Place(base, q) + y > at =>
          q.data[y] = p.data[Place(base, q) + y - at]
    <2> SUFFICES ASSUME NEW y \in 1 .. Len(q.data), Place(base, q) + y > at
                 PROVE  q.data[y] = p.data[Place(base, q) + y - at]
      OBVIOUS
    <2>1. y \in 1 .. b - a /\ a + y > n /\ a + y <= n + l /\ Place(base, q) + y - at = a + y - n
      <3> DEFINE to == Place(base, q)
                 m == Len(q.data)
      <3>1. b <= n + l
        BY DEF l
      <3>2. to = at - n + a /\ m = b - a /\ y \in 1 .. m /\ to + y > at
        BY <1>7
      <3> HIDE DEF to, m
      <3>3. y \in 1 .. b - a /\ a + y > n /\ a + y <= n + l /\ to + y - at = a + y - n
        BY <1>1, <1>2, <3>1, <3>2
      <3> QED BY <3>3 DEF to
    <2>2. q.data[y] = Overlapped(p, n)[a + y]
      BY <1>5, <2>1
    <2>3. Overlapped(p, n)[a + y] = p.data[a + y - n]
      <3> DEFINE pad == Padding(n)
      <3>1. pad \in Seq(Nat) /\ Len(pad) = n
        BY DEF Padding
      <3>2. Overlapped(p, n) = pad \o p.data
        BY DEF Overlapped
      <3> HIDE DEF pad
      <3>3. \A z \in 1 .. n + l : (pad \o p.data)[z] = IF z <= n THEN pad[z] ELSE p.data[z - n]
        <4>1. \A z \in 1 .. Len(pad) + Len(p.data) :
                (pad \o p.data)[z] = IF z <= Len(pad) THEN pad[z] ELSE p.data[z - Len(pad)]
          BY <1>1, <3>1, ConcatProperties
        <4> QED BY <3>1, <4>1 DEF l
      <3> DEFINE z == a + y
      <3>4. z \in 1 .. n + l /\ ~ (z <= n)
        BY <1>1, <2>1
      <3> HIDE DEF z
      <3>5. Overlapped(p, n)[z] = p.data[z - n]
        BY <3>2, <3>3, <3>4
      <3> QED BY <3>5 DEF z
    <2> QED BY <2>1, <2>2, <2>3
  <1>10. PieceOf(base, p, n, q)
    BY <1>5, <1>8, <1>9, Zenon DEF PieceOf, at, l
  <1> QED BY <1>5, <1>7, <1>10 DEF at

(* The packet p with n bytes in front, in pieces. *)
Pieces(base, p, n, pieces) ==
  /\ pieces \in Seq(Packets) /\ Len(pieces) >= 1
  /\ \A k \in 1 .. Len(pieces) : PieceOf(base, p, n, pieces[k])
  /\ Place(base, pieces[1]) = Place(base, p) - n
  /\ \A x \in Int : Place(base, p) < x /\ x <= Place(base, p) + Len(p.data) =>
       \E k \in 1 .. Len(pieces) :
         Place(base, pieces[k]) < x /\ x <= Place(base, pieces[k]) + Len(pieces[k].data)

LEMMA OverlapPieces ==
  ASSUME NEW ps, Sane(ps), NEW at \in DOMAIN ps, NEW n \in Nat, NEW size \in Nat,
         Overlap(ps, at, n, size) # Fault,
         NEW base \in SeqNums,
         2 * (Place(base, ps[at]) + Len(ps[at].data)) < SeqSpace,
         -SeqSpace <= 2 * (Place(base, ps[at]) - n)
  PROVE  \E pieces : /\ Pieces(base, ps[at], n, pieces)
                     /\ Overlap(ps, at, n, size) = Replace(ps, at, pieces)
  <1> DEFINE p == ps[at]
             data == Overlapped(p, n)
             l == n + Len(p.data)
             pieces == IF Segments(p, n, size)
                       THEN Segmentize(data, size, p, Start(p, n))
                       ELSE <<Piece(p, 1, Start(p, n), data)>>
  <1>1. /\ p \in Packets /\ p.data \in Seq(Nat) /\ p.seq \in SeqNums /\ p.seq \in Int
        /\ Len(p.data) \in Nat
    <2>1. p \in Packets /\ p.data \in Seq(Nat) /\ p.seq \in SeqNums
      BY ListOf
    <2> QED BY <2>1, SeqNumsAreInts
  <1>2. Place(base, p) \in Int
    BY <1>1, PlaceIs
  <1>3. Overlap(ps, at, n, size) = Replace(ps, at, pieces) /\ ~ (Segments(p, n, size) /\ size = 0)
    BY DEF Overlap
  <1>4. /\ 2 * (Place(base, p) + Len(p.data)) < SeqSpace
        /\ -SeqSpace <= 2 * (Place(base, p) - n)
    OBVIOUS
  <1> HIDE DEF p
  <1>5. data \in Seq(Nat) /\ Len(data) = l /\ l \in Nat
    <2> DEFINE pad == Padding(n)
    <2>0. data = pad \o p.data
      BY DEF Overlapped
    <2>1. pad \in Seq(Nat) /\ Len(pad) = n
      BY DEF Padding
    <2> HIDE DEF data, pad
    <2>2. data \in Seq(Nat) /\ Len(data) = Len(pad) + Len(p.data)
      BY <1>1, <2>0, <2>1, ConcatProperties
    <2> QED BY <1>1, <2>1, <2>2
  <1>6. Start(p, n) \in Int
    <2>1. p.seq - n \in Int
      BY <1>1
    <2>2. (p.seq - n) % SeqSpace \in SeqNums
      BY <2>1, Sizes
    <2> QED BY <2>2, SeqNumsAreInts DEF Start
  <1>7. Segments(p, n, size) => Len(data) > size /\ size \in Nat \ {0}
    BY <1>3 DEF Segments
  <1>8. \A y \in 1 .. l : data[y] = Overlapped(p, n)[y]
    OBVIOUS
  <1> HIDE DEF data, l
  <1>9. CASE ~ Segments(p, n, size)
    <2> DEFINE only == Piece(p, 1, Start(p, n) + 0, data)
    <2>1. pieces = <<only>>
      BY <1>6, <1>9
    <2>2. PieceOf(base, p, n, only) /\ Place(base, only) = Place(base, p) - n + 0
          /\ only.data = data
      <3>1. /\ 1 \in Nat \ {0} /\ 0 \in Nat /\ 0 <= l /\ Len(data) = l - 0
            /\ l <= n + Len(p.data)
        BY <1>1, <1>5 DEF l
      <3>2. \A y \in 1 .. l - 0 : data[y] = Overlapped(p, n)[0 + y]
        BY <1>5, <1>8
      <3> DEFINE k == 1
                 a == 0
                 b == l
                 q == Piece(p, k, Start(p, n) + a, data)
      <3>3. /\ k \in Nat \ {0} /\ a \in Nat /\ b \in Nat /\ a <= b /\ b <= n + Len(p.data)
            /\ Len(data) = b - a
            /\ \A y \in 1 .. b - a : data[y] = Overlapped(p, n)[a + y]
        BY <1>5, <3>1, <3>2
      <3>4. q = only /\ a = 0
        OBVIOUS
      <3> HIDE DEF k, a, b, only
      <3> HIDE DEF q
      <3>5. q = Piece(p, k, Start(p, n) + a, data)
        BY DEF q
      <3>6. /\ PieceOf(base, p, n, q) /\ Place(base, q) = Place(base, p) - n + a
            /\ q.data = data
        BY <1>1, <1>4, <1>5, <3>3, <3>5, PieceOfIs
      <3> QED BY <3>4, <3>6
    <2> HIDE DEF only, pieces
    <2>3. only \in Packets
      BY <2>2 DEF PieceOf
    <2>4. /\ <<only>> \in Seq(Packets) /\ Len(<<only>>) = 1 /\ <<only>>[1] = only
          /\ 1 .. 1 = {1} /\ 1 >= 1
      BY <2>3
    <2>5. /\ Place(base, only) = Place(base, p) - n
          /\ \A x \in Int : Place(base, p) < x /\ x <= Place(base, p) + Len(p.data) =>
               Place(base, only) < x /\ x <= Place(base, only) + Len(only.data)
      <3>1. Len(only.data) = n + Len(p.data)
        BY <1>5, <2>2 DEF l
      <3> QED BY <1>1, <1>2, <2>2, <3>1
    <2>6. Pieces(base, p, n, <<only>>)
      BY <2>2, <2>4, <2>5 DEF Pieces
    <2> QED BY <1>3, <2>1, <2>6 DEF p
  <1>10. CASE Segments(p, n, size)
    <2> DEFINE m == (l + size - 1) \div size
               from(k) == (k - 1) * size
               upto(k) == Min({k * size, l})
               d(k) == SubSeq(data, from(k) + 1, upto(k))
               piece(k) == Piece(p, k, Start(p, n) + from(k), d(k))
               all == [k \in 1 .. m |-> piece(k)]
    <2>0. size \in Nat \ {0} /\ l > size
      BY <1>5, <1>7, <1>10
    <2>1. /\ m \in Nat
          /\ \A k \in 1 .. m : from(k) \in Nat /\ k * size \in Nat
                               /\ from(k) <= l /\ from(k) <= k * size
          /\ \A z \in 1 .. l : \E k \in 1 .. m : from(k) < z /\ z <= k * size
      BY <1>5, <2>0, SegmentsCover
    <2>2. m >= 1
      <3>1. l + size - 1 \in Nat /\ l + size - 1 >= size
        BY <1>5, <2>0
      <3> QED BY <2>0, <3>1, DivFacts
    <2>3. pieces = all
      BY <1>5, <1>10 DEF Segmentize
    <2>4. \A k \in 1 .. m : /\ upto(k) \in Nat /\ from(k) <= upto(k) /\ upto(k) <= l
                            /\ \A z \in Int : z <= k * size /\ z <= l => z <= upto(k)
      <3> TAKE k \in 1 .. m
      <3> DEFINE x == k * size
                 f == from(k)
      <3>1. x \in Nat /\ l \in Nat /\ f \in Nat /\ f <= l /\ f <= x
        BY <1>5, <2>1
      <3> HIDE DEF x, f
      <3>2. Min({x, l}) \in {x, l} /\ \A z \in {x, l} : Min({x, l}) <= z
        <4>1. \E y \in {x, l} : \A z \in {x, l} : y <= z
          BY <3>1
        <4> QED BY <4>1 DEF Min
      <3> DEFINE u == Min({x, l})
      <3>3. u \in {x, l} /\ u <= x /\ u <= l
        BY <3>2
      <3> HIDE DEF u
      <3>4. u \in Nat /\ f <= u /\ u <= l /\ \A z \in Int : z <= x /\ z <= l => z <= u
        BY <3>1, <3>3
      <3> QED BY <3>4 DEF u, x, f
    <2> HIDE DEF upto, from, m, pieces
    <2>5. \A k \in 1 .. m : /\ PieceOf(base, p, n, piece(k))
                            /\ Place(base, piece(k)) = Place(base, p) - n + from(k)
                            /\ Len(piece(k).data) = upto(k) - from(k)
      <3> TAKE k \in 1 .. m
      <3> DEFINE a == from(k)
                 b == upto(k)
                 e == SubSeq(data, a + 1, b)
                 q == Piece(p, k, Start(p, n) + a, e)
      <3>1. a \in Nat /\ b \in Nat /\ a <= b /\ b <= l /\ b <= Len(data) /\ b <= n + Len(p.data)
        BY <1>5, <2>1, <2>4 DEF l
      <3>2. k \in Nat \ {0}
        BY <2>1
      <3> HIDE DEF a, b
      <3>3. e \in Seq(Nat) /\ Len(e) = b - a /\ \A y \in 1 .. b - a : e[y] = data[a + y]
        BY <1>5, <3>1, Slice
      <3>4. \A y \in 1 .. b - a : e[y] = Overlapped(p, n)[a + y]
        <4>1. \A y \in 1 .. b - a : a + y \in 1 .. l
          BY <1>5, <3>1
        <4> QED BY <1>8, <3>3, <4>1
      <3> HIDE DEF e
      <3>5. /\ PieceOf(base, p, n, q) /\ Place(base, q) = Place(base, p) - n + a
            /\ q.data = e
        BY <1>1, <1>4, <3>1, <3>2, <3>3, <3>4, PieceOfIs
      <3>6. Len(q.data) = b - a
        BY <3>3, <3>5
      <3> HIDE DEF q
      <3>7. q = piece(k)
        BY DEF q, a, b, e
      <3> QED BY <3>5, <3>6, <3>7 DEF a, b
    <2> HIDE DEF piece
    <2>6. /\ all \in Seq(Packets) /\ Len(all) = m /\ \A k \in 1 .. m : all[k] = piece(k)
      <3>1. \A k \in 1 .. m : piece(k) \in Packets
        BY <2>5 DEF PieceOf
      <3> QED BY <2>1, <3>1
    <2> HIDE DEF all
    <2>7. Place(base, all[1]) = Place(base, p) - n
      <3>1. 1 \in 1 .. m
        BY <2>1, <2>2
      <3>2. from(1) = 0
        BY <2>0 DEF from
      <3> QED BY <1>2, <2>5, <2>6, <3>1, <3>2
    <2>8. ASSUME NEW x \in Int, Place(base, p) < x, x <= Place(base, p) + Len(p.data)
          PROVE  \E k \in 1 .. m : /\ Place(base, all[k]) < x
                                   /\ x <= Place(base, all[k]) + Len(all[k].data)
      <3> DEFINE z == x - Place(base, p) + n
      <3>1. z \in 1 .. l /\ z \in Int /\ z <= l
        BY SMTT(30), <1>1, <1>2, <2>8 DEF l
      <3>2. PICK k \in 1 .. m : from(k) < z /\ z <= k * size
        BY <2>1, <3>1
      <3>3. z <= upto(k) /\ upto(k) \in Nat /\ from(k) \in Nat
        BY <2>1, <2>4, <3>1, <3>2
      <3>4. /\ Place(base, all[k]) = Place(base, p) - n + from(k)
            /\ Len(all[k].data) = upto(k) - from(k)
        BY <2>5, <2>6
      <3> DEFINE u == Place(base, all[k])
                 v == Len(all[k].data)
                 w == Place(base, p)
      <3>5. u = w - n + from(k) /\ v = upto(k) - from(k) /\ w \in Int /\ z = x - w + n
        BY <1>2, <3>4
      <3> HIDE DEF u, v, w, z
      <3>6. u < x /\ x <= u + v
        BY <3>2, <3>3, <3>5
      <3> QED BY <3>6 DEF u, v
    <2>9. Pieces(base, p, n, all)
      BY <2>2, <2>5, <2>6, <2>7, <2>8 DEF Pieces
    <2> QED BY <1>3, <2>3, <2>9 DEF p
  <1> QED BY <1>9, <1>10

-----------------------------------------------------------------------------
(* The list holds the stream *)

(* The stream the segments carry, byte by byte, and where it has bytes.    *)
Stream(segs) ==
  [x \in Nat \ {0} |->
     CHOOSE b \in Nat : \E i \in DOMAIN segs : \E y \in DOMAIN segs[i].data :
       Place(segs[1].seq, segs[i]) + y = x /\ segs[i].data[y] = b]
HandedAt(segs, x) ==
  \E j \in DOMAIN segs : Brings(segs[1].seq, FromHeld(segs[j]), x)

(* A packet that counts at the peer: it lies within the window around the  *)
(* stream and its bytes are right from w + 1 on; one with the first byte of*)
(* the stream is right throughout and goes on to w at least.               *)
Counts(segs, lo, hi, w, p) ==
  /\ "cksum" \notin p.altered
  /\ -lo <= Place(segs[1].seq, p) /\ Place(segs[1].seq, p) + Len(p.data) <= hi
  /\ RightFrom(segs[1].seq, Stream(segs), w, p)
  /\ \A x \in Nat \ {0} : Brings(segs[1].seq, p, x) => HandedAt(segs, x)
  /\ Brings(segs[1].seq, p, 1) =>
       /\ RightFrom(segs[1].seq, Stream(segs), 0, p)
       /\ w <= Place(segs[1].seq, p) + Len(p.data)

(* A fake packet does not count at the peer. *)
Muted(p) == p.altered \cap {"ttl", "ts"} # {}

AsWas(segs, p) ==
  /\ ~p.fake
  /\ \E j \in DOMAIN segs :
       segs[j].id = p.id /\ segs[j].seq = p.seq /\ segs[j].data = p.data

(* All bytes of the stream are in the list, and what is still accepted is  *)
(* as it was.                                                              *)
Holds(segs, lo, hi, w, ps) ==
  /\ \A k \in DOMAIN ps :
       /\ ps[k].fake => Muted(ps[k])
       /\ ~ps[k].fake => Counts(segs, lo, hi, w, ps[k])
       /\ ps[k].action = "ACCEPT" => AsWas(segs, ps[k])
  /\ \A x \in Nat \ {0} : HandedAt(segs, x) =>
       \E k \in DOMAIN ps : ~ps[k].fake /\ Brings(segs[1].seq, ps[k], x)

(* The first of the originals starts no later than the stream. *)
FirstLow(segs, ps) ==
  \A k \in DOMAIN ps :
    ~ps[k].fake /\ (\A j \in DOMAIN ps : j < k => ps[j].fake) =>
      Place(segs[1].seq, ps[k]) <= 0

(* The originals in sequence order, the second right behind the first.     *)
InOrder(segs, ps) ==
  /\ \A k \in DOMAIN ps : ~ps[k].fake
  /\ Place(segs[1].seq, ps[1]) = 0
  /\ 2 \in DOMAIN ps => Place(segs[1].seq, ps[2]) = Len(ps[1].data)
  /\ \A j, k \in DOMAIN ps : j < k =>
       Place(segs[1].seq, ps[j]) + Len(ps[j].data) <= Place(segs[1].seq, ps[k])

(* A list made from another: what is not new in it was in the other, each  *)
(* byte that was there is still there.                                     *)
LEMMA HoldsFrom ==
  ASSUME NEW segs, NEW lo, NEW hi, NEW w, NEW lo2, NEW w2, NEW ps, NEW qs,
         Holds(segs, lo, hi, w, ps),
         \A k \in DOMAIN qs :
           /\ qs[k].fake => Muted(qs[k])
           /\ ~qs[k].fake => Counts(segs, lo2, hi, w2, qs[k])
           /\ qs[k].action = "ACCEPT" => \E j \in DOMAIN ps :
                /\ ps[j].action = "ACCEPT" /\ qs[k].fake = ps[j].fake
                /\ qs[k].id = ps[j].id /\ qs[k].seq = ps[j].seq /\ qs[k].data = ps[j].data,
         \A x \in Nat \ {0} : \A j \in DOMAIN ps :
           ~ps[j].fake /\ Brings(segs[1].seq, ps[j], x) =>
             \E k \in DOMAIN qs : ~qs[k].fake /\ Brings(segs[1].seq, qs[k], x)
  PROVE  Holds(segs, lo2, hi, w2, qs)
  <1>1. \A x \in Nat \ {0} : HandedAt(segs, x) =>
          \E k \in DOMAIN qs : ~qs[k].fake /\ Brings(segs[1].seq, qs[k], x)
    <2> TAKE x \in Nat \ {0}
    <2> HAVE HandedAt(segs, x)
    <2>1. PICK j \in DOMAIN ps : ~ps[j].fake /\ Brings(segs[1].seq, ps[j], x)
      BY DEF Holds
    <2> QED BY <2>1
  <1>2. \A k \in DOMAIN qs : qs[k].action = "ACCEPT" => AsWas(segs, qs[k])
    <2> TAKE k \in DOMAIN qs
    <2> HAVE qs[k].action = "ACCEPT"
    <2>1. PICK j \in DOMAIN ps :
            /\ ps[j].action = "ACCEPT" /\ qs[k].fake = ps[j].fake
            /\ qs[k].id = ps[j].id /\ qs[k].seq = ps[j].seq /\ qs[k].data = ps[j].data
      OBVIOUS
    <2>2. AsWas(segs, ps[j])
      BY <2>1 DEF Holds
    <2> QED BY <2>1, <2>2 DEF AsWas
  <1> QED BY <1>1, <1>2 DEF Holds

(* Packets that differ in nothing the peer sees. *)
LEMMA CountsAlike ==
  ASSUME NEW segs, NEW lo, NEW hi, NEW w, NEW p, NEW q,
         Counts(segs, lo, hi, w, p), q.seq = p.seq, q.data = p.data,
         q.fake = p.fake, "cksum" \notin q.altered, ~p.fake
  PROVE  /\ Counts(segs, lo, hi, w, q)
         /\ \A x : Brings(segs[1].seq, q, x) <=> Brings(segs[1].seq, p, x)
  <1> DEFINE base == segs[1].seq
  <1>1. Place(base, q) = Place(base, p)
    BY DEF Place
  <1>2. Reaches(q) /\ Reaches(p)
    BY DEF Reaches, Counts
  <1> HIDE DEF base
  <1>3. \A x : Brings(base, q, x) <=> Brings(base, p, x)
    BY <1>1, <1>2 DEF Brings
  <1>4. \A v : RightFrom(base, Stream(segs), v, p) => RightFrom(base, Stream(segs), v, q)
    BY <1>1 DEF RightFrom
  <1>5. Counts(segs, lo, hi, w, q)
    BY <1>1, <1>3, <1>4 DEF Counts, base
  <1> QED BY <1>3, <1>5 DEF base

(* A reversal of the originals. *)
LEMMA ReverseHolds ==
  ASSUME NEW segs, NEW lo, NEW hi, NEW w, NEW ps, Sane(ps), Holds(segs, lo, hi, w, ps)
  PROVE  Holds(segs, lo, hi, w, ReverseOriginals(ps))
  <1> DEFINE qs == ReverseOriginals(ps)
  <1>1. DOMAIN qs = DOMAIN ps
    BY DEF ReverseOriginals
  <1>2. \A i \in Originals(ps) : Mirror(ps, i) \in DOMAIN ps /\ ~ps[Mirror(ps, i)].fake
    BY MirrorFacts DEF Originals
  <1>3. \A k \in DOMAIN qs : \E j \in DOMAIN ps : qs[k] = ps[j]
    BY <1>2 DEF ReverseOriginals, Originals
  <1>4. \A j \in DOMAIN ps : ~ps[j].fake => \E k \in DOMAIN qs : qs[k] = ps[j]
    <2> TAKE j \in DOMAIN ps
    <2> HAVE ~ps[j].fake
    <2>1. j \in Originals(ps)
      BY DEF Originals
    <2>2. Mirror(ps, j) \in Originals(ps) /\ Mirror(ps, Mirror(ps, j)) = j
      BY <2>1, MirrorFacts
    <2> DEFINE k == Mirror(ps, j)
    <2>3. k \in DOMAIN qs /\ qs[k] = ps[Mirror(ps, k)]
      BY <2>2 DEF ReverseOriginals, Originals
    <2> QED BY <2>2, <2>3
  <1> HIDE DEF qs
  <1>5. \A k \in DOMAIN qs :
          /\ qs[k].fake => Muted(qs[k])
          /\ ~qs[k].fake => Counts(segs, lo, hi, w, qs[k])
          /\ qs[k].action = "ACCEPT" => \E j \in DOMAIN ps :
               /\ ps[j].action = "ACCEPT" /\ qs[k].fake = ps[j].fake
               /\ qs[k].id = ps[j].id /\ qs[k].seq = ps[j].seq /\ qs[k].data = ps[j].data
    <2> TAKE k \in DOMAIN qs
    <2>1. PICK j \in DOMAIN ps : qs[k] = ps[j]
      BY <1>3
    <2> QED BY <2>1 DEF Holds
  <1>6. \A x \in Nat \ {0} : \A j \in DOMAIN ps :
          ~ps[j].fake /\ Brings(segs[1].seq, ps[j], x) =>
            \E k \in DOMAIN qs : ~qs[k].fake /\ Brings(segs[1].seq, qs[k], x)
    <2> TAKE x \in Nat \ {0}
    <2> TAKE j \in DOMAIN ps
    <2> HAVE ~ps[j].fake /\ Brings(segs[1].seq, ps[j], x)
    <2>1. PICK k \in DOMAIN qs : qs[k] = ps[j]
      BY <1>4
    <2> QED BY <2>1
  <1>7. Holds(segs, lo, hi, w, qs)
    BY <1>5, <1>6, HoldsFrom
  <1> QED BY <1>7 DEF qs

(* The header tricks of a sound modifier: TTL and timestamp, set on each   *)
(* packet that is not fake.                                                *)
Dressed(ps, hdr) == [i \in DOMAIN ps |-> IF ps[i].fake THEN ps[i] ELSE SetHeader(ps[i], hdr)]

LEMMA SoundTricks ==
  ASSUME NEW ps, Ok(ps), NEW m \in ModifierArgs, m.seqOff = 0, ~m.badcksum
  PROVE  /\ OnOriginals(ps, LAMBDA p : SetHeader(p, m.hdr)) = Dressed(ps, m.hdr)
         /\ OnOriginals(ps, LAMBDA p : SetHeader(OffsetSeq(p, m.seqOff), m.hdr))
              = Dressed(ps, m.hdr)
         /\ OnOriginals(ps, LAMBDA p : BadChecksum(OffsetSeq(p, m.seqOff), m.badcksum)) = ps
         /\ OnOriginals(ps, LAMBDA p : BadChecksum(p, m.badcksum)) = ps
  <1>1. \A p : OffsetSeq(p, m.seqOff) = p /\ BadChecksum(p, m.badcksum) = p
    BY DEF OffsetSeq, BadChecksum
  <1>2. ps = [i \in DOMAIN ps |-> ps[i]]
    <2>1. ps \in Seq(Packets)
      <3>1. << >> \in Seq(Packets)
        OBVIOUS
      <3> QED BY <3>1, ListOf DEF Ok, Fault
    <2> QED BY <2>1
  <1>3. /\ OnOriginals(ps, LAMBDA p : SetHeader(p, m.hdr)) = Dressed(ps, m.hdr)
        /\ OnOriginals(ps, LAMBDA p : SetHeader(OffsetSeq(p, m.seqOff), m.hdr))
             = Dressed(ps, m.hdr)
    BY <1>1 DEF OnOriginals, Dressed
  <1>4. /\ OnOriginals(ps, LAMBDA p : BadChecksum(OffsetSeq(p, m.seqOff), m.badcksum))
             = [i \in DOMAIN ps |-> ps[i]]
        /\ OnOriginals(ps, LAMBDA p : BadChecksum(p, m.badcksum)) = [i \in DOMAIN ps |-> ps[i]]
    BY <1>1 DEF OnOriginals
  <1> QED BY <1>2, <1>3, <1>4

LEMMA DressedIs ==
  ASSUME NEW ps, Sane(ps), NEW hdr \in SUBSET {"ttl", "ts"}
  PROVE  /\ Sane(Dressed(ps, hdr)) /\ DOMAIN Dressed(ps, hdr) = DOMAIN ps
         /\ \A i \in DOMAIN ps :
              LET p == ps[i]
                  q == Dressed(ps, hdr)[i]
              IN  /\ q.id = p.id /\ q.action = p.action /\ q.seq = p.seq
                  /\ q.data = p.data /\ q.fake = p.fake
                  /\ p.fake => q = p
                  /\ "cksum" \notin p.altered => "cksum" \notin q.altered
  <1> DEFINE qs == Dressed(ps, hdr)
  <1>1. \A i \in DOMAIN ps : ps[i] \in Packets
    BY ListOf
  <1>2. \A i \in DOMAIN ps : qs[i] = IF ps[i].fake THEN ps[i] ELSE SetHeader(ps[i], hdr)
    BY DEF Dressed
  <1>3. DOMAIN qs = DOMAIN ps /\ qs = [i \in DOMAIN ps |-> qs[i]]
    BY DEF Dressed
  <1> HIDE DEF qs
  <1>4. \A p \in Packets : LET q == SetHeader(p, hdr)
                           IN  /\ q \in Packets /\ q.id = p.id /\ q.action = p.action
                               /\ q.seq = p.seq /\ q.data = p.data /\ q.fake = p.fake
                               /\ "cksum" \notin p.altered => "cksum" \notin q.altered
    <2> TAKE p \in Packets
    <2> DEFINE q == SetHeader(p, hdr)
    <2>1. q \in Packets /\ q.id = p.id /\ q.action = p.action
      <3>1. 0 \in Int /\ TRUE \in BOOLEAN
        OBVIOUS
      <3> QED BY <3>1, TricksKeep DEF SameCustody
    <2>2. q.seq = p.seq /\ q.data = p.data /\ q.fake = p.fake
      <3>1. 0 \in Int /\ TRUE \in BOOLEAN
        OBVIOUS
      <3> QED BY <3>1, TricksAlike DEF Alike
    <2>3. "cksum" \notin p.altered => "cksum" \notin q.altered
      <3> DEFINE c == IF "ts" \in hdr THEN Checksummed(p) ELSE p
      <3>1. c \in Packets /\ c.altered \subseteq p.altered
        <4>1. Checksummed(p) \in Packets /\ Checksummed(p).altered \subseteq p.altered
          BY DEF Packets, Checksummed
        <4> QED BY <4>1
      <3>2. q = [c EXCEPT !.altered = c.altered \cup hdr]
        BY DEF SetHeader
      <3> HIDE DEF c, q
      <3>3. q.altered = c.altered \cup hdr
        BY <3>1, <3>2 DEF Packets
      <3>4. "cksum" \notin hdr
        OBVIOUS
      <3> QED BY <3>1, <3>3, <3>4
    <2> QED BY <2>1, <2>2, <2>3
  <1>5. \A i \in DOMAIN ps :
          /\ qs[i] \in Packets
          /\ qs[i].id = ps[i].id /\ qs[i].action = ps[i].action /\ qs[i].seq = ps[i].seq
          /\ qs[i].data = ps[i].data /\ qs[i].fake = ps[i].fake
          /\ ps[i].fake => qs[i] = ps[i]
          /\ "cksum" \notin ps[i].altered => "cksum" \notin qs[i].altered
    BY <1>1, <1>2, <1>4
  <1>6. Sane(qs)
    BY <1>3, <1>5, MapKeeps
  <1> QED BY <1>3, <1>5, <1>6 DEF qs

(* What modifiers rely on, as far as it still is to be relied on. *)
Ready(segs, lo, hi, w, up, calm, ps) ==
  /\ Holds(segs, lo, hi, w, ps)
  /\ up => FirstLow(segs, ps)
  /\ calm => InOrder(segs, ps)

LEMMA DressedReady ==
  ASSUME NEW segs, NEW lo, NEW hi, NEW w, NEW up, NEW calm, NEW ps, Sane(ps),
         Ready(segs, lo, hi, w, up, calm, ps), NEW hdr \in SUBSET {"ttl", "ts"}
  PROVE  Sane(Dressed(ps, hdr)) /\ Ready(segs, lo, hi, w, up, calm, Dressed(ps, hdr))
  <1> DEFINE qs == Dressed(ps, hdr)
  <1>1. /\ Sane(qs) /\ DOMAIN qs = DOMAIN ps
        /\ \A i \in DOMAIN ps :
             /\ qs[i].id = ps[i].id /\ qs[i].action = ps[i].action /\ qs[i].seq = ps[i].seq
             /\ qs[i].data = ps[i].data /\ qs[i].fake = ps[i].fake
             /\ ps[i].fake => qs[i] = ps[i]
             /\ "cksum" \notin ps[i].altered => "cksum" \notin qs[i].altered
    BY DressedIs
  <1> HIDE DEF qs
  <1>2. Holds(segs, lo, hi, w, ps)
    BY DEF Ready
  <1>3. \A i \in DOMAIN ps : ~ps[i].fake =>
          /\ Counts(segs, lo, hi, w, qs[i])
          /\ \A x : Brings(segs[1].seq, qs[i], x) <=> Brings(segs[1].seq, ps[i], x)
    <2> TAKE i \in DOMAIN ps
    <2> HAVE ~ps[i].fake
    <2>1. Counts(segs, lo, hi, w, ps[i])
      BY <1>2 DEF Holds
    <2>2. "cksum" \notin qs[i].altered
      BY <1>1, <2>1 DEF Counts
    <2> QED BY <1>1, <2>1, <2>2, CountsAlike
  <1>4. Holds(segs, lo, hi, w, qs)
    <2>1. \A k \in DOMAIN qs :
            /\ qs[k].fake => Muted(qs[k])
            /\ ~qs[k].fake => Counts(segs, lo, hi, w, qs[k])
            /\ qs[k].action = "ACCEPT" => \E j \in DOMAIN ps :
                 /\ ps[j].action = "ACCEPT" /\ qs[k].fake = ps[j].fake
                 /\ qs[k].id = ps[j].id /\ qs[k].seq = ps[j].seq /\ qs[k].data = ps[j].data
      BY <1>1, <1>2, <1>3 DEF Holds
    <2>2. \A x \in Nat \ {0} : \A j \in DOMAIN ps :
            ~ps[j].fake /\ Brings(segs[1].seq, ps[j], x) =>
              \E k \in DOMAIN qs : ~qs[k].fake /\ Brings(segs[1].seq, qs[k], x)
      BY <1>1, <1>3
    <2> QED BY <1>2, <2>1, <2>2, HoldsFrom
  <1>5. \A i \in DOMAIN ps : Place(segs[1].seq, qs[i]) = Place(segs[1].seq, ps[i])
    BY <1>1 DEF Place
  <1>6. FirstLow(segs, ps) => FirstLow(segs, qs)
    BY <1>1, <1>5 DEF FirstLow
  <1>7. InOrder(segs, ps) => InOrder(segs, qs)
    <2>1. 1 \in DOMAIN ps
      BY ListOf
    <2> QED BY <1>1, <1>5, <2>1 DEF InOrder
  <1>8. Ready(segs, lo, hi, w, up, calm, qs)
    BY <1>4, <1>6, <1>7 DEF Ready
  <1> QED BY <1>1, <1>8 DEF qs

(* The part of a packet from offset a on. *)
PartOf(base, p, a, q) ==
  /\ p \in Packets /\ ~p.fake
  /\ ~q.fake /\ q.altered = p.altered \ {"cksum"}
  /\ Place(base, q) = Place(base, p) + a
  /\ Len(q.data) \in Nat /\ a + Len(q.data) <= Len(p.data)
  /\ \A y \in 1 .. Len(q.data) : q.data[y] = p.data[a + y]

LEMMA PartCounts ==
  ASSUME NEW segs, segs[1].seq \in SeqNums, NEW lo \in Nat, NEW hi \in Nat,
         NEW p, Counts(segs, lo, hi, 0, p), NEW a \in Nat, NEW q,
         PartOf(segs[1].seq, p, a, q)
  PROVE  /\ Counts(segs, lo, hi, 0, q)
         /\ \A x : Brings(segs[1].seq, q, x) <=>
              /\ Place(segs[1].seq, q) < x
              /\ x <= Place(segs[1].seq, q) + Len(q.data)
  <1> DEFINE base == segs[1].seq
             at == Place(base, p)
             to == Place(base, q)
             l == Len(p.data)
             d == Len(q.data)
  <1>0. /\ p \in Packets /\ ~p.fake /\ ~q.fake /\ q.altered = p.altered \ {"cksum"}
        /\ to = at + a /\ d \in Nat /\ a + d <= l
        /\ \A y \in 1 .. d : q.data[y] = p.data[a + y]
    BY DEF PartOf
  <1>1. at \in Int /\ l \in Nat /\ p.data \in Seq(Nat)
    <2>1. p.seq \in SeqNums /\ p.data \in Seq(Nat)
      BY <1>0 DEF Packets
    <2>2. at \in Int
      BY <2>1, PlaceIs
    <2> HIDE DEF at
    <2> QED BY <2>1, <2>2
  <1>2. /\ to = at + a /\ d \in Nat /\ a + d <= l /\ -lo <= at /\ at + l <= hi
        /\ "cksum" \notin p.altered /\ RightFrom(base, Stream(segs), 0, p)
    BY <1>0 DEF Counts
  <1>3. Reaches(p) /\ Reaches(q)
    BY <1>0, <1>2 DEF Reaches
  <1>4. \A x : Brings(base, q, x) <=> to < x /\ x <= to + d
    BY <1>3 DEF Brings
  <1>5. \A x \in Nat \ {0} : Brings(base, q, x) => Brings(base, p, x)
    <2> TAKE x \in Nat \ {0}
    <2> HAVE Brings(base, q, x)
    <2>1. to < x /\ x <= to + d
      BY <1>4
    <2> HIDE DEF to, at, l, d
    <2>2. at < x /\ x <= at + l
      BY <1>1, <1>2, <2>1
    <2> QED BY <1>3, <2>2 DEF Brings, at, l
  <1>6. RightFrom(base, Stream(segs), 0, q)
    <2> SUFFICES ASSUME NEW y \in 1 .. d, to + y > 0
                 PROVE  q.data[y] = Stream(segs)[to + y]
      BY DEF RightFrom
    <2>1. a + y \in 1 .. l /\ at + (a + y) = to + y /\ at + (a + y) > 0
      <3> HIDE DEF to, at, l, d
      <3> QED BY <1>1, <1>2
    <2> DEFINE z == a + y
    <2>2. z \in 1 .. l /\ at + z > 0 /\ at + z = to + y /\ q.data[y] = p.data[z]
      BY <1>0, <2>1
    <2> HIDE DEF z
    <2>3. p.data[z] = Stream(segs)[at + z]
      BY <1>2, <2>2 DEF RightFrom
    <2> QED BY <2>2, <2>3
  <1>7. -lo <= to /\ to + d <= hi
    <2> HIDE DEF to, at, l, d
    <2> QED BY <1>1, <1>2
  <1>8. Brings(base, q, 1) => 0 <= to + d
    <2> HAVE Brings(base, q, 1)
    <2>1. 1 <= to + d /\ to + d \in Int
      BY <1>1, <1>2, <1>4
    <2> HIDE DEF to, d
    <2> QED BY <2>1
  <1>9. \A x \in Nat \ {0} : Brings(base, p, x) => HandedAt(segs, x)
    BY DEF Counts
  <1>10. Counts(segs, lo, hi, 0, q)
    BY <1>0, <1>2, <1>5, <1>6, <1>7, <1>8, <1>9, Zenon DEF Counts, base, to, d
  <1> QED BY <1>4, <1>10 DEF base, to, d

(* A split of a list in which every packet is right throughout. *)
LEMMA SplitReady ==
  ASSUME NEW segs, segs[1].seq \in SeqNums,
         NEW lo \in Nat, 2 * lo <= SeqSpace, NEW hi \in Nat, 2 * hi < SeqSpace,
         NEW up, NEW calm, NEW ps, Sane(ps), Ready(segs, lo, hi, 0, up, calm, ps),
         NEW at \in DOMAIN ps, NEW rel \in 0 .. Len(ps[at].data) - 1
  PROVE  Ready(segs, lo, hi, 0, up, calm, SplitPacket(ps, at, rel))
  <1> DEFINE qs == SplitPacket(ps, at, rel)
             base == segs[1].seq
             p == ps[at]
             left == qs[at]
             right == qs[at + 1]
             n == Len(ps)
             data == p.data
             l == Len(data)
             pl(i) == Place(base, ps[i])
             ql(i) == Place(base, qs[i])
  <1>1. /\ n \in Nat /\ DOMAIN ps = 1 .. n /\ at \in 1 .. n /\ l \in Nat /\ rel \in Nat /\ rel < l
        /\ p \in Packets /\ p.data \in Seq(Nat) /\ p.seq \in SeqNums
        /\ \A i \in 1 .. n : ps[i].seq \in SeqNums /\ Len(ps[i].data) \in Nat
    BY ListOf
  <1>2. /\ Len(qs) = n + 1 /\ DOMAIN qs = 1 .. n + 1
        /\ \A k \in 1 .. n + 1 : /\ k < at => qs[k] = ps[k]
                                 /\ k > at + 1 => qs[k] = ps[k - 1]
        /\ left.seq = p.seq /\ left.fake = p.fake /\ left.action # "ACCEPT"
        /\ Len(left.data) = rel /\ \A y \in 1 .. rel : left.data[y] = data[y]
        /\ right.seq = (p.seq + rel) % SeqSpace /\ right.fake = p.fake
        /\ right.action # "ACCEPT" /\ Len(right.data) = l - rel
        /\ \A y \in 1 .. l - rel : right.data[y] = data[rel + y]
        /\ left.altered = p.altered \ {"cksum"} /\ right.altered = p.altered \ {"cksum"}
    BY SplitFacts
  <1>3. Holds(segs, lo, hi, 0, ps)
    BY DEF Ready
  <1>4. /\ \A i \in 1 .. n : pl(i) \in Int
        /\ base \in SeqNums
    BY <1>1, PlaceIs
  <1> HIDE DEF qs
  <1>5. ql(at) = pl(at)
    BY <1>2 DEF Place
  <1>6. ASSUME ~p.fake
        PROVE  /\ ql(at + 1) = pl(at) + rel
               /\ -lo <= pl(at) /\ pl(at) + l <= hi
               /\ Counts(segs, lo, hi, 0, left) /\ Counts(segs, lo, hi, 0, right)
               /\ \A x : Brings(base, left, x) <=> pl(at) < x /\ x <= pl(at) + rel
               /\ \A x : Brings(base, right, x) <=>
                    pl(at) + rel < x /\ x <= pl(at) + rel + (l - rel)
    <2>1. Counts(segs, lo, hi, 0, p)
      BY <1>1, <1>3, <1>6 DEF Holds
    <2>2. -lo <= pl(at) /\ pl(at) + l <= hi
      BY <2>1 DEF Counts
    <2>3. Place(base, right) = pl(at) + rel
      <3> DEFINE x == pl(at)
      <3>1. x \in Int /\ -lo <= x /\ x + l <= hi
        BY <1>1, <1>4, <2>2
      <3> HIDE DEF x, l
      <3>2. 2 * (x + rel) < SeqSpace /\ -SeqSpace <= 2 * (x + rel)
        <4>1. SeqSpace \in Nat
          BY Sizes
        <4> QED BY <1>1, <3>1, <4>1
      <3>3. 2 * (Place(base, p) + rel) < SeqSpace /\ -SeqSpace <= 2 * (Place(base, p) + rel)
        BY <3>2 DEF x
      <3>4. rel \in Int
        BY <1>1
      <3> QED BY SMTT(30), <1>1, <1>2, <1>4, <3>3, <3>4, PlaceMoves
    <2>4. /\ Counts(segs, lo, hi, 0, left)
          /\ \A x : Brings(base, left, x) <=>
               Place(base, left) < x /\ x <= Place(base, left) + Len(left.data)
      <3> DEFINE a == 0
             x == Place(base, left)
             z == Place(base, p)
             r == Len(left.data)
      <3>0. x = z /\ z \in Int /\ r = rel /\ a = 0
        BY <1>1, <1>2, <1>4, <1>5
      <3>1. /\ a \in Nat /\ ~left.fake /\ left.altered = p.altered \ {"cksum"}
            /\ p \in Packets /\ ~p.fake
        BY <1>1, <1>2, <1>6
      <3>2. \A y \in 1 .. rel : left.data[y] = p.data[a + y]
        BY <1>1, <1>2
      <3> HIDE DEF a, left, p, x, z, r
      <3>3. x = z + a /\ r \in Nat /\ a + r <= l
        BY <1>1, <3>0
      <3>4. /\ Place(base, left) = Place(base, p) + a
            /\ Len(left.data) \in Nat /\ a + Len(left.data) <= Len(p.data)
            /\ \A y \in 1 .. Len(left.data) : left.data[y] = p.data[a + y]
        BY <3>0, <3>2, <3>3 DEF x, z, r
      <3> HIDE DEF l, data, qs
      <3>5. /\ segs[1].seq \in SeqNums /\ lo \in Nat /\ hi \in Nat
            /\ Place(segs[1].seq, left) = Place(segs[1].seq, p) + a
        BY <3>4
      <3>6. PartOf(segs[1].seq, p, a, left)
        BY <3>1, <3>4, <3>5 DEF PartOf
      <3> QED BY <2>1, <3>1, <3>5, <3>6, PartCounts
    <2>5. /\ Counts(segs, lo, hi, 0, right)
          /\ \A x : Brings(base, right, x) <=>
               Place(base, right) < x /\ x <= Place(base, right) + Len(right.data)
      <3>1. /\ Len(right.data) \in Nat /\ rel + Len(right.data) <= Len(p.data)
            /\ \A y \in 1 .. Len(right.data) : right.data[y] = p.data[rel + y]
        BY <1>1, <1>2
      <3>2. /\ rel \in Nat /\ ~right.fake /\ right.altered = p.altered \ {"cksum"}
            /\ p \in Packets /\ ~p.fake
        BY <1>1, <1>2, <1>6
      <3> HIDE DEF right, p
      <3> HIDE DEF l, data, qs
      <3>3. /\ segs[1].seq \in SeqNums /\ lo \in Nat /\ hi \in Nat
            /\ Place(segs[1].seq, right) = Place(segs[1].seq, p) + rel
        BY <2>3 DEF p
      <3>4. PartOf(segs[1].seq, p, rel, right)
        BY <3>1, <3>2, <3>3 DEF PartOf
      <3> QED BY <2>1, <3>2, <3>3, <3>4, PartCounts
    <2>6. Place(base, left) = pl(at) /\ Len(left.data) = rel /\ Len(right.data) = l - rel
      BY <1>2, <1>5
    <2> QED BY <2>2, <2>3, <2>4, <2>5, <2>6
  <1>7. \A k \in 1 .. n + 1 :
          k = at \/ k = at + 1 \/ (k < at /\ k \in 1 .. n) \/ (k > at + 1 /\ k - 1 \in 1 .. n)
    BY <1>1
  <1>8. \A j \in 1 .. n : /\ j < at => j \in 1 .. n + 1
                          /\ j > at => j + 1 \in 1 .. n + 1 /\ j + 1 > at + 1 /\ (j + 1) - 1 = j
                          /\ j < at \/ j = at \/ j > at
    BY <1>1
  <1>9. at \in 1 .. n + 1 /\ at + 1 \in 1 .. n + 1
    BY SMTT(30), <1>1
  <1>10. Holds(segs, lo, hi, 0, qs)
    <2>1. \A k \in DOMAIN qs :
            /\ qs[k].fake => Muted(qs[k])
            /\ ~qs[k].fake => Counts(segs, lo, hi, 0, qs[k])
            /\ qs[k].action = "ACCEPT" => \E j \in DOMAIN ps :
                 /\ ps[j].action = "ACCEPT" /\ qs[k].fake = ps[j].fake
                 /\ qs[k].id = ps[j].id /\ qs[k].seq = ps[j].seq /\ qs[k].data = ps[j].data
      <3> TAKE k \in DOMAIN qs
      <3>1. CASE k = at \/ k = at + 1
        <4>1. p.fake => Muted(left) /\ Muted(right)
          BY <1>1, <1>2, <1>3 DEF Muted, Holds
        <4> QED BY <1>2, <1>6, <3>1, <4>1
      <3>2. CASE ~ (k = at \/ k = at + 1)
        <4>0. k \in 1 .. n + 1
          BY <1>2
        <4> HIDE DEF n
        <4>1. \E j \in 1 .. n : qs[k] = ps[j]
          BY <1>2, <1>7, <3>2, <4>0
        <4>2. PICK j \in DOMAIN ps : qs[k] = ps[j]
          BY <1>1, <4>1
        <4> QED BY <1>3, <4>2 DEF Holds
      <3> QED BY <3>1, <3>2
    <2>2. \A x \in Nat \ {0} : \A j \in DOMAIN ps :
            ~ps[j].fake /\ Brings(base, ps[j], x) =>
              \E k \in DOMAIN qs : ~qs[k].fake /\ Brings(base, qs[k], x)
      <3> TAKE x \in Nat \ {0}
      <3> TAKE j \in DOMAIN ps
      <3> HAVE ~ps[j].fake /\ Brings(base, ps[j], x)
      <3>1. CASE j = at
        <4>1. pl(at) < x /\ x <= pl(at) + l
          BY <3>1 DEF Brings
        <4> DEFINE y == pl(at)
        <4>2. y \in Int /\ y < x /\ x <= y + l
          BY <1>1, <1>4, <4>1
        <4> HIDE DEF y, l
        <4>3. (y < x /\ x <= y + rel) \/ (y + rel < x /\ x <= y + rel + (l - rel))
          BY <1>1, <4>2
        <4>4. Brings(base, left, x) \/ Brings(base, right, x)
          BY <1>6, <3>1, <4>3 DEF y
        <4> QED BY <1>2, <1>9, <3>1, <4>4
      <3>2. CASE j # at
        <4>0. j \in 1 .. n
          BY <1>1
        <4> HIDE DEF n
        <4>1. CASE j < at
          BY <1>2, <1>8, <4>0, <4>1
        <4>2. CASE j > at
          <5> DEFINE k == j + 1
          <5>1. k \in 1 .. n + 1 /\ k > at + 1 /\ k - 1 = j
            BY <1>8, <4>0, <4>2
          <5> HIDE DEF k
          <5>2. k \in DOMAIN qs /\ qs[k] = ps[j]
            BY <1>2, <5>1
          <5> QED BY <5>2
        <4> QED BY <1>8, <3>2, <4>0, <4>1, <4>2
      <3> QED BY <3>1, <3>2
    <2> QED BY <1>3, <2>1, <2>2, HoldsFrom DEF base
  <1>11. FirstLow(segs, ps) => FirstLow(segs, qs)
    <2> SUFFICES ASSUME FirstLow(segs, ps) PROVE FirstLow(segs, qs)
      OBVIOUS
    <2>0. \A k \in 1 .. n : ~ps[k].fake /\ (\A j \in 1 .. n : j < k => ps[j].fake) =>
            pl(k) <= 0
      BY <1>1 DEF FirstLow
    <2> SUFFICES ASSUME NEW k \in 1 .. n + 1, ~qs[k].fake,
                        \A j \in 1 .. n + 1 : j < k => qs[j].fake
                 PROVE  ql(k) <= 0
      BY <1>2 DEF FirstLow
    <2>6. /\ \A m \in 1 .. n + 1 : m < at => ql(m) = pl(m)
          /\ \A m \in 1 .. n + 1 : m > at + 1 => ql(m) = pl(m - 1)
          /\ left.fake = ps[at].fake
      BY <1>2
    <2> HIDE DEF n, pl, ql, p, l, data, right
    <2>1. CASE k < at
      <3>1. k \in 1 .. n /\ qs[k] = ps[k]
        BY <1>1, <1>2, <1>7, <2>1
      <3>2. \A j \in 1 .. n : j < k => ps[j].fake
        <4> TAKE j \in 1 .. n
        <4> HAVE j < k
        <4>1. j < at /\ j \in 1 .. n + 1
          BY <1>1, <2>1, <3>1
        <4> QED BY <1>2, <4>1
      <3> QED BY <2>0, <2>1, <2>6, <3>1, <3>2
    <2>2. CASE k = at
      <3>1. \A j \in 1 .. n : j < at => ps[j].fake
        BY <1>2, <1>8, <2>2
      <3> QED BY <1>1, <1>2, <1>5, <2>0, <2>2, <2>6, <3>1
    <2>3. CASE k = at + 1
      <3>1. at \in 1 .. n + 1 /\ at < k
        BY <1>1, <1>9, <2>3
      <3>2. left.fake
        BY <3>1
      <3>3. right.fake
        BY <1>2, <3>2
      <3> QED BY <2>3, <3>3 DEF right
    <2>4. CASE k > at + 1
      <3>1. k - 1 \in 1 .. n /\ qs[k] = ps[k - 1]
        BY <1>1, <1>2, <1>7, <2>4
      <3>2. \A j \in 1 .. n : j < k - 1 => ps[j].fake
        <4> TAKE j \in 1 .. n
        <4> HAVE j < k - 1
        <4>1. k \in Int /\ j \in Int /\ at \in Int
          BY <1>1
        <4>2. CASE j < at
          <5>1. j \in 1 .. n + 1 /\ j < k
            BY <1>1, <2>4, <4>1, <4>2
          <5> QED BY <1>2, <4>2, <5>1
        <4>3. CASE j = at
          <5>1. at < k
            BY <1>1, <2>4, <4>1
          <5> QED BY <1>2, <1>9, <2>6, <4>3, <5>1
        <4>4. CASE j > at
          <5>1. j + 1 \in 1 .. n + 1 /\ j + 1 > at + 1 /\ (j + 1) - 1 = j /\ j + 1 < k
            BY SMTT(30), <1>1, <4>1, <4>4
          <5> QED BY <1>2, <5>1
        <4> QED BY <4>1, <4>2, <4>3, <4>4
      <3> QED BY <2>0, <2>4, <2>6, <3>1, <3>2
    <2>5. k < at \/ k = at \/ k = at + 1 \/ k > at + 1
      BY SMTT(30), <1>1
    <2> QED BY <2>1, <2>2, <2>3, <2>4, <2>5
  <1>12. InOrder(segs, ps) => InOrder(segs, qs)
    <2> SUFFICES ASSUME InOrder(segs, ps) PROVE InOrder(segs, qs)
      OBVIOUS
    <2>1. /\ \A k \in 1 .. n : ~ps[k].fake
          /\ pl(1) = 0
          /\ 2 \in 1 .. n => pl(2) = Len(ps[1].data)
          /\ \A j, k \in 1 .. n : j < k => pl(j) + Len(ps[j].data) <= pl(k)
      BY <1>1 DEF InOrder
    <2>2. ql(at + 1) = pl(at) + rel
      BY <1>1, <1>6, <2>1
    <2>3. /\ \A k \in 1 .. n + 1 : k < at => ql(k) = pl(k) /\ Len(qs[k].data) = Len(ps[k].data)
          /\ \A k \in 1 .. n + 1 : k > at + 1 =>
               ql(k) = pl(k - 1) /\ Len(qs[k].data) = Len(ps[k - 1].data)
          /\ ql(at) = pl(at) /\ Len(qs[at].data) = rel
          /\ Len(qs[at + 1].data) = l - rel
      BY <1>2, <1>5
    <2>4. \A k \in 1 .. n + 1 : ~qs[k].fake
      <3> TAKE k \in 1 .. n + 1
      <3> QED BY <1>1, <1>2, <1>7, <2>1
    <2> DEFINE pd(i) == Len(ps[i].data)
               qd(i) == Len(qs[i].data)
    <2>5. /\ \A i \in 1 .. n : pl(i) \in Int /\ pd(i) \in Nat
          /\ pd(at) = l
          /\ \A j, k \in 1 .. n : j < k => pl(j) + pd(j) <= pl(k)
          /\ pl(1) = 0 /\ (2 \in 1 .. n => pl(2) = pd(1))
          /\ \A k \in 1 .. n + 1 : k < at => ql(k) = pl(k) /\ qd(k) = pd(k)
          /\ \A k \in 1 .. n + 1 : k > at + 1 => ql(k) = pl(k - 1) /\ qd(k) = pd(k - 1)
          /\ ql(at) = pl(at) /\ qd(at) = rel /\ ql(at + 1) = pl(at) + rel /\ qd(at + 1) = l - rel
      BY <1>1, <1>4, <2>1, <2>2, <2>3
    <2> HIDE DEF pl, ql, pd, qd, l, n, p, data, left, right
    <2>6. ql(1) = 0
      <3>1. CASE at = 1
        BY <2>5, <3>1
      <3>2. CASE at # 1
        <4>1. 1 < at /\ 1 \in 1 .. n + 1
          BY <1>1, <3>2
        <4> QED BY <2>5, <4>1
      <3> QED BY <3>1, <3>2
    <2>7. ql(2) = qd(1)
      <3>1. CASE at = 1
        <4>1. at + 1 = 2
          BY <3>1
        <4>2. ql(2) = pl(1) + rel /\ qd(1) = rel
          BY <2>5, <3>1, <4>1
        <4> QED BY <1>1, <2>5, <4>2
      <3>2. CASE at = 2
        <4>1. 1 < at /\ 1 \in 1 .. n + 1 /\ 2 \in 1 .. n
          BY <1>1, <3>2
        <4>2. ql(2) = pl(2) /\ qd(1) = pd(1)
          BY <2>5, <3>2, <4>1
        <4> QED BY <2>5, <4>1, <4>2
      <3>3. CASE at # 1 /\ at # 2
        <4>1. 1 < at /\ 2 < at /\ 1 \in 1 .. n + 1 /\ 2 \in 1 .. n /\ 2 \in 1 .. n + 1
          BY <1>1, <3>3
        <4> QED BY <2>5, <4>1
      <3> QED BY <3>1, <3>2, <3>3
    <2>8. \A j, k \in 1 .. n + 1 : j < k => ql(j) + qd(j) <= ql(k)
      <3> TAKE j, k \in 1 .. n + 1
      <3> HAVE j < k
      <3>0. /\ j < at \/ j = at \/ j = at + 1 \/ j > at + 1
            /\ k < at \/ k = at \/ k = at + 1 \/ k > at + 1
        BY SMTT(30), <1>1
      <3>1. CASE j < at
        <4>1. ql(j) = pl(j) /\ qd(j) = pd(j) /\ j \in 1 .. n
          BY <1>1, <2>5, <3>1
        <4>2. CASE k < at
          <5>1. ql(k) = pl(k) /\ k \in 1 .. n
            BY <1>1, <2>5, <4>2
          <5> QED BY <2>5, <4>1, <5>1
        <4>3. CASE k = at
          BY <1>1, <2>5, <3>1, <4>1, <4>3
        <4>4. CASE k = at + 1
          <5>1. pl(j) + pd(j) <= pl(at)
            BY <1>1, <2>5, <3>1, <4>1
          <5>2. pl(j) + pd(j) <= pl(at) + rel
            <6>1. pl(j) + pd(j) \in Int /\ pl(at) \in Int
              BY SMTT(30), <1>1, <2>5, <4>1
            <6> QED BY <1>1, <5>1, <6>1
          <5> QED BY <2>5, <4>1, <4>4, <5>2
        <4>5. CASE k > at + 1
          <5>1. k - 1 \in 1 .. n /\ j < k - 1
            BY <1>1, <3>1, <4>5
          <5>2. ql(k) = pl(k - 1)
            BY <2>5, <4>5
          <5> QED BY <2>5, <4>1, <5>1, <5>2
        <4> QED BY <3>0, <4>2, <4>3, <4>4, <4>5
      <3>2. CASE j = at
        <4>1. ql(j) + qd(j) = pl(at) + rel /\ pl(at) \in Int
          BY <1>1, <2>5, <3>2
        <4>2. CASE k = at + 1
          BY <1>1, <2>5, <4>1, <4>2
        <4>3. CASE k > at + 1
          <5>1. k - 1 \in 1 .. n /\ at < k - 1
            BY SMTT(30), <1>1, <4>3
          <5>3. ql(k) = pl(k - 1)
            BY <2>5, <4>3
          <5>2. pl(at) + l <= pl(k - 1) /\ pl(k - 1) \in Int
            BY <1>1, <2>5, <5>1
          <5> QED BY SMTT(30), <1>1, <4>1, <5>1, <5>2, <5>3
        <4>4. k = at + 1 \/ k > at + 1
          BY <1>1, <3>2
        <4> QED BY <4>2, <4>3, <4>4
      <3>3. CASE j = at + 1
        <4>1. k > at + 1
          BY <1>1, <3>3
        <4>2. ql(k) = pl(k - 1) /\ k - 1 \in 1 .. n /\ at < k - 1
          BY <1>1, <2>5, <4>1
        <4>3. pl(at) + l <= pl(k - 1) /\ pl(k - 1) \in Int /\ pl(at) \in Int
          BY <1>1, <2>5, <4>2
        <4>4. ql(j) + qd(j) = pl(at) + rel + (l - rel)
          BY <2>5, <3>3
        <4> QED BY <1>1, <4>2, <4>3, <4>4
      <3>4. CASE j > at + 1
        <4>1. /\ k > at + 1 /\ j - 1 \in 1 .. n /\ k - 1 \in 1 .. n /\ j - 1 < k - 1
          BY SMTT(30), <1>1, <3>4
        <4>2. ql(j) = pl(j - 1) /\ qd(j) = pd(j - 1) /\ ql(k) = pl(k - 1)
          BY <2>5, <3>4, <4>1
        <4> QED BY <2>5, <4>1, <4>2
      <3> QED BY <3>0, <3>1, <3>2, <3>3, <3>4
    <2> QED BY <1>2, <2>4, <2>6, <2>7, <2>8 DEF InOrder, ql, qd
  <1>13. Ready(segs, lo, hi, 0, up, calm, qs)
    BY <1>10, <1>11, <1>12 DEF Ready
  <1> QED BY <1>13 DEF qs

(* All of the splits leave a list that is ready; and none leaves any as it *)
(* is.                                                                     *)
LEMMA SplitAllReady ==
  ASSUME found \in Findings, NEW segs, segs[1].seq \in SeqNums,
         NEW lo \in Nat, 2 * lo <= SeqSpace, NEW hi \in Nat, 2 * hi < SeqSpace,
         NEW w, NEW up, NEW calm, NEW ps, Sane(ps), Ready(segs, lo, hi, w, up, calm, ps),
         NEW splits \in Seq(Position), w = 0 \/ splits = << >>, SplitAll(ps, splits) # Fault
  PROVE  /\ Sane(SplitAll(ps, splits))
         /\ Ready(segs, lo, hi, w, up, calm, SplitAll(ps, splits))
  <1> DEFINE n == Len(splits)
             Fine(qs) == Sane(qs) /\ Ready(segs, lo, hi, w, up, calm, qs)
  <1>1. n \in Nat /\ \A k \in 1 .. n : splits[k] \in Position
    OBVIOUS
  <1>0. \E f : Steps(f, ps, splits)
    BY SplitAllSteps
  <1>2. PICK f : /\ f[0] = ps
                 /\ \A k \in 1 .. n : f[k] = Split(f[k - 1], splits[k])
                 /\ SplitAll(ps, splits) = f[n]
    BY <1>0 DEF Steps
  <1>3. Fine(ps)
    OBVIOUS
  <1>4. CASE splits = << >>
    <2>1. n = 0
      BY <1>4
    <2> HIDE DEF Fine
    <2>2. Fine(SplitAll(ps, splits))
      BY <1>2, <1>3, <2>1
    <2> QED BY <2>2 DEF Fine
  <1>5. CASE w = 0
    <2> DEFINE Good == {k \in 0 .. n : f[k] = Fault \/ Fine(f[k])}
    <2>1. 0 \in Good
      <3>1. 0 \in 0 .. n
        BY <1>1
      <3> HIDE DEF Fine
      <3> QED BY <1>2, <1>3, <3>1
    <2>2. \A k \in 0 .. n : k \in Good /\ k + 1 <= n => k + 1 \in Good
      <3> SUFFICES ASSUME NEW k \in 0 .. n, k \in Good, k + 1 <= n PROVE k + 1 \in Good
        OBVIOUS
      <3> DEFINE qs == f[k]
                 rs == f[k + 1]
      <3>1. k + 1 \in 1 .. n /\ (k + 1) - 1 = k /\ k + 1 \in 0 .. n
        BY <1>1
      <3>2. rs = Split(qs, splits[k + 1]) /\ splits[k + 1] \in Position
        BY <1>1, <1>2, <3>1
      <3>3. qs = Fault \/ Fine(qs)
        OBVIOUS
      <3>4. rs = Fault \/ Fine(rs)
        <4> SUFFICES ASSUME rs # Fault PROVE Fine(rs)
          OBVIOUS
        <4> HIDE DEF qs, rs
        <4>1. qs # Fault
          BY <3>2, SplitOfFault
        <4>2. Sane(qs) /\ Ready(segs, lo, hi, 0, up, calm, qs)
          BY <1>5, <3>3, <4>1
        <4> DEFINE pos == SplitPos(found.markers, splits[k + 1])
                   hit == FindPacketByOffset(qs, pos)
        <4>3. pos \in Nat
          BY <3>2, SplitPosIsNat
        <4> HIDE DEF pos
        <4>4. hit # NotFound /\ rs = SplitPacket(qs, hit.at, hit.rel)
          BY <3>2 DEF Split, pos
        <4>5. hit.at \in DOMAIN qs /\ hit.rel \in 0 .. Len(qs[hit.at].data) - 1
          BY <4>2, <4>3, <4>4, HitIsInside
        <4> HIDE DEF hit
        <4>6. Sane(rs)
          BY <4>2, <4>4, <4>5, SplitPacketKeeps
        <4>7. Ready(segs, lo, hi, 0, up, calm, rs)
          BY <4>2, <4>4, <4>5, SplitReady
        <4> QED BY <1>5, <4>6, <4>7
      <3> HIDE DEF Fine
      <3> QED BY <3>1, <3>4
    <2>3. n \in Good
      <3>1. n \in 0 .. n /\ 0 \in Nat
        BY <1>1
      <3> HIDE DEF Good
      <3> QED BY <1>1, <2>1, <2>2, <3>1, Climb
    <2> HIDE DEF Fine
    <2>4. Fine(SplitAll(ps, splits))
      BY <1>2, <2>3
    <2> QED BY <2>4 DEF Fine
  <1> QED BY <1>4, <1>5

(* Padding in front of a packet hurts none of the bytes from w + 1 on, if  *)
(* it is over the bytes up to w and the first w bytes come with another.   *)
PadsUnder(segs, lo, w, n, ps, at) ==
  /\ Place(segs[1].seq, ps[at]) <= w /\ -lo <= Place(segs[1].seq, ps[at]) - n
  /\ \A x \in 1 .. w : HandedAt(segs, x)
  /\ w = 0 \/ Place(segs[1].seq, ps[at]) - n >= 1
  /\ \A k \in DOMAIN ps : k # at /\ ~ps[k].fake /\ Brings(segs[1].seq, ps[k], 1) =>
       w <= Place(segs[1].seq, ps[k]) + Len(ps[k].data)

LEMMA PieceCounts ==
  ASSUME NEW segs, segs[1].seq \in SeqNums, NEW lo \in Nat, NEW lo2 \in Nat, NEW hi \in Nat,
         NEW n \in Nat, NEW w \in Nat, NEW ps, Sane(ps), NEW at \in DOMAIN ps,
         Counts(segs, lo, hi, 0, ps[at]), ~ps[at].fake, PadsUnder(segs, lo2, w, n, ps, at),
         NEW q, PieceOf(segs[1].seq, ps[at], n, q)
  PROVE  /\ Counts(segs, lo2, hi, w, q)
         /\ \A x : Brings(segs[1].seq, q, x) <=>
              /\ Place(segs[1].seq, q) < x
              /\ x <= Place(segs[1].seq, q) + Len(q.data)
  <1> DEFINE base == segs[1].seq
             p == ps[at]
             pl == Place(base, p)
             ql == Place(base, q)
             l == Len(p.data)
             d == Len(q.data)
  <1>1. pl \in Int /\ ql \in Int /\ l \in Nat /\ d \in Nat /\ p.data \in Seq(Nat)
    <2>1. p.seq \in SeqNums /\ p.data \in Seq(Nat)
      BY ListOf
    <2>2. q.seq \in SeqNums /\ q.data \in Seq(Nat)
      BY DEF PieceOf, Packets
    <2>3. pl \in Int /\ ql \in Int
      BY <2>1, <2>2, PlaceIs
    <2> HIDE DEF pl, ql, p
    <2> QED BY <2>1, <2>2, <2>3
  <1>2. /\ q.fake = p.fake /\ q.altered = p.altered \ {"cksum"} /\ ~p.fake
        /\ pl - n <= ql /\ ql + d <= pl + l
        /\ \A y \in 1 .. d : ql + y > pl => q.data[y] = p.data[ql + y - pl]
    BY DEF PieceOf
  <1>3. pl + l <= hi /\ "cksum" \notin p.altered /\ RightFrom(base, Stream(segs), 0, p)
    BY DEF Counts
  <1>4. /\ pl <= w /\ -lo2 <= pl - n /\ (w = 0 \/ pl - n >= 1)
        /\ \A x \in 1 .. w : HandedAt(segs, x)
    BY DEF PadsUnder
  <1>5. Reaches(p) /\ Reaches(q)
    BY <1>2, <1>3 DEF Reaches
  <1>6. \A x : /\ Brings(base, q, x) <=> ql < x /\ x <= ql + d
               /\ Brings(base, p, x) <=> pl < x /\ x <= pl + l
    BY <1>5 DEF Brings
  <1>7. \A x \in Nat \ {0} : Brings(base, p, x) => HandedAt(segs, x)
    BY DEF Counts
  <1>8. RightFrom(base, Stream(segs), w, q)
    <2> SUFFICES ASSUME NEW y \in 1 .. d, ql + y > w
                 PROVE  q.data[y] = Stream(segs)[ql + y]
      BY DEF RightFrom
    <2> DEFINE z == ql + y - pl
    <2> HIDE DEF p, pl, ql, l, d
    <2>1. z \in 1 .. l /\ pl + z = ql + y /\ pl + z > 0 /\ ql + y > pl
      BY <1>1, <1>2, <1>4
    <2>2. q.data[y] = p.data[z]
      BY <1>2, <2>1
    <2> HIDE DEF z
    <2>3. p.data[z] = Stream(segs)[pl + z]
      BY <1>3, <2>1 DEF RightFrom, pl, l
    <2> QED BY <2>1, <2>2, <2>3
  <1>9. \A x \in Nat \ {0} : Brings(base, q, x) => HandedAt(segs, x)
    <2> TAKE x \in Nat \ {0}
    <2> HAVE Brings(base, q, x)
    <2>1. ql < x /\ x <= ql + d
      BY <1>6
    <2> HIDE DEF p, pl, ql, l, d
    <2>2. CASE x <= pl
      <3>1. x \in 1 .. w
        BY <1>1, <1>4, <2>2
      <3> QED BY <1>4, <3>1
    <2>3. CASE ~ (x <= pl)
      <3>1. pl < x /\ x <= pl + l
        BY <1>1, <1>2, <2>1, <2>3
      <3> QED BY <1>6, <1>7, <3>1
    <2> QED BY <2>2, <2>3
  <1>10. Brings(base, q, 1) => RightFrom(base, Stream(segs), 0, q) /\ w <= ql + d
    <2> HAVE Brings(base, q, 1)
    <2>1. ql < 1 /\ 1 <= ql + d
      BY <1>6
    <2>2. w = 0 /\ 0 <= ql + d
      <3> HIDE DEF p, pl, ql, l, d
      <3> QED BY <1>1, <1>2, <1>4, <2>1
    <2> QED BY <1>8, <2>2
  <1>11. -lo2 <= ql /\ ql + d <= hi
    <2> HIDE DEF p, pl, ql, l, d
    <2> QED BY <1>1, <1>2, <1>3, <1>4
  <1>12. "cksum" \notin q.altered
    BY <1>2
  <1>13. Counts(segs, lo2, hi, w, q)
    BY <1>8, <1>9, <1>10, <1>11, <1>12, Zenon DEF Counts, base, ql, d
  <1> QED BY <1>6, <1>13 DEF base, ql, d

(* The other packets are as right as they need to be. *)
LEMMA OthersCount ==
  ASSUME NEW segs, NEW lo \in Nat, NEW lo2 \in Nat, lo <= lo2, NEW hi \in Nat, NEW w \in Nat,
         segs[1].seq \in SeqNums, NEW p \in Packets, Counts(segs, lo, hi, 0, p),
         Brings(segs[1].seq, p, 1) => w <= Place(segs[1].seq, p) + Len(p.data)
  PROVE  Counts(segs, lo2, hi, w, p)
  <1> DEFINE pl == Place(segs[1].seq, p)
  <1>1. pl \in Int /\ Len(p.data) \in Nat
    <2>1. p.seq \in SeqNums /\ p.data \in Seq(Nat)
      BY DEF Packets
    <2>2. pl \in Int
      BY <2>1, PlaceIs
    <2> HIDE DEF pl
    <2> QED BY <2>1, <2>2
  <1>2. RightFrom(segs[1].seq, Stream(segs), 0, p)
    BY DEF Counts
  <1>3. RightFrom(segs[1].seq, Stream(segs), w, p)
    <2> SUFFICES ASSUME NEW y \in 1 .. Len(p.data), pl + y > w
                 PROVE  p.data[y] = Stream(segs)[pl + y]
      BY DEF RightFrom
    <2>1. pl + y > 0
      <3> HIDE DEF pl
      <3> QED BY <1>1
    <2> QED BY <1>2, <2>1 DEF RightFrom
  <1>4. -lo <= pl /\ pl + Len(p.data) <= hi
    BY DEF Counts
  <1>5. -lo2 <= pl
    <2> HIDE DEF pl
    <2> QED BY <1>1, <1>4
  <1> QED BY <1>2, <1>3, <1>4, <1>5 DEF Counts

(* Where the packets are after one gave way to pieces. *)
GaveWay(ps, at, pieces, qs) ==
  /\ \A k \in DOMAIN qs :
       \/ k < at /\ k \in DOMAIN ps /\ qs[k] = ps[k]
       \/ k >= at /\ \E i \in 1 .. Len(pieces) : qs[k] = pieces[i]
       \/ k > at /\ \E j \in DOMAIN ps : j # at /\ qs[k] = ps[j]
  /\ \A j \in DOMAIN ps : j # at => \E k \in DOMAIN qs : qs[k] = ps[j]
  /\ \A i \in 1 .. Len(pieces) : \E k \in DOMAIN qs : qs[k] = pieces[i]
  /\ at \in DOMAIN qs /\ qs[at] = pieces[1]
  /\ \A j \in DOMAIN ps : j < at => j \in DOMAIN qs /\ qs[j] = ps[j]

LEMMA Around ==
  ASSUME NEW ps, Sane(ps), NEW at \in DOMAIN ps, NEW pieces \in Seq(Packets),
         Len(pieces) >= 1, NEW qs, qs = Replace(ps, at, pieces)
  PROVE  GaveWay(ps, at, pieces, qs)
  <1> DEFINE n == Len(ps)
             c == Len(pieces)
  <1>1. /\ ps \in Seq(Packets) /\ n \in Nat /\ DOMAIN ps = 1 .. n /\ at \in 1 .. n
        /\ c \in Nat /\ c >= 1
    BY ListOf
  <1>2. /\ qs \in Seq(Packets) /\ Len(qs) = n - 1 + c
        /\ \A k \in 1 .. n - 1 + c :
             qs[k] = IF k < at THEN ps[k]
                     ELSE IF k < at + c THEN pieces[k - at + 1]
                     ELSE ps[k - c + 1]
    BY <1>1, ReplaceFacts
  <1>3. DOMAIN qs = 1 .. n - 1 + c
    BY <1>2
  <1> HIDE DEF n, c
  <1>4. \A k \in 1 .. n - 1 + c :
          \/ k < at /\ k \in 1 .. n /\ qs[k] = ps[k]
          \/ k >= at /\ \E i \in 1 .. c : qs[k] = pieces[i]
          \/ k > at /\ \E j \in 1 .. n : j # at /\ qs[k] = ps[j]
    <2> TAKE k \in 1 .. n - 1 + c
    <2>1. CASE k < at
      <3>1. k \in 1 .. n
        BY <1>1, <2>1
      <3> QED BY <1>2, <2>1, <3>1
    <2>2. CASE ~ (k < at) /\ k < at + c
      <3>1. k >= at /\ k - at + 1 \in 1 .. c
        BY <1>1, <2>2
      <3> QED BY <1>2, <2>2, <3>1
    <2>3. CASE ~ (k < at) /\ ~ (k < at + c)
      <3>1. k > at /\ k - c + 1 \in 1 .. n /\ k - c + 1 # at
        BY <1>1, <2>3
      <3> QED BY <1>2, <2>3, <3>1
    <2> QED BY <2>1, <2>2, <2>3
  <1>5. \A j \in 1 .. n : j < at => j \in 1 .. n - 1 + c /\ qs[j] = ps[j]
    <2> TAKE j \in 1 .. n
    <2> HAVE j < at
    <2>1. j \in 1 .. n - 1 + c
      BY <1>1
    <2> QED BY <1>2, <2>1
  <1>6. \A j \in 1 .. n : j # at => \E k \in 1 .. n - 1 + c : qs[k] = ps[j]
    <2> TAKE j \in 1 .. n
    <2> HAVE j # at
    <2>1. CASE j < at
      BY <1>5, <2>1
    <2>2. CASE ~ (j < at)
      <3> DEFINE k == j + c - 1
      <3>1. k \in 1 .. n - 1 + c /\ ~ (k < at) /\ ~ (k < at + c) /\ k - c + 1 = j
        BY <1>1, <2>2
      <3> HIDE DEF k
      <3>2. qs[k] = ps[j]
        BY <1>2, <3>1
      <3> QED BY <3>1, <3>2
    <2> QED BY <2>1, <2>2
  <1>7. \A i \in 1 .. c : LET k == at + i - 1 IN k \in 1 .. n - 1 + c /\ qs[k] = pieces[i]
    <2> TAKE i \in 1 .. c
    <2> DEFINE k == at + i - 1
    <2>1. k \in 1 .. n - 1 + c /\ ~ (k < at) /\ k < at + c /\ k - at + 1 = i
      BY <1>1
    <2> HIDE DEF k
    <2>2. k \in 1 .. n - 1 + c /\ qs[k] = pieces[i]
      BY <1>2, <2>1
    <2> QED BY <2>2 DEF k
  <1>8. at \in 1 .. n - 1 + c /\ qs[at] = pieces[1]
    <2>1. 1 \in 1 .. c /\ at + 1 - 1 = at
      BY <1>1
    <2>2. at + 1 - 1 \in 1 .. n - 1 + c /\ qs[at + 1 - 1] = pieces[1]
      BY <1>7, <2>1
    <2> QED BY <2>1, <2>2
  <1>9. \A i \in 1 .. c : \E k \in 1 .. n - 1 + c : qs[k] = pieces[i]
    BY <1>7
  <1>10. c = Len(pieces)
    BY DEF c
  <1>11. \A k \in DOMAIN qs :
           \/ k < at /\ k \in DOMAIN ps /\ qs[k] = ps[k]
           \/ k >= at /\ \E i \in 1 .. Len(pieces) : qs[k] = pieces[i]
           \/ k > at /\ \E j \in DOMAIN ps : j # at /\ qs[k] = ps[j]
    BY <1>1, <1>3, <1>4, <1>10
  <1>12. /\ \A j \in DOMAIN ps : j # at => \E k \in DOMAIN qs : qs[k] = ps[j]
         /\ \A i \in 1 .. Len(pieces) : \E k \in DOMAIN qs : qs[k] = pieces[i]
    BY <1>1, <1>3, <1>6, <1>9, <1>10
  <1>13. /\ at \in DOMAIN qs /\ qs[at] = pieces[1]
         /\ \A j \in DOMAIN ps : j < at => j \in DOMAIN qs /\ qs[j] = ps[j]
    BY <1>1, <1>3, <1>5, <1>8
  <1> QED BY <1>11, <1>12, <1>13, Zenon DEF GaveWay

(* The list after the packet at place `at' was padded with n bytes. *)
Padded(segs, lo, hi, w, n, ps, at, qs) ==
  /\ Sane(qs) /\ Holds(segs, lo, hi, w, qs)
  /\ at \in DOMAIN qs /\ ~qs[at].fake
  /\ Place(segs[1].seq, qs[at]) = Place(segs[1].seq, ps[at]) - n
  /\ \A j \in DOMAIN ps : j < at => j \in DOMAIN qs /\ qs[j] = ps[j]
  /\ \A k \in DOMAIN qs : k < at => k \in DOMAIN ps

LEMMA PadHolds ==
  ASSUME NEW segs, segs[1].seq \in SeqNums,
         NEW lo \in Nat, NEW lo2 \in Nat, lo <= lo2, 2 * lo2 <= SeqSpace,
         NEW hi \in Nat, 2 * hi < SeqSpace, NEW n \in Nat, NEW size \in Nat, NEW w \in Nat,
         NEW ps, Sane(ps), Holds(segs, lo, hi, 0, ps), NEW at \in DOMAIN ps, ~ps[at].fake,
         PadsUnder(segs, lo2, w, n, ps, at), Overlap(ps, at, n, size) # Fault
  PROVE  Padded(segs, lo2, hi, w, n, ps, at, Overlap(ps, at, n, size))
  <1> DEFINE qs == Overlap(ps, at, n, size)
             base == segs[1].seq
             p == ps[at]
  <1>1. Sane(qs)
    BY OverlapKeeps DEF Ok
  <1>2. /\ p \in Packets /\ p.seq \in SeqNums /\ Len(p.data) \in Nat
        /\ \A j \in DOMAIN ps : ps[j] \in Packets
    BY ListOf
  <1>3. /\ \A k \in DOMAIN ps : ~ps[k].fake => Counts(segs, lo, hi, 0, ps[k])
        /\ Counts(segs, lo, hi, 0, p)
    BY DEF Holds
  <1>4. /\ 2 * (Place(base, p) + Len(p.data)) < SeqSpace
        /\ -SeqSpace <= 2 * (Place(base, p) - n)
    <2> DEFINE pl == Place(base, p)
               l == Len(p.data)
    <2>1. pl \in Int
      BY <1>2, PlaceIs
    <2>2. pl + l <= hi /\ -lo2 <= pl - n /\ l \in Nat
      BY <1>2, <1>3 DEF Counts, PadsUnder
    <2>3. SeqSpace \in Nat
      BY Sizes
    <2> HIDE DEF pl, l
    <2>4. 2 * (pl + l) < SeqSpace /\ -SeqSpace <= 2 * (pl - n)
      BY <2>1, <2>2, <2>3
    <2> QED BY <2>4 DEF pl, l
  <1>5. PICK pieces : Pieces(base, p, n, pieces) /\ qs = Replace(ps, at, pieces)
    BY <1>4, OverlapPieces
  <1> HIDE DEF qs
  <1>6. /\ pieces \in Seq(Packets) /\ Len(pieces) >= 1
        /\ \A i \in 1 .. Len(pieces) : PieceOf(base, p, n, pieces[i])
        /\ Place(base, pieces[1]) = Place(base, p) - n
        /\ \A x \in Int : Place(base, p) < x /\ x <= Place(base, p) + Len(p.data) =>
             \E i \in 1 .. Len(pieces) :
               Place(base, pieces[i]) < x /\ x <= Place(base, pieces[i]) + Len(pieces[i].data)
    BY <1>5, Zenon DEF Pieces
  <1>7. \A i \in 1 .. Len(pieces) :
          /\ Counts(segs, lo2, hi, w, pieces[i])
          /\ \A x : Brings(base, pieces[i], x) <=>
               /\ Place(base, pieces[i]) < x
               /\ x <= Place(base, pieces[i]) + Len(pieces[i].data)
          /\ ~pieces[i].fake /\ pieces[i].action # "ACCEPT"
    <2> TAKE i \in 1 .. Len(pieces)
    <2>1. PieceOf(base, p, n, pieces[i])
      BY <1>6
    <2>2. ~pieces[i].fake /\ pieces[i].action # "ACCEPT"
      BY <2>1 DEF PieceOf
    <2> QED BY <1>3, <2>1, <2>2, PieceCounts
  <1>8. \A j \in DOMAIN ps : j # at /\ ~ps[j].fake => Counts(segs, lo2, hi, w, ps[j])
    <2> TAKE j \in DOMAIN ps
    <2> HAVE j # at /\ ~ps[j].fake
    <2>1. Brings(base, ps[j], 1) => w <= Place(base, ps[j]) + Len(ps[j].data)
      BY DEF PadsUnder
    <2>2. Counts(segs, lo, hi, 0, ps[j]) /\ ps[j] \in Packets
      BY <1>2, <1>3
    <2> QED BY <2>1, <2>2, OthersCount
  <1>9. /\ \A k \in DOMAIN qs :
             \/ k < at /\ k \in DOMAIN ps /\ qs[k] = ps[k]
             \/ k >= at /\ \E i \in 1 .. Len(pieces) : qs[k] = pieces[i]
             \/ k > at /\ \E j \in DOMAIN ps : j # at /\ qs[k] = ps[j]
        /\ \A j \in DOMAIN ps : j # at => \E k \in DOMAIN qs : qs[k] = ps[j]
        /\ \A i \in 1 .. Len(pieces) : \E k \in DOMAIN qs : qs[k] = pieces[i]
        /\ at \in DOMAIN qs /\ qs[at] = pieces[1]
        /\ \A j \in DOMAIN ps : j < at => j \in DOMAIN qs /\ qs[j] = ps[j]
    <2>1. GaveWay(ps, at, pieces, qs)
      BY <1>5, <1>6, Around
    <2> QED BY <2>1, Zenon DEF GaveWay
  <1>10. at \in Int /\ DOMAIN qs \in SUBSET Int /\ DOMAIN ps \in SUBSET Int
    BY <1>1, ListOf
  <1>11. Holds(segs, lo2, hi, w, qs)
    <2>1. \A k \in DOMAIN qs :
            /\ qs[k].fake => Muted(qs[k])
            /\ ~qs[k].fake => Counts(segs, lo2, hi, w, qs[k])
            /\ qs[k].action = "ACCEPT" => \E j \in DOMAIN ps :
                 /\ ps[j].action = "ACCEPT" /\ qs[k].fake = ps[j].fake
                 /\ qs[k].id = ps[j].id /\ qs[k].seq = ps[j].seq /\ qs[k].data = ps[j].data
      <3> TAKE k \in DOMAIN qs
      <3>1. CASE \E i \in 1 .. Len(pieces) : qs[k] = pieces[i]
        BY <1>7, <3>1
      <3>2. CASE \E j \in DOMAIN ps : j # at /\ qs[k] = ps[j]
        BY <1>8, <3>2 DEF Holds
      <3>3. k < at => k # at
        BY <1>10
      <3> QED BY <1>9, <3>1, <3>2, <3>3
    <2>2. \A x \in Nat \ {0} : \A j \in DOMAIN ps :
            ~ps[j].fake /\ Brings(base, ps[j], x) =>
              \E k \in DOMAIN qs : ~qs[k].fake /\ Brings(base, qs[k], x)
      <3> TAKE x \in Nat \ {0}
      <3> TAKE j \in DOMAIN ps
      <3> HAVE ~ps[j].fake /\ Brings(base, ps[j], x)
      <3>1. CASE j = at
        <4>1. x \in Int /\ Place(base, p) < x /\ x <= Place(base, p) + Len(p.data)
          BY <3>1 DEF Brings
        <4>2. PICK i \in 1 .. Len(pieces) :
                Place(base, pieces[i]) < x /\ x <= Place(base, pieces[i]) + Len(pieces[i].data)
          BY <1>6, <4>1
        <4>3. Brings(base, pieces[i], x) /\ ~pieces[i].fake
          BY <1>7, <4>2
        <4>4. PICK k \in DOMAIN qs : qs[k] = pieces[i]
          BY <1>9
        <4> QED BY <4>3, <4>4
      <3>2. CASE j # at
        BY <1>9, <3>2
      <3> QED BY <3>1, <3>2
    <2> QED BY <2>1, <2>2, HoldsFrom DEF base
  <1>12. ~qs[at].fake /\ Place(base, qs[at]) = Place(base, p) - n
    <2>1. 1 \in 1 .. Len(pieces)
      <3>1. Len(pieces) \in Nat
        BY <1>6
      <3> QED BY <1>6, <3>1
    <2> QED BY <1>6, <1>7, <1>9, <2>1
  <1>13. \A k \in DOMAIN qs : k < at => k \in DOMAIN ps
    BY SMTT(30), <1>9, <1>10
  <1>14. Padded(segs, lo2, hi, w, n, ps, at, qs)
    BY <1>1, <1>9, <1>11, <1>12, <1>13, Zenon DEF Padded, base, p
  <1> QED BY <1>14 DEF qs

(* Padding in front of the first original, when none was put before it. *)
LEMMA PadFirst ==
  ASSUME NEW segs, segs[1].seq \in SeqNums,
         NEW lo \in Nat, NEW hi \in Nat, 2 * hi < SeqSpace, NEW n \in Nat,
         2 * (lo + n) <= SeqSpace, NEW size \in Nat,
         NEW ps, Sane(ps), Holds(segs, lo, hi, 0, ps), FirstLow(segs, ps),
         Originals(ps) # {}, NEW at, at = Min(Originals(ps)), Overlap(ps, at, n, size) # Fault
  PROVE  LET qs == Overlap(ps, at, n, size)
         IN  Sane(qs) /\ Holds(segs, lo + n, hi, 0, qs) /\ FirstLow(segs, qs)
  <1> DEFINE qs == Overlap(ps, at, n, size)
             base == segs[1].seq
             pl == Place(base, ps[at])
  <1>1. at \in Originals(ps) /\ \A j \in Originals(ps) : at <= j
    <2>1. \E i \in Originals(ps) : \A j \in Originals(ps) : i <= j
      BY OriginalsFinite, LeastElement
    <2> QED BY <2>1 DEF Min
  <1>2. /\ at \in DOMAIN ps /\ ~ps[at].fake /\ at \in Int /\ DOMAIN ps \in SUBSET Int
        /\ ps[at].seq \in SeqNums /\ Len(ps[at].data) \in Nat
    <2>1. at \in DOMAIN ps /\ ~ps[at].fake
      BY <1>1 DEF Originals
    <2> QED BY <2>1, ListOf
  <1>3. \A j \in DOMAIN ps : j < at => ps[j].fake
    <2> TAKE j \in DOMAIN ps
    <2> HAVE j < at
    <2>1. j \notin Originals(ps)
      BY <1>1, <1>2
    <2> QED BY <2>1 DEF Originals
  <1>4. pl \in Int /\ pl <= 0 /\ -lo <= pl
    <2>1. pl \in Int
      BY <1>2, PlaceIs
    <2>2. pl <= 0
      BY <1>2, <1>3 DEF FirstLow
    <2>3. -lo <= pl
      BY <1>2 DEF Holds, Counts
    <2> QED BY <2>1, <2>2, <2>3
  <1>5. PadsUnder(segs, lo + n, 0, n, ps, at)
    <2>1. -(lo + n) <= pl - n
      <3> HIDE DEF pl
      <3> QED BY <1>4
    <2>2. 1 .. 0 = {}
      OBVIOUS
    <2>3. \A k \in DOMAIN ps : Brings(base, ps[k], 1) => 0 <= Place(base, ps[k]) + Len(ps[k].data)
      <3> TAKE k \in DOMAIN ps
      <3> HAVE Brings(base, ps[k], 1)
      <3> DEFINE x == Place(base, ps[k])
                 l == Len(ps[k].data)
      <3>1. x \in Int /\ l \in Nat
        <4>1. ps[k].seq \in SeqNums /\ Len(ps[k].data) \in Nat
          BY ListOf
        <4> QED BY <4>1, PlaceIs
      <3>2. 1 <= x + l
        BY DEF Brings
      <3> HIDE DEF x, l
      <3>3. 0 <= x + l
        BY <3>1, <3>2
      <3> QED BY <3>3 DEF x, l
    <2> QED BY <1>4, <2>1, <2>2, <2>3 DEF PadsUnder
  <1>6. /\ Sane(qs) /\ Holds(segs, lo + n, hi, 0, qs)
        /\ at \in DOMAIN qs /\ ~qs[at].fake
        /\ Place(base, qs[at]) = pl - n
        /\ \A j \in DOMAIN ps : j < at => j \in DOMAIN qs /\ qs[j] = ps[j]
        /\ \A k \in DOMAIN qs : k < at => k \in DOMAIN ps
    <2> DEFINE lo2 == lo + n
               none == 0
    <2>1. /\ lo2 \in Nat /\ lo <= lo2 /\ 2 * lo2 <= SeqSpace /\ none \in Nat
          /\ PadsUnder(segs, lo2, none, n, ps, at)
      BY <1>5
    <2> HIDE DEF lo2, none
    <2>2. Padded(segs, lo2, hi, none, n, ps, at, Overlap(ps, at, n, size))
      BY <1>2, <2>1, PadHolds
    <2>3. Padded(segs, lo + n, hi, 0, n, ps, at, qs)
      BY <2>2 DEF lo2, none
    <2> QED BY <2>3, Zenon DEF Padded, pl, base
  <1> HIDE DEF qs, pl
  <1>7. FirstLow(segs, qs)
    <2> SUFFICES ASSUME NEW k \in DOMAIN qs, ~qs[k].fake,
                        \A j \in DOMAIN qs : j < k => qs[j].fake
                 PROVE  Place(base, qs[k]) <= 0
      BY DEF FirstLow
    <2>1. k \in Int
      BY <1>6, ListOf
    <2>2. ~ (k < at)
      BY <1>3, <1>6
    <2>3. ~ (at < k)
      BY <1>6
    <2>4. k = at
      BY <1>2, <2>1, <2>2, <2>3
    <2>5. Place(base, qs[k]) = pl - n
      BY <1>6, <2>4
    <2> QED BY <1>4, <2>5
  <1> QED BY <1>6, <1>7 DEF qs

(* Padding in front of the second of packets in order, shorter than the    *)
(* first.                                                                  *)
LEMMA PadSecond ==
  ASSUME NEW segs, segs[1].seq \in SeqNums,
         NEW lo \in Nat, 2 * lo <= SeqSpace, NEW hi \in Nat, 2 * hi < SeqSpace,
         NEW n \in Nat, NEW size \in Nat,
         NEW ps, Sane(ps), Holds(segs, lo, hi, 0, ps), InOrder(segs, ps),
         2 \in DOMAIN ps, n < Len(ps[1].data), Overlap(ps, 2, n, size) # Fault
  PROVE  LET qs == Overlap(ps, 2, n, size)
         IN  Sane(qs) /\ Holds(segs, lo, hi, Len(ps[1].data), qs)
  <1> DEFINE base == segs[1].seq
             w == Len(ps[1].data)
             pl(k) == Place(base, ps[k])
  <1>1. /\ 1 \in DOMAIN ps /\ DOMAIN ps \in SUBSET Int
        /\ \A k \in DOMAIN ps : k = 1 \/ k = 2 \/ 2 < k
    <2>1. DOMAIN ps = 1 .. Len(ps) /\ Len(ps) \in Nat
      BY ListOf
    <2> QED BY <2>1
  <1>2. \A k \in DOMAIN ps : pl(k) \in Int /\ Len(ps[k].data) \in Nat
    <2> TAKE k \in DOMAIN ps
    <2>1. ps[k].seq \in SeqNums /\ Len(ps[k].data) \in Nat
      BY ListOf
    <2> QED BY <2>1, PlaceIs
  <1>3. /\ \A k \in DOMAIN ps : ~ps[k].fake
        /\ pl(1) = 0 /\ pl(2) = w
        /\ \A k \in DOMAIN ps : 2 < k => w + Len(ps[2].data) <= pl(k)
    <2>1. /\ \A k \in DOMAIN ps : ~ps[k].fake
          /\ pl(1) = 0 /\ pl(2) = w
      BY DEF InOrder
    <2>2. \A k \in DOMAIN ps : 2 < k => pl(2) + Len(ps[2].data) <= pl(k)
      BY DEF InOrder
    <2> QED BY <2>1, <2>2
  <1>4. w \in Nat /\ n < w /\ Len(ps[2].data) \in Nat
    BY <1>1, <1>2
  <1>5. /\ Reaches(ps[1])
        /\ \A x \in Nat \ {0} : Brings(base, ps[1], x) => HandedAt(segs, x)
    BY <1>1, <1>3 DEF Holds, Counts, Reaches
  <1>6. \A x \in 1 .. w : HandedAt(segs, x)
    <2> TAKE x \in 1 .. w
    <2>1. x \in Nat \ {0} /\ 0 < x /\ x <= 0 + w
      BY <1>4
    <2>2. Brings(base, ps[1], x)
      BY <1>3, <1>5, <2>1 DEF Brings
    <2> QED BY <1>5, <2>1, <2>2
  <1>7. \A k \in DOMAIN ps : k # 2 /\ Brings(base, ps[k], 1) => w <= pl(k) + Len(ps[k].data)
    <2> TAKE k \in DOMAIN ps
    <2> HAVE k # 2 /\ Brings(base, ps[k], 1)
    <2>1. pl(k) < 1
      BY DEF Brings
    <2>2. CASE k = 1
      <3>1. pl(k) + Len(ps[k].data) = 0 + w
        BY <1>3, <2>2
      <3> HIDE DEF pl, w
      <3> QED BY <1>4, <3>1
    <2>3. CASE 2 < k
      <3>1. w + Len(ps[2].data) <= pl(k) /\ pl(k) \in Int
        BY <1>2, <1>3, <2>3
      <3> HIDE DEF pl, w
      <3> QED BY <1>4, <2>1, <3>1
    <2> QED BY <1>1, <2>2, <2>3
  <1>8. PadsUnder(segs, lo, w, n, ps, 2)
    <2> DEFINE x == pl(2)
    <2>1. x = w
      BY <1>3
    <2> HIDE DEF w, x
    <2>2. x <= w /\ -lo <= x - n /\ x - n >= 1
      BY <1>4, <2>1
    <2> QED BY <1>6, <1>7, <2>2 DEF PadsUnder, x
  <1>9. ~ps[2].fake /\ lo <= lo
    BY <1>3
  <1> HIDE DEF w
  <1> DEFINE at == 2
  <1>10. at \in DOMAIN ps /\ ~ps[at].fake /\ PadsUnder(segs, lo, w, n, ps, at)
         /\ Overlap(ps, at, n, size) # Fault
    BY <1>8, <1>9
  <1> HIDE DEF at
  <1>11. Sane(Overlap(ps, at, n, size)) /\ Holds(segs, lo, hi, w, Overlap(ps, at, n, size))
    <2>1. Padded(segs, lo, hi, w, n, ps, at, Overlap(ps, at, n, size))
      BY <1>4, <1>9, <1>10, PadHolds
    <2> QED BY <2>1, Zenon DEF Padded
  <1> QED BY <1>11 DEF at, w

(* The window may be wider. *)
LEMMA WiderReady ==
  ASSUME NEW segs, segs[1].seq \in SeqNums, NEW lo \in Nat, NEW lo2 \in Nat, lo <= lo2,
         NEW hi, NEW w, NEW up, NEW calm, NEW ps, Sane(ps),
         Ready(segs, lo, hi, w, up, calm, ps)
  PROVE  Ready(segs, lo2, hi, w, up, calm, ps)
  <1>1. Holds(segs, lo, hi, w, ps) /\ \A k \in DOMAIN ps : ps[k].seq \in SeqNums
    BY ListOf DEF Ready
  <1>2. \A k \in DOMAIN ps : ~ps[k].fake => Counts(segs, lo2, hi, w, ps[k])
    <2> TAKE k \in DOMAIN ps
    <2> HAVE ~ps[k].fake
    <2> DEFINE pl == Place(segs[1].seq, ps[k])
    <2>1. Counts(segs, lo, hi, w, ps[k]) /\ pl \in Int
      BY <1>1, PlaceIs DEF Holds
    <2>2. -lo <= pl
      BY <2>1 DEF Counts
    <2>3. -lo2 <= pl
      <3> HIDE DEF pl
      <3> QED BY <2>1, <2>2
    <2> QED BY <2>1, <2>3 DEF Counts
  <1>3. Holds(segs, lo2, hi, w, ps)
    BY <1>1, <1>2 DEF Holds
  <1> QED BY <1>3 DEF Ready

(* A fake packet in front of the list. *)
LEMMA FakeIs ==
  ASSUME NEW ps, Sane(ps), NEW m \in ModifierArgs
  PROVE  LET qs == InsertFake(ps, m)
         IN  /\ DOMAIN qs = 1 .. Len(ps) + 1 /\ DOMAIN ps = 1 .. Len(ps) /\ Len(ps) \in Nat
             /\ qs[1].fake /\ qs[1].action = "SEND" /\ m.hdr \subseteq qs[1].altered
             /\ qs[1].data = Blob /\ qs[1].seq = (ps[1].seq + m.seqOff) % SeqSpace
             /\ \A k \in 1 .. Len(ps) : qs[k + 1] = ps[k]
  <1> DEFINE n == Len(ps)
             copy == [Checksummed(ps[1]) EXCEPT !.id = 0, !.action = "SEND", !.data = Blob,
                                                !.fake = TRUE]
             h == SetHeader(copy, m.hdr)
             o == OffsetSeq(h, m.seqOff)
             fake == BadChecksum(o, m.badcksum)
             qs == <<fake>> \o ps
  <1>1. ps \in Seq(Packets) /\ n \in Nat /\ n >= 1 /\ DOMAIN ps = 1 .. n /\ ps[1] \in Packets
    BY ListOf
  <1>2. m.hdr \in SUBSET {"ttl", "ts"} /\ m.seqOff \in Int /\ m.badcksum \in BOOLEAN
    BY DEF ModifierArgs
  <1>3. /\ copy \in Packets /\ copy.action = "SEND" /\ copy.fake
        /\ copy.data = Blob /\ copy.seq = ps[1].seq
    <2>1. Checksummed(ps[1]) \in Packets /\ Checksummed(ps[1]).seq = ps[1].seq
      BY <1>1, ChecksummedIs
    <2>2. Blob \in Seq(Nat)
      BY PipelinesAssumption
    <2> QED BY <2>1, <2>2 DEF Packets
  <1> HIDE DEF copy
  <1>0. h.data = Blob /\ h.seq = ps[1].seq
    BY <1>2, <1>3, TricksAlike DEF Alike
  <1>4. h \in Packets /\ h.action = "SEND" /\ h.fake /\ m.hdr \subseteq h.altered
    <2>1. h \in Packets /\ h.action = "SEND"
      BY <1>2, <1>3, TricksKeep DEF SameCustody
    <2> DEFINE c == IF "ts" \in m.hdr THEN Checksummed(copy) ELSE copy
    <2>2. c \in Packets /\ c.fake
      BY <1>3, ChecksummedIs
    <2>3. h = [c EXCEPT !.altered = c.altered \cup m.hdr]
      BY DEF SetHeader
    <2> HIDE DEF c, h
    <2>4. h.fake = c.fake /\ h.altered = c.altered \cup m.hdr
      BY <2>2, <2>3 DEF Packets
    <2> QED BY <2>1, <2>2, <2>4
  <1> HIDE DEF h
  <1>01. o.data = Blob /\ o.seq = (ps[1].seq + m.seqOff) % SeqSpace
    <2> HIDE DEF o
    <2>1. /\ Alike(h, OffsetSeq(h, m.seqOff))
          /\ OffsetSeq(h, m.seqOff).seq = (h.seq + m.seqOff) % SeqSpace
      BY <1>2, <1>4, TricksAlike, Zenon
    <2> QED BY <1>0, <2>1, Zenon DEF Alike, o
  <1>5. o \in Packets /\ o.action = "SEND" /\ o.fake /\ m.hdr \subseteq o.altered
    <2>1. o \in Packets /\ o.action = "SEND"
      BY <1>2, <1>4, TricksKeep DEF SameCustody
    <2>2. CASE m.seqOff = 0
      BY <1>4, <2>1, <2>2 DEF OffsetSeq
    <2>3. CASE m.seqOff # 0
      <3> DEFINE c == Checksummed(h)
      <3>1. c \in Packets /\ c.fake /\ c.altered = h.altered \ {"cksum"}
        BY <1>4, ChecksummedIs
      <3>2. o = [c EXCEPT !.seq = (c.seq + m.seqOff) % SeqSpace]
        BY <2>3 DEF OffsetSeq
      <3> HIDE DEF c, o
      <3>3. o.fake = c.fake /\ o.altered = c.altered
        BY <3>1, <3>2 DEF Packets
      <3>4. "cksum" \notin m.hdr
        BY <1>2
      <3> QED BY <1>4, <2>1, <3>1, <3>3, <3>4
    <2> QED BY <2>2, <2>3
  <1> HIDE DEF o
  <1>60. fake.data = Blob /\ fake.seq = (ps[1].seq + m.seqOff) % SeqSpace
    BY <1>2, <1>5, <1>01, TricksAlike, Zenon DEF Alike
  <1>6. fake \in Packets /\ fake.action = "SEND" /\ fake.fake /\ m.hdr \subseteq fake.altered
    <2>1. fake \in Packets /\ fake.action = "SEND"
      BY <1>2, <1>5, TricksKeep DEF SameCustody
    <2>2. fake.fake /\ m.hdr \subseteq fake.altered
      BY <1>5 DEF BadChecksum, Packets
    <2> QED BY <2>1, <2>2
  <1> HIDE DEF fake
  <1>7. /\ qs \in Seq(Packets) /\ Len(qs) = n + 1 /\ qs[1] = fake
        /\ \A k \in 1 .. n : qs[k + 1] = ps[k]
    <2>1. <<fake>> \in Seq(Packets) /\ Len(<<fake>>) = 1 /\ <<fake>>[1] = fake
      BY <1>6
    <2>2. /\ qs \in Seq(Packets) /\ Len(qs) = 1 + n
          /\ \A k \in 1 .. 1 + n : qs[k] = IF k <= 1 THEN <<fake>>[k] ELSE ps[k - 1]
      BY <1>1, <2>1, ConcatProperties
    <2> HIDE DEF qs
    <2>3. 1 \in 1 .. 1 + n /\ 1 <= 1
      BY <1>1
    <2>4. \A k \in 1 .. n : k + 1 \in 1 .. 1 + n /\ ~ (k + 1 <= 1) /\ (k + 1) - 1 = k
      BY <1>1
    <2> QED BY <1>1, <2>1, <2>2, <2>3, <2>4
  <1> HIDE DEF qs
  <1>8. DOMAIN qs = 1 .. n + 1
    BY <1>1, <1>7
  <1>9. qs = InsertFake(ps, m)
    BY DEF qs, fake, o, h, copy, InsertFake
  <1> QED BY <1>1, <1>6, <1>60, <1>7, <1>8, <1>9

LEMMA FakeReady ==
  ASSUME NEW segs, NEW lo, NEW hi, NEW w, NEW up, NEW calm, NEW ps, Sane(ps),
         Ready(segs, lo, hi, w, up, calm, ps), NEW m \in ModifierArgs, m.hdr # {}
  PROVE  Ready(segs, lo, hi, w, up, FALSE, InsertFake(ps, m))
  <1> DEFINE qs == InsertFake(ps, m)
             n == Len(ps)
  <1>1. /\ DOMAIN qs = 1 .. n + 1 /\ DOMAIN ps = 1 .. n /\ n \in Nat
        /\ qs[1].fake /\ qs[1].action = "SEND" /\ m.hdr \subseteq qs[1].altered
        /\ \A k \in 1 .. n : qs[k + 1] = ps[k]
    BY FakeIs
  <1>2. Muted(qs[1])
    BY <1>1 DEF Muted, ModifierArgs
  <1> HIDE DEF qs, n
  <1>3. \A k \in DOMAIN qs : k = 1 \/ (k - 1 \in DOMAIN ps /\ qs[k] = ps[k - 1])
    <2> TAKE k \in DOMAIN qs
    <2>1. k = 1 \/ (k - 1 \in 1 .. n /\ (k - 1) + 1 = k)
      BY <1>1
    <2> QED BY <1>1, <2>1
  <1>4. \A j \in DOMAIN ps : j + 1 \in DOMAIN qs /\ qs[j + 1] = ps[j]
    BY <1>1
  <1>5. Holds(segs, lo, hi, w, ps)
    BY DEF Ready
  <1>6. Holds(segs, lo, hi, w, qs)
    <2>1. \A k \in DOMAIN qs :
            /\ qs[k].fake => Muted(qs[k])
            /\ ~qs[k].fake => Counts(segs, lo, hi, w, qs[k])
            /\ qs[k].action = "ACCEPT" => AsWas(segs, qs[k])
      <3> TAKE k \in DOMAIN qs
      <3>1. CASE k = 1
        BY <1>1, <1>2, <3>1
      <3>2. CASE k - 1 \in DOMAIN ps /\ qs[k] = ps[k - 1]
        BY <1>5, <3>2 DEF Holds
      <3> QED BY <1>3, <3>1, <3>2
    <2>2. \A x \in Nat \ {0} : HandedAt(segs, x) =>
            \E k \in DOMAIN qs : ~qs[k].fake /\ Brings(segs[1].seq, qs[k], x)
      <3> TAKE x \in Nat \ {0}
      <3> HAVE HandedAt(segs, x)
      <3>1. PICK j \in DOMAIN ps : ~ps[j].fake /\ Brings(segs[1].seq, ps[j], x)
        BY <1>5 DEF Holds
      <3> QED BY <1>4, <3>1
    <2> QED BY <2>1, <2>2 DEF Holds
  <1>7. up => FirstLow(segs, qs)
    <2> SUFFICES ASSUME up, NEW k \in DOMAIN qs, ~qs[k].fake,
                        \A j \in DOMAIN qs : j < k => qs[j].fake
                 PROVE  Place(segs[1].seq, qs[k]) <= 0
      BY DEF FirstLow
    <2>1. k - 1 \in DOMAIN ps /\ qs[k] = ps[k - 1]
      BY <1>1, <1>3
    <2>2. \A j \in DOMAIN ps : j < k - 1 => ps[j].fake
      <3> TAKE j \in DOMAIN ps
      <3> HAVE j < k - 1
      <3>1. j + 1 < k
        BY <1>1
      <3> QED BY <1>4, <3>1
    <2>3. FirstLow(segs, ps)
      BY DEF Ready
    <2> QED BY <2>1, <2>2, <2>3 DEF FirstLow
  <1> QED BY <1>6, <1>7 DEF Ready, qs

(* A sound splitter leaves a list that is ready, if no split comes after   *)
(* padding over the first packet, and an overlap before any reversal.      *)
LEMMA SplitterReady ==
  ASSUME found \in Findings, mss \in MssValues,
         NEW segs, segs[1].seq \in SeqNums,
         NEW lo \in Nat, NEW step \in Nat, 2 * (lo + step) <= SeqSpace,
         NEW hi \in Nat, 2 * hi < SeqSpace, NEW w, NEW up, NEW calm,
         NEW ps, Sane(ps), Ready(segs, lo, hi, w, up, calm, ps),
         NEW m \in ModifierArgs, m.seqOff = 0, ~m.badcksum,
         \A pos \in m.seqovl : pos.off <= step,
         w = 0 \/ m.splits = << >>, m.seqovl = {} \/ (w = 0 /\ up),
         NEW result \in SplitterOutcomes(ps, m), result # Fault,
         NEW still, still => calm /\ m.seqovl = {}
  PROVE  Ready(segs, lo + step, hi, w, up, still, result)
  <1> DEFINE all == SplitAll(ps, m.splits)
             cut == OnOriginals(all, LAMBDA p : SetHeader(p, m.hdr))
             n == IF m.seqovl = {} THEN 0 ELSE (CHOOSE pos \in m.seqovl : TRUE).off
             first == Min(Originals(cut))
             overlaps == m.seqovl # {} /\ Originals(cut) # {}
             done == IF overlaps THEN Overlap(cut, first, n, SplitterMss) ELSE cut
             tricked == OnOriginals(done,
                          LAMBDA p : BadChecksum(OffsetSeq(p, m.seqOff), m.badcksum))
  <1>1. result = tricked
    BY DEF SplitterOutcomes, Outcomes, tricked, done, overlaps, first, n, cut, all
  <1>2. m.splits \in Seq(Position) /\ m.hdr \in SUBSET {"ttl", "ts"}
    BY DEF ModifierArgs
  <1>3. Ok(all)
    BY <1>2, SplitAllKeeps DEF Ok
  <1> HIDE DEF all
  <1>4. cut = Dressed(all, m.hdr) /\ Ok(cut)
    BY <1>3, SoundTricks, TrickedBefore
  <1>5. n \in Nat /\ (m.seqovl # {} => n <= step)
    <2>1. m.seqovl \in SUBSET Position
      BY DEF ModifierArgs
    <2>2. \A pos \in Position : pos.off \in Nat
      BY Sizes DEF Position
    <2> QED BY <2>1, <2>2
  <1>6. all = Fault => cut = Fault
    <2>1. OnOriginals(Fault, LAMBDA p : SetHeader(p, m.hdr)) = Fault
      BY DEF OnOriginals, Fault
    <2> QED BY <2>1
  <1> HIDE DEF cut, n
  <1>7. Ok(done) /\ (cut = Fault => done = Fault)
    <2>1. CASE overlaps
      <3>1. Sane(cut)
        BY <1>4, <2>1, OriginalsOfFault DEF Ok
      <3>2. first \in DOMAIN cut
        <4>1. first \in Originals(cut)
          BY <2>1, <3>1, FirstOriginal
        <4> HIDE DEF first
        <4> QED BY <4>1 DEF Originals
      <3> HIDE DEF first
      <3>3. Ok(Overlap(cut, first, n, SplitterMss))
        BY <1>5, <3>1, <3>2, MssIsNat, OverlapKeeps
      <3>4. cut # Fault
        BY <2>1, OriginalsOfFault
      <3> QED BY <2>1, <3>3, <3>4
    <2>2. CASE ~overlaps
      BY <1>4, <2>2
    <2> QED BY <2>1, <2>2
  <1>8. tricked = done
    <2> HIDE DEF done
    <2> QED BY <1>7, SoundTricks
  <1> HIDE DEF tricked
  <1>9. done # Fault /\ result = done
    BY <1>1, <1>8
  <1>10. Sane(cut) /\ all # Fault /\ Sane(all)
    BY <1>3, <1>4, <1>6, <1>7, <1>9 DEF Ok
  <1>11. 2 * lo <= SeqSpace /\ lo + step \in Nat /\ lo <= lo + step
    BY Sizes
  <1>12. Ready(segs, lo, hi, w, up, calm, all)
    <2>1. SplitAll(ps, m.splits) # Fault
      BY <1>10 DEF all
    <2>2. Ready(segs, lo, hi, w, up, calm, SplitAll(ps, m.splits))
      BY <1>2, <1>11, <2>1, SplitAllReady
    <2> QED BY <2>2 DEF all
  <1>13. Ready(segs, lo, hi, w, up, calm, cut)
    BY <1>2, <1>4, <1>10, <1>12, DressedReady
  <1>14. CASE overlaps
    <2>1. m.seqovl # {} /\ Originals(cut) # {} /\ w = 0 /\ up /\ ~still
      BY <1>14
    <2>2. done = Overlap(cut, first, n, SplitterMss)
      BY <1>14
    <2>3. Holds(segs, lo, hi, 0, cut) /\ FirstLow(segs, cut)
      BY <1>13, <2>1 DEF Ready
    <2>4. 2 * (lo + n) <= SeqSpace /\ lo + n \in Nat /\ lo + n <= lo + step
      BY <1>5, <2>1, Sizes
    <2>5. SplitterMss \in Nat
      BY MssIsNat
    <2> HIDE DEF done
    <2> DEFINE at == first
    <2>6. at = Min(Originals(cut)) /\ Overlap(cut, at, n, SplitterMss) # Fault
      BY <1>9, <2>2
    <2> HIDE DEF at, first
    <2>7. /\ Sane(Overlap(cut, at, n, SplitterMss))
          /\ Holds(segs, lo + n, hi, 0, Overlap(cut, at, n, SplitterMss))
          /\ FirstLow(segs, Overlap(cut, at, n, SplitterMss))
      BY <1>5, <1>10, <2>1, <2>3, <2>4, <2>5, <2>6, PadFirst
    <2>8. Sane(done) /\ Holds(segs, lo + n, hi, w, done) /\ FirstLow(segs, done)
      BY <2>1, <2>2, <2>7 DEF at
    <2>9. Ready(segs, lo + n, hi, w, up, still, done)
      BY <2>1, <2>8 DEF Ready
    <2>10. Ready(segs, lo + step, hi, w, up, still, done)
      <3> DEFINE a == lo + n
                 b == lo + step
      <3>1. a \in Nat /\ b \in Nat /\ a <= b /\ Ready(segs, a, hi, w, up, still, done)
        BY <1>11, <2>4, <2>9
      <3> HIDE DEF a, b
      <3>2. Ready(segs, b, hi, w, up, still, done)
        BY <2>8, <3>1, WiderReady
      <3> QED BY <3>2 DEF b
    <2> QED BY <1>9, <2>10
  <1>15. CASE ~overlaps
    <2>1. done = cut
      BY <1>15
    <2>2. Ready(segs, lo, hi, w, up, still, cut)
      BY <1>13 DEF Ready
    <2> DEFINE b == lo + step
    <2>3. b \in Nat /\ lo <= b
      BY <1>11
    <2> HIDE DEF b, done
    <2>4. Ready(segs, b, hi, w, up, still, cut)
      BY <1>10, <2>2, <2>3, WiderReady
    <2> QED BY <1>9, <2>1, <2>4 DEF b
  <1> QED BY <1>14, <1>15

(* A sound disorder leaves one, too, that is no longer in order: it        *)
(* overlaps only where it finds the packets in order.                      *)
Reversed(segs, lo, hi, w, m, qs) ==
  \E v \in Nat : /\ v # 0 => w # 0 \/ m.seqovl # {}
                 /\ Ready(segs, lo, hi, v, FALSE, FALSE, qs)

LEMMA DisorderReady ==
  ASSUME found \in Findings, mss \in MssValues,
         NEW segs, segs[1].seq \in SeqNums,
         NEW lo \in Nat, 2 * lo <= SeqSpace,
         NEW hi \in Nat, 2 * hi < SeqSpace, NEW w \in Nat, NEW up, NEW calm,
         NEW ps, Sane(ps), Ready(segs, lo, hi, w, up, calm, ps),
         NEW m \in ModifierArgs, m.seqOff = 0, ~m.badcksum,
         w = 0 \/ m.splits = << >>, m.seqovl = {} \/ (w = 0 /\ calm),
         NEW result \in DisorderOutcomes(ps, m), result # Fault
  PROVE  Reversed(segs, lo, hi, w, m, ReverseOriginals(result))
  <1> DEFINE all == SplitAll(ps, m.splits)
             cut == OnOriginals(all, LAMBDA p : SetHeader(OffsetSeq(p, m.seqOff), m.hdr))
             pos == CHOOSE q \in m.seqovl : TRUE
             n == SplitPos(found.markers, pos)
             second == Min(Originals(cut)) + 1
             overlaps == /\ m.seqovl # {} /\ Originals(cut) # {}
                         /\ ~SeqovlThrows(pos) /\ ~TooBig(cut, n)
             inside == second <= Len(cut)
             done == IF m.seqovl # {} /\ SeqovlThrows(pos) THEN Fault
                     ELSE IF ~overlaps THEN cut
                     ELSE IF inside THEN Overlap(cut, second, n, DisorderMss) ELSE Fault
             tricked == OnOriginals(done, LAMBDA p : BadChecksum(p, m.badcksum))
  <1>1. result = tricked
    BY DEF DisorderOutcomes, Outcomes, tricked, done, overlaps, inside, second, n, pos, cut, all
  <1>2. m.splits \in Seq(Position) /\ m.hdr \in SUBSET {"ttl", "ts"}
    BY DEF ModifierArgs
  <1>3. Ok(all)
    BY <1>2, SplitAllKeeps DEF Ok
  <1> HIDE DEF all
  <1>4. cut = Dressed(all, m.hdr) /\ Ok(cut)
    BY <1>3, SoundTricks, TrickedBefore
  <1>5. m.seqovl # {} => n \in Nat
    <2> SUFFICES ASSUME m.seqovl # {} PROVE n \in Nat
      OBVIOUS
    <2>1. m.seqovl \in SUBSET Position
      BY DEF ModifierArgs
    <2>2. pos \in Position
      BY <2>1
    <2> HIDE DEF pos
    <2> QED BY <2>2, SplitPosIsNat
  <1>6. all = Fault => cut = Fault
    <2>1. OnOriginals(Fault, LAMBDA p : SetHeader(OffsetSeq(p, m.seqOff), m.hdr)) = Fault
      BY DEF OnOriginals, Fault
    <2> QED BY <2>1
  <1> HIDE DEF cut, n, pos
  <1>7. Ok(done) /\ (cut = Fault => done = Fault)
    <2>1. CASE overlaps /\ inside
      <3>1. cut # Fault
        BY <2>1, OriginalsOfFault
      <3>2. Sane(cut)
        BY <1>4, <3>1 DEF Ok
      <3>3. second \in DOMAIN cut
        <4> DEFINE f == Min(Originals(cut))
        <4>1. f \in Originals(cut)
          BY <2>1, <3>2, FirstOriginal
        <4>2. second = f + 1 /\ f + 1 <= Len(cut)
          BY <2>1
        <4> HIDE DEF f, second
        <4>3. Len(cut) \in Nat /\ DOMAIN cut = 1 .. Len(cut)
          BY <3>2, ListOf
        <4>4. f \in 1 .. Len(cut)
          BY <4>1, <4>3 DEF Originals
        <4> QED BY <4>2, <4>3, <4>4
      <3> HIDE DEF second
      <3>4. Ok(Overlap(cut, second, n, DisorderMss))
        BY <1>5, <2>1, <3>2, <3>3, MssIsNat, OverlapKeeps
      <3>5. done = Overlap(cut, second, n, DisorderMss)
        BY <2>1
      <3> HIDE DEF done
      <3> QED BY <3>1, <3>4, <3>5
    <2>2. CASE ~ (overlaps /\ inside)
      <3>1. done = Fault \/ done = cut
        BY <2>2
      <3> HIDE DEF done
      <3> QED BY <1>4, <3>1 DEF Ok
    <2> QED BY <2>1, <2>2
  <1>8. tricked = done
    <2> HIDE DEF done
    <2> QED BY <1>7, SoundTricks
  <1> HIDE DEF tricked
  <1>9. done # Fault /\ result = done
    BY <1>1, <1>8
  <1>10. Sane(cut) /\ all # Fault /\ Sane(all)
    BY <1>3, <1>4, <1>6, <1>7, <1>9 DEF Ok
  <1>11. Ready(segs, lo, hi, w, up, calm, all)
    <2>1. SplitAll(ps, m.splits) # Fault
      BY <1>10 DEF all
    <2>2. Ready(segs, lo, hi, w, up, calm, SplitAll(ps, m.splits))
      BY <1>2, <2>1, SplitAllReady
    <2> QED BY <2>2 DEF all
  <1>12. Ready(segs, lo, hi, w, up, calm, cut)
    BY <1>2, <1>4, <1>10, <1>11, DressedReady
  <1>13. CASE overlaps
    <2>1. m.seqovl # {} /\ w = 0 /\ calm /\ ~TooBig(cut, n) /\ n \in Nat
      BY <1>5, <1>13
    <2>2. inside /\ done = Overlap(cut, second, n, DisorderMss)
      BY <1>9, <1>13
    <2>3. Holds(segs, lo, hi, 0, cut) /\ InOrder(segs, cut)
      BY <1>12, <2>1 DEF Ready
    <2>4. /\ DOMAIN cut = 1 .. Len(cut) /\ Len(cut) \in Nat /\ 1 \in DOMAIN cut
          /\ Len(cut[1].data) \in Nat
      <3>1. /\ DOMAIN cut = 1 .. Len(cut) /\ Len(cut) \in Nat /\ Len(cut) >= 1
            /\ \A k \in DOMAIN cut : Len(cut[k].data) \in Nat
        BY <1>10, ListOf
      <3>2. 1 \in DOMAIN cut
        BY <3>1
      <3> QED BY <3>1, <3>2
    <2>5. Originals(cut) = 1 .. Len(cut)
      BY <2>3, <2>4 DEF Originals, InOrder
    <2>6. Min(Originals(cut)) = 1
      <3> DEFINE f == Min(Originals(cut))
      <3>1. f \in Originals(cut) /\ \A j \in Originals(cut) : f <= j
        <4>1. \E i \in Originals(cut) : \A j \in Originals(cut) : i <= j
          BY <1>10, <1>13, OriginalsFinite, LeastElement
        <4> QED BY <4>1 DEF Min
      <3> HIDE DEF f
      <3>2. f \in 1 .. Len(cut) /\ f <= 1
        BY <2>4, <2>5, <3>1
      <3>3. f = 1
        BY <2>4, <3>2
      <3> QED BY <3>3 DEF f
    <2>7. second = 2
      BY <2>6
    <2>8. 2 \in DOMAIN cut
      BY <2>2, <2>4, <2>7
    <2>9. n < Len(cut[1].data)
      BY <2>1, <2>4 DEF TooBig
    <2>10. Overlap(cut, 2, n, DisorderMss) # Fault /\ DisorderMss \in Nat
           /\ done = Overlap(cut, 2, n, DisorderMss)
      BY <1>9, <2>2, <2>7, MssIsNat
    <2> HIDE DEF done, second
    <2> DEFINE size == DisorderMss
               v == Len(cut[1].data)
    <2>11. size \in Nat /\ Overlap(cut, 2, n, size) # Fault
      BY <2>10
    <2> HIDE DEF size
    <2>12. /\ Sane(Overlap(cut, 2, n, size))
           /\ Holds(segs, lo, hi, Len(cut[1].data), Overlap(cut, 2, n, size))
      BY <1>10, <2>1, <2>3, <2>8, <2>9, <2>11, PadSecond
    <2>13. Sane(done) /\ Holds(segs, lo, hi, v, done)
      BY <2>10, <2>12 DEF size
    <2> HIDE DEF v
    <2>14. Holds(segs, lo, hi, v, ReverseOriginals(done))
      BY <2>13, ReverseHolds
    <2>15. v \in Nat
      BY <2>4 DEF v
    <2> QED BY <1>9, <2>1, <2>14, <2>15 DEF Ready, Reversed
  <1>14. CASE ~overlaps
    <2>1. done = cut
      BY <1>9, <1>14
    <2> HIDE DEF done
    <2>2. Holds(segs, lo, hi, w, cut)
      BY <1>12 DEF Ready
    <2>3. Holds(segs, lo, hi, w, ReverseOriginals(cut))
      BY <1>10, <2>2, ReverseHolds
    <2> QED BY <1>9, <2>1, <2>3 DEF Ready, Reversed
  <1> QED BY <1>13, <1>14

-----------------------------------------------------------------------------
(* The invariant of the stream *)

(* What StreamPreserved asks of the modifiers, and no fake packet in front *)
(* of a disorder's overlap.                                                *)
Proper == (\A m \in Ran : Sound(m)) /\ PaddingInPlace /\ ~FakeInFront

(* No original was moved behind another; nothing but splits was made.      *)
Unmoved == \A i \in 1 .. next - 1 : Applied(i) => pipeline[i].kind = "splitter"
OnlySplit ==
  /\ Tiled
  /\ \A i \in 1 .. next - 1 : Applied(i) =>
       /\ pipeline[i].kind = "splitter"
       /\ ~pipeline[i].fake /\ pipeline[i].seqovl = {}

(* The list holds the stream, right from the first byte unless a disorder  *)
(* padded over it.                                                         *)
InStream(span, step) ==
  \E w \in Nat :
    /\ w # 0 => \E i \in 1 .. next - 1 : PadsOverFirst(i)
    /\ Ready(original, step * (next - 1), span, w, Unmoved, OnlySplit, packets)
SInv(span, step) ==
  /\ MInv
  /\ pc # "fault" => Sane(packets) /\ (Proper => InStream(span, step))

(* The stream has the bytes of each segment. *)
LEMMA StreamIs ==
  ASSUME NEW span \in Nat, OneStream(span), NEW segs \in Deliveries
  PROVE  /\ segs \in Seq(HeldSegment) /\ segs # << >>
         /\ segs[1].seq \in SeqNums
         /\ \A i \in DOMAIN segs :
              /\ Place(segs[1].seq, segs[i]) \in Nat
              /\ Place(segs[1].seq, segs[i]) + Len(segs[i].data) <= span
              /\ \A y \in DOMAIN segs[i].data :
                   Stream(segs)[Place(segs[1].seq, segs[i]) + y] = segs[i].data[y]
  <1> DEFINE base == segs[1].seq
             at(i) == Place(base, segs[i])
  <1>1. /\ segs \in Seq(HeldSegment) /\ segs # << >>
        /\ 1 \in DOMAIN segs /\ \A i \in DOMAIN segs : segs[i] \in HeldSegment
    <2>1. segs \in Seq(HeldSegment) /\ segs # << >>
      BY DeliveriesAssumption
    <2> QED BY <2>1
  <1>2. base \in SeqNums /\ \A i \in DOMAIN segs : segs[i].seq \in SeqNums
    BY <1>1 DEF HeldSegment
  <1>3. \A i \in DOMAIN segs : at(i) \in Int
    BY <1>2, PlaceIs
  <1>4. /\ \A i \in DOMAIN segs : 0 <= at(i) /\ at(i) + Len(segs[i].data) <= span
        /\ \A i, j \in DOMAIN segs : \A x \in DOMAIN segs[i].data, y \in DOMAIN segs[j].data :
             at(i) + x = at(j) + y => segs[i].data[x] = segs[j].data[y]
    BY DEF OneStream
  <1>5. \A i \in DOMAIN segs : \A y \in DOMAIN segs[i].data :
          Stream(segs)[at(i) + y] = segs[i].data[y]
    <2> TAKE i \in DOMAIN segs
    <2> TAKE y \in DOMAIN segs[i].data
    <2> DEFINE z == at(i) + y
               Has(b) == \E j \in DOMAIN segs : \E x \in DOMAIN segs[j].data :
                           Place(base, segs[j]) + x = z /\ segs[j].data[x] = b
    <2>1. segs[i].data \in Seq(Nat)
      BY <1>1 DEF HeldSegment
    <2>2. segs[i].data[y] \in Nat /\ y \in Nat \ {0}
      BY <2>1
    <2>3. Has(segs[i].data[y])
      OBVIOUS
    <2>4. \A b : Has(b) => b = segs[i].data[y]
      BY <1>4
    <2>5. z \in Nat \ {0}
      <3> DEFINE a == at(i)
      <3>1. a \in Int /\ 0 <= a
        BY <1>3, <1>4
      <3> HIDE DEF a
      <3>2. a + y \in Nat \ {0}
        BY <2>2, <3>1
      <3> QED BY <3>2 DEF a
    <2>6. Stream(segs)[z] = CHOOSE b \in Nat : Has(b)
      <3> HIDE DEF z
      <3> QED BY <2>5 DEF Stream
    <2> HIDE DEF z, Has
    <2>7. (CHOOSE b \in Nat : Has(b)) = segs[i].data[y]
      BY <2>2, <2>3, <2>4
    <2> QED BY <2>6, <2>7 DEF z
  <1>6. \A i \in DOMAIN segs : at(i) \in Nat
    <2> TAKE i \in DOMAIN segs
    <2>1. at(i) \in Int /\ 0 <= at(i)
      BY <1>3, <1>4
    <2> HIDE DEF at
    <2> QED BY <2>1
  <1> QED BY <1>1, <1>2, <1>4, <1>5, <1>6

(* The packets as they are handed over. *)
LEMMA HandedCount ==
  ASSUME NEW span \in Nat, OneStream(span), NEW segs \in Deliveries,
         NEW ps, ps = [i \in DOMAIN segs |-> FromHeld(segs[i])]
  PROVE  Holds(segs, 0, span, 0, ps) /\ FirstLow(segs, ps)
  <1> DEFINE base == segs[1].seq
  <1>1. /\ segs \in Seq(HeldSegment) /\ segs # << >> /\ base \in SeqNums
        /\ \A i \in DOMAIN segs :
             /\ Place(base, segs[i]) \in Nat
             /\ Place(base, segs[i]) + Len(segs[i].data) <= span
             /\ \A y \in DOMAIN segs[i].data :
                  Stream(segs)[Place(base, segs[i]) + y] = segs[i].data[y]
    BY StreamIs
  <1>2. \A i \in DOMAIN segs :
          /\ FromHeld(segs[i]).id = segs[i].id /\ FromHeld(segs[i]).seq = segs[i].seq
          /\ FromHeld(segs[i]).data = segs[i].data /\ ~FromHeld(segs[i]).fake
          /\ FromHeld(segs[i]).altered = {}
          /\ Place(base, FromHeld(segs[i])) = Place(base, segs[i])
          /\ DOMAIN segs[i].data = 1 .. Len(segs[i].data) /\ Len(segs[i].data) \in Nat
    <2> TAKE i \in DOMAIN segs
    <2>1. segs[i].data \in Seq(Nat)
      <3>1. segs[i] \in HeldSegment
        BY <1>1
      <3> QED BY <3>1 DEF HeldSegment
    <2> QED BY <2>1 DEF FromHeld, Place
  <1>3. DOMAIN ps = DOMAIN segs /\ \A i \in DOMAIN segs : ps[i] = FromHeld(segs[i])
    OBVIOUS
  <1>4. \A i \in DOMAIN segs : Counts(segs, 0, span, 0, FromHeld(segs[i]))
    <2> TAKE i \in DOMAIN segs
    <2> DEFINE p == FromHeld(segs[i])
               pl == Place(base, p)
               l == Len(p.data)
    <2>1. /\ p.altered = {} /\ pl \in Nat /\ pl + l <= span /\ l \in Nat
          /\ \A y \in 1 .. l : Stream(segs)[pl + y] = p.data[y]
      BY <1>1, <1>2
    <2>2. RightFrom(base, Stream(segs), 0, p)
      BY <2>1 DEF RightFrom
    <2>3. \A x \in Nat \ {0} : Brings(base, p, x) => HandedAt(segs, x)
      BY DEF HandedAt
    <2>4. -0 <= pl /\ 0 <= pl + l
      <3> HIDE DEF pl, l
      <3> QED BY <2>1
    <2> QED BY <2>1, <2>2, <2>3, <2>4 DEF Counts
  <1>5. Holds(segs, 0, span, 0, ps)
    <2>1. \A k \in DOMAIN ps :
            ~ps[k].fake /\ Counts(segs, 0, span, 0, ps[k]) /\ AsWas(segs, ps[k])
      BY <1>2, <1>3, <1>4 DEF AsWas
    <2>2. \A x \in Nat \ {0} : HandedAt(segs, x) =>
            \E k \in DOMAIN ps : ~ps[k].fake /\ Brings(base, ps[k], x)
      BY <1>2, <1>3 DEF HandedAt
    <2> QED BY <2>1, <2>2 DEF Holds
  <1>6. Place(base, segs[1]) = 0
    <2>1. base \in Int
      BY <1>1, SeqNumsAreInts
    <2>2. base - base = 0 /\ 2 * 0 < SeqSpace /\ -SeqSpace <= 2 * 0 /\ 0 \in Int
      <3>1. SeqSpace \in Nat \ {0}
        BY Sizes
      <3> QED BY <2>1, <3>1
    <2>3. Signed(0 % SeqSpace) = 0
      BY <2>2, SignedIs
    <2> QED BY <2>2, <2>3 DEF Place
  <1>7. FirstLow(segs, ps)
    <2> SUFFICES ASSUME NEW k \in DOMAIN ps, ~ps[k].fake,
                        \A j \in DOMAIN ps : j < k => ps[j].fake
                 PROVE  Place(base, ps[k]) <= 0
      BY DEF FirstLow
    <2>1. DOMAIN segs = 1 .. Len(segs) /\ Len(segs) \in Nat
      BY <1>1
    <2>2. k = 1
      <3>1. ~ (1 < k)
        BY <1>2, <1>3, <2>1
      <3> QED BY <1>3, <2>1, <3>1
    <2> QED BY <1>2, <1>3, <1>6, <2>2
  <1> QED BY <1>5, <1>7

LEMMA HandedInOrder ==
  ASSUME NEW span \in Nat, OneStream(span), NEW segs \in Deliveries, Follows(segs),
         NEW ps, ps = [i \in DOMAIN segs |-> FromHeld(segs[i])]
  PROVE  InOrder(segs, ps)
  <1> DEFINE base == segs[1].seq
             n == Len(segs)
  <1>1. /\ segs \in Seq(HeldSegment) /\ segs # << >> /\ base \in SeqNums
        /\ \A i \in DOMAIN segs :
             /\ Place(base, segs[i]) \in Nat
             /\ Place(base, segs[i]) + Len(segs[i].data) <= span
    BY StreamIs
  <1>2. \A s \in HeldSegment : s.seq \in SeqNums /\ Len(s.data) \in Nat
    BY DEF HeldSegment
  <1>3. /\ DOMAIN segs = 1 .. n /\ n \in Nat /\ n >= 1
        /\ \A i \in DOMAIN segs : segs[i] \in HeldSegment
    BY <1>1
  <1>4. \A i \in DOMAIN segs : Offset(base, segs[i].seq) = Place(base, segs[i])
    <2> TAKE i \in DOMAIN segs
    <2> DEFINE o == Offset(base, segs[i].seq)
               pl == Place(base, segs[i])
    <2>1. o \in 0 .. SeqSpace - 1
      BY <1>1, <1>2, <1>3, OffsetFacts
    <2>2. pl = IF 2 * o >= SeqSpace THEN o - SeqSpace ELSE o
      BY DEF Place, Signed, Offset
    <2>3. pl \in Nat
      BY <1>1
    <2>4. SeqSpace \in Nat
      BY Sizes
    <2> HIDE DEF o, pl
    <2>5. o = pl
      BY <2>1, <2>2, <2>3, <2>4
    <2> QED BY <2>5 DEF o, pl
  <1>5. InWindow(base, segs)
    <2> SUFFICES ASSUME NEW i \in DOMAIN segs
                 PROVE  2 * (Offset(base, segs[i].seq) + Len(segs[i].data)) < SeqSpace
      BY DEF InWindow
    <2> DEFINE pl == Place(base, segs[i])
               l == Len(segs[i].data)
    <2>1. pl \in Nat /\ pl + l <= span /\ l \in Nat /\ 2 * span < SeqSpace /\ SeqSpace \in Nat
      BY <1>1, <1>2, <1>3, Sizes DEF OneStream
    <2>2. Offset(base, segs[i].seq) = pl
      BY <1>4
    <2> HIDE DEF pl, l
    <2>3. 2 * (pl + l) < SeqSpace
      BY <2>1
    <2> QED BY <2>2, <2>3 DEF l
  <1>6. /\ Start1(segs, 1) = 0
        /\ \A i \in 1 .. n - 1 : Start1(segs, i + 1) = Start1(segs, i) + Len(segs[i].data)
        /\ \A i, j \in 1 .. n : i < j => Start1(segs, i) + Len(segs[i].data) <= Start1(segs, j)
    BY <1>1, <1>2, <1>5, TilesOffsets
  <1>7. \A i \in 1 .. n : /\ ~ps[i].fake /\ ps[i].data = segs[i].data
                          /\ Place(base, ps[i]) = Start1(segs, i)
    <2> TAKE i \in 1 .. n
    <2>1. ps[i] = FromHeld(segs[i])
      BY <1>3
    <2>2. /\ FromHeld(segs[i]).data = segs[i].data /\ ~FromHeld(segs[i]).fake
          /\ FromHeld(segs[i]).seq = segs[i].seq
      BY DEF FromHeld
    <2>3. Place(base, ps[i]) = Place(base, segs[i])
      BY <2>1, <2>2 DEF Place
    <2> QED BY <1>3, <1>4, <2>1, <2>2, <2>3 DEF Start1
  <1>8. DOMAIN ps = 1 .. n
    BY <1>3
  <1> HIDE DEF n
  <1>9. Place(base, ps[1]) = 0
    BY <1>3, <1>6, <1>7
  <1>10. 2 \in DOMAIN ps => Place(base, ps[2]) = Len(ps[1].data)
    <2> SUFFICES ASSUME 2 \in DOMAIN ps PROVE Place(base, ps[2]) = Len(ps[1].data)
      OBVIOUS
    <2>1. 1 \in 1 .. n - 1 /\ 1 + 1 = 2 /\ 1 \in 1 .. n
      BY <1>3, <1>8
    <2>2. Start1(segs, 2) = 0 + Len(segs[1].data)
      BY <1>6, <2>1
    <2>3. Len(segs[1].data) \in Nat
      BY <1>2, <1>3
    <2> QED BY <1>7, <1>8, <2>1, <2>2, <2>3
  <1>11. \A j, k \in DOMAIN ps : j < k => Place(base, ps[j]) + Len(ps[j].data) <= Place(base, ps[k])
    BY <1>6, <1>7, <1>8
  <1> QED BY <1>7, <1>8, <1>9, <1>10, <1>11 DEF InOrder

LEMMA SInvInit ==
  ASSUME NEW span \in Nat, NEW step \in Nat, OneStream(span), Init
  PROVE  SInv(span, step)
  <1>1. MInv
    BY MInvInit
  <1>2. /\ original \in Deliveries /\ next = 1 /\ pc = "filter"
        /\ packets = [i \in DOMAIN original |-> FromHeld(original[i])]
    BY DEF Init
  <1>3. Sane(packets)
    BY <1>1, <1>2 DEF MInv
  <1>4. Holds(original, 0, span, 0, packets) /\ FirstLow(original, packets)
    BY <1>2, HandedCount
  <1>5. OnlySplit => InOrder(original, packets)
    BY <1>2, HandedInOrder DEF OnlySplit, Tiled
  <1>6. step * (next - 1) = 0
    <2>1. next - 1 = 0
      BY <1>2
    <2> QED BY <2>1
  <1>7. Ready(original, step * (next - 1), span, 0, Unmoved, OnlySplit, packets)
    BY <1>4, <1>5, <1>6 DEF Ready
  <1> QED BY <1>1, <1>3, <1>7 DEF SInv, InStream

(* What is proper after another modifier was so before, and says this of   *)
(* that modifier.                                                          *)
LEMMA ProperStep ==
  ASSUME MInv, next <= Len(pipeline), next' = next + 1,
         UNCHANGED <<original, found, pipeline>>, Proper'
  PROVE  /\ Proper /\ Sound(pipeline[next])
         /\ PadsOverFirst(next) => Tiled
         /\ \A i \in 1 .. next - 1 :
              /\ Pads(next) => ~(Applied(i) /\ pipeline[i].kind = "disorder")
              /\ PadsOverFirst(next) => ~Pads(i) /\ ~(Applied(i) /\ pipeline[i].fake)
              /\ PadsOverFirst(i) => ~Cuts(next)
  <1>1. next \in Nat /\ next >= 1
    BY DEF MInv
  <1>2. /\ (1 .. next' - 1) = 1 .. next /\ (1 .. next - 1) \subseteq 1 .. next
        /\ next \in 1 .. next /\ \A i \in 1 .. next - 1 : i < next
        /\ \A j \in 1 .. next - 1 : (1 .. j - 1) \subseteq 1 .. next - 1
    BY <1>1
  <1>3. /\ Ran' = {pipeline[i] : i \in 1 .. next}
        /\ Ran \subseteq Ran' /\ pipeline[next] \in Ran'
    BY <1>2 DEF Ran
  <1>4. /\ Tiled' = Tiled
        /\ \A i : /\ PadsOverFirst(i)' = PadsOverFirst(i) /\ Pads(i)' = Pads(i)
                  /\ Cuts(i)' = Cuts(i) /\ Applied(i)' = Applied(i)
    BY DEF Tiled, PadsOverFirst, Pads, Cuts, Applied
  <1>5. \A m \in Ran' : Sound(m)
    BY DEF Proper, Sound
  <1>6. /\ \A j \in 1 .. next : PadsOverFirst(j) => Tiled
        /\ \A i, j \in 1 .. next : i < j =>
             /\ Pads(j) => ~(Applied(i) /\ pipeline[i].kind = "disorder")
             /\ PadsOverFirst(j) => ~Pads(i)
             /\ PadsOverFirst(i) => ~Cuts(j)
    <2>1. PaddingInPlace'
      BY DEF Proper
    <2>2. /\ \A j \in 1 .. next' - 1 : PadsOverFirst(j)' => Tiled'
          /\ \A i, j \in 1 .. next' - 1 : i < j =>
               /\ Pads(j)' => ~(Applied(i)' /\ pipeline'[i].kind = "disorder")
               /\ PadsOverFirst(j)' => ~Pads(i)'
               /\ PadsOverFirst(i)' => ~Cuts(j)'
      BY <2>1 DEF PaddingInPlace
    <2> QED BY <1>2, <1>4, <2>2
  <1>7. \A j \in 1 .. next : \A i \in 1 .. j - 1 :
          PadsOverFirst(j) => ~(Applied(i) /\ pipeline[i].fake)
    <2>1. \A j \in 1 .. next' - 1 : \A i \in 1 .. j - 1 :
            PadsOverFirst(j)' => ~(Applied(i)' /\ pipeline'[i].fake)
      BY DEF Proper, FakeInFront
    <2> QED BY <1>2, <1>4, <2>1
  <1>8. Proper
    <2>1. \A m \in Ran : Sound(m)
      BY <1>3, <1>5
    <2>2. PaddingInPlace
      BY <1>2, <1>6 DEF PaddingInPlace
    <2>3. ~FakeInFront
      BY <1>2, <1>7 DEF FakeInFront
    <2> QED BY <2>1, <2>2, <2>3 DEF Proper
  <1>9. Sound(pipeline[next])
    BY <1>3, <1>5
  <1> QED BY <1>2, <1>6, <1>7, <1>8, <1>9

(* Where a turn of a proper modifier finds the list.                       *)
Finds(w, m) ==
  /\ w = 0 \/ m.splits = << >>
  /\ m.seqovl = {} \/ (w = 0 /\ IF m.kind = "splitter" THEN Unmoved ELSE OnlySplit)

LEMMA ProperFinds ==
  ASSUME MInv, next <= Len(pipeline), next' = next + 1,
         UNCHANGED <<original, found, pipeline>>, Proper',
         Applied(next), ~pipeline[next].fake, pipeline[next] \in ModifierArgs,
         \A i \in 1 .. next - 1 : pipeline[i] \in ModifierArgs,
         NEW w, w # 0 => \E i \in 1 .. next - 1 : PadsOverFirst(i)
  PROVE  Finds(w, pipeline[next])
  <1> DEFINE m == pipeline[next]
  <1>1. /\ PadsOverFirst(next) => Tiled
        /\ \A i \in 1 .. next - 1 :
             /\ Pads(next) => ~(Applied(i) /\ pipeline[i].kind = "disorder")
             /\ PadsOverFirst(next) => ~Pads(i) /\ ~(Applied(i) /\ pipeline[i].fake)
             /\ PadsOverFirst(i) => ~Cuts(next)
    BY ProperStep
  <1>2. /\ m.kind \in {"splitter", "disorder"}
        /\ \A i \in 1 .. next - 1 : pipeline[i].kind \in {"splitter", "disorder"}
    BY DEF ModifierArgs
  <1>3. w = 0 \/ m.splits = << >>
    BY <1>1 DEF Cuts
  <1>4. ASSUME m.seqovl # {}
        PROVE  w = 0 /\ IF m.kind = "splitter" THEN Unmoved ELSE OnlySplit
    <2>1. Pads(next) /\ (m.kind # "splitter" => PadsOverFirst(next))
      BY <1>2, <1>4 DEF Pads, PadsOverFirst
    <2>2. \A i \in 1 .. next - 1 : Applied(i) => pipeline[i].kind = "splitter"
      BY <1>1, <1>2, <2>1
    <2>3. w = 0
      BY <1>1, <2>1 DEF PadsOverFirst, Pads
    <2>4. PadsOverFirst(next) => OnlySplit
      BY <1>1, <2>2 DEF OnlySplit, Pads
    <2> QED BY <2>1, <2>2, <2>3, <2>4 DEF Unmoved
  <1> QED BY <1>3, <1>4 DEF Finds

(* What a turn of a proper modifier leaves. *)
LEMMA TurnReady ==
  ASSUME MInv, Splitter \/ Disorder, packets' # Fault,
         NEW span \in Nat, NEW step \in Nat, OneStream(span), RoomToPad(step),
         Proper', InStream(span, step)
  PROVE  InStream(span, step)'
  <1> DEFINE m == pipeline[next]
             lo == step * (next - 1)
             lo2 == step * (next' - 1)
             up == Unmoved
             calm == OnlySplit
             up2 == Unmoved'
             calm2 == OnlySplit'
             Left(v) == /\ v # 0 => \E i \in 1 .. next' - 1 : PadsOverFirst(i)
                        /\ Ready(original, lo2, span, v, up2, calm2, packets')
  <1>1. /\ Sane(packets) /\ Sane(packets') /\ next' = next + 1
        /\ UNCHANGED <<original, found, pipeline>>
        /\ next <= Len(pipeline) /\ Applied(next)
    <2>1. /\ Sane(packets) /\ Ok(packets') /\ next' = next + 1
          /\ UNCHANGED <<original, found, pipeline, mss, out, lost>>
      BY TurnLeaves
    <2>2. next <= Len(pipeline) /\ Applied(next)
      BY DEF Splitter, Disorder, Turn, Applied
    <2> QED BY <2>1, <2>2 DEF Ok
  <1>2. /\ next \in Nat /\ next >= 1 /\ Len(pipeline) \in Nat
        /\ pipeline \in Pipelines /\ original \in Deliveries
        /\ found \in Findings /\ mss \in MssValues
        /\ \A i \in 1 .. Len(pipeline) : pipeline[i] \in ModifierArgs
    <2>1. pipeline \in Seq(ModifierArgs)
      BY PipelinesAssumption DEF MInv
    <2> QED BY <2>1 DEF MInv
  <1>3. /\ m \in ModifierArgs /\ \A i \in 1 .. next - 1 : pipeline[i] \in ModifierArgs
        /\ \A pos \in m.seqovl : pos.off <= step
    <2>1. next \in 1 .. Len(pipeline) /\ (1 .. next - 1) \subseteq 1 .. Len(pipeline)
      BY <1>1, <1>2
    <2>2. DOMAIN pipeline = 1 .. Len(pipeline)
      BY PipelinesAssumption DEF MInv
    <2> QED BY <1>2, <2>1, <2>2 DEF RoomToPad
  <1>4. Proper /\ Sound(m)
    BY <1>1, ProperStep
  <1>5. PICK w \in Nat :
          /\ w # 0 => \E i \in 1 .. next - 1 : PadsOverFirst(i)
          /\ Ready(original, lo, span, w, up, calm, packets)
    BY DEF InStream
  <1>6. /\ lo \in Nat /\ lo2 \in Nat /\ lo <= lo2 /\ lo2 = lo + step
        /\ 2 * lo2 <= SeqSpace /\ 2 * lo <= SeqSpace
    <2>1. 2 * (step * Len(pipeline)) <= SeqSpace /\ SeqSpace \in Nat
      BY <1>2, Sizes DEF RoomToPad
    <2> DEFINE a == step * next
               b == step * (Len(pipeline) - next)
               c == step * Len(pipeline)
    <2>2. /\ lo \in Nat /\ a = lo + step /\ lo2 = a
      BY <1>1, <1>2
    <2>3. /\ Len(pipeline) - next \in Nat
      BY <1>1, <1>2
    <2>4. b \in Nat /\ c = a + b
      BY <1>2, <2>3
    <2> HIDE DEF a, b, c, lo, lo2
    <2>5. 2 * c <= SeqSpace
      BY <2>1 DEF c
    <2> QED BY <2>1, <2>2, <2>4, <2>5
  <1>7. /\ original[1].seq \in SeqNums /\ 2 * span < SeqSpace
    BY <1>2, StreamIs DEF OneStream
  <1>8. /\ up2 => up /\ m.kind = "splitter"
        /\ calm2 => calm /\ m.kind = "splitter" /\ ~m.fake /\ m.seqovl = {}
    <2>1. (1 .. next' - 1) = (1 .. next - 1) \cup {next}
      BY <1>1, <1>2
    <2>2. /\ Tiled' = Tiled /\ \A i : Applied(i)' = Applied(i) /\ pipeline' = pipeline
      BY <1>1 DEF Tiled, Applied
    <2>3. up2 => \A i \in (1 .. next - 1) \cup {next} : Applied(i) => pipeline[i].kind = "splitter"
      BY <2>1, <2>2 DEF Unmoved
    <2>4. calm2 => /\ Tiled
                   /\ \A i \in (1 .. next - 1) \cup {next} : Applied(i) =>
                        /\ pipeline[i].kind = "splitter"
                        /\ ~pipeline[i].fake /\ pipeline[i].seqovl = {}
      BY <2>1, <2>2 DEF OnlySplit
    <2>5. up2 => up /\ m.kind = "splitter"
      BY <1>1, <2>3 DEF Unmoved
    <2>6. calm2 => calm /\ m.kind = "splitter" /\ ~m.fake /\ m.seqovl = {}
      BY <1>1, <2>4 DEF OnlySplit
    <2> QED BY <2>5, <2>6
  <1>9. /\ m.fake => m.hdr # {}
        /\ ~m.fake => m.seqOff = 0 /\ ~m.badcksum /\ Finds(w, m)
    <2>1. ~m.fake => Finds(w, m)
      BY <1>1, <1>3, <1>5, ProperFinds
    <2> QED BY <1>4, <2>1 DEF Sound
  <1>10. m.kind = "disorder" /\ ~m.fake /\ m.seqovl # {} => PadsOverFirst(next)
    BY <1>1 DEF PadsOverFirst, Pads
  <1>11. ASSUME NEW v \in Nat, v # 0 => w # 0 \/ PadsOverFirst(next),
                Ready(original, lo2, span, v, up2, calm2, packets')
         PROVE  Left(v)
    <2>1. (1 .. next - 1) \subseteq (1 .. next' - 1) /\ next \in 1 .. next' - 1
      BY <1>1, <1>2
    <2> QED BY <1>5, <1>11, <2>1
  <1>12. Splitter => m.kind = "splitter"
    BY DEF Splitter, Turn
  <1>13. Disorder => m.kind = "disorder"
    BY DEF Disorder, Turn
  <1>14. Splitter => IF m.fake THEN packets' = InsertFake(packets, m)
                     ELSE \E result \in SplitterOutcomes(packets, m) : packets' = result
    BY DEF Splitter, Leaves
  <1>15. Disorder => IF m.fake THEN packets' = ReverseOriginals(InsertFake(packets, m))
                     ELSE \E result \in DisorderOutcomes(packets, m) :
                            packets' = ReverseOriginals(result)
    BY DEF Disorder, Leaves
  <1> HIDE DEF lo, lo2, up, calm, up2, calm2, m
  <1>16. \E v \in Nat : Left(v)
    <2>1. CASE m.fake
      <3>1. Ready(original, lo, span, w, up, FALSE, InsertFake(packets, m))
        BY <1>1, <1>3, <1>5, <1>9, <2>1, FakeReady
      <3>2. Sane(InsertFake(packets, m))
        BY <1>1, <1>3, InsertFakeKeeps
      <3>3. CASE Splitter
        <4>1. packets' = InsertFake(packets, m)
          BY <1>14, <2>1, <3>3
        <4>2. Ready(original, lo, span, w, up2, calm2, packets')
          BY <1>8, <2>1, <3>1, <4>1 DEF Ready
        <4>3. Ready(original, lo2, span, w, up2, calm2, packets')
          BY <1>1, <1>6, <1>7, <4>2, WiderReady
        <4> QED BY <1>5, <1>11, <4>3
      <3>4. CASE Disorder
        <4>1. packets' = ReverseOriginals(InsertFake(packets, m))
          BY <1>15, <2>1, <3>4
        <4>2. Holds(original, lo, span, w, packets')
          BY <3>1, <3>2, <4>1, ReverseHolds DEF Ready
        <4>3. ~up2 /\ ~calm2
          BY <1>8, <1>13, <3>4
        <4>4. Ready(original, lo, span, w, up2, calm2, packets')
          BY <4>2, <4>3 DEF Ready
        <4>5. Ready(original, lo2, span, w, up2, calm2, packets')
          BY <1>1, <1>6, <1>7, <4>4, WiderReady
        <4> QED BY <1>5, <1>11, <4>5
      <3> QED BY <3>3, <3>4
    <2>2. CASE ~m.fake
      <3>1. m.seqOff = 0 /\ ~m.badcksum /\ (w = 0 \/ m.splits = << >>)
        BY <1>9, <2>2 DEF Finds
      <3>2. CASE Splitter
        <4>1. PICK result \in SplitterOutcomes(packets, m) : packets' = result
          BY <1>14, <2>2, <3>2
        <4>2. result # Fault /\ 2 * (lo + step) <= SeqSpace
          BY <1>6, <4>1
        <4>3. m.seqovl = {} \/ (w = 0 /\ up)
          BY <1>9, <1>12, <2>2, <3>2 DEF Finds, up
        <4>4. calm2 => calm /\ m.seqovl = {}
          BY <1>8
        <4>5. Ready(original, lo + step, span, w, up, calm2, result)
          BY <1>1, <1>2, <1>3, <1>5, <1>6, <1>7, <3>1, <4>2, <4>3, <4>4, SplitterReady
        <4>6. Ready(original, lo2, span, w, up, calm2, packets')
          BY <1>6, <4>1, <4>5
        <4>7. Ready(original, lo2, span, w, up2, calm2, packets')
          BY <1>8, <4>6 DEF Ready
        <4> QED BY <1>5, <1>11, <4>7
      <3>3. CASE Disorder
        <4>1. PICK result \in DisorderOutcomes(packets, m) : packets' = ReverseOriginals(result)
          BY <1>15, <2>2, <3>3
        <4>2. result # Fault
          <5>1. ReverseOriginals(Fault) = Fault
            BY DEF ReverseOriginals, Fault
          <5> QED BY <4>1, <5>1
        <4>3. m.kind = "disorder" /\ (m.seqovl = {} \/ (w = 0 /\ calm))
          BY <1>9, <1>13, <2>2, <3>3 DEF Finds, calm
        <4>4. Reversed(original, lo, span, w, m, ReverseOriginals(result))
          BY <1>1, <1>2, <1>3, <1>5, <1>6, <1>7, <3>1, <4>2, <4>3, DisorderReady
        <4>5. PICK v \in Nat : /\ v # 0 => w # 0 \/ m.seqovl # {}
                               /\ Ready(original, lo, span, v, FALSE, FALSE, packets')
          BY <4>1, <4>4 DEF Reversed
        <4>6. ~up2 /\ ~calm2
          BY <1>8, <4>3
        <4>7. Ready(original, lo, span, v, up2, calm2, packets')
          BY <4>5, <4>6 DEF Ready
        <4>8. Ready(original, lo2, span, v, up2, calm2, packets')
          BY <1>1, <1>6, <1>7, <4>7, WiderReady
        <4>9. v # 0 => w # 0 \/ PadsOverFirst(next)
          BY <1>10, <2>2, <4>3, <4>5 DEF m
        <4> QED BY <1>11, <4>8, <4>9
      <3> QED BY <3>2, <3>3
    <2> QED BY <2>1, <2>2
  <1>17. \A i : PadsOverFirst(i)' = PadsOverFirst(i)
    BY <1>1 DEF PadsOverFirst, Pads, Applied
  <1>18. \E v \in Nat :
           /\ v # 0 => \E i \in 1 .. next' - 1 : PadsOverFirst(i)'
           /\ Ready(original', step * (next' - 1), span, v, Unmoved', OnlySplit', packets')
    BY <1>1, <1>16, <1>17 DEF lo2, up2, calm2
  <1> QED BY <1>18 DEF InStream, Ready, Holds, FirstLow, InOrder

LEMMA SaneStays ==
  ASSUME UNCHANGED <<original, packets>>, Sane(packets)
  PROVE  Sane(packets)'
  <1>1. original' = original /\ packets' = packets
    OBVIOUS
  <1>2. Handed' = Handed
    BY <1>1 DEF Handed
  <1>3. Keeps(packets) /\ packets \in Seq(Packets) /\ packets # << >>
    BY DEF Sane
  <1>4. Keeps(packets)'
    BY <1>1, <1>2, <1>3 DEF Keeps, Owed
  <1> QED BY <1>1, <1>3, <1>4 DEF Sane

LEMMA SInvStep ==
  ASSUME NEW span \in Nat, NEW step \in Nat, OneStream(span), RoomToPad(step),
         SInv(span, step), [Next]_vars
  PROVE  SInv(span, step)'
  <1>1. MInv /\ MInv'
    BY MInvStep DEF SInv
  (* A step that leaves the list, the modifiers and their number alone.    *)
  <1>2. ASSUME UNCHANGED <<original, found, pipeline, packets, next>>, pc # "fault"
        PROVE  SInv(span, step)'
    <2>1. Sane(packets)'
      BY <1>2, SaneStays DEF SInv
    <2>2. Proper' => Proper
      BY <1>2 DEF Proper, Ran, Sound, PaddingInPlace, FakeInFront, PadsOverFirst, Pads,
                  Cuts, Applied, Tiled
    <2>3. InStream(span, step) => InStream(span, step)'
      BY <1>2 DEF InStream, Unmoved, OnlySplit, PadsOverFirst, Pads, Applied, Tiled
    <2> QED BY <1>1, <1>2, <2>1, <2>2, <2>3 DEF SInv
  <1>3. CASE Filter
    BY <1>2, <1>3 DEF Filter
  <1>4. CASE Splitter \/ Disorder
    <2>1. /\ pc = "modify" /\ Ok(packets')
          /\ pc' = IF packets' = Fault THEN "fault" ELSE "modify"
          /\ next' = next + 1 /\ UNCHANGED <<original, found, pipeline, mss, out, lost>>
          /\ next <= Len(pipeline)
      <3>1. next <= Len(pipeline)
        BY <1>4 DEF Splitter, Disorder, Turn
      <3> QED BY <1>1, <1>4, <3>1, TurnLeaves
    <2>2. CASE packets' = Fault
      BY <1>1, <2>1, <2>2 DEF SInv
    <2>3. CASE packets' # Fault
      <3>1. Sane(packets)'
        <4>1. Ok(packets') /\ original' = original
          BY <2>1
        <4> QED BY <2>3, <4>1 DEF Ok, Sane, Keeps, Handed
      <3>2. ASSUME Proper' PROVE InStream(span, step)'
        <4>1. InStream(span, step)
          BY <1>1, <2>1, <3>2, ProperStep DEF SInv
        <4> QED BY <1>1, <1>4, <2>3, <3>2, <4>1, TurnReady
      <3> QED BY <1>1, <3>1, <3>2 DEF SInv
    <2> QED BY <2>2, <2>3
  <1>5. CASE Skip
    <2>1. /\ pc = "modify" /\ next <= Len(pipeline) /\ ~Applied(next) /\ next' = next + 1
          /\ UNCHANGED <<original, found, pipeline, mss, packets, out, lost, pc>>
      BY <1>5 DEF Skip, Applied
    <2>2. Sane(packets) /\ Sane(packets)'
      <3>1. Sane(packets) /\ UNCHANGED <<original, packets>>
        BY <2>1 DEF SInv
      <3> QED BY <3>1, SaneStays
    <2>3. ASSUME Proper' PROVE InStream(span, step)'
      <3>1. InStream(span, step)
        BY <1>1, <2>1, <2>3, ProperStep DEF SInv
      <3>2. PICK w \in Nat :
              /\ w # 0 => \E i \in 1 .. next - 1 : PadsOverFirst(i)
              /\ Ready(original, step * (next - 1), span, w, Unmoved, OnlySplit, packets)
        BY <3>1 DEF InStream
      <3>3. next \in Nat /\ next >= 1 /\ original \in Deliveries
        BY <1>1 DEF MInv
      <3>4. original[1].seq \in SeqNums
        BY <3>3, StreamIs
      <3> DEFINE lo == step * (next - 1)
                 lo2 == step * (next' - 1)
                 up == Unmoved
                 calm == OnlySplit
      <3>5. lo \in Nat /\ lo2 \in Nat /\ lo <= lo2
        <4>1. next' - 1 = (next - 1) + 1 /\ next - 1 \in Nat
          BY <2>1, <3>3
        <4>2. lo2 = lo + step /\ lo \in Nat
          BY SMTT(30), <4>1
        <4> HIDE DEF lo, lo2
        <4> QED BY <4>2
      <3>6. Ready(original, lo, span, w, up, calm, packets)
        BY <3>2
      <3> HIDE DEF lo, lo2, up, calm
      <3>7. Ready(original, lo2, span, w, up, calm, packets)
        BY <2>2, <3>4, <3>5, <3>6, WiderReady
      <3>8. (1 .. next' - 1) = (1 .. next - 1) \cup {next}
        BY <2>1, <3>3
      <3>9. \A i : PadsOverFirst(i)' = PadsOverFirst(i) /\ Applied(i)' = Applied(i)
        BY <2>1 DEF PadsOverFirst, Pads, Applied
      <3>10. Unmoved' = Unmoved /\ OnlySplit' = OnlySplit
        BY <2>1, <3>8, <3>9 DEF Unmoved, OnlySplit, Tiled
      <3>11. w # 0 => \E i \in 1 .. next' - 1 : PadsOverFirst(i)'
        BY <3>2, <3>8, <3>9
      <3>12. Ready(original', step * (next' - 1), span, w, Unmoved', OnlySplit', packets')
        BY <2>1, <3>7, <3>10 DEF lo2, up, calm
      <3> QED BY <3>11, <3>12 DEF InStream, Ready, Holds, FirstLow, InOrder
    <2> QED BY <1>1, <2>1, <2>2, <2>3 DEF SInv
  <1>6. CASE Finished
    BY <1>2, <1>6 DEF Finished
  <1>7. CASE Send
    BY <1>2, <1>7 DEF Send
  <1>8. CASE UNCHANGED vars
    <2>1. UNCHANGED <<original, found, pipeline, packets, next, pc>>
      BY <1>8 DEF vars
    <2>2. CASE pc = "fault"
      BY <1>1, <2>1, <2>2 DEF SInv
    <2>3. CASE pc # "fault"
      BY <1>2, <2>1, <2>3
    <2> QED BY <2>2, <2>3
  <1> QED BY <1>3, <1>4, <1>5, <1>6, <1>7, <1>8 DEF Next

(* What the network sees of a packet is what the list has, to the peer.    *)
LEMMA SentIs ==
  ASSUME original \in Deliveries, Sane(packets),
         NEW lo, NEW hi, NEW w, Holds(original, lo, hi, w, packets),
         NEW k \in DOMAIN packets
  PROVE  /\ Sent[k].seq = packets[k].seq /\ Sent[k].data = packets[k].data
         /\ Reaches(Sent[k]) <=> ~packets[k].fake
  <1>1. CASE packets[k].action = "ACCEPT"
    <2>1. PICK j \in DOMAIN original :
            /\ original[j].id = packets[k].id
            /\ original[j].seq = packets[k].seq /\ original[j].data = packets[k].data
      BY <1>1 DEF Holds, AsWas
    <2>2. OriginalOf(packets[k].id) = j
      <3>1. \A l \in DOMAIN original : original[l].id = packets[k].id => l = j
        BY <2>1, Delivered
      <3> QED BY <2>1, <3>1 DEF OriginalOf
    <2>3. Sent[k] = FromHeld(original[j])
      BY <1>1, <2>2 DEF Sent
    <2>4. ~packets[k].fake
      BY <1>1 DEF Holds, AsWas
    <2> QED BY <2>1, <2>3, <2>4 DEF FromHeld, Reaches
  <1>2. CASE packets[k].action # "ACCEPT"
    <2>1. Sent[k] = packets[k]
      BY <1>2 DEF Sent
    <2>2. packets[k].fake => packets[k].altered # {}
      BY DEF Holds, Muted
    <2>3. ~packets[k].fake => "cksum" \notin packets[k].altered
      BY DEF Holds, Counts
    <2> QED BY <2>1, <2>2, <2>3 DEF Reaches
  <1> QED BY <1>1, <1>2

LEMMA StreamOnWire ==
  ASSUME NEW span \in Nat, NEW step \in Nat, OneStream(span), SInv(span, step), ~FakeInFront
  PROVE  StreamPreserved
  <1> SUFFICES ASSUME pc = "done", \A m \in Ran : Sound(m), PaddingInPlace
               PROVE  LET got == Received(Base, Sent, OnWire)
                          meant == Received(Base, HandedOver, DOMAIN HandedOver)
                      IN  IsPrefix(got, meant) /\ (lost = {} => got = meant)
    BY Zenon DEF StreamPreserved
  <1> DEFINE T == Stream(original)
             n == Len(packets)
             all == DOMAIN original
             same == lost = {}
  <1>1. Sane(packets) /\ original \in Deliveries /\ InStream(span, step)
    BY DEF SInv, MInv, Proper
  <1>2. PICK w \in Nat : Ready(original, step * (next - 1), span, w, Unmoved, OnlySplit, packets)
    BY <1>1 DEF InStream
  <1> DEFINE lo == step * (next - 1)
  <1>3. Holds(original, lo, span, w, packets)
    BY <1>2 DEF Ready
  <1> HIDE DEF lo
  <1>4. /\ Base \in SeqNums /\ Base = original[1].seq /\ original \in Seq(HeldSegment)
        /\ all = 1 .. Len(original) /\ Len(original) \in Nat
    BY <1>1, StreamIs DEF Base
  <1>5. /\ n \in Nat /\ DOMAIN packets = 1 .. n
        /\ \A k \in 1 .. n : packets[k].seq \in SeqNums /\ packets[k].data \in Seq(Nat)
    BY <1>1, ListOf
  <1>6. DOMAIN Sent = 1 .. n /\ Len(Sent) = n /\ OnWire = (1 .. n) \ lost
    BY <1>5 DEF Sent, OnWire
  <1>7. \A k \in 1 .. n : /\ Sent[k].seq = packets[k].seq /\ Sent[k].data = packets[k].data
                          /\ Reaches(Sent[k]) <=> ~packets[k].fake
                          /\ ~packets[k].fake => Counts(original, lo, span, w, packets[k])
    BY <1>1, <1>3, <1>5, SentIs DEF Holds
  <1>8. \A k \in 1 .. n : Place(Base, Sent[k]) = Place(Base, packets[k])
    BY <1>7 DEF Place
  <1>9. \A k \in 1 .. n : \A x : Brings(Base, Sent[k], x) <=>
                                   ~packets[k].fake /\ Brings(Base, packets[k], x)
    <2> TAKE k \in 1 .. n
    <2>1. ~packets[k].fake => Reaches(packets[k])
      BY <1>7 DEF Counts, Reaches
    <2> QED BY <1>7, <1>8, <2>1 DEF Brings
  <1>10. Legible(Base, Sent)
    <2>1. \A k \in 1 .. n : Sent[k].data \in Seq(Nat) /\ Place(Base, Sent[k]) \in Int
      <3> TAKE k \in 1 .. n
      <3>1. Sent[k].seq \in SeqNums
        BY <1>5, <1>7
      <3> QED BY <1>4, <1>5, <1>7, <3>1, PlaceIs
    <2> QED BY <1>5, <1>6, <2>1 DEF Legible
  <1>11. Clear(Base, T, w, Sent, OnWire)
    <2> SUFFICES ASSUME NEW k \in OnWire, Reaches(Sent[k])
                 PROVE  /\ RightFrom(Base, T, w, Sent[k])
                        /\ Brings(Base, Sent[k], 1) =>
                             /\ RightFrom(Base, T, 0, Sent[k])
                             /\ w <= Place(Base, Sent[k]) + Len(Sent[k].data)
      BY DEF Clear
    <2>1. k \in 1 .. n /\ Counts(original, lo, span, w, packets[k])
      BY <1>6, <1>7
    <2>2. /\ RightFrom(Base, T, w, packets[k])
          /\ Brings(Base, packets[k], 1) =>
               /\ RightFrom(Base, T, 0, packets[k])
               /\ w <= Place(Base, packets[k]) + Len(packets[k].data)
      BY <1>4, <2>1 DEF Counts
    <2>3. \A v : RightFrom(Base, T, v, Sent[k]) <=> RightFrom(Base, T, v, packets[k])
      BY <1>7, <1>8, <2>1 DEF RightFrom
    <2> QED BY <1>7, <1>8, <1>9, <2>1, <2>2, <2>3
  <1>12. /\ DOMAIN HandedOver = all /\ Len(HandedOver) = Len(original)
         /\ \A i \in all : HandedOver[i] = FromHeld(original[i])
    BY <1>4 DEF HandedOver
  <1>13. \A i \in all : /\ HandedOver[i].seq \in SeqNums /\ HandedOver[i].data \in Seq(Nat)
                        /\ Counts(original, 0, span, 0, HandedOver[i])
    <2>1. Holds(original, 0, span, 0, HandedOver)
      BY <1>1, HandedCount DEF HandedOver
    <2> TAKE i \in all
    <2>2. original[i] \in HeldSegment
      BY <1>4
    <2>3. /\ HandedOver[i].seq \in SeqNums /\ HandedOver[i].data \in Seq(Nat)
          /\ ~HandedOver[i].fake
      BY <1>12, <2>2 DEF HeldSegment, FromHeld
    <2> QED BY <1>12, <2>1, <2>3 DEF Holds
  <1>14. Legible(Base, HandedOver)
    BY <1>4, <1>12, <1>13, PlaceIs DEF Legible
  <1>15. Clear(Base, T, 0, HandedOver, all)
    BY <1>4, <1>13 DEF Clear, Counts
  <1>16. \A x : HandedAt(original, x) <=> \E j \in all : Brings(Base, HandedOver[j], x)
    BY <1>4, <1>12 DEF HandedAt
  <1>17. \A x \in Nat \ {0} : \A k \in OnWire : Brings(Base, Sent[k], x) =>
           \E j \in all : Brings(Base, HandedOver[j], x)
    <2> TAKE x \in Nat \ {0}
    <2> TAKE k \in OnWire
    <2> HAVE Brings(Base, Sent[k], x)
    <2>1. k \in 1 .. n
      BY <1>6
    <2>2. Counts(original, lo, span, w, packets[k]) /\ Brings(Base, packets[k], x)
      BY <1>7, <1>9, <2>1
    <2>3. HandedAt(original, x)
      BY <1>4, <2>2 DEF Counts
    <2> QED BY <1>16, <2>3
  <1>18. same => \A x \in Nat \ {0} : \A j \in all : Brings(Base, HandedOver[j], x) =>
           \E k \in OnWire : Brings(Base, Sent[k], x)
    <2> SUFFICES ASSUME same, NEW x \in Nat \ {0}, NEW j \in all, Brings(Base, HandedOver[j], x)
                 PROVE  \E k \in OnWire : Brings(Base, Sent[k], x)
      OBVIOUS
    <2>1. HandedAt(original, x)
      BY <1>16
    <2>2. PICK k \in DOMAIN packets : ~packets[k].fake /\ Brings(Base, packets[k], x)
      BY <1>3, <1>4, <2>1 DEF Holds
    <2> QED BY <1>5, <1>6, <1>9, <2>2
  <1>19. /\ OnWire \in SUBSET (1 .. Len(Sent)) /\ all \in SUBSET (1 .. Len(HandedOver))
         /\ same \in BOOLEAN
    BY <1>4, <1>6, <1>12
  <1> DEFINE first == 0
  <1>20. first \in Nat /\ Clear(Base, T, first, HandedOver, all)
    BY <1>15
  <1>21. all = DOMAIN HandedOver
    BY <1>12
  <1> HIDE DEF T, all, same, first
  <1>22. LET got == Received(Base, Sent, OnWire)
             meant == Received(Base, HandedOver, all)
         IN  IsPrefix(got, meant) /\ (same => got = meant)
    BY <1>10, <1>11, <1>14, <1>17, <1>18, <1>19, <1>20, PeersAgree
  <1> QED BY <1>21, <1>22, Zenon DEF same

(* No cut, reversal, overlap or fake packet of a profile changes, loses or *)
(* adds a byte the peer receives, whatever could not be sent: for pieces   *)
(* of one stream, within half the sequence space of it, when no fake       *)
(* packet is in front of a disorder's overlap.                             *)
THEOREM StreamPreservedAlways ==
  ASSUME NEW span \in Nat, NEW step \in Nat, OneStream(span), RoomToPad(step)
  PROVE  Spec => [](~FakeInFront => StreamPreserved)
  <1>1. Init => SInv(span, step)
    BY SInvInit
  <1>2. SInv(span, step) /\ [Next]_vars => SInv(span, step)'
    BY SInvStep
  <1>3. SInv(span, step) => (~FakeInFront => StreamPreserved)
    BY StreamOnWire
  <1> QED BY <1>1, <1>2, <1>3, PTL DEF Spec


-----------------------------------------------------------------------------
(* Every offset of the payload lies in a packet *)

(* Within half the sequence space, sequence order is that of the places.   *)
LEMMA PlacesOrder ==
  ASSUME NEW base \in SeqNums, NEW p, p.seq \in SeqNums, NEW q, q.seq \in SeqNums,
         NEW lo \in Int, NEW hi \in Int, 2 * (hi - lo) < SeqSpace,
         lo <= Place(base, p), Place(base, p) <= hi,
         lo <= Place(base, q), Place(base, q) <= hi
  PROVE  /\ SeqLT(p.seq, q.seq) <=> Place(base, p) < Place(base, q)
         /\ p.seq = q.seq <=> Place(base, p) = Place(base, q)
  <1> DEFINE S == SeqSpace
             x == Place(base, p)
             y == Place(base, q)
             d == x - y
  <1>1. S \in Nat \ {0} /\ S \in Int /\ p.seq \in Int /\ q.seq \in Int /\ base \in Int
    <2>1. S \in Nat \ {0} /\ S \in Int
      BY SeqSpaceAssumption
    <2>2. p.seq \in Int /\ q.seq \in Int /\ base \in Int
      BY SeqNumsAreInts, Zenon
    <2> QED BY <2>1, <2>2
  <1>2. x \in Int /\ y \in Int
    BY PlaceIs
  <1>3. PICK j \in Int : p.seq - base = x + j * S
    BY PlaceIs
  <1>4. PICK k \in Int : q.seq - base = y + k * S
    BY PlaceIs
  <1> HIDE DEF x, y
  <1>5. j - k \in Int /\ (j - k) * S = j * S - k * S /\ j * S \in Int /\ k * S \in Int
    <2> HIDE DEF S
    <2> QED BY <1>1, <1>3, <1>4, Distributes
  <1>6. d \in Int /\ p.seq - q.seq = d + (j - k) * S
    <2> DEFINE a == j * S
               b == k * S
               c == (j - k) * S
    <2>1. a \in Int /\ b \in Int /\ c = a - b /\ p.seq - base = x + a /\ q.seq - base = y + b
      BY <1>3, <1>4, <1>5
    <2> HIDE DEF a, b, c, S
    <2>2. p.seq - q.seq = d + c
      BY <1>1, <1>2, <2>1
    <2> QED BY <1>2, <2>2 DEF c
  <1>7. (p.seq - q.seq) % S = d % S
    <2> HIDE DEF d, S
    <2>1. (d + (j - k) * S) % S = d % S
      BY <1>1, <1>5, <1>6, ModShift
    <2> QED BY <1>6, <2>1
  <1>8. d % S = IF d < 0 THEN d + S ELSE d
    <2>1. -S <= d /\ d < S
      BY <1>1, <1>2 DEF x, y
    <2>2. d < 0 \/ d \in 0 .. S - 1
      BY <1>1, <1>2, <2>1
    <2> HIDE DEF d, S
    <2> QED BY <1>1, <1>6, <2>1, <2>2, ModFacts
  <1>9. SeqLT(p.seq, q.seq) <=> x < y
    <2>1. SeqLT(p.seq, q.seq) <=> 2 * (d % S) >= S
      BY <1>7, Zenon DEF SeqLT, S
    <2>2. 2 * d < S /\ -S < 2 * d
      BY <1>1, <1>2 DEF x, y
    <2>3. x < y <=> d < 0
      BY <1>2
    <2> HIDE DEF d, S
    <2> QED BY <1>1, <1>6, <1>8, <2>1, <2>2, <2>3
  <1>10. ASSUME x = y PROVE p.seq = q.seq
    <2>1. d = 0
      BY <1>2, <1>10
    <2>2. (p.seq - q.seq) % S = 0
      BY <1>1, <1>7, <1>8, <2>1
    <2>3. -S < p.seq - q.seq /\ p.seq - q.seq < S /\ p.seq - q.seq \in Int
      BY <1>1 DEF SeqNums
    <2> DEFINE e == p.seq - q.seq
    <2>4. e % S = IF e < 0 THEN e + S ELSE e
      <3>1. e \in Int /\ -S <= e /\ (e < 0 \/ e \in 0 .. S - 1)
        BY <1>1, <2>3
      <3> HIDE DEF e, S
      <3> QED BY <1>1, <3>1, ModFacts
    <2>5. e = 0
      <3>1. e % S = 0 /\ e \in Int /\ -S < e
        BY <2>2, <2>3
      <3> HIDE DEF e, S
      <3> QED BY <1>1, <2>4, <3>1
    <2> QED BY <1>1, <2>5
  <1>11. p.seq = q.seq => x = y
    BY DEF x, y, Place
  <1> QED BY <1>9, <1>10, <1>11 DEF x, y

(* The bytes of a list: the number of the packet and the place in it.      *)
Bytes(ps) == UNION {{j} \X DOMAIN ps[j].data : j \in DOMAIN ps}
(* A packet lies between two places of the stream.                         *)
Lies(base, lo, hi, p) == lo <= Place(base, p) /\ Place(base, p) + Len(p.data) <= hi

(* All packets lie between lo and hi, and have n bytes or more in all.     *)
Laid(base, lo, hi, n, ps) ==
  /\ \A k \in DOMAIN ps : Lies(base, lo, hi, ps[k])
  /\ n <= Cardinality(Bytes(ps))

(* A byte is a place in the data of a packet of the list.                  *)
LEMMA BytesAre ==
  ASSUME NEW ps, Sane(ps)
  PROVE  /\ \A b : b \in Bytes(ps) <=>
              \E j \in 1 .. Len(ps) : \E y \in 1 .. Len(ps[j].data) : b = <<j, y>>
         /\ \A b \in Bytes(ps) : /\ b = <<b[1], b[2]>> /\ b[1] \in 1 .. Len(ps)
                                 /\ b[2] \in 1 .. Len(ps[b[1]].data)
         /\ \A j \in 1 .. Len(ps) : \A y \in 1 .. Len(ps[j].data) : <<j, y>> \in Bytes(ps)
  <1>1. DOMAIN ps = 1 .. Len(ps) /\ \A j \in 1 .. Len(ps) : DOMAIN ps[j].data = 1 .. Len(ps[j].data)
    <2>1. DOMAIN ps = 1 .. Len(ps) /\ \A j \in 1 .. Len(ps) : ps[j].data \in Seq(Nat)
      BY ListOf
    <2> QED BY <2>1
  <1>2. \A b : b \in Bytes(ps) <=> \E j \in 1 .. Len(ps) : b \in {j} \X (1 .. Len(ps[j].data))
    BY <1>1 DEF Bytes
  <1>3. \A b : b \in Bytes(ps) <=>
          \E j \in 1 .. Len(ps) : \E y \in 1 .. Len(ps[j].data) : b = <<j, y>>
    <2>1. \A b : \A j \in 1 .. Len(ps) :
            b \in {j} \X (1 .. Len(ps[j].data)) <=> \E y \in 1 .. Len(ps[j].data) : b = <<j, y>>
      OBVIOUS
    <2> QED BY <1>2, <2>1
  <1>4. \A b \in Bytes(ps) : /\ b = <<b[1], b[2]>> /\ b[1] \in 1 .. Len(ps)
                             /\ b[2] \in 1 .. Len(ps[b[1]].data)
    <2> TAKE b \in Bytes(ps)
    <2>1. PICK j \in 1 .. Len(ps) : \E y \in 1 .. Len(ps[j].data) : b = <<j, y>>
      BY <1>3
    <2>2. PICK y \in 1 .. Len(ps[j].data) : b = <<j, y>>
      BY <2>1
    <2>3. b[1] = j /\ b[2] = y
      BY <2>2
    <2> QED BY <2>2, <2>3
  <1>5. \A j \in 1 .. Len(ps) : \A y \in 1 .. Len(ps[j].data) : <<j, y>> \in Bytes(ps)
    BY <1>3
  <1> QED BY <1>3, <1>4, <1>5

(* Packets of bounded size have finitely many bytes.                       *)
LEMMA BytesFinite ==
  ASSUME NEW ps, Sane(ps), NEW M \in Nat, \A j \in 1 .. Len(ps) : Len(ps[j].data) <= M
  PROVE  IsFiniteSet(Bytes(ps))
  <1> DEFINE n == Len(ps)
  <1>1. n \in Nat /\ \A j \in 1 .. n : Len(ps[j].data) \in Nat
    BY ListOf
  <1>2. IsFiniteSet(1 .. n) /\ IsFiniteSet(1 .. M)
    BY <1>1, FS_Interval
  <1>3. IsFiniteSet((1 .. n) \X (1 .. M))
    BY <1>2, FS_Product
  <1>4. Bytes(ps) \subseteq (1 .. n) \X (1 .. M)
    <2> SUFFICES ASSUME NEW b \in Bytes(ps) PROVE b \in (1 .. n) \X (1 .. M)
      OBVIOUS
    <2>1. b = <<b[1], b[2]>> /\ b[1] \in 1 .. n /\ b[2] \in 1 .. Len(ps[b[1]].data)
      BY BytesAre
    <2>2. b[2] \in 1 .. M
      BY <1>1, <2>1
    <2> QED BY <2>1, <2>2
  <1> QED BY <1>3, <1>4, FS_Subset

(* What lies between two places is no larger than what is between them.    *)
LEMMA LaidFacts ==
  ASSUME NEW ps, Sane(ps), NEW base \in SeqNums, NEW lo \in Int, NEW hi \in Int,
         \A k \in DOMAIN ps : Lies(base, lo, hi, ps[k])
  PROVE  /\ \A k \in 1 .. Len(ps) :
              /\ Place(base, ps[k]) \in Int /\ Len(ps[k].data) \in Nat
              /\ lo <= Place(base, ps[k]) /\ Place(base, ps[k]) <= hi
              /\ Place(base, ps[k]) + Len(ps[k].data) <= hi
              /\ Len(ps[k].data) <= hi - lo
         /\ hi - lo \in Nat
         /\ IsFiniteSet(Bytes(ps)) /\ Cardinality(Bytes(ps)) \in Nat
  <1>1. \A k \in 1 .. Len(ps) :
              /\ Place(base, ps[k]) \in Int /\ Len(ps[k].data) \in Nat
              /\ lo <= Place(base, ps[k])
              /\ Place(base, ps[k]) + Len(ps[k].data) <= hi
    <2> TAKE k \in 1 .. Len(ps)
    <2>1. k \in DOMAIN ps /\ ps[k].seq \in SeqNums /\ Len(ps[k].data) \in Nat
      BY ListOf
    <2>2. Place(base, ps[k]) \in Int
      BY <2>1, PlaceIs
    <2> QED BY <2>1, <2>2 DEF Lies
  <1>2. \A k \in 1 .. Len(ps) :
              /\ Place(base, ps[k]) <= hi /\ Len(ps[k].data) <= hi - lo
    BY <1>1
  <1>3. 1 \in 1 .. Len(ps)
    BY ListOf
  <1>4. hi - lo \in Nat
    BY <1>1, <1>3
  <1>5. IsFiniteSet(Bytes(ps))
    BY <1>2, <1>4, BytesFinite
  <1> QED BY <1>1, <1>2, <1>4, <1>5, FS_CardinalityType

(* What comes before a packet, and before a byte of it.                    *)
LEMMA BeforeIs ==
  ASSUME NEW ps, Sane(ps), NEW base \in SeqNums, NEW lo \in Int, NEW hi \in Int,
         2 * (hi - lo) < SeqSpace,
         \A k \in DOMAIN ps : Lies(base, lo, hi, ps[k]),
         NEW i \in 1 .. Len(ps)
  PROVE  /\ Before(ps, i) \subseteq 1 .. Len(ps)
         /\ \A j \in 1 .. Len(ps) : j \in Before(ps, i) <=>
              \/ Place(base, ps[j]) < Place(base, ps[i])
              \/ Place(base, ps[j]) = Place(base, ps[i]) /\ j < i
  <1>1. DOMAIN ps = 1 .. Len(ps)
    BY ListOf
  <1>2. \A j \in 1 .. Len(ps) :
          /\ SeqLT(ps[j].seq, ps[i].seq) <=> Place(base, ps[j]) < Place(base, ps[i])
          /\ ps[j].seq = ps[i].seq <=> Place(base, ps[j]) = Place(base, ps[i])
    <2> TAKE j \in 1 .. Len(ps)
    <2>1. ps[j].seq \in SeqNums /\ ps[i].seq \in SeqNums
      BY ListOf
    <2>2. /\ lo <= Place(base, ps[j]) /\ Place(base, ps[j]) <= hi
          /\ lo <= Place(base, ps[i]) /\ Place(base, ps[i]) <= hi
      BY LaidFacts
    <2> QED BY <2>1, <2>2, PlacesOrder
  <1> QED BY <1>1, <1>2 DEF Before

(* The bytes before each byte.                                             *)
Earlier(ps) ==
  [b \in Bytes(ps) |->
     {c \in Bytes(ps) : c[1] \in Before(ps, b[1]) \/ (c[1] = b[1] /\ c[2] < b[2])}]

(* Bytes are ordered: each is before or after each other one.              *)
LEMMA EarlierOrders ==
  ASSUME NEW ps, Sane(ps), NEW base \in SeqNums, NEW lo \in Int, NEW hi \in Int,
         2 * (hi - lo) < SeqSpace,
         \A k \in DOMAIN ps : Lies(base, lo, hi, ps[k])
  PROVE  LET S == Bytes(ps)
             A == Earlier(ps)
         IN  /\ A \in [S -> SUBSET S]
             /\ \A b \in S : b \notin A[b]
             /\ \A b, c \in S : b = c \/ b \in A[c] \/ c \in A[b]
             /\ \A b, c \in S : b \in A[c] => A[b] \subseteq A[c]
  <1> DEFINE S == Bytes(ps)
             A == Earlier(ps)
             n == Len(ps)
             pl(i) == Place(base, ps[i])
  <1>1. \A i \in 1 .. n : pl(i) \in Int
    BY LaidFacts
  <1>2. \A i, j \in 1 .. n : j \in Before(ps, i) <=> pl(j) < pl(i) \/ (pl(j) = pl(i) /\ j < i)
    BY BeforeIs
  <1>3. n \in Nat /\ \A b \in S : b = <<b[1], b[2]>> /\ b[1] \in 1 .. n /\ b[2] \in Int
    <2>1. n \in Nat /\ \A i \in 1 .. n : Len(ps[i].data) \in Nat
      BY ListOf
    <2>2. \A b \in S : b = <<b[1], b[2]>> /\ b[1] \in 1 .. n /\ b[2] \in 1 .. Len(ps[b[1]].data)
      BY BytesAre
    <2> QED BY <2>1, <2>2
  <1> HIDE DEF S, pl, n
  <1>4. A \in [S -> SUBSET S] /\
        \A b, c \in S : b \in A[c] <=> b[1] \in Before(ps, c[1]) \/ (b[1] = c[1] /\ b[2] < c[2])
    BY DEF Earlier, S
  <1> DEFINE Lt(b, c) == \/ pl(b[1]) < pl(c[1])
                         \/ pl(b[1]) = pl(c[1]) /\ b[1] < c[1]
                         \/ b[1] = c[1] /\ b[2] < c[2]
  <1>5. \A b, c \in S : b \in A[c] <=> Lt(b, c)
    BY <1>2, <1>3, <1>4
  <1> HIDE DEF A
  <1>6. ASSUME NEW b \in S, NEW c \in S, NEW d \in S
        PROVE  /\ ~Lt(b, b)
               /\ (b[1] = c[1] /\ b[2] = c[2]) \/ Lt(b, c) \/ Lt(c, b)
               /\ Lt(b, c) /\ Lt(c, d) => Lt(b, d)
    <2>1. /\ b[1] \in Int /\ b[2] \in Int /\ pl(b[1]) \in Int
          /\ c[1] \in Int /\ c[2] \in Int /\ pl(c[1]) \in Int
          /\ d[1] \in Int /\ d[2] \in Int /\ pl(d[1]) \in Int
      BY <1>1, <1>3
    <2>2. /\ b[1] = c[1] => pl(b[1]) = pl(c[1])
          /\ c[1] = d[1] => pl(c[1]) = pl(d[1])
      OBVIOUS
    <2> QED BY <2>1, <2>2, SMTT(30)
  <1> HIDE DEF Lt
  <1>7. \A b \in S : b \notin A[b]
    BY <1>5, <1>6
  <1>8. \A b, c \in S : b = c \/ b \in A[c] \/ c \in A[b]
    <2> TAKE b, c \in S
    <2>1. b = <<b[1], b[2]>> /\ c = <<c[1], c[2]>>
      BY <1>3
    <2>2. (b[1] = c[1] /\ b[2] = c[2]) \/ Lt(b, c) \/ Lt(c, b)
      BY <1>6
    <2> QED BY <1>5, <2>1, <2>2
  <1>9. \A b, c \in S : b \in A[c] => A[b] \subseteq A[c]
    <2> SUFFICES ASSUME NEW b \in S, NEW c \in S, b \in A[c], NEW d \in A[b] PROVE d \in A[c]
      OBVIOUS
    <2>1. d \in S
      BY <1>4
    <2> QED BY <1>5, <1>6, <2>1
  <1> QED BY <1>4, <1>7, <1>8, <1>9 DEF S, A

(* The bytes before one are those that FindPacketByOffset counts.          *)
LEMMA EarlierCount ==
  ASSUME NEW ps, Sane(ps), NEW base \in SeqNums, NEW lo \in Int, NEW hi \in Int,
         2 * (hi - lo) < SeqSpace,
         \A k \in DOMAIN ps : Lies(base, lo, hi, ps[k]),
         NEW b \in Bytes(ps)
  PROVE  /\ SizeBefore(ps, b[1]) \in Nat
         /\ Cardinality(Earlier(ps)[b]) = SizeBefore(ps, b[1]) + b[2] - 1
  <1> DEFINE n == Len(ps)
             i == b[1]
             y == b[2]
             B == UNION {{j} \X DOMAIN ps[j].data : j \in Before(ps, i)}
             C == {c \in Bytes(ps) : c[1] = i /\ c[2] < y}
             f == [z \in 1 .. y - 1 |-> <<i, z>>]
  <1>1. /\ n \in Nat /\ i \in 1 .. n /\ y \in 1 .. Len(ps[i].data) /\ Len(ps[i].data) \in Nat
        /\ DOMAIN ps = 1 .. n
    BY BytesAre, ListOf
  <1>2. Before(ps, i) \subseteq 1 .. n /\ i \notin Before(ps, i)
    <2> HIDE DEF i
    <2>1. Place(base, ps[i]) \in Int
      BY <1>1, LaidFacts
    <2>2. /\ Before(ps, i) \subseteq 1 .. n
          /\ i \in Before(ps, i) <=>
               \/ Place(base, ps[i]) < Place(base, ps[i])
               \/ Place(base, ps[i]) = Place(base, ps[i]) /\ i < i
      BY <1>1, BeforeIs
    <2> QED BY <1>1, <2>1, <2>2
  <1>3. /\ \A c \in Bytes(ps) : /\ c = <<c[1], c[2]>> /\ c[1] \in 1 .. n
                                 /\ c[2] \in 1 .. Len(ps[c[1]].data)
        /\ \A j \in 1 .. n : \A z \in 1 .. Len(ps[j].data) : <<j, z>> \in Bytes(ps)
    BY BytesAre
  <1> HIDE DEF n, i, y
  <1>4. B = {c \in Bytes(ps) : c[1] \in Before(ps, i)}
    <2>1. B \subseteq Bytes(ps)
      BY <1>1, <1>2 DEF Bytes
    <2>2. \A c \in B : c[1] \in Before(ps, i)
      OBVIOUS
    <2>3. ASSUME NEW c \in Bytes(ps), c[1] \in Before(ps, i) PROVE c \in B
      <3>1. c \in {c[1]} \X DOMAIN ps[c[1]].data
        <4>1. PICK j \in DOMAIN ps : c \in {j} \X DOMAIN ps[j].data
          BY DEF Bytes
        <4>2. c[1] = j
          BY <4>1
        <4> QED BY <4>1, <4>2
      <3> QED BY <2>3, <3>1
    <2> HIDE DEF B
    <2> QED BY <2>1, <2>2, <2>3
  <1>5. IsFiniteSet(Bytes(ps))
    BY LaidFacts
  <1>6. IsFiniteSet(B) /\ Cardinality(B) \in Nat /\ SizeBefore(ps, i) = Cardinality(B)
    <2>1. SizeBefore(ps, i) = Cardinality(B)
      BY DEF SizeBefore
    <2>2. B \in SUBSET Bytes(ps)
      BY <1>4
    <2> HIDE DEF B
    <2>3. IsFiniteSet(B)
      BY <1>5, <2>2, FS_Subset
    <2> QED BY <2>1, <2>3, FS_CardinalityType
  <1>7. f \in Bijection(1 .. y - 1, C)
    <2>1. \A z \in 1 .. y - 1 : <<i, z>> \in C
      <3> TAKE z \in 1 .. y - 1
      <3>1. z \in 1 .. Len(ps[i].data) /\ z < y
        BY <1>1
      <3> QED BY <1>1, <1>3, <3>1
    <2>2. f \in [1 .. y - 1 -> C]
      BY <2>1
    <2>3. \A z, w \in 1 .. y - 1 : f[z] = f[w] => z = w
      OBVIOUS
    <2>4. \A c \in C : \E z \in 1 .. y - 1 : f[z] = c
      <3> SUFFICES ASSUME NEW c \in C PROVE \E z \in 1 .. y - 1 : f[z] = c
        OBVIOUS
      <3>1. c = <<i, c[2]>> /\ c[2] \in 1 .. y - 1
        BY <1>1, <1>3
      <3> QED BY <3>1
    <2> HIDE DEF f, C
    <2> QED BY <2>2, <2>3, <2>4, Fun_IsBij
  <1>8. IsFiniteSet(C) /\ Cardinality(C) = y - 1
    <2>1. IsFiniteSet(1 .. y - 1) /\ Cardinality(1 .. y - 1) = y - 1
      <3>1. /\ IsFiniteSet(1 .. y - 1)
            /\ Cardinality(1 .. y - 1) = IF 1 > y - 1 THEN 0 ELSE (y - 1) - 1 + 1
        <4>1. 1 \in Int /\ y - 1 \in Int
          BY <1>1
        <4> QED BY <4>1, FS_Interval
      <3> QED BY <1>1, <3>1
    <2>2. ExistsBijection(1 .. y - 1, C)
      <3> HIDE DEF f, C
      <3> QED BY <1>7 DEF ExistsBijection
    <2> HIDE DEF C
    <2> QED BY <2>1, <2>2, FS_Bijection
  <1>9. Earlier(ps)[b] = B \cup C
    BY <1>4 DEF Earlier, i, y
  <1>10. B \cap C = {}
    BY <1>2, <1>4
  <1>11. Cardinality(B \cap C) = 0
    BY <1>10, FS_EmptySet
  <1>12. Cardinality(Earlier(ps)[b]) = Cardinality(B) + Cardinality(C) - 0
    <2> HIDE DEF B, C
    <2> QED BY <1>6, <1>8, <1>9, <1>11, FS_Union
  <1> HIDE DEF B, C
  <1>13. SizeBefore(ps, i) \in Nat /\ y \in Int
    BY <1>1, <1>6
  <1>14. Cardinality(Earlier(ps)[b]) = SizeBefore(ps, i) + y - 1
    BY <1>6, <1>8, <1>12, <1>13
  <1> QED BY <1>13, <1>14 DEF i, y

(* A packet is found at every offset that there are bytes for.             *)
LEMMA OffsetFound ==
  ASSUME NEW ps, Sane(ps), NEW base \in SeqNums, NEW lo \in Int, NEW hi \in Int,
         2 * (hi - lo) < SeqSpace, NEW n \in Nat, Laid(base, lo, hi, n, ps),
         NEW pos \in Nat, pos < n
  PROVE  FindPacketByOffset(ps, pos) # NotFound
  <1> DEFINE S == Bytes(ps)
             A == Earlier(ps)
             hits == {i \in DOMAIN ps : pos - SizeBefore(ps, i) \in 0 .. Len(ps[i].data) - 1}
             i == CHOOSE k \in hits : TRUE
  <1>1. \A k \in DOMAIN ps : Lies(base, lo, hi, ps[k])
    BY DEF Laid
  <1>2. pos \in 0 .. Cardinality(S) - 1
    <2>1. Cardinality(S) \in Nat /\ n <= Cardinality(S)
      BY <1>1, LaidFacts DEF Laid
    <2> HIDE DEF S
    <2> QED BY <2>1
  <1>3. PICK b \in S : Cardinality(A[b]) = pos
    <2>1. IsFiniteSet(S)
      BY <1>1, LaidFacts
    <2>2. /\ A \in [S -> SUBSET S]
          /\ \A b \in S : b \notin A[b]
          /\ \A b, c \in S : b = c \/ b \in A[c] \/ c \in A[b]
          /\ \A b, c \in S : b \in A[c] => A[b] \subseteq A[c]
      BY <1>1, EarlierOrders
    <2> HIDE DEF S, A
    <2>3. \A r \in 0 .. Cardinality(S) - 1 : \E b \in S : Cardinality(A[b]) = r
      BY <2>1, <2>2, RanksTaken
    <2> QED BY <1>2, <2>3
  <1>4. /\ SizeBefore(ps, b[1]) \in Nat /\ pos = SizeBefore(ps, b[1]) + b[2] - 1
    BY <1>1, <1>3, EarlierCount
  <1>5. /\ b[1] \in DOMAIN ps /\ b[2] \in 1 .. Len(ps[b[1]].data)
        /\ Len(ps[b[1]].data) \in Nat
    BY BytesAre, ListOf
  <1>6. b[1] \in hits
    <2> DEFINE before == SizeBefore(ps, b[1])
               y == b[2]
               len == Len(ps[b[1]].data)
    <2>1. pos - before \in 0 .. len - 1
      <3>1. /\ before \in Nat /\ pos = before + y - 1
            /\ y \in 1 .. len /\ len \in Nat
        BY <1>4, <1>5
      <3> HIDE DEF before, y, len
      <3> QED BY <3>1
    <2> QED BY <1>5, <2>1
  <1>7. i \in hits /\ hits # {}
    BY <1>6
  <1>8. FindPacketByOffset(ps, pos) = [at |-> i, rel |-> pos - SizeBefore(ps, i)]
    BY <1>7 DEF FindPacketByOffset
  <1>9. i >= 1
    <2>1. DOMAIN ps = 1 .. Len(ps) /\ Len(ps) \in Nat /\ i \in DOMAIN ps
      BY <1>7, ListOf
    <2> QED BY <2>1
  <1> HIDE DEF i
  <1>10. FindPacketByOffset(ps, pos).at = i /\ NotFound.at = 0 /\ i # 0
    BY <1>8, <1>9 DEF NotFound
  <1> QED BY <1>10

-----------------------------------------------------------------------------
(* What the steps of a modifier do to where the packets lie                *)

(* A byte for each byte of before, and none twice.                         *)
LEMMA BytesStay ==
  ASSUME NEW ps, NEW qs, NEW f \in [Bytes(ps) -> Bytes(qs)],
         \A b, c \in Bytes(ps) : f[b] = f[c] => b = c,
         IsFiniteSet(Bytes(qs)), NEW n \in Nat, n <= Cardinality(Bytes(ps))
  PROVE  n <= Cardinality(Bytes(qs))
  <1>1. f \in Injection(Bytes(ps), Bytes(qs))
    BY Fun_IsInj
  <1>2. IsFiniteSet(Bytes(ps)) /\ Cardinality(Bytes(ps)) <= Cardinality(Bytes(qs))
    BY <1>1, FS_Injection
  <1>3. Cardinality(Bytes(ps)) \in Nat /\ Cardinality(Bytes(qs)) \in Nat
    BY <1>2, FS_CardinalityType
  <1> QED BY <1>2, <1>3

(* Lists of the same bytes.                                                *)
LEMMA SameBytes ==
  ASSUME NEW ps, NEW qs, DOMAIN qs = DOMAIN ps, \A i \in DOMAIN ps : qs[i].data = ps[i].data
  PROVE  Bytes(qs) = Bytes(ps)
  BY DEF Bytes

(* What a disorder's second packet depends on: cuts only add to the list.  *)
Two(ps) == \E i, j \in Originals(ps) : i # j
(* What stays true of a list that packets were added to.                   *)
Grown(ps, qs) ==
  /\ Len(ps) <= Len(qs)
  /\ qs[1].fake = ps[1].fake
  /\ Originals(ps) = {} => Originals(qs) = {}
  /\ Two(ps) => Two(qs)

(* A cut packet lies where the whole one did, and has the same bytes.      *)
LEMMA SplitLaid ==
  ASSUME NEW ps, Sane(ps), NEW base \in SeqNums, NEW lo \in Int, NEW hi \in Int,
         -SeqSpace <= 2 * lo, 2 * hi < SeqSpace,
         NEW n \in Nat, Laid(base, lo, hi, n, ps),
         NEW at \in DOMAIN ps, NEW rel \in 0 .. Len(ps[at].data) - 1
  PROVE  LET qs == SplitPacket(ps, at, rel)
         IN  /\ Sane(qs) /\ Laid(base, lo, hi, n, qs)
             /\ Grown(ps, qs) /\ Len(qs) = Len(ps) + 1
  <1> DEFINE qs == SplitPacket(ps, at, rel)
             l == Len(ps)
             d == Len(ps[at].data)
             To(i) == IF i <= at THEN i ELSE i + 1
             From(k) == IF k <= at THEN k ELSE k - 1
  <1>1. /\ l \in Nat /\ DOMAIN ps = 1 .. l /\ at \in 1 .. l /\ l >= 1
        /\ d \in Nat /\ rel \in 0 .. d - 1
        /\ \A i \in 1 .. l : ps[i].seq \in SeqNums /\ Len(ps[i].data) \in Nat
    BY ListOf
  <1>2. /\ Len(qs) = l + 1 /\ DOMAIN qs = 1 .. l + 1
        /\ \A k \in 1 .. l + 1 : /\ k < at => qs[k] = ps[k]
                                 /\ k > at + 1 => qs[k] = ps[k - 1]
        /\ qs[at].seq = ps[at].seq /\ qs[at].fake = ps[at].fake
        /\ Len(qs[at].data) = rel
        /\ qs[at + 1].seq = (ps[at].seq + rel) % SeqSpace
        /\ qs[at + 1].fake = ps[at].fake
        /\ Len(qs[at + 1].data) = d - rel
    BY SplitFacts
  <1>3. Sane(qs)
    BY SplitPacketKeeps
  <1>4. \A k \in 1 .. l : Lies(base, lo, hi, ps[k])
    BY <1>1 DEF Laid
  <1> HIDE DEF qs
  <1>5. Place(base, ps[at]) \in Int /\ lo <= Place(base, ps[at]) /\ Place(base, ps[at]) + d <= hi
    BY <1>1, <1>4, PlaceIs DEF Lies
  <1>6. Lies(base, lo, hi, qs[at])
    <2>1. Place(base, qs[at]) = Place(base, ps[at])
      BY <1>2 DEF Place
    <2> HIDE DEF d
    <2> QED BY <1>1, <1>2, <1>5, <2>1 DEF Lies
  <1>7. Lies(base, lo, hi, qs[at + 1])
    <2>1. Place(base, qs[at + 1]) = Place(base, ps[at]) + rel
      <3>1. /\ rel \in Int
            /\ 2 * (Place(base, ps[at]) + rel) < SeqSpace
            /\ -SeqSpace <= 2 * (Place(base, ps[at]) + rel)
        <4> DEFINE x == Place(base, ps[at])
        <4>1. SeqSpace \in Int /\ x \in Int /\ lo <= x /\ x + d <= hi
          BY <1>5, Sizes
        <4>2. rel \in Int /\ d \in Int /\ 0 <= rel /\ rel <= d
          <5> HIDE DEF d
          <5> QED BY <1>1
        <4> HIDE DEF d, x
        <4>3. x + rel \in Int /\ lo <= x + rel /\ x + rel <= hi
          BY <4>1, <4>2
        <4>4. 2 * (x + rel) < SeqSpace /\ -SeqSpace <= 2 * (x + rel)
          BY <4>1, <4>3
        <4> QED BY <4>2, <4>4 DEF x
      <3> DEFINE p == ps[at]
                 q == qs[at + 1]
      <3>2. /\ p.seq \in SeqNums /\ q.seq = (p.seq + rel) % SeqSpace /\ rel \in Int
            /\ 2 * (Place(base, p) + rel) < SeqSpace
            /\ -SeqSpace <= 2 * (Place(base, p) + rel)
        BY <1>1, <1>2, <3>1
      <3> HIDE DEF p, q
      <3>3. Place(base, q) = Place(base, p) + rel
        BY <3>2, PlaceMoves
      <3> QED BY <3>3 DEF p, q
    <2> DEFINE x == Place(base, ps[at])
               q == qs[at + 1]
    <2>2. Place(base, q) = x + rel /\ Len(q.data) = d - rel
      BY <1>2, <2>1
    <2>3. x \in Int /\ lo <= x /\ x + d <= hi
      BY <1>5
    <2> HIDE DEF d, x, q
    <2>4. rel \in Int /\ d \in Int /\ 0 <= rel
      BY <1>1
    <2>5. lo <= x + rel /\ (x + rel) + (d - rel) <= hi
      BY <2>3, <2>4
    <2>6. Lies(base, lo, hi, q)
      BY <2>2, <2>5 DEF Lies
    <2> QED BY <2>6 DEF q
  <1>8. \A k \in 1 .. l + 1 : Lies(base, lo, hi, qs[k])
    <2> TAKE k \in 1 .. l + 1
    <2>1. CASE k < at
      <3>1. k \in 1 .. l /\ qs[k] = ps[k]
        BY <1>1, <1>2, <2>1
      <3> QED BY <1>4, <3>1
    <2>2. CASE k > at + 1
      <3>1. k - 1 \in 1 .. l /\ qs[k] = ps[k - 1]
        BY <1>1, <1>2, <2>2
      <3> QED BY <1>4, <3>1
    <2>3. k < at \/ k = at \/ k = at + 1 \/ k > at + 1
      BY <1>1
    <2> QED BY <1>6, <1>7, <2>1, <2>2, <2>3
  <1>9. n <= Cardinality(Bytes(qs))
    <2> DEFINE f == [b \in Bytes(ps) |->
                       <<IF b[1] = at /\ b[2] > rel THEN at + 1 ELSE To(b[1]),
                         IF b[1] = at /\ b[2] > rel THEN b[2] - rel ELSE b[2]>>]
    <2>1. IsFiniteSet(Bytes(qs))
      BY <1>2, <1>3, <1>8, LaidFacts
    <2>2. \A b \in Bytes(ps) : /\ b = <<b[1], b[2]>> /\ b[1] \in 1 .. l
                               /\ b[2] \in 1 .. Len(ps[b[1]].data)
      BY BytesAre
    <2>3. \A j \in 1 .. l + 1 : \A y \in 1 .. Len(qs[j].data) : <<j, y>> \in Bytes(qs)
      BY <1>2, <1>3, BytesAre
    <2>4. ASSUME NEW b \in Bytes(ps) PROVE f[b] \in Bytes(qs)
      <3>1. b[1] \in 1 .. l /\ b[2] \in 1 .. Len(ps[b[1]].data) /\ Len(ps[b[1]].data) \in Nat
        BY <1>1, <2>2
      <3>2. CASE b[1] = at /\ b[2] > rel
        <4>0. b[2] \in 1 .. d /\ b[2] > rel
          BY <3>1, <3>2
        <4>1. b[2] - rel \in 1 .. Len(qs[at + 1].data) /\ at + 1 \in 1 .. l + 1
          <5>1. Len(qs[at + 1].data) = d - rel
            BY <1>2
          <5>2. d \in Nat /\ rel \in 0 .. d - 1 /\ at \in 1 .. l /\ l \in Nat
            BY <1>1
          <5> HIDE DEF d, l
          <5>3. \A y \in 1 .. d : y > rel => y - rel \in 1 .. d - rel
            BY <5>2
          <5>4. at + 1 \in 1 .. l + 1
            BY <5>2
          <5> QED BY <4>0, <5>1, <5>3, <5>4
        <4> QED BY <2>3, <3>2, <4>1
      <3>3. CASE b[1] = at /\ ~ (b[2] > rel)
        <4>1. b[2] \in 1 .. Len(qs[at].data) /\ at \in 1 .. l + 1 /\ To(b[1]) = at
          BY <1>1, <1>2, <3>1, <3>3
        <4> QED BY <2>3, <3>3, <4>1
      <3>4. CASE b[1] < at
        <4>0. \A j \in 1 .. l : j < at =>
                j \in 1 .. l + 1 /\ qs[j] = ps[j] /\ To(j) = j /\ j # at
          BY <1>1, <1>2
        <4>1. b[1] \in 1 .. l + 1 /\ qs[b[1]] = ps[b[1]] /\ To(b[1]) = b[1] /\ b[1] # at
          BY <3>1, <3>4, <4>0
        <4> QED BY <2>3, <3>1, <4>1
      <3>5. CASE b[1] > at
        <4>1. /\ b[1] + 1 \in 1 .. l + 1 /\ b[1] + 1 > at + 1 /\ (b[1] + 1) - 1 = b[1]
              /\ To(b[1]) = b[1] + 1 /\ b[1] # at
          <5>1. at \in Int /\ l \in Int
            BY <1>1
          <5> HIDE DEF l
          <5>2. \A j \in 1 .. l : j > at =>
                  /\ j + 1 \in 1 .. l + 1 /\ j + 1 > at + 1 /\ (j + 1) - 1 = j
                  /\ To(j) = j + 1 /\ j # at
            BY <5>1
          <5> QED BY <3>1, <3>5, <5>2
        <4>2. qs[b[1] + 1] = ps[b[1]]
          BY <1>2, <4>1
        <4> QED BY <2>3, <3>1, <4>1, <4>2
      <3> QED BY <1>1, <3>1, <3>2, <3>3, <3>4, <3>5
    <2>5. ASSUME NEW b \in Bytes(ps), NEW c \in Bytes(ps), f[b] = f[c] PROVE b = c
      <3>1. /\ b = <<b[1], b[2]>> /\ b[1] \in Int /\ b[2] \in Int
            /\ c = <<c[1], c[2]>> /\ c[1] \in Int /\ c[2] \in Int
        <4>1. /\ b[1] \in 1 .. l /\ b[2] \in 1 .. Len(ps[b[1]].data) /\ Len(ps[b[1]].data) \in Nat
              /\ c[1] \in 1 .. l /\ c[2] \in 1 .. Len(ps[c[1]].data) /\ Len(ps[c[1]].data) \in Nat
          BY <1>1, <2>2
        <4> QED BY <2>2, <4>1
      <3> DEFINE cutB == b[1] = at /\ b[2] > rel
                 cutC == c[1] = at /\ c[2] > rel
      <3>3. /\ (IF cutB THEN at + 1 ELSE To(b[1])) = (IF cutC THEN at + 1 ELSE To(c[1]))
            /\ (IF cutB THEN b[2] - rel ELSE b[2]) = (IF cutC THEN c[2] - rel ELSE c[2])
        BY <2>5
      <3> HIDE DEF f
      <3>4. b[1] = c[1] /\ b[2] = c[2]
        <4>1. at \in Int /\ rel \in Int
          BY <1>1
        <4> QED BY <3>1, <3>3, <4>1
      <3> QED BY <3>1, <3>4
    <2>6. f \in [Bytes(ps) -> Bytes(qs)]
      BY <2>4
    <2>7. n <= Cardinality(Bytes(ps))
      BY DEF Laid
    <2> HIDE DEF f
    <2> QED BY <2>1, <2>5, <2>6, <2>7, BytesStay
  <1>10. Grown(ps, qs)
    <2>1. \A i \in 1 .. l : To(i) \in 1 .. l + 1 /\ qs[To(i)].fake = ps[i].fake
      <3> TAKE i \in 1 .. l
      <3>1. CASE i < at
        BY <1>1, <1>2, <3>1
      <3>2. CASE i = at
        BY <1>1, <1>2, <3>2
      <3>3. CASE i > at
        <4>1. i + 1 \in 1 .. l + 1 /\ i + 1 > at + 1 /\ (i + 1) - 1 = i /\ To(i) = i + 1
          BY <1>1, <3>3
        <4> QED BY <1>2, <4>1
      <3> QED BY <1>1, <3>1, <3>2, <3>3
    <2>2. \A i, j \in 1 .. l : To(i) = To(j) => i = j
      BY <1>1
    <2>3. \A k \in 1 .. l + 1 : \E i \in 1 .. l : qs[k].fake = ps[i].fake
      <3> TAKE k \in 1 .. l + 1
      <3>1. CASE k <= at
        <4>1. k \in 1 .. l /\ (k < at \/ k = at)
          BY <1>1, <3>1
        <4> QED BY <1>2, <4>1
      <3>2. CASE k = at + 1
        BY <1>1, <1>2, <3>2
      <3>3. CASE k > at + 1
        <4>1. k - 1 \in 1 .. l
          BY <1>1, <3>3
        <4> QED BY <1>2, <3>3, <4>1
      <3> QED BY <1>1, <3>1, <3>2, <3>3
    <2>4. qs[1].fake = ps[1].fake
      <3>1. 1 \in 1 .. l /\ To(1) = 1
        BY <1>1
      <3> QED BY <2>1, <3>1
    <2> HIDE DEF To
    <2>5. \A i \in Originals(ps) : To(i) \in Originals(qs)
      BY <1>1, <1>2, <2>1 DEF Originals
    <2>6. \A i, j \in Originals(ps) : i # j => To(i) # To(j)
      BY <1>1, <2>2 DEF Originals
    <2>7. Originals(ps) = {} => Originals(qs) = {}
      BY <1>1, <1>2, <2>3 DEF Originals
    <2>8. Len(ps) <= Len(qs)
      BY <1>1, <1>2
    <2> QED BY <2>4, <2>5, <2>6, <2>7, <2>8 DEF Grown, Two
  <1> QED BY <1>2, <1>3, <1>8, <1>9, <1>10 DEF Laid, qs

(* Cuts in a row add to the list as one does.                              *)
LEMMA GrownThrough ==
  ASSUME NEW ps, Sane(ps), NEW qs, Sane(qs), NEW rs, Sane(rs), Grown(ps, qs), Grown(qs, rs)
  PROVE  Grown(ps, rs)
  <1>1. Len(ps) \in Nat /\ Len(qs) \in Nat /\ Len(rs) \in Nat
    BY ListOf
  <1> QED BY <1>1 DEF Grown

(* No split ends the program when its position lies in the payload; and    *)
(* when none did, the list has the same bytes in the same places.          *)
LEMMA SplitAllLaid ==
  ASSUME found \in Findings,
         NEW ps, Sane(ps), NEW base \in SeqNums, NEW lo \in Int, NEW hi \in Int,
         -SeqSpace <= 2 * lo, 2 * hi < SeqSpace, 2 * (hi - lo) < SeqSpace,
         NEW n \in Nat, Laid(base, lo, hi, n, ps), NEW splits \in Seq(Position),
         \/ SplitAll(ps, splits) # Fault
         \/ \A k \in 1 .. Len(splits) : SplitPos(found.markers, splits[k]) < n
  PROVE  LET cut == SplitAll(ps, splits)
         IN  /\ Sane(cut) /\ Laid(base, lo, hi, n, cut)
             /\ Grown(ps, cut)
             /\ splits # << >> => Len(cut) > Len(ps)
  <1> DEFINE m == Len(splits)
  <1>1. m \in Nat /\ \A k \in 1 .. m : splits[k] \in Position
    OBVIOUS
  <1>2. PICK after : /\ after[0] = ps
                     /\ \A k \in 1 .. m : after[k] = Split(after[k - 1], splits[k])
                     /\ SplitAll(ps, splits) = after[m]
    BY SplitAllSteps DEF Steps
  <1> DEFINE Well(qs, k) == /\ Sane(qs) /\ Laid(base, lo, hi, n, qs)
                            /\ Grown(ps, qs)
                            /\ k > 0 => Len(qs) > Len(ps)
             inside == \A k \in 1 .. m : SplitPos(found.markers, splits[k]) < n
             Fine == {k \in 0 .. m : after[k] # Fault \/ inside => Well(after[k], k)}
  <1>3. 0 \in Fine
    <2>1. Grown(ps, ps)
      <3>1. Len(ps) \in Nat
        BY ListOf
      <3> QED BY <3>1 DEF Grown
    <2> QED BY <1>1, <1>2, <2>1
  <1>4. ASSUME NEW k \in 0 .. m, k \in Fine, k + 1 <= m PROVE k + 1 \in Fine
    <2> DEFINE qs == after[k]
               pos == SplitPos(found.markers, splits[k + 1])
               hit == FindPacketByOffset(qs, pos)
    <2>1. k + 1 \in 1 .. m /\ (k + 1) - 1 = k /\ k + 1 \in 0 .. m
      BY <1>1, <1>4
    <2>2. after[k + 1] = Split(qs, splits[k + 1])
      BY <1>2, <2>1
    <2> SUFFICES ASSUME after[k + 1] # Fault \/ inside PROVE k + 1 \in Fine
      BY <2>1
    <2>3. Sane(qs) /\ Laid(base, lo, hi, n, qs) /\ Grown(ps, qs)
      <3>1. qs # Fault \/ inside
        BY <2>2, SplitOfFault
      <3> QED BY <1>4, <3>1
    <2>4. pos \in Nat /\ (inside => pos < n)
      <3>1. splits[k + 1] \in Position
        BY <1>1, <2>1
      <3> QED BY <2>1, <3>1, SplitPosIsNat
    <2> HIDE DEF qs
    <2>5. hit # NotFound
      <3>1. CASE inside
        <4> HIDE DEF pos
        <4> QED BY <2>3, <2>4, <3>1, OffsetFound
      <3>2. CASE after[k + 1] # Fault
        BY <2>2, <3>2 DEF Split
      <3> QED BY <3>1, <3>2
    <2> HIDE DEF pos
    <2>6. hit.at \in DOMAIN qs /\ hit.rel \in 0 .. Len(qs[hit.at].data) - 1
      BY <2>3, <2>4, <2>5, HitIsInside
    <2>7. Split(qs, splits[k + 1]) = SplitPacket(qs, hit.at, hit.rel)
      BY <2>5 DEF Split, pos
    <2> HIDE DEF hit
    <2> DEFINE rs == SplitPacket(qs, hit.at, hit.rel)
    <2>8. Sane(rs) /\ Laid(base, lo, hi, n, rs) /\ Grown(qs, rs) /\ Len(rs) = Len(qs) + 1
      BY <2>3, <2>6, SplitLaid
    <2> HIDE DEF rs
    <2>9. Grown(ps, rs)
      BY <2>3, <2>8, GrownThrough
    <2>10. Len(rs) > Len(ps)
      <3>1. Len(ps) \in Nat /\ Len(qs) \in Nat /\ Len(ps) <= Len(qs)
        BY <2>3, ListOf DEF Grown
      <3> QED BY <2>8, <3>1
    <2>11. Well(after[k + 1], k + 1)
      BY <2>2, <2>7, <2>8, <2>9, <2>10 DEF rs
    <2> QED BY <2>1, <2>11
  <1>5. m \in Fine
    <2>1. \A k \in 0 .. m : k \in Fine /\ k + 1 <= m => k + 1 \in Fine
      BY <1>4
    <2>2. m \in 0 .. m
      BY <1>1
    <2> HIDE DEF Fine
    <2> QED BY <1>1, <1>3, <2>1, <2>2, Climb
  <1>6. splits # << >> => m > 0
    BY <1>1
  <1> QED BY <1>2, <1>5, <1>6

(* Lists with the same packets in the same places, moved by d at most.     *)
LEMMA ShiftLaid ==
  ASSUME NEW ps, Sane(ps), NEW base \in SeqNums, NEW lo \in Int, NEW hi \in Int,
         NEW n \in Nat, Laid(base, lo, hi, n, ps),
         NEW off \in Int, NEW d \in Nat, -d <= off, off <= d,
         -SeqSpace <= 2 * (lo - d), 2 * (hi + d) < SeqSpace,
         NEW qs, DOMAIN qs = DOMAIN ps,
         \A i \in DOMAIN ps :
           /\ qs[i].data = ps[i].data /\ qs[i].fake = ps[i].fake
           /\ qs[i].seq = ps[i].seq \/ qs[i].seq = (ps[i].seq + off) % SeqSpace
  PROVE  /\ Laid(base, lo - d, hi + d, n, qs)
         /\ Originals(qs) = Originals(ps) /\ qs[1].fake = ps[1].fake
  <1>1. /\ DOMAIN ps = 1 .. Len(ps) /\ Len(ps) >= 1 /\ Len(ps) \in Nat
        /\ \A k \in 1 .. Len(ps) : ps[k].seq \in SeqNums
    BY ListOf
  <1>2. \A k \in 1 .. Len(ps) :
          /\ Place(base, ps[k]) \in Int /\ Len(ps[k].data) \in Nat
          /\ lo <= Place(base, ps[k]) /\ Place(base, ps[k]) <= hi
          /\ Place(base, ps[k]) + Len(ps[k].data) <= hi
    BY LaidFacts DEF Laid
  <1>3. ASSUME NEW k \in 1 .. Len(ps) PROVE Lies(base, lo - d, hi + d, qs[k])
    <2> DEFINE at == Place(base, ps[k])
    <2>1. Place(base, qs[k]) = at \/ Place(base, qs[k]) = at + off
      <3>1. CASE qs[k].seq = ps[k].seq
        BY <3>1 DEF Place
      <3>2. CASE qs[k].seq = (ps[k].seq + off) % SeqSpace
        <4>1. 2 * (at + off) < SeqSpace /\ -SeqSpace <= 2 * (at + off)
          <5>1. SeqSpace \in Int /\ at \in Int /\ lo <= at /\ at <= hi
            BY <1>2, Sizes
          <5> HIDE DEF at
          <5> QED BY <5>1
        <4> QED BY <1>1, <3>2, <4>1, PlaceMoves
      <3> QED BY <1>1, <3>1, <3>2
    <2>2. qs[k].data = ps[k].data
      BY <1>1
    <2>3. at \in Int /\ Len(ps[k].data) \in Nat /\ lo <= at /\ at + Len(ps[k].data) <= hi
      BY <1>2
    <2> DEFINE new == Place(base, qs[k])
               len == Len(ps[k].data)
    <2>4. new = at \/ new = at + off
      BY <2>1
    <2> HIDE DEF at, new, len
    <2>6. at \in Int /\ len \in Nat /\ lo <= at /\ at + len <= hi
      BY <2>3 DEF len
    <2>7. new \in Int
      BY <2>4, <2>6
    <2>5. lo - d <= new /\ new + len <= hi + d
      BY <2>4, <2>6, <2>7
    <2> QED BY <2>2, <2>5 DEF Lies, new, len
  <1>4. Bytes(qs) = Bytes(ps)
    BY SameBytes
  <1>5. Laid(base, lo - d, hi + d, n, qs)
    BY <1>1, <1>3, <1>4 DEF Laid
  <1>6. Originals(qs) = Originals(ps) /\ qs[1].fake = ps[1].fake
    BY <1>1 DEF Originals
  <1> QED BY <1>5, <1>6

(* The originals in reverse order.                                         *)
LEMMA ReverseLaid ==
  ASSUME NEW ps, Sane(ps), NEW base \in SeqNums, NEW lo \in Int, NEW hi \in Int,
         NEW n \in Nat, Laid(base, lo, hi, n, ps)
  PROVE  Laid(base, lo, hi, n, ReverseOriginals(ps))
  <1> DEFINE qs == ReverseOriginals(ps)
             at(i) == IF ps[i].fake THEN i ELSE Mirror(ps, i)
             f == [b \in Bytes(ps) |-> <<at(b[1]), b[2]>>]
  <1>1. DOMAIN ps = 1 .. Len(ps)
    BY ListOf
  <1>2. \A i \in DOMAIN ps : at(i) \in DOMAIN ps /\ at(at(i)) = i
    <2> TAKE i \in DOMAIN ps
    <2>1. CASE ps[i].fake
      BY <2>1
    <2>2. CASE ~ps[i].fake
      <3>1. i \in Originals(ps)
        BY <2>2 DEF Originals
      <3>2. Mirror(ps, i) \in Originals(ps) /\ Mirror(ps, Mirror(ps, i)) = i
        BY <3>1, MirrorFacts
      <3>3. Mirror(ps, i) \in DOMAIN ps /\ ~ps[Mirror(ps, i)].fake
        BY <3>2 DEF Originals
      <3> QED BY <2>2, <3>2, <3>3
    <2> QED BY <2>1, <2>2
  <1>3. DOMAIN qs = DOMAIN ps /\ \A i \in DOMAIN ps : qs[i] = ps[at(i)]
    BY DEF ReverseOriginals
  <1>4. Sane(qs)
    <2>1. Ok(qs) /\ (qs = Fault <=> ps = Fault)
      BY ReverseKeeps DEF Ok
    <2>2. ps # Fault
      BY DEF Sane, Fault
    <2> HIDE DEF qs
    <2> QED BY <2>1, <2>2 DEF Ok
  <1> HIDE DEF qs, at
  <1>5. \A i \in DOMAIN qs : Lies(base, lo, hi, qs[i])
    BY <1>2, <1>3 DEF Laid
  <1>6. IsFiniteSet(Bytes(qs))
    BY <1>4, <1>5, LaidFacts
  <1>7. /\ \A b \in Bytes(ps) : /\ b = <<b[1], b[2]>> /\ b[1] \in DOMAIN ps
                                /\ b[2] \in 1 .. Len(ps[b[1]].data)
        /\ \A j \in DOMAIN ps : \A y \in 1 .. Len(qs[j].data) : <<j, y>> \in Bytes(qs)
    <2>1. DOMAIN qs = 1 .. Len(qs)
      BY <1>4, ListOf
    <2>2. \A j \in 1 .. Len(qs) : \A y \in 1 .. Len(qs[j].data) : <<j, y>> \in Bytes(qs)
      BY <1>4, BytesAre
    <2>3. \A b \in Bytes(ps) : /\ b = <<b[1], b[2]>> /\ b[1] \in 1 .. Len(ps)
                               /\ b[2] \in 1 .. Len(ps[b[1]].data)
      BY BytesAre
    <2> QED BY <1>1, <1>3, <2>1, <2>2, <2>3
  <1>8. f \in [Bytes(ps) -> Bytes(qs)]
    <2>1. \A j \in DOMAIN ps : at(j) \in DOMAIN ps /\ qs[at(j)] = ps[j]
      BY <1>2, <1>3
    <2>2. \A b \in Bytes(ps) : <<at(b[1]), b[2]>> \in Bytes(qs)
      BY <1>7, <2>1
    <2> QED BY <2>2
  <1>9. ASSUME NEW b \in Bytes(ps), NEW c \in Bytes(ps), f[b] = f[c] PROVE b = c
    <2>1. at(b[1]) = at(c[1]) /\ b[2] = c[2]
      BY <1>9
    <2>2. b[1] = c[1]
      BY <1>2, <1>7, <2>1
    <2> QED BY <1>7, <2>1, <2>2
  <1> HIDE DEF f
  <1>10. n <= Cardinality(Bytes(qs))
    BY <1>6, <1>8, <1>9, BytesStay DEF Laid
  <1> QED BY <1>5, <1>10 DEF Laid, qs

(* A fake packet, put in front.                                            *)
LEMMA FakeLaid ==
  ASSUME NEW ps, Sane(ps), NEW base \in SeqNums, NEW lo \in Int, NEW hi \in Int,
         NEW n \in Nat, Laid(base, lo, hi, n, ps),
         NEW m \in ModifierArgs, NEW step \in Nat, Len(Blob) <= step,
         -step <= m.seqOff, m.seqOff <= step,
         -SeqSpace <= 2 * (lo - 2 * step), 2 * (hi + 2 * step) < SeqSpace
  PROVE  LET qs == InsertFake(ps, m)
         IN  Sane(qs) /\ Laid(base, lo - 2 * step, hi + 2 * step, n, qs)
  <1> DEFINE qs == InsertFake(ps, m)
             l == Len(ps)
             f == [b \in Bytes(ps) |-> <<b[1] + 1, b[2]>>]
  <1>1. /\ l \in Nat /\ l >= 1 /\ DOMAIN qs = 1 .. l + 1 /\ DOMAIN ps = 1 .. l
        /\ qs[1].data = Blob /\ qs[1].seq = (ps[1].seq + m.seqOff) % SeqSpace
        /\ \A k \in 1 .. l : qs[k + 1] = ps[k]
        /\ ps[1].seq \in SeqNums
    BY FakeIs, ListOf
  <1>2. Sane(qs)
    BY InsertFakeKeeps
  <1>3. m.seqOff \in Int /\ Len(Blob) \in Nat
    BY PipelinesAssumption DEF ModifierArgs
  <1> HIDE DEF qs, l
  <1>4. \A k \in 1 .. l :
          /\ Place(base, ps[k]) \in Int /\ Len(ps[k].data) \in Nat
          /\ lo <= Place(base, ps[k]) /\ Place(base, ps[k]) <= hi
          /\ Place(base, ps[k]) + Len(ps[k].data) <= hi
    BY LaidFacts DEF Laid, l
  <1>5. Lies(base, lo - 2 * step, hi + 2 * step, qs[1])
    <2> DEFINE at == Place(base, ps[1])
               off == m.seqOff
    <2>1. at \in Int /\ lo <= at /\ at <= hi /\ SeqSpace \in Int
      BY <1>1, <1>4, Sizes
    <2>2. 2 * (at + off) < SeqSpace /\ -SeqSpace <= 2 * (at + off) /\ off \in Int
      <3>1. off \in Int
        BY <1>3
      <3> HIDE DEF at, off
      <3>2. -step <= off /\ off <= step
        BY DEF off
      <3> QED BY <2>1, <3>1, <3>2
    <2>3. Place(base, qs[1]) = at + off
      <3> HIDE DEF off
      <3>1. qs[1].seq = (ps[1].seq + off) % SeqSpace
        BY <1>1 DEF off
      <3> QED BY <1>1, <2>2, <3>1, PlaceMoves
    <2>4. -step <= off /\ off <= step
      OBVIOUS
    <2> HIDE DEF at, off
    <2> QED BY <1>1, <1>3, <2>1, <2>2, <2>3, <2>4 DEF Lies
  <1>6. \A k \in 1 .. l + 1 : Lies(base, lo - 2 * step, hi + 2 * step, qs[k])
    <2> TAKE k \in 1 .. l + 1
    <2>1. CASE k # 1
      <3>1. k - 1 \in 1 .. l /\ (k - 1) + 1 = k
        BY <1>1, <2>1
      <3>2. qs[k] = ps[k - 1]
        BY <1>1, <3>1
      <3>3. /\ Place(base, qs[k]) \in Int /\ Len(qs[k].data) \in Nat
            /\ lo <= Place(base, qs[k]) /\ Place(base, qs[k]) + Len(qs[k].data) <= hi
        BY <1>4, <3>1, <3>2
      <3> QED BY <3>3 DEF Lies
    <2> QED BY <1>5, <2>1
  <1>7. IsFiniteSet(Bytes(qs))
    <2>1. lo - 2 * step \in Int /\ hi + 2 * step \in Int
      OBVIOUS
    <2> QED BY <1>1, <1>2, <1>6, <2>1, LaidFacts
  <1>8. /\ \A b \in Bytes(ps) : /\ b = <<b[1], b[2]>> /\ b[1] \in 1 .. l
                                /\ b[2] \in 1 .. Len(ps[b[1]].data)
        /\ \A j \in 1 .. l + 1 : \A y \in 1 .. Len(qs[j].data) : <<j, y>> \in Bytes(qs)
    <2>1. Len(qs) = l + 1
      <3>1. DOMAIN qs = 1 .. Len(qs) /\ Len(qs) \in Nat
        BY <1>2, ListOf
      <3> QED BY <1>1, <3>1
    <2> QED BY <1>2, <2>1, BytesAre DEF l
  <1>9. f \in [Bytes(ps) -> Bytes(qs)]
    <2>1. \A j \in 1 .. l : j + 1 \in 1 .. l + 1
      BY <1>1
    <2>2. \A b \in Bytes(ps) : <<b[1] + 1, b[2]>> \in Bytes(qs)
      BY <1>1, <1>8, <2>1
    <2> QED BY <2>2
  <1>10. ASSUME NEW b \in Bytes(ps), NEW c \in Bytes(ps), f[b] = f[c] PROVE b = c
    <2>1. b[1] + 1 = c[1] + 1 /\ b[2] = c[2]
      BY <1>10
    <2>2. \A i, j \in 1 .. l : i + 1 = j + 1 => i = j
      BY <1>1
    <2> QED BY <1>8, <2>1, <2>2
  <1> HIDE DEF f
  <1>11. n <= Cardinality(Bytes(qs))
    BY <1>7, <1>9, <1>10, BytesStay DEF Laid
  <1> QED BY <1>1, <1>2, <1>6, <1>11 DEF Laid, qs

(* An overlap: for each byte of the packet, one of the first piece that    *)
(* has it.                                                                 *)
LEMMA OverlapLaid ==
  ASSUME NEW ps, Sane(ps), NEW base \in SeqNums, NEW lo \in Int, NEW hi \in Int,
         NEW N \in Nat, Laid(base, lo, hi, N, ps),
         NEW at \in DOMAIN ps, NEW n \in Nat, NEW size \in Nat,
         Overlap(ps, at, n, size) # Fault,
         NEW low \in Int, low <= lo - n, -SeqSpace <= 2 * low, 2 * hi < SeqSpace
  PROVE  LET qs == Overlap(ps, at, n, size)
         IN  Sane(qs) /\ Laid(base, low, hi, N, qs)
  <1> DEFINE qs == Overlap(ps, at, n, size)
             l == Len(ps)
             p == ps[at]
             d == Len(p.data)
             x == Place(base, p)
  <1>1. /\ l \in Nat /\ DOMAIN ps = 1 .. l /\ at \in 1 .. l /\ d \in Nat
        /\ ps \in Seq(Packets)
    BY ListOf
  <1>2. \A k \in 1 .. l :
          /\ Place(base, ps[k]) \in Int /\ Len(ps[k].data) \in Nat
          /\ lo <= Place(base, ps[k]) /\ Place(base, ps[k]) + Len(ps[k].data) <= hi
    BY LaidFacts DEF Laid
  <1>3. x \in Int /\ lo <= x /\ x + d <= hi
    BY <1>1, <1>2
  <1> HIDE DEF x, d
  <1>4. 2 * (x + d) < SeqSpace /\ -SeqSpace <= 2 * (x - n) /\ low <= x - n
    <2>1. SeqSpace \in Int
      BY Sizes
    <2> QED BY <1>1, <1>3, <2>1
  <1>5. PICK pieces : /\ Pieces(base, p, n, pieces)
                      /\ qs = Replace(ps, at, pieces)
    BY <1>4, OverlapPieces DEF x, d
  <1> DEFINE m == Len(pieces)
  <1>6. /\ pieces \in Seq(Packets) /\ m \in Nat /\ m >= 1
        /\ \A k \in 1 .. m : /\ x - n <= Place(base, pieces[k])
                             /\ Place(base, pieces[k]) + Len(pieces[k].data) <= x + d
                             /\ Place(base, pieces[k]) \in Int /\ Len(pieces[k].data) \in Nat
        /\ \A z \in Int : x < z /\ z <= x + d =>
             \E k \in 1 .. m :
               Place(base, pieces[k]) < z /\ z <= Place(base, pieces[k]) + Len(pieces[k].data)
    <2>1. pieces \in Seq(Packets) /\ m >= 1
      BY <1>5 DEF Pieces
    <2>2. m \in Nat
      BY <2>1
    <2>3. \A k \in 1 .. m : /\ x - n <= Place(base, pieces[k])
                            /\ Place(base, pieces[k]) + Len(pieces[k].data) <= x + d
      BY <1>5 DEF Pieces, PieceOf, x, d
    <2>4. \A k \in 1 .. m : Place(base, pieces[k]) \in Int /\ Len(pieces[k].data) \in Nat
      <3> TAKE k \in 1 .. m
      <3> DEFINE q == pieces[k]
      <3>1. q \in Packets
        BY <2>1
      <3> HIDE DEF q
      <3>2. q.seq \in SeqNums /\ q.data \in Seq(Nat)
        BY <3>1 DEF Packets
      <3>3. Place(base, q) \in Int
        BY <3>2, PlaceIs
      <3>4. Len(q.data) \in Nat
        BY <3>2
      <3> QED BY <3>3, <3>4 DEF q
    <2>5. \A z \in Int : x < z /\ z <= x + d =>
             \E k \in 1 .. m :
               Place(base, pieces[k]) < z /\ z <= Place(base, pieces[k]) + Len(pieces[k].data)
      BY <1>5 DEF Pieces, x, d
    <2> QED BY <2>1, <2>2, <2>3, <2>4, <2>5
  <1>7. Sane(qs)
    BY OverlapKeeps DEF Ok
  <1>8. /\ Len(qs) = l - 1 + m /\ DOMAIN qs = 1 .. l - 1 + m
        /\ \A k \in 1 .. l - 1 + m :
             qs[k] = IF k < at THEN ps[k]
                     ELSE IF k < at + m THEN pieces[k - at + 1] ELSE ps[k - m + 1]
    <2>1. /\ Len(qs) = l - 1 + m
          /\ \A k \in 1 .. l - 1 + m :
               qs[k] = IF k < at THEN ps[k]
                       ELSE IF k < at + m THEN pieces[k - at + 1] ELSE ps[k - m + 1]
      <3> DEFINE rs == Replace(ps, at, pieces)
      <3>1. /\ Len(rs) = Len(ps) - 1 + Len(pieces)
            /\ \A k \in 1 .. Len(ps) - 1 + Len(pieces) :
                 rs[k] = IF k < at THEN ps[k]
                         ELSE IF k < at + Len(pieces) THEN pieces[k - at + 1]
                         ELSE ps[k - Len(pieces) + 1]
        <4>1. ps \in Seq(Packets) /\ at \in DOMAIN ps /\ pieces \in Seq(Packets)
          BY <1>1, <1>6
        <4> HIDE DEF rs
        <4> QED BY <4>1, ReplaceFacts DEF rs
      <3>2. qs = rs
        BY <1>5
      <3> HIDE DEF rs, qs
      <3> QED BY <3>1, <3>2
    <2>2. DOMAIN qs = 1 .. Len(qs)
      BY <1>7, ListOf
    <2> QED BY <2>1, <2>2
  <1> HIDE DEF qs, m, p, l
  <1>20. /\ at \in Int /\ l \in Int /\ m \in Int /\ 1 <= at /\ at <= l /\ 1 <= m
    BY <1>1, <1>6
  <1>9. \A k \in 1 .. l - 1 + m : Lies(base, low, hi, qs[k])
    <2> TAKE k \in 1 .. l - 1 + m
    <2>1. CASE k < at
      <3>1. k \in 1 .. l /\ qs[k] = ps[k]
        BY <1>8, <1>20, <2>1
      <3> QED BY <1>2, <3>1 DEF Lies
    <2>2. CASE ~ (k < at) /\ k < at + m
      <3>1. k - at + 1 \in 1 .. m /\ qs[k] = pieces[k - at + 1]
        <4>1. k - at + 1 \in 1 .. m
          BY <1>20, <2>2
        <4> QED BY <1>8, <2>2, <4>1
      <3> DEFINE q == pieces[k - at + 1]
      <3>2. /\ x - n <= Place(base, q) /\ Place(base, q) + Len(q.data) <= x + d
            /\ Place(base, q) \in Int /\ Len(q.data) \in Nat
        BY <1>6, <3>1
      <3> HIDE DEF q
      <3>3. low <= Place(base, q) /\ Place(base, q) + Len(q.data) <= hi
        <4> DEFINE to == Place(base, q)
                   end == Place(base, q) + Len(q.data)
                   from == x - n
                   last == x + d
        <4>1. to \in Int /\ end \in Int /\ from \in Int /\ last \in Int
          BY <1>1, <1>3, <3>2
        <4>2. low <= from /\ from <= to /\ end <= last /\ last <= hi
          BY <1>3, <1>4, <3>2
        <4> HIDE DEF to, end, from, last
        <4>3. low <= to /\ end <= hi
          BY <4>1, <4>2
        <4> QED BY <4>3 DEF to, end
      <3> QED BY <3>1, <3>3 DEF Lies, q
    <2>3. CASE ~ (k < at) /\ ~ (k < at + m)
      <3>1. k - m + 1 \in 1 .. l /\ qs[k] = ps[k - m + 1]
        <4>1. k - m + 1 \in 1 .. l
          BY <1>20, <2>3
        <4> QED BY <1>8, <2>3, <4>1
      <3> QED BY <1>2, <3>1 DEF Lies
    <2> QED BY <2>1, <2>2, <2>3
  <1>10. IsFiniteSet(Bytes(qs))
    BY <1>7, <1>8, <1>9, LaidFacts
  <1>11. /\ \A b \in Bytes(ps) : /\ b = <<b[1], b[2]>> /\ b[1] \in 1 .. l
                                 /\ b[2] \in 1 .. Len(ps[b[1]].data)
         /\ \A j \in 1 .. l - 1 + m : \A y \in 1 .. Len(qs[j].data) : <<j, y>> \in Bytes(qs)
    BY <1>7, <1>8, BytesAre DEF l
  <1> DEFINE has(y) == CHOOSE k \in 1 .. m :
                         /\ Place(base, pieces[k]) < x + y
                         /\ x + y <= Place(base, pieces[k]) + Len(pieces[k].data)
             To(j, y) == IF j < at THEN j ELSE IF j = at THEN at + has(y) - 1 ELSE j + m - 1
             In(j, y) == IF j = at THEN x + y - Place(base, pieces[has(y)]) ELSE y
             f == [b \in Bytes(ps) |-> <<To(b[1], b[2]), In(b[1], b[2])>>]
  <1>12. \A y \in 1 .. d : /\ has(y) \in 1 .. m
                           /\ Place(base, pieces[has(y)]) < x + y
                           /\ x + y <= Place(base, pieces[has(y)]) + Len(pieces[has(y)].data)
    <2> TAKE y \in 1 .. d
    <2>1. x + y \in Int /\ x < x + y /\ x + y <= x + d
      BY <1>1, <1>3
    <2>2. \E k \in 1 .. m : /\ Place(base, pieces[k]) < x + y
                            /\ x + y <= Place(base, pieces[k]) + Len(pieces[k].data)
      BY <1>6, <2>1
    <2> QED BY <2>2
  <1> HIDE DEF has
  <1>13. ASSUME NEW j \in 1 .. l, NEW y \in 1 .. Len(ps[j].data)
         PROVE  <<To(j, y), In(j, y)>> \in Bytes(qs)
    <2>1. CASE j < at
      <3>1. j \in 1 .. l - 1 + m /\ qs[j] = ps[j]
        BY <1>1, <1>6, <1>8, <2>1
      <3>2. To(j, y) = j /\ In(j, y) = y
        BY <1>1, <2>1
      <3> QED BY <1>11, <3>1, <3>2
    <2>2. CASE j = at
      <3> DEFINE k == has(y)
                 q == pieces[k]
      <3>1. /\ y \in 1 .. d /\ k \in 1 .. m
            /\ Place(base, q) < x + y /\ x + y <= Place(base, q) + Len(q.data)
            /\ Place(base, q) \in Int /\ Len(q.data) \in Nat
        <4>1. y \in 1 .. d
          BY <2>2 DEF d, p
        <4> QED BY <1>6, <1>12, <4>1
      <3> HIDE DEF k
      <3>2. qs[at + k - 1] = q /\ at + k - 1 \in 1 .. l - 1 + m
        <4>1. /\ at + k - 1 \in 1 .. l - 1 + m /\ ~ (at + k - 1 < at) /\ at + k - 1 < at + m
              /\ (at + k - 1) - at + 1 = k
          <5>1. k \in 1 .. m
            BY <3>1
          <5> QED BY <1>20, <5>1
        <4> QED BY <1>8, <4>1 DEF q
      <3> DEFINE to == Place(base, q)
                 len == Len(q.data)
      <3>5. to \in Int /\ len \in Nat /\ x + y - to >= 1 /\ x + y - to <= len /\ y \in Int
        <4>1. /\ to \in Int /\ len \in Nat /\ y \in Int /\ x \in Int
              /\ to < x + y /\ x + y <= to + len
          <5>1. y \in Int
            BY <3>1
          <5> QED BY <1>3, <3>1, <5>1
        <4> HIDE DEF to, len
        <4> QED BY <4>1
      <3> HIDE DEF q
      <3>3. x + y - to \in 1 .. len
        <4> HIDE DEF to, len
        <4> QED BY <1>3, <3>5
      <3>4. To(j, y) = at + k - 1 /\ In(j, y) = x + y - Place(base, q)
        BY <1>1, <2>2 DEF k, q
      <3> QED BY <1>11, <3>2, <3>3, <3>4
    <2>3. CASE j > at
      <3>1. /\ j + m - 1 \in 1 .. l - 1 + m /\ ~ (j + m - 1 < at) /\ ~ (j + m - 1 < at + m)
            /\ (j + m - 1) - m + 1 = j
        BY <1>1, <1>6, <2>3
      <3>2. qs[j + m - 1] = ps[j]
        BY <1>8, <3>1
      <3>3. To(j, y) = j + m - 1 /\ In(j, y) = y
        BY <1>1, <2>3
      <3> QED BY <1>11, <3>1, <3>2, <3>3
    <2> QED BY <1>1, <2>1, <2>2, <2>3
  <1>14. f \in [Bytes(ps) -> Bytes(qs)]
    <2> HIDE DEF To, In
    <2>1. \A b \in Bytes(ps) : <<To(b[1], b[2]), In(b[1], b[2])>> \in Bytes(qs)
      BY <1>11, <1>13
    <2> QED BY <2>1
  <1>15. ASSUME NEW i \in 1 .. l, NEW y \in 1 .. Len(ps[i].data),
                NEW j \in 1 .. l, NEW z \in 1 .. Len(ps[j].data),
                To(i, y) = To(j, z), In(i, y) = In(j, z)
         PROVE  i = j /\ y = z
    <2>1. /\ i = at => y \in 1 .. d /\ has(y) \in 1 .. m /\ Place(base, pieces[has(y)]) \in Int
          /\ j = at => z \in 1 .. d /\ has(z) \in 1 .. m /\ Place(base, pieces[has(z)]) \in Int
      BY <1>6, <1>12 DEF d, p
    <2>2. y \in Int /\ z \in Int
      BY <1>2
    <2>3. i = j
      <3>1. /\ i < at => To(i, y) = i
            /\ i = at => To(i, y) = at + has(y) - 1
            /\ i > at => To(i, y) = i + m - 1
            /\ j < at => To(j, z) = j
            /\ j = at => To(j, z) = at + has(z) - 1
            /\ j > at => To(j, z) = j + m - 1
        BY <1>1
      <3>2. /\ i < at => To(i, y) < at
            /\ i = at => To(i, y) >= at /\ To(i, y) < at + m
            /\ i > at => To(i, y) >= at + m
            /\ j < at => To(j, z) < at
            /\ j = at => To(j, z) >= at /\ To(j, z) < at + m
            /\ j > at => To(j, z) >= at + m
        <4> DEFINE a == To(i, y)
                   b == To(j, z)
                   h == has(y)
                   g == has(z)
        <4>1. /\ i = at => h \in Int /\ 1 <= h /\ h <= m
              /\ j = at => g \in Int /\ 1 <= g /\ g <= m
          BY <2>1
        <4>2. /\ i < at => a = i
              /\ i = at => a = at + h - 1
              /\ i > at => a = i + m - 1
              /\ j < at => b = j
              /\ j = at => b = at + g - 1
              /\ j > at => b = j + m - 1
          BY <3>1
        <4>3. i \in Int /\ j \in Int
          OBVIOUS
        <4> HIDE DEF a, b, h, g, To
        <4>4. /\ i < at => a < at
              /\ i = at => a >= at
              /\ i = at => a < at + m
              /\ i > at => a >= at + m
          BY <1>20, <4>1, <4>2, <4>3
        <4>5. /\ j < at => b < at
              /\ j = at => b >= at
              /\ j = at => b < at + m
              /\ j > at => b >= at + m
          BY <1>20, <4>1, <4>2, <4>3
        <4> QED BY <4>4, <4>5 DEF a, b
      <3> DEFINE a == To(i, y)
                 b == To(j, z)
      <3>3. a = b /\ i \in Int /\ j \in Int
        BY <1>15
      <3>4. /\ i < at => a = i /\ a < at
            /\ i = at => a >= at /\ a < at + m
            /\ i > at => a = i + m - 1 /\ a >= at + m
        BY <3>1, <3>2
      <3>5. /\ j < at => b = j /\ b < at
            /\ j = at => b >= at /\ b < at + m
            /\ j > at => b = j + m - 1 /\ b >= at + m
        BY <3>1, <3>2
      <3> HIDE DEF a, b, To
      <3>6. CASE i < at
        BY <1>20, <3>3, <3>4, <3>5, <3>6
      <3>7. CASE i = at
        BY <1>20, <3>3, <3>4, <3>5, <3>7
      <3>8. CASE i > at
        BY <1>20, <3>3, <3>4, <3>5, <3>8
      <3> QED BY <1>20, <3>3, <3>6, <3>7, <3>8
    <2>4. CASE i # at
      BY <1>15, <2>3, <2>4
    <2>5. CASE i = at
      <3>1. at + has(y) - 1 = at + has(z) - 1
        BY <1>1, <1>15, <2>3, <2>5
      <3>2. has(y) = has(z)
        <4>1. has(y) \in Int /\ has(z) \in Int
          BY <2>1, <2>3, <2>5
        <4> QED BY <1>20, <3>1, <4>1
      <3>3. x + y - Place(base, pieces[has(y)]) = x + z - Place(base, pieces[has(z)])
        BY <1>15, <2>3, <2>5
      <3> QED BY <1>3, <2>1, <2>2, <2>3, <2>5, <3>2, <3>3
    <2> QED BY <2>3, <2>4, <2>5
  <1>16. ASSUME NEW b \in Bytes(ps), NEW c \in Bytes(ps), f[b] = f[c] PROVE b = c
    <2> HIDE DEF To, In
    <2>1. To(b[1], b[2]) = To(c[1], c[2]) /\ In(b[1], b[2]) = In(c[1], c[2])
      BY <1>16
    <2> HIDE DEF f
    <2>2. b[1] = c[1] /\ b[2] = c[2]
      <3> DEFINE i == b[1]
                 y == b[2]
                 j == c[1]
                 z == c[2]
      <3>1. i \in 1 .. l /\ y \in 1 .. Len(ps[i].data)
        BY <1>11
      <3>2. j \in 1 .. l /\ z \in 1 .. Len(ps[j].data)
        BY <1>11
      <3>3. To(i, y) = To(j, z) /\ In(i, y) = In(j, z)
        BY <2>1
      <3> HIDE DEF i, y, j, z
      <3>4. i = j /\ y = z
        BY <1>15, <3>1, <3>2, <3>3
      <3> QED BY <3>4 DEF i, y, j, z
    <2> QED BY <1>11, <2>2
  <1> HIDE DEF f
  <1>17. N <= Cardinality(Bytes(qs))
    BY <1>10, <1>14, <1>16, BytesStay DEF Laid
  <1> QED BY <1>7, <1>8, <1>9, <1>17 DEF Laid, qs

(* An overlap has pieces unless the segments are of no size.               *)
LEMMA OverlapFaults ==
  ASSUME NEW ps, Sane(ps), NEW at \in DOMAIN ps, NEW n \in Nat, NEW size \in Nat,
         size # 0
  PROVE  Overlap(ps, at, n, size) # Fault
  <1> DEFINE p == ps[at]
             data == Overlapped(p, n)
             pieces == IF Segments(p, n, size)
                       THEN Segmentize(data, size, p, Start(p, n))
                       ELSE <<Piece(p, 1, Start(p, n), data)>>
  <1>1. /\ ps \in Seq(Packets) /\ Len(ps) \in Nat /\ Len(ps) >= 1
        /\ p \in Packets /\ p.data \in Seq(Nat) /\ p.seq \in SeqNums
    BY ListOf
  <1>2. data \in Seq(Nat)
    <2>1. Padding(n) \in Seq(Nat)
      BY DEF Padding
    <2> QED BY <1>1, <2>1 DEF Overlapped
  <1>3. Start(p, n) \in Int
    <2>1. p.seq \in Int
      BY <1>1, SeqNumsAreInts
    <2>2. p.seq - n \in Int
      BY <2>1
    <2>3. Start(p, n) \in SeqNums
      BY <2>2, Sizes DEF Start
    <2> QED BY <2>3, SeqNumsAreInts
  <1>4. Overlap(ps, at, n, size) = Replace(ps, at, pieces)
    BY DEF Overlap
  <1>5. pieces \in Seq(Packets) /\ Len(pieces) >= 1
    <2>1. CASE Segments(p, n, size)
      <3>1. Len(data) > size
        BY <2>1 DEF Segments
      <3> HIDE DEF data
      <3>2. /\ Segmentize(data, size, p, Start(p, n)) \in Seq(Packets)
            /\ Len(Segmentize(data, size, p, Start(p, n))) >= 1
        BY <1>1, <1>2, <1>3, <3>1, PiecesOf
      <3> QED BY <2>1, <3>2
    <2>2. CASE ~Segments(p, n, size)
      <3> DEFINE q == Piece(p, 1, Start(p, n), data)
      <3>1. q \in Packets
        <4> HIDE DEF data, p
        <4>1. 1 \in Nat \ {0}
          OBVIOUS
        <4> QED BY <1>1, <1>2, <1>3, <4>1, PieceIs
      <3>2. pieces = <<q>>
        BY <2>2
      <3> HIDE DEF q, pieces
      <3>3. <<q>> \in Seq(Packets) /\ Len(<<q>>) = 1
        BY <3>1
      <3> QED BY <3>2, <3>3
    <2> QED BY <2>1, <2>2
  <1> HIDE DEF pieces
  <1>6. Len(Replace(ps, at, pieces)) = Len(ps) - 1 + Len(pieces)
    BY <1>1, <1>5, ReplaceFacts
  <1>7. Len(pieces) \in Nat
    BY <1>5
  <1>8. Len(Replace(ps, at, pieces)) # 0
    BY <1>1, <1>5, <1>6, <1>7
  <1>9. Len(Fault) = 0
    BY DEF Fault
  <1> QED BY <1>4, <1>8, <1>9

(* What header tricks leave of a list whose packets lie between lo and hi. *)
Shifted(ps, base, lo, hi, n, qs) ==
  /\ Sane(qs) /\ Laid(base, lo, hi, n, qs)
  /\ Len(qs) = Len(ps) /\ Originals(qs) = Originals(ps) /\ qs[1].fake = ps[1].fake

(* Packets whose numbers moved by up to d lie within d of before.          *)
LEMMA MovedLaid ==
  ASSUME NEW ps, Sane(ps), NEW base \in SeqNums, NEW lo \in Int, NEW hi \in Int,
         NEW n \in Nat, Laid(base, lo, hi, n, ps),
         NEW off \in Int, NEW d \in Nat, -d <= off, off <= d,
         -SeqSpace <= 2 * (lo - d), 2 * (hi + d) < SeqSpace,
         NEW qs, Ok(qs), Moved(ps, qs, off), \A i \in DOMAIN ps : ps[i].fake => qs[i] = ps[i]
  PROVE  Shifted(ps, base, lo - d, hi + d, n, qs)
  <1>1. DOMAIN qs = DOMAIN ps
    BY DEF Moved
  <1>2. \A i \in DOMAIN ps :
           /\ qs[i].data = ps[i].data /\ qs[i].fake = ps[i].fake
           /\ qs[i].seq = ps[i].seq \/ qs[i].seq = (ps[i].seq + off) % SeqSpace
    BY DEF Moved, Alike
  <1>3. Laid(base, lo - d, hi + d, n, qs) /\ Originals(qs) = Originals(ps)
        /\ qs[1].fake = ps[1].fake
    BY <1>1, <1>2, ShiftLaid
  <1>4. 1 \in DOMAIN qs
    <2>1. Len(ps) \in Nat /\ Len(ps) >= 1 /\ DOMAIN ps = 1 .. Len(ps)
      BY ListOf
    <2> QED BY <1>1, <2>1
  <1>5. Sane(qs)
    <2>1. DOMAIN Fault = {}
      BY DEF Fault
    <2> QED BY <1>4, <2>1 DEF Ok
  <1>6. Len(qs) = Len(ps)
    <2>1. /\ DOMAIN ps = 1 .. Len(ps) /\ Len(ps) \in Nat
          /\ DOMAIN qs = 1 .. Len(qs) /\ Len(qs) \in Nat
      BY <1>5, ListOf
    <2> QED BY <1>1, <2>1
  <1> QED BY <1>3, <1>5, <1>6 DEF Shifted

(* Packets whose numbers and data stay lie where they did.                 *)
LEMMA StillLaid ==
  ASSUME NEW ps, Sane(ps), NEW base \in SeqNums, NEW lo \in Int, NEW hi \in Int,
         NEW n \in Nat, Laid(base, lo, hi, n, ps), NEW qs, Ok(qs), Still(ps, qs)
  PROVE  Shifted(ps, base, lo, hi, n, qs)
  <1>1. /\ Len(ps) \in Nat /\ Len(ps) >= 1 /\ DOMAIN ps = 1 .. Len(ps)
        /\ DOMAIN qs = DOMAIN ps
        /\ \A i \in DOMAIN ps : /\ qs[i].data = ps[i].data /\ qs[i].fake = ps[i].fake
                                /\ qs[i].seq = ps[i].seq
    BY ListOf DEF Still, Alike
  <1>2. Sane(qs)
    <2>1. DOMAIN Fault = {} /\ 1 \in DOMAIN qs
      BY <1>1 DEF Fault
    <2> QED BY <2>1 DEF Ok
  <1>3. Len(qs) = Len(ps)
    <2>1. DOMAIN qs = 1 .. Len(qs) /\ Len(qs) \in Nat
      BY <1>2, ListOf
    <2> QED BY <1>1, <2>1
  <1>4. Originals(qs) = Originals(ps) /\ qs[1].fake = ps[1].fake
    BY <1>1 DEF Originals
  <1>5. Bytes(qs) = Bytes(ps)
    BY <1>1, SameBytes
  <1>6. \A k \in DOMAIN qs : Lies(base, lo, hi, qs[k])
    BY <1>1 DEF Laid, Lies, Place
  <1> QED BY <1>2, <1>3, <1>4, <1>5, <1>6 DEF Laid, Shifted

(* Room for one more modifier, around the first byte.                      *)
Roomy(lo, hi, step) == lo <= 0 /\ 0 <= hi /\ 2 * (hi - lo + 4 * step) < SeqSpace

(* Room for a turn is room on each side of the stream.                     *)
LEMMA RoomFacts ==
  ASSUME NEW lo \in Int, NEW hi \in Int, NEW step \in Nat, Roomy(lo, hi, step)
  PROVE  /\ -SeqSpace <= 2 * lo /\ 2 * hi < SeqSpace /\ 2 * (hi - lo) < SeqSpace
         /\ -SeqSpace <= 2 * (lo - step) /\ 2 * (hi + step) < SeqSpace
         /\ -SeqSpace <= 2 * (lo - 2 * step) /\ 2 * (hi + 2 * step) < SeqSpace
         /\ (hi + step) - (lo - step) < SeqSpace
  <1>1. SeqSpace \in Int
    BY Sizes
  <1> QED BY <1>1 DEF Roomy

(* A list after a turn: a packet moves by step bytes, and is padded by step*)
(* bytes, to either side.                                                  *)
LaidAfter(base, lo, hi, n, step, qs) ==
  Sane(qs) /\ Laid(base, lo - 2 * step, hi + 2 * step, n, qs)

(* Packets that lie within some bounds lie within wider ones.              *)
LEMMA LaidWider ==
  ASSUME NEW ps, Sane(ps), NEW base \in SeqNums, NEW lo \in Int, NEW hi \in Int,
         NEW n \in Nat, Laid(base, lo, hi, n, ps),
         NEW low \in Int, NEW high \in Int, low <= lo, hi <= high
  PROVE  Laid(base, low, high, n, ps)
  <1>1. /\ DOMAIN ps = 1 .. Len(ps)
        /\ \A k \in 1 .. Len(ps) :
              /\ Place(base, ps[k]) \in Int /\ Len(ps[k].data) \in Nat
              /\ lo <= Place(base, ps[k])
              /\ Place(base, ps[k]) + Len(ps[k].data) <= hi
    BY LaidFacts, ListOf DEF Laid
  <1>2. ASSUME NEW k \in 1 .. Len(ps) PROVE Lies(base, low, high, ps[k])
    <2> DEFINE x == Place(base, ps[k])
               len == Len(ps[k].data)
    <2>1. x \in Int /\ len \in Nat /\ lo <= x /\ x + len <= hi
      BY <1>1
    <2> HIDE DEF x, len
    <2>2. low <= x /\ x + len <= high
      BY <2>1
    <2> QED BY <2>2 DEF Lies, x, len
  <1> QED BY <1>1, <1>2 DEF Laid

(* A splitter that has nothing to trip over leaves a list of packets.      *)
LEMMA SplitterLaid ==
  ASSUME found \in Findings, mss \in MssValues,
         NEW ps, Sane(ps), NEW m \in ModifierArgs, m.kind = "splitter",
         NEW base \in SeqNums, NEW lo \in Int, NEW hi \in Int, NEW N \in Nat,
         Laid(base, lo, hi, N, ps), NEW step \in Nat, Roomy(lo, hi, step),
         NoFarther(m, step), NEW result \in SplitterOutcomes(ps, m),
         \/ result # Fault
         \/ /\ \A k \in 1 .. Len(m.splits) : SplitPos(found.markers, m.splits[k]) < N
            /\ m.seqovl # {} => SplitterMss # 0
            /\ ~ReusesView(m)
  PROVE  LaidAfter(base, lo, hi, N, step, result)
  <1> DEFINE all == SplitAll(ps, m.splits)
             cut == OnOriginals(all, LAMBDA p : SetHeader(p, m.hdr))
             n == IF m.seqovl = {} THEN 0 ELSE (CHOOSE pos \in m.seqovl : TRUE).off
             first == Min(Originals(cut))
             overlaps == m.seqovl # {} /\ Originals(cut) # {}
             done == IF overlaps THEN Overlap(cut, first, n, SplitterMss) ELSE cut
             tricked == OnOriginals(done,
                          LAMBDA p : BadChecksum(OffsetSeq(p, m.seqOff), m.badcksum))
             stale == /\ overlaps /\ Segments(cut[first], n, SplitterMss)
                      /\ m.hdr # {} /\ (m.seqOff # 0 \/ m.badcksum)
  <1>1. result = tricked
    <2>1. result # Fault \/ ~stale
      BY DEF ReusesView
    <2>2. result \in Outcomes(tricked, stale)
      BY DEF SplitterOutcomes, stale, tricked, done, overlaps, first, n, cut, all
    <2> HIDE DEF stale, tricked
    <2> QED BY <2>1, <2>2 DEF Outcomes
  <1>10. done = Fault => tricked = Fault
    <2>1. OnOriginals(Fault, LAMBDA p : BadChecksum(OffsetSeq(p, m.seqOff), m.badcksum)) = Fault
      BY DEF OnOriginals, Fault
    <2> QED BY <2>1
  <1>2. /\ -SeqSpace <= 2 * lo /\ 2 * hi < SeqSpace /\ 2 * (hi - lo) < SeqSpace
        /\ -SeqSpace <= 2 * (lo - step) /\ 2 * (hi + step) < SeqSpace
        /\ -SeqSpace <= 2 * (lo - 2 * step) /\ 2 * (hi + 2 * step) < SeqSpace
    BY RoomFacts
  <1>3. Sane(all) /\ Laid(base, lo, hi, N, all)
    <2>1. m.splits \in Seq(Position)
      BY DEF ModifierArgs
    <2>2. result # Fault => all # Fault
      BY SplitterDraws
    <2> QED BY <1>2, <2>1, <2>2, SplitAllLaid
  <1> HIDE DEF all
  <1>4. Sane(cut) /\ Laid(base, lo, hi, N, cut)
    <2>1. Still(all, cut) /\ Ok(cut)
      BY <1>3, Tricked, TrickedBefore DEF Ok
    <2> HIDE DEF cut
    <2> QED BY <1>3, <2>1, StillLaid DEF Shifted
  <1>5. n \in Nat /\ n <= step
    <2>1. m.seqovl \in SUBSET Position
      BY DEF ModifierArgs
    <2>2. \A pos \in Position : pos.off \in Nat
      BY Sizes DEF Position
    <2>3. \A pos \in m.seqovl : pos.off <= step
      BY DEF NoFarther
    <2> QED BY <2>1, <2>2, <2>3
  <1> HIDE DEF cut, n
  <1>6. Sane(done) /\ Laid(base, lo - step, hi, N, done)
    <2>1. CASE overlaps
      <3>1. first \in DOMAIN cut
        <4>1. first \in Originals(cut)
          BY <1>4, <2>1, FirstOriginal
        <4> HIDE DEF first
        <4> QED BY <4>1 DEF Originals
      <3> HIDE DEF first
      <3>2. SplitterMss \in Nat
        BY MssIsNat
      <3>3. Overlap(cut, first, n, SplitterMss) # Fault
        <4>1. CASE result # Fault
          BY <1>1, <1>10, <2>1, <4>1
        <4>2. CASE SplitterMss # 0
          BY <1>4, <1>5, <3>1, <3>2, <4>2, OverlapFaults
        <4> QED BY <2>1, <4>1, <4>2
      <3>4. lo - step \in Int /\ lo - step <= lo - n
        BY <1>5
      <3>5. /\ Sane(Overlap(cut, first, n, SplitterMss))
            /\ Laid(base, lo - step, hi, N, Overlap(cut, first, n, SplitterMss))
        BY <1>2, <1>4, <1>5, <3>1, <3>2, <3>3, <3>4, OverlapLaid
      <3> QED BY <2>1, <3>5
    <2>2. CASE ~overlaps
      <3>1. lo - step \in Int /\ lo - step <= lo /\ hi <= hi
        OBVIOUS
      <3>2. Laid(base, lo - step, hi, N, cut)
        BY <1>4, <3>1, LaidWider
      <3> QED BY <1>4, <2>2, <3>2
    <2> QED BY <2>1, <2>2
  <1> HIDE DEF done
  <1>7. Sane(tricked) /\ Laid(base, (lo - step) - step, hi + step, N, tricked)
    <2>1. Moved(done, tricked, m.seqOff) /\ Ok(tricked)
      BY <1>6, Tricked, TrickedAfter DEF Ok
    <2>2. \A i \in DOMAIN done : done[i].fake => tricked[i] = done[i]
      BY DEF OnOriginals
    <2>3. /\ m.seqOff \in Int /\ -step <= m.seqOff /\ m.seqOff <= step
          /\ lo - step \in Int
      BY DEF ModifierArgs, NoFarther
    <2>4. -SeqSpace <= 2 * ((lo - step) - step)
      <3>1. (lo - step) - step = lo - 2 * step
        OBVIOUS
      <3> QED BY <1>2, <3>1
    <2> HIDE DEF tricked
    <2> QED BY <1>2, <1>6, <2>1, <2>2, <2>3, <2>4, MovedLaid DEF Shifted
  <1> HIDE DEF tricked
  <1>8. /\ (lo - step) - step \in Int /\ hi + step \in Int
        /\ lo - 2 * step \in Int /\ hi + 2 * step \in Int
        /\ lo - 2 * step <= (lo - step) - step /\ hi + step <= hi + 2 * step
    OBVIOUS
  <1>9. Laid(base, lo - 2 * step, hi + 2 * step, N, tricked)
    BY <1>7, <1>8, LaidWider
  <1> QED BY <1>1, <1>7, <1>9 DEF LaidAfter

(* There is a packet after the first original, in a list that was cut.     *)
LEMMA SecondInside ==
  ASSUME NEW ps, Sane(ps), NEW all, Sane(all), Grown(ps, all), NEW split \in BOOLEAN,
         split => Len(all) > Len(ps), Originals(all) # {},
         ~ (Cardinality(Originals(ps)) = 1 /\ (~split \/ ps[1].fake))
  PROVE  Min(Originals(all)) + 1 \in DOMAIN all
  <1> DEFINE first == Min(Originals(all))
  <1>1. /\ Len(all) \in Nat /\ DOMAIN all = 1 .. Len(all) /\ Len(all) >= 1
        /\ Originals(all) \subseteq 1 .. Len(all) /\ Len(ps) \in Nat /\ Len(ps) >= 1
    BY ListOf, OriginalsFinite
  <1>2. first \in Originals(all) /\ \A j \in Originals(all) : first <= j
    <2>1. \E i \in Originals(all) : \A j \in Originals(all) : i <= j
      BY OriginalsFinite, LeastElement
    <2> QED BY <2>1 DEF Min
  <1> HIDE DEF first
  <1>3. first < Len(all)
    <2>1. CASE Two(all)
      <3>1. PICK i \in Originals(all), j \in Originals(all) : i # j
        BY <2>1 DEF Two
      <3>2. /\ i \in 1 .. Len(all) /\ j \in 1 .. Len(all) /\ first \in 1 .. Len(all)
            /\ first <= i /\ first <= j
        BY <1>1, <1>2
      <3> QED BY <1>1, <3>1, <3>2
    <2>2. CASE ~Two(all)
      <3>1. ~Two(ps) /\ Originals(ps) # {}
        BY <2>2 DEF Grown
      <3>2. Cardinality(Originals(ps)) = 1
        <4>1. PICK i : i \in Originals(ps)
          BY <3>1
        <4>2. Originals(ps) = {i}
          BY <3>1, <4>1 DEF Two
        <4> QED BY <4>2, FS_Singleton
      <3>3. split /\ ~ps[1].fake
        BY <3>2
      <3>4. ~all[1].fake /\ 1 \in DOMAIN all
        BY <1>1, <3>3 DEF Grown
      <3>5. 1 \in Originals(all)
        BY <3>4 DEF Originals
      <3>6. first <= 1 /\ first \in 1 .. Len(all)
        BY <1>1, <1>2, <3>5
      <3> QED BY <1>1, <3>3, <3>6
    <2> QED BY <2>1, <2>2
  <1>4. first \in 1 .. Len(all)
    BY <1>1, <1>2
  <1>5. first + 1 \in 1 .. Len(all)
    BY <1>1, <1>3, <1>4
  <1> QED BY <1>1, <1>5 DEF first

(* A disorder that has nothing to trip over leaves a list of packets.      *)
LEMMA DisorderLaid ==
  ASSUME found \in Findings, mss \in MssValues,
         NEW ps, Sane(ps), NEW m \in ModifierArgs, m.kind = "disorder",
         NEW base \in SeqNums, NEW lo \in Int, NEW hi \in Int, NEW N \in Nat,
         Laid(base, lo, hi, N, ps), NEW step \in Nat, Roomy(lo, hi, step),
         NoFarther(m, step), NEW result \in DisorderOutcomes(ps, m),
         \/ result # Fault
         \/ /\ \A k \in 1 .. Len(m.splits) : SplitPos(found.markers, m.splits[k]) < N
            /\ m.seqovl # {} =>
                 /\ DisorderMss # 0 /\ \A pos \in m.seqovl : ~SeqovlThrows(pos)
                 /\ ~ (Cardinality(Originals(ps)) = 1 /\ (m.splits = << >> \/ ps[1].fake))
            /\ ~ReusesView(m)
  PROVE  LaidAfter(base, lo, hi, N, step, result)
  <1> DEFINE all == SplitAll(ps, m.splits)
             cut == OnOriginals(all, LAMBDA p : SetHeader(OffsetSeq(p, m.seqOff), m.hdr))
             pos == CHOOSE q \in m.seqovl : TRUE
             n == SplitPos(found.markers, pos)
             second == Min(Originals(cut)) + 1
             overlaps == /\ m.seqovl # {} /\ Originals(cut) # {}
                         /\ ~SeqovlThrows(pos) /\ ~TooBig(cut, n)
             inside == second <= Len(cut)
             done == IF m.seqovl # {} /\ SeqovlThrows(pos) THEN Fault
                     ELSE IF ~overlaps THEN cut
                     ELSE IF inside THEN Overlap(cut, second, n, DisorderMss) ELSE Fault
             tricked == OnOriginals(done, LAMBDA p : BadChecksum(p, m.badcksum))
             stale == /\ overlaps /\ inside /\ Segments(cut[second], n, DisorderMss)
                      /\ (m.hdr # {} \/ m.seqOff # 0) /\ m.badcksum
  <1>1. result = tricked
    <2>1. result # Fault \/ ~stale
      BY DEF ReusesView
    <2>2. result \in Outcomes(tricked, stale)
      BY DEF DisorderOutcomes, stale, tricked, done, overlaps, inside, second, n, pos, cut, all
    <2> HIDE DEF stale, tricked
    <2> QED BY <2>1, <2>2 DEF Outcomes
  <1>12. result # Fault => done # Fault
    <2>1. OnOriginals(Fault, LAMBDA p : BadChecksum(p, m.badcksum)) = Fault
      BY DEF OnOriginals, Fault
    <2> QED BY <1>1, <2>1
  <1>2. /\ -SeqSpace <= 2 * lo /\ 2 * hi < SeqSpace /\ 2 * (hi - lo) < SeqSpace
        /\ -SeqSpace <= 2 * (lo - step) /\ 2 * (hi + step) < SeqSpace
        /\ -SeqSpace <= 2 * (lo - 2 * step) /\ 2 * (hi + 2 * step) < SeqSpace
        /\ (hi + step) - (lo - step) < SeqSpace
    BY RoomFacts
  <1>3. /\ Sane(all) /\ Laid(base, lo, hi, N, all) /\ Grown(ps, all)
        /\ m.splits # << >> => Len(all) > Len(ps)
    <2>1. m.splits \in Seq(Position)
      BY DEF ModifierArgs
    <2>2. result # Fault => all # Fault
      BY DisorderDraws
    <2> QED BY <1>2, <2>1, <2>2, SplitAllLaid
  <1> HIDE DEF all
  <1>4. /\ Sane(cut) /\ Laid(base, lo - step, hi + step, N, cut)
        /\ Len(cut) = Len(all) /\ Originals(cut) = Originals(all)
    <2>1. Moved(all, cut, m.seqOff) /\ Ok(cut)
      BY <1>3, Tricked, TrickedBefore DEF Ok
    <2>2. \A i \in DOMAIN all : all[i].fake => cut[i] = all[i]
      BY DEF OnOriginals
    <2>3. m.seqOff \in Int /\ -step <= m.seqOff /\ m.seqOff <= step
      BY DEF ModifierArgs, NoFarther
    <2> HIDE DEF cut
    <2>4. -SeqSpace <= 2 * (lo - step) /\ 2 * (hi + step) < SeqSpace
      BY <1>2
    <2>5. Shifted(all, base, lo - step, hi + step, N, cut)
      BY <1>3, <2>1, <2>2, <2>3, <2>4, MovedLaid
    <2> QED BY <2>5 DEF Shifted
  <1>5. m.seqovl # {} => /\ pos \in m.seqovl /\ n \in Nat
                         /\ n \notin step + 1 .. SeqSpace - 1
    <2> SUFFICES ASSUME m.seqovl # {}
                 PROVE  pos \in m.seqovl /\ n \in Nat /\ n \notin step + 1 .. SeqSpace - 1
      OBVIOUS
    <2>1. pos \in m.seqovl /\ m.seqovl \in SUBSET Position
      BY DEF ModifierArgs
    <2> HIDE DEF pos
    <2>2. n \in Nat
      BY <2>1, SplitPosIsNat
    <2>3. n \notin step + 1 .. SeqSpace - 1
      BY <2>1 DEF NoFarther
    <2> QED BY <2>1, <2>2, <2>3
  <1>6. overlaps => n <= step
    <2> SUFFICES ASSUME overlaps PROVE n <= step
      OBVIOUS
    <2> DEFINE len == Len(cut[1].data)
    <2>1. len \in Nat /\ len <= (hi + step) - (lo - step)
      <3>1. 1 \in 1 .. Len(cut)
        BY <1>4, ListOf
      <3>2. hi + step \in Int /\ lo - step \in Int
        OBVIOUS
      <3> HIDE DEF cut
      <3> QED BY <1>4, <3>1, <3>2, LaidFacts DEF Laid
    <2>2. ~ (n >= len) /\ n \in Nat /\ n \notin step + 1 .. SeqSpace - 1
      BY <1>5 DEF TooBig
    <2>3. SeqSpace \in Int
      BY Sizes
    <2> HIDE DEF len, n
    <2>4. n < SeqSpace
      BY <1>2, <2>1, <2>2, <2>3
    <2> QED BY <2>2, <2>3, <2>4
  <1>7. overlaps => second \in DOMAIN cut /\ inside
    <2> SUFFICES ASSUME overlaps PROVE second \in DOMAIN cut /\ inside
      OBVIOUS
    <2>6. CASE result # Fault
      <3>1. inside
        BY <1>12, <2>6
      <3> DEFINE f == Min(Originals(cut))
      <3>2. f \in Originals(cut)
        BY <1>4, FirstOriginal
      <3>3. Len(cut) \in Nat /\ DOMAIN cut = 1 .. Len(cut)
        BY <1>4, ListOf
      <3>4. second = f + 1 /\ f + 1 <= Len(cut)
        BY <3>1
      <3> HIDE DEF f, second, cut
      <3>5. f \in 1 .. Len(cut)
        BY <3>2, <3>3 DEF Originals
      <3>6. second \in DOMAIN cut
        BY <3>3, <3>4, <3>5
      <3> QED BY <3>1, <3>6
    <2> SUFFICES ASSUME result = Fault PROVE second \in DOMAIN cut /\ inside
      BY <2>6
    <2> DEFINE split == m.splits # << >>
    <2>1. split \in BOOLEAN /\ (split => Len(all) > Len(ps)) /\ Originals(all) # {}
      BY <1>3, <1>4
    <2>2. ~ (Cardinality(Originals(ps)) = 1 /\ (~split \/ ps[1].fake))
      OBVIOUS
    <2> HIDE DEF cut, split
    <2>3. Min(Originals(all)) + 1 \in DOMAIN all
      BY <1>3, <2>1, <2>2, SecondInside
    <2>4. DOMAIN cut = 1 .. Len(cut) /\ DOMAIN all = 1 .. Len(all) /\ Len(cut) \in Nat
      BY <1>3, <1>4, ListOf
    <2>5. second \in 1 .. Len(cut)
      BY <1>4, <2>3, <2>4
    <2> HIDE DEF second
    <2> QED BY <2>4, <2>5
  <1> HIDE DEF cut, n, second
  <1>8. Sane(done) /\ Laid(base, lo - 2 * step, hi + step, N, done)
    <2>1. /\ lo - step \in Int /\ hi + step \in Int /\ lo - 2 * step \in Int
          /\ hi + step <= hi + step /\ lo - 2 * step <= lo - step
      OBVIOUS
    <2>2. ~ (m.seqovl # {} /\ SeqovlThrows(pos))
      BY <1>5, <1>12
    <2>3. CASE overlaps
      <3>1. DisorderMss \in Nat /\ n \in Nat
        BY <1>5, <2>3, MssIsNat
      <3>2. second \in DOMAIN cut /\ inside /\ n <= step
        BY <1>6, <1>7, <2>3
      <3> DEFINE qs == Overlap(cut, second, n, DisorderMss)
      <3>6. done = qs
        BY <2>2, <2>3, <3>2
      <3>3. qs # Fault
        <4>1. CASE result # Fault
          BY <1>12, <3>6, <4>1
        <4>2. CASE DisorderMss # 0
          BY <1>4, <3>1, <3>2, <4>2, OverlapFaults
        <4> QED BY <2>3, <4>1, <4>2
      <3>4. lo - 2 * step <= (lo - step) - n
        BY <3>1, <3>2
      <3>5. Sane(qs) /\ Laid(base, lo - 2 * step, hi + step, N, qs)
        BY <1>2, <1>4, <2>1, <3>1, <3>2, <3>3, <3>4, OverlapLaid
      <3> HIDE DEF done, qs
      <3> QED BY <3>5, <3>6
    <2>4. CASE ~overlaps
      <3>1. done = cut
        BY <2>2, <2>4
      <3>2. Laid(base, lo - 2 * step, hi + step, N, cut)
        BY <1>4, <2>1, LaidWider
      <3> HIDE DEF done
      <3> QED BY <1>4, <3>1, <3>2
    <2> QED BY <2>3, <2>4
  <1> HIDE DEF done
  <1>9. Sane(tricked) /\ Laid(base, lo - 2 * step, hi + step, N, tricked)
    <2>1. Still(done, tricked) /\ Ok(tricked)
      BY <1>8, Tricked, TrickedAfter DEF Ok
    <2>2. lo - 2 * step \in Int /\ hi + step \in Int
      OBVIOUS
    <2> HIDE DEF tricked
    <2> QED BY <1>8, <2>1, <2>2, StillLaid DEF Shifted
  <1> HIDE DEF tricked
  <1>10. /\ lo - 2 * step \in Int /\ hi + step \in Int /\ hi + 2 * step \in Int
         /\ lo - 2 * step <= lo - 2 * step /\ hi + step <= hi + 2 * step
    OBVIOUS
  <1>11. Laid(base, lo - 2 * step, hi + 2 * step, N, tricked)
    BY <1>9, <1>10, LaidWider
  <1> QED BY <1>1, <1>9, <1>11 DEF LaidAfter

-----------------------------------------------------------------------------
(* The bytes that are handed over *)

(* There are as many bytes in a list as the payload of its segments has.   *)
LEMMA PayloadFits ==
  ASSUME NEW segs \in Seq(HeldSegment), segs # << >>, LowestSeq(segs) \in Int,
         NEW ps, Sane(ps), DOMAIN ps = DOMAIN segs,
         \A i \in DOMAIN segs : ps[i].data = segs[i].data, IsFiniteSet(Bytes(ps))
  PROVE  /\ Len(Concat(segs)) \in Nat
         /\ Len(Concat(segs)) <= Cardinality(Bytes(ps))
  <1> DEFINE n == Len(segs)
             rel == [i \in DOMAIN segs |-> (segs[i].seq - LowestSeq(segs)) % SeqSpace]
             all == Concat(segs)
             N == Len(all)
  <1>1. /\ n \in Nat /\ DOMAIN segs = 1 .. n
        /\ \A i \in 1 .. n : segs[i].seq \in SeqNums /\ segs[i].data \in Seq(Nat)
    <2>1. n \in Nat /\ DOMAIN segs = 1 .. n /\ \A i \in 1 .. n : segs[i] \in HeldSegment
      OBVIOUS
    <2> QED BY <2>1 DEF HeldSegment
  <1>2. rel \in [1 .. n -> Nat]
    <2>1. ASSUME NEW i \in 1 .. n PROVE (segs[i].seq - LowestSeq(segs)) % SeqSpace \in Nat
      <3>1. segs[i].seq \in Int
        BY <1>1, SeqNumsAreInts
      <3>2. segs[i].seq - LowestSeq(segs) \in Int
        BY <3>1
      <3>3. (segs[i].seq - LowestSeq(segs)) % SeqSpace \in SeqNums
        BY <3>2, Sizes
      <3>4. \A x \in SeqNums : x \in Nat
        BY Sizes DEF SeqNums
      <3> QED BY <3>3, <3>4
    <2> QED BY <1>1, <2>1
  <1>3. all = Join(segs, rel, StableOrder(rel))
    BY DEF Concat
  <1> HIDE DEF rel, all, n
  <1>4. /\ all \in Seq(Nat)
        /\ \A x \in 1 .. N : \E i \in 1 .. n :
             rel[i] < x /\ x <= rel[i] + Len(segs[i].data)
    <2>1. Len(segs) = n
      BY DEF n
    <2> QED BY <1>1, <1>2, <1>3, <2>1, JoinReaches
  <1>5. N \in Nat
    BY <1>4
  <1> DEFINE has(x) == CHOOSE i \in 1 .. n : rel[i] < x /\ x <= rel[i] + Len(segs[i].data)
             f == [x \in 1 .. N |-> <<has(x), x - rel[has(x)]>>]
  <1> HIDE DEF N
  <1>6. \A x \in 1 .. N : /\ has(x) \in 1 .. n /\ rel[has(x)] < x
                          /\ x <= rel[has(x)] + Len(segs[has(x)].data)
    BY <1>4
  <1> HIDE DEF has
  <1>7. ASSUME NEW x \in 1 .. N PROVE <<has(x), x - rel[has(x)]>> \in Bytes(ps)
    <2> DEFINE i == has(x)
               y == x - rel[i]
               d == Len(ps[i].data)
    <2>1. i \in 1 .. n /\ rel[i] \in Nat /\ rel[i] < x /\ x <= rel[i] + d
      BY <1>1, <1>2, <1>6
    <2>2. i \in 1 .. Len(ps) /\ d \in Nat
      <3>1. DOMAIN ps = 1 .. Len(ps)
        BY ListOf
      <3>2. i \in 1 .. Len(ps)
        BY <1>1, <2>1, <3>1
      <3> HIDE DEF i
      <3> QED BY <3>2, ListOf
    <2>3. y \in 1 .. d
      <3> DEFINE r == rel[i]
      <3>1. r \in Nat /\ r < x /\ x <= r + d /\ d \in Nat /\ x \in Int
        BY <2>1, <2>2
      <3> HIDE DEF r, d
      <3>2. x - r \in 1 .. d
        BY <3>1
      <3> QED BY <3>2 DEF r
    <2> HIDE DEF i, y
    <2>4. <<i, y>> \in Bytes(ps)
      BY <2>2, <2>3, BytesAre
    <2> QED BY <2>4 DEF i, y
  <1>8. f \in [1 .. N -> Bytes(ps)]
    BY <1>7
  <1>9. ASSUME NEW x \in 1 .. N, NEW z \in 1 .. N, f[x] = f[z] PROVE x = z
    <2>1. has(x) = has(z) /\ x - rel[has(x)] = z - rel[has(z)]
      BY <1>9
    <2>2. rel[has(x)] \in Nat
      BY <1>2, <1>6
    <2> DEFINE r == rel[has(x)]
    <2>3. r \in Nat /\ x - r = z - r
      BY <2>1, <2>2
    <2> HIDE DEF r
    <2> QED BY <2>3
  <1>10. f \in Injection(1 .. N, Bytes(ps))
    <2> HIDE DEF f
    <2> QED BY <1>8, <1>9, Fun_IsInj
  <1>11. Cardinality(1 .. N) <= Cardinality(Bytes(ps))
    <2> HIDE DEF f
    <2> QED BY <1>10, FS_Injection
  <1>12. Cardinality(1 .. N) = N
    BY <1>5, FS_Interval
  <1> QED BY <1>5, <1>11, <1>12 DEF N, all

(* The packets as they are handed over lie from the first one on.          *)
LEMMA HandedLaid ==
  ASSUME NEW span \in Nat, NEW step \in Nat, RoomToMove(span, step), Init
  PROVE  /\ Base \in SeqNums /\ Len(Payload) \in Nat
         /\ Laid(Base, 0, span, Len(Payload), packets)
  <1>1. /\ original \in Deliveries /\ pipeline \in Pipelines
        /\ packets = [i \in DOMAIN original |-> FromHeld(original[i])]
    BY DEF Init
  <1>2. Sane(packets)
    <2>1. MInv /\ pc = "filter"
      BY MInvInit DEF Init
    <2> QED BY <2>1 DEF MInv
  <1> DEFINE n == Len(original)
  <1>3. /\ original \in Seq(HeldSegment) /\ n \in Nat /\ n >= 1
        /\ DOMAIN original = 1 .. n /\ original # << >>
        /\ \A i \in 1 .. n : /\ original[i].seq \in SeqNums
                             /\ original[i].data \in Seq(Nat)
    <2>1. /\ original \in Seq(HeldSegment) /\ n \in Nat /\ n >= 1
          /\ DOMAIN original = 1 .. n
      BY <1>1, Delivered
    <2>2. \A i \in 1 .. n : original[i] \in HeldSegment
      BY <2>1
    <2> QED BY <2>1, <2>2 DEF HeldSegment
  <1>4. Base \in SeqNums /\ 1 \in 1 .. n
    BY <1>3 DEF Base
  <1>5. /\ DOMAIN packets = 1 .. n
        /\ \A i \in 1 .. n : packets[i].seq = original[i].seq /\ packets[i].data = original[i].data
    BY <1>1, <1>3 DEF FromHeld
  <1>6. \A i \in 1 .. n : /\ 0 <= Place(Base, original[i])
                          /\ Place(Base, original[i]) + Len(original[i].data) <= span
                          /\ Place(Base, original[i]) \in Int
    <2>1. \A i \in 1 .. n : /\ 0 <= Place(original[1].seq, original[i])
                            /\ Place(original[1].seq, original[i]) + Len(original[i].data) <= span
      BY <1>1, <1>3 DEF RoomToMove
    <2>2. \A i \in 1 .. n : Place(Base, original[i]) \in Int
      BY <1>3, <1>4, PlaceIs
    <2> QED BY <2>1, <2>2 DEF Base
  <1>7. \A k \in DOMAIN packets : Lies(Base, 0, span, packets[k])
    BY <1>5, <1>6 DEF Lies, Place
  <1>8. IsFiniteSet(Bytes(packets))
    BY <1>2, <1>4, <1>7, LaidFacts
  <1>9. LowestSeq(original) = Base
    <2>1. 2 * (span - 0) < SeqSpace
      <3>1. /\ 2 * (span + 4 * (step * Len(pipeline))) < SeqSpace
            /\ SeqSpace \in Int /\ Len(pipeline) \in Nat
        BY <1>1, PipelinesAssumption, Sizes DEF RoomToMove
      <3> DEFINE c == step * Len(pipeline)
      <3>2. c \in Nat
        BY <3>1
      <3> HIDE DEF c
      <3>3. 2 * (span + 4 * c) < SeqSpace
        BY <3>1 DEF c
      <3> QED BY <3>1, <3>2, <3>3
    <2>2. Place(Base, original[1]) = 0
      <3>1. (original[1].seq - Base) % SeqSpace = 0 /\ SeqSpace > 0
        <4>1. original[1].seq - Base = 0
          <5>1. original[1].seq = Base
            BY DEF Base
          <5>2. Base \in Int
            BY <1>4, SeqNumsAreInts
          <5> QED BY <5>1, <5>2
        <4>2. SeqSpace \in Nat \ {0} /\ 0 \in 0 .. SeqSpace - 1
          BY Sizes
        <4> QED BY <4>1, <4>2, ModFacts
      <3>2. SeqSpace \in Int /\ ~ (2 * 0 >= SeqSpace)
        BY <3>1, Sizes
      <3> QED BY <3>1, <3>2, Zenon DEF Place, Signed
    <2>3. \A k \in 1 .. n : ~SeqLT(original[k].seq, original[1].seq)
      <3> TAKE k \in 1 .. n
      <3> DEFINE x == Place(Base, original[k])
      <3>1. x \in Int /\ 0 <= x /\ x <= span
        <4> DEFINE d == Len(original[k].data)
        <4>1. x \in Int /\ 0 <= x /\ x + d <= span /\ d \in Nat
          BY <1>3, <1>6
        <4> HIDE DEF x, d
        <4> QED BY <4>1
      <3>2. original[k].seq \in SeqNums /\ original[1].seq \in SeqNums
        BY <1>3, <1>4
      <3>3. 0 <= 0 /\ 0 <= span /\ 0 \in Int /\ span \in Int
        OBVIOUS
      <3>4. SeqLT(original[k].seq, original[1].seq) <=> x < Place(Base, original[1])
        BY <1>4, <2>1, <2>2, <3>1, <3>2, <3>3, PlacesOrder
      <3> HIDE DEF x
      <3>5. ~ (x < 0)
        BY <3>1
      <3> QED BY <2>2, <3>4, <3>5
    <2>4. n > 0
      BY <1>3
    <2> QED BY <1>3, <2>3, <2>4, LowestOfRising DEF Base
  <1>10. LowestSeq(original) \in Int
    BY <1>4, <1>9, SeqNumsAreInts
  <1>11. /\ Len(Concat(original)) \in Nat
         /\ Len(Concat(original)) <= Cardinality(Bytes(packets))
    BY <1>2, <1>3, <1>5, <1>8, <1>10, PayloadFits
  <1> QED BY <1>4, <1>7, <1>11 DEF Laid, Payload

-----------------------------------------------------------------------------
(* The list lies within half the sequence space, wider by a modifier's     *)
(* reach with each of them, and has a byte for each of the payload.        *)
FInv(span, step) ==
  /\ MInv
  /\ pc \in {"filter", "modify"} =>
       LET wide == 2 * (step * (next - 1))
       IN  /\ Base \in SeqNums /\ Len(Payload) \in Nat
           /\ Laid(Base, -wide, span + wide, Len(Payload), packets)

(* What is handed over lies in the stream.                                 *)
LEMMA FInvInit ==
  ASSUME NEW span \in Nat, NEW step \in Nat, RoomToMove(span, step), Init
  PROVE  FInv(span, step)
  <1>1. MInv /\ next = 1
    BY MInvInit DEF Init
  <1>2. 2 * (step * (next - 1)) = 0
    <2>1. next - 1 = 0
      BY <1>1
    <2> QED BY <2>1
  <1>3. -(2 * (step * (next - 1))) = 0 /\ span + 2 * (step * (next - 1)) = span
    BY <1>2
  <1> QED BY <1>1, <1>3, HandedLaid DEF FInv

(* Another modifier has room.                                              *)
LEMMA TurnHasRoom ==
  ASSUME MInv, next <= Len(pipeline),
         NEW span \in Nat, NEW step \in Nat, RoomToMove(span, step)
  PROVE  LET wide == 2 * (step * (next - 1))
         IN  /\ wide \in Nat /\ Roomy(-wide, span + wide, step)
             /\ 2 * (step * ((next + 1) - 1)) = wide + 2 * step
  <1> DEFINE a == step * (next - 1)
             b == step * (Len(pipeline) - next)
             c == step * Len(pipeline)
             e == step * ((next + 1) - 1)
  <1>1. /\ next \in Nat /\ next >= 1 /\ Len(pipeline) \in Nat
        /\ pipeline \in Pipelines
    BY PipelinesAssumption DEF MInv
  <1>2. 2 * (span + 4 * c) < SeqSpace /\ SeqSpace \in Nat
    BY <1>1, Sizes DEF RoomToMove
  <1>3. next - 1 \in Nat /\ Len(pipeline) - next \in Nat
    BY <1>1
  <1>4. a \in Nat /\ b \in Nat /\ e = a + step
    BY <1>1, <1>3
  <1>5. c = (a + step) + b
    <2>1. a + step = step * next
      BY <1>1
    <2>2. step * next + b = c
      BY <1>1
    <2> QED BY <2>1, <2>2
  <1> HIDE DEF a, b, c, e
  <1>6. 2 * a \in Nat /\ Roomy(-(2 * a), span + 2 * a, step)
    <2>1. /\ -(2 * a) <= 0 /\ 0 <= span + 2 * a
          /\ 2 * ((span + 2 * a) - (-(2 * a)) + 4 * step) < SeqSpace
      BY <1>2, <1>4, <1>5
    <2> QED BY <1>4, <2>1 DEF Roomy
  <1>7. 2 * e = 2 * a + 2 * step
    BY <1>4
  <1> QED BY <1>6, <1>7 DEF a, e

(* What trips a modifier.                                                  *)
Trips(m) == Outside(m) \/ NoSecond(m) \/ NoSni(m) \/ NoRoom(m) \/ ReusesView(m)

(* A turn ends the program for one of the reasons given, or leaves a list  *)
(* that lies within its bounds.                                            *)
LEMMA TurnLaid ==
  ASSUME NEW span \in Nat, NEW step \in Nat, RoomToMove(span, step),
         FInv(span, step), Splitter \/ Disorder
  PROVE  LET m == pipeline[next]
             wide == 2 * (step * (next - 1))
         IN  /\ packets' = Fault => ~m.fake /\ Trips(m)
             /\ packets' # Fault =>
                  LaidAfter(Base, -wide, span + wide, Len(Payload), step, packets')
  <1> DEFINE m == pipeline[next]
             wide == 2 * (step * (next - 1))
             lo == -wide
             hi == span + wide
             N == Len(Payload)
             After(qs) == LaidAfter(Base, lo, hi, N, step, qs)
  <1>1. /\ MInv /\ pc = "modify" /\ next <= Len(pipeline)
        /\ Base \in SeqNums /\ N \in Nat /\ Laid(Base, lo, hi, N, packets)
    BY DEF FInv, Splitter, Disorder, Turn
  <1>2. /\ Sane(packets) /\ found \in Findings /\ mss \in MssValues
        /\ next \in Nat /\ next >= 1 /\ pipeline \in Pipelines
    BY <1>1 DEF MInv
  <1>3. m \in ModifierArgs /\ NoFarther(m, step)
    <2>1. pipeline \in Seq(ModifierArgs)
      BY <1>2, PipelinesAssumption
    <2>2. next \in 1 .. Len(pipeline) /\ DOMAIN pipeline = 1 .. Len(pipeline)
      BY <1>1, <1>2, <2>1
    <2> QED BY <1>2, <2>1, <2>2 DEF RoomToMove
  <1>4. wide \in Nat /\ Roomy(lo, hi, step)
    BY <1>1, TurnHasRoom
  <1> HIDE DEF wide
  <1>5. lo \in Int /\ hi \in Int
    BY <1>4
  <1>6. /\ -SeqSpace <= 2 * (lo - 2 * step) /\ 2 * (hi + 2 * step) < SeqSpace
        /\ lo - 2 * step \in Int /\ hi + 2 * step \in Int
    BY <1>4, <1>5, RoomFacts
  <1> HIDE DEF lo, hi, N, m
  <1>7. After(InsertFake(packets, m))
    <2>1. Len(Blob) <= step /\ -step <= m.seqOff /\ m.seqOff <= step
      BY <1>3 DEF RoomToMove, NoFarther
    <2> QED BY <1>1, <1>2, <1>3, <1>5, <1>6, <2>1, FakeLaid DEF LaidAfter
  <1>8. Outside(m) \/ \A k \in 1 .. Len(m.splits) : SplitPos(found.markers, m.splits[k]) < N
    <2> SUFFICES ASSUME NEW k \in 1 .. Len(m.splits), ~Outside(m)
                 PROVE  SplitPos(found.markers, m.splits[k]) < N
      OBVIOUS
    <2>1. m.splits \in Seq(Position)
      BY <1>3 DEF ModifierArgs
    <2>2. m.splits[k] \in Position /\ m.splits[k] \in Range(m.splits)
      BY <2>1 DEF Range
    <2>3. SplitPos(found.markers, m.splits[k]) \in Nat
      BY <1>2, <2>2, SplitPosIsNat
    <2>4. ~ (SplitPos(found.markers, m.splits[k]) >= N)
      BY <2>2 DEF Outside, N
    <2> QED BY <1>1, <2>3, <2>4
  <1>9. ASSUME NEW qs, After(qs) PROVE Ok(qs) /\ qs # Fault /\ After(ReverseOriginals(qs))
    <2>1. Sane(qs) /\ Laid(Base, lo - 2 * step, hi + 2 * step, N, qs)
      BY <1>9 DEF LaidAfter
    <2>2. Ok(qs) /\ qs # Fault
      BY <2>1 DEF Ok, Sane, Fault
    <2>3. Laid(Base, lo - 2 * step, hi + 2 * step, N, ReverseOriginals(qs))
      BY <1>1, <1>6, <2>1, ReverseLaid
    <2>4. Sane(ReverseOriginals(qs))
      BY <2>2, ReverseKeeps DEF Ok
    <2> QED BY <2>2, <2>3, <2>4 DEF LaidAfter
  <1> HIDE DEF After
  <1>10. CASE Splitter
    <2>1. CASE m.fake
      <3>1. packets' = InsertFake(packets, m)
        BY <1>10, <2>1 DEF Splitter, Leaves, m
      <3> QED BY <1>7, <1>9, <3>1 DEF After, m, lo, hi, N, wide
    <2>2. CASE ~m.fake
      <3>1. PICK result \in SplitterOutcomes(packets, m) : packets' = result
        BY <1>10, <2>2 DEF Splitter, Leaves, m
      <3>2. m.kind = "splitter"
        BY <1>10 DEF Splitter, Turn, m
      <3>3. CASE result # Fault \/ ~Trips(m)
        <4>1. m.seqovl # {} => SplitterMss # 0 \/ result # Fault
          BY <3>2, <3>3 DEF Trips, NoRoom, Overlaps
        <4>2. \/ result # Fault
              \/ /\ \A k \in 1 .. Len(m.splits) : SplitPos(found.markers, m.splits[k]) < N
                 /\ m.seqovl # {} => SplitterMss # 0
                 /\ ~ReusesView(m)
          BY <1>8, <3>3, <4>1 DEF Trips
        <4>3. After(result)
          BY <1>1, <1>2, <1>3, <1>4, <1>5, <3>2, <4>2, SplitterLaid DEF After
        <4> QED BY <1>9, <3>1, <4>3 DEF After, m, lo, hi, N, wide
      <3>4. CASE ~ (result # Fault \/ ~Trips(m))
        BY <2>2, <3>1, <3>4 DEF m
      <3> QED BY <3>3, <3>4
    <2> QED BY <2>1, <2>2
  <1>11. CASE Disorder
    <2>1. CASE m.fake
      <3>1. packets' = ReverseOriginals(InsertFake(packets, m))
        BY <1>11, <2>1 DEF Disorder, Leaves, m
      <3>2. After(packets')
        BY <1>7, <1>9, <3>1
      <3> QED BY <1>9, <3>2 DEF After, m, lo, hi, N, wide
    <2>2. CASE ~m.fake
      <3>1. PICK result \in DisorderOutcomes(packets, m) : packets' = ReverseOriginals(result)
        BY <1>11, <2>2 DEF Disorder, Leaves, m
      <3>2. m.kind = "disorder"
        BY <1>11 DEF Disorder, Turn, m
      <3>3. CASE result # Fault \/ ~Trips(m)
        <4>1. ASSUME result = Fault, m.seqovl # {}
              PROVE  /\ DisorderMss # 0 /\ \A pos \in m.seqovl : ~SeqovlThrows(pos)
                     /\ ~ (/\ Cardinality(Originals(packets)) = 1
                           /\ m.splits = << >> \/ packets[1].fake)
          BY <3>2, <3>3, <4>1 DEF Trips, NoRoom, NoSni, NoSecond, Overlaps
        <4>2. \/ result # Fault
              \/ /\ \A k \in 1 .. Len(m.splits) : SplitPos(found.markers, m.splits[k]) < N
                 /\ m.seqovl # {} =>
                      /\ DisorderMss # 0 /\ \A pos \in m.seqovl : ~SeqovlThrows(pos)
                      /\ ~ (/\ Cardinality(Originals(packets)) = 1
                            /\ m.splits = << >> \/ packets[1].fake)
                 /\ ~ReusesView(m)
          BY <1>8, <3>3, <4>1 DEF Trips
        <4>3. After(result)
          BY <1>1, <1>2, <1>3, <1>4, <1>5, <3>2, <4>2, DisorderLaid DEF After
        <4>4. After(packets')
          BY <1>9, <3>1, <4>3
        <4> QED BY <1>9, <4>4 DEF After, m, lo, hi, N, wide
      <3>4. CASE ~ (result # Fault \/ ~Trips(m))
        <4>1. ReverseOriginals(result) = Fault
          BY <3>4, ReverseKeeps DEF Ok
        <4> QED BY <2>2, <3>1, <3>4, <4>1 DEF m
      <3> QED BY <3>3, <3>4
    <2> QED BY <2>1, <2>2
  <1> QED BY <1>10, <1>11

(* No step leads out of the room that the modifiers have.                  *)
LEMMA FInvStep ==
  ASSUME NEW span \in Nat, NEW step \in Nat, RoomToMove(span, step),
         FInv(span, step), [Next]_vars
  PROVE  FInv(span, step)'
  <1>1. MInv /\ MInv'
    BY MInvStep DEF FInv
  (* A step that leaves the list and the number of modifiers alone.        *)
  <1>2. ASSUME UNCHANGED <<original, packets, next>>, pc \in {"filter", "modify"}
        PROVE  FInv(span, step)'
    BY <1>1, <1>2 DEF FInv, Base, Payload
  <1>3. CASE Filter
    BY <1>2, <1>3 DEF Filter
  <1>4. ASSUME Splitter \/ Disorder \/ Skip
        PROVE  /\ pc = "modify" /\ next <= Len(pipeline) /\ next' = next + 1
               /\ Base' = Base /\ Payload' = Payload
    BY <1>4 DEF Splitter, Disorder, Skip, Turn, Base, Payload
  <1> DEFINE wide == 2 * (step * (next - 1))
             wider == 2 * (step * ((next + 1) - 1))
             lo == -wide
             hi == span + wide
             N == Len(Payload)
  <1>5. ASSUME Splitter \/ Disorder \/ Skip
        PROVE  /\ wide \in Nat /\ wider = wide + 2 * step
               /\ lo \in Int /\ hi \in Int /\ -wider \in Int /\ span + wider \in Int
               /\ -wider = lo - 2 * step /\ span + wider = hi + 2 * step
               /\ Base \in SeqNums /\ N \in Nat /\ Laid(Base, lo, hi, N, packets)
    <2>1. wide \in Nat /\ wider = wide + 2 * step
      BY <1>1, <1>4, <1>5, TurnHasRoom
    <2>2. Base \in SeqNums /\ N \in Nat /\ Laid(Base, lo, hi, N, packets)
      BY <1>4, <1>5 DEF FInv
    <2> HIDE DEF wide, wider, N
    <2> QED BY <2>1, <2>2
  <1>6. ASSUME Splitter \/ Disorder \/ Skip, Laid(Base, -wider, span + wider, N, packets')
        PROVE  FInv(span, step)'
    <2>1. /\ Base' \in SeqNums /\ Len(Payload') \in Nat
          /\ Laid(Base', -(2 * (step * (next' - 1))), span + 2 * (step * (next' - 1)),
                  Len(Payload'), packets')
      BY <1>4, <1>5, <1>6
    <2> QED BY <1>1, <2>1 DEF FInv, Laid
  <1>7. CASE Splitter \/ Disorder
    <2>1. CASE packets' = Fault
      <3>1. pc' = "fault"
        BY <1>1, <1>7, <2>1, TurnLeaves
      <3> QED BY <1>1, <3>1 DEF FInv
    <2>2. CASE packets' # Fault
      <3>1. LaidAfter(Base, lo, hi, N, step, packets')
        BY <1>7, <2>2, TurnLaid
      <3> HIDE DEF wider, lo, hi, N
      <3>2. Laid(Base, -wider, span + wider, N, packets')
        BY <1>5, <1>7, <3>1 DEF LaidAfter
      <3> QED BY <1>6, <1>7, <3>2
    <2> QED BY <2>1, <2>2
  <1>8. CASE Skip
    <2>1. packets' = packets /\ Sane(packets)
      BY <1>1, <1>4, <1>8 DEF Skip, MInv
    <2> HIDE DEF wider, lo, hi, N
    <2>2. lo - 2 * step <= lo /\ hi <= hi + 2 * step
      BY <1>5, <1>8
    <2>3. Laid(Base, -wider, span + wider, N, packets)
      BY <1>5, <1>8, <2>1, <2>2, LaidWider
    <2> QED BY <1>6, <1>8, <2>1, <2>3
  <1>9. CASE Finished \/ Send
    <2>1. pc' \in {"send", "done"}
      BY <1>9 DEF Finished, Send
    <2> QED BY <1>1, <2>1 DEF FInv
  <1>10. CASE UNCHANGED vars
    <2>1. UNCHANGED <<original, packets, next, pc>>
      BY <1>10 DEF vars
    <2>2. CASE pc \in {"filter", "modify"}
      BY <1>2, <2>1, <2>2
    <2>3. CASE pc \notin {"filter", "modify"}
      BY <1>1, <2>1, <2>3 DEF FInv
    <2> QED BY <2>2, <2>3
  <1> QED BY <1>3, <1>7, <1>8, <1>9, <1>10 DEF Next

(* No step but a turn ends the program, and a turn does for its reasons.   *)
LEMMA FaultStep ==
  ASSUME NEW span \in Nat, NEW step \in Nat, RoomToMove(span, step),
         FInv(span, step), [Next]_vars, pc # "fault", pc' = "fault"
  PROVE  ~pipeline[next].fake /\ Trips(pipeline[next])
  <1>1. Splitter \/ Disorder
    BY DEF Next, Filter, Skip, Finished, Send, vars
  <1>2. packets' = Fault
    <2>1. MInv
      BY DEF FInv
    <2> QED BY <1>1, <2>1, TurnLeaves
  <1> QED BY <1>1, <1>2, TurnLaid

(* The modifiers end the program for the reasons FaultsOnlyWhen gives, and *)
(* for no other: whatever profile, payload and markers, as long as what the*)
(* modifiers move and pad stays within half the sequence space, each offset*)
(* of the payload lies in a packet of the list.                            *)
THEOREM FaultsOnlyWhenAlways ==
  ASSUME NEW span \in Nat, NEW step \in Nat, RoomToMove(span, step)
  PROVE  Spec => FaultsOnlyWhen
  <1>1. Init => FInv(span, step)
    BY FInvInit
  <1>2. FInv(span, step) /\ [Next]_vars => FInv(span, step)'
    BY FInvStep
  <1>3. FInv(span, step) /\ [Next]_vars =>
          [(pc # "fault" /\ pc' = "fault") =>
             LET m == pipeline[next]
             IN  /\ ~m.fake
                 /\ \/ Outside(m) \/ NoSecond(m) \/ NoSni(m) \/ NoRoom(m)
                    \/ ReusesView(m)]_vars
    <2> SUFFICES ASSUME FInv(span, step), [Next]_vars, pc # "fault", pc' = "fault"
                 PROVE  ~pipeline[next].fake /\ Trips(pipeline[next])
      BY DEF Trips
    <2> QED BY FaultStep
  <1> QED BY <1>1, <1>2, <1>3, PTL DEF Spec, FaultsOnlyWhen
=============================================================================
