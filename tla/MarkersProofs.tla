---------------------------- MODULE MarkersProofs ----------------------------
(***************************************************************************)
(* Proofs about Markers: for payloads of any length and content, what the  *)
(* parser reads and what it finds is inside the payload; and for those that*)
(* are well formed, of any shape, it finds the name and cuts where the     *)
(* positions say.                                                          *)
(***************************************************************************)
EXTENDS MarkersProperties, DataInduction

(* What a field relies on when its turn comes. *)
Places ==
  /\ input.proto = "HTTP" => pc \in {"request", "found", "none", "cut"}
  /\ input.proto = "TLS" => pc # "request"
  /\ pc = "header" => at = 0
  /\ pc = "hello" => at = 5
  /\ pc = "session" => at = 43
  /\ pc = "name" => at = sniext + 4
  /\ pc = "undefined" => Len(bytes) <= 5 \/ Len(bytes) = 43

Inside == TypeOK /\ Places /\ TlsMarkersInside /\ HttpMarkersInside

-----------------------------------------------------------------------------
(* The payload *)

(* Lengths of payloads are natural numbers that size_t can hold. *)
LEMMA PayloadLength ==
  ASSUME input \in Inputs
  PROVE  /\ Len(bytes) \in Nat /\ Len(bytes) < SizeSpace
         /\ input.proto \in {"TLS", "HTTP"}
  <1>1. CASE input.proto = "TLS" /\ bytes \in Seq(0 .. 255)
    BY <1>1, InputsAssumption, LenProperties DEF bytes
  <1>2. CASE input.proto = "HTTP" /\ bytes \in Seq(Characters)
    BY <1>2, InputsAssumption, LenProperties DEF bytes
  <1> QED BY <1>1, <1>2, InputsAssumption DEF bytes

(* A byte that is left is a byte, and two of them are a length. *)
LEMMA BytesLeft ==
  ASSUME input \in Inputs, input.proto = "TLS", at \in 0 .. Len(bytes), NEW k \in Nat
  PROVE  /\ k < Left => Byte(k) \in 0 .. 255
         /\ k + 2 <= Left => U16(k) \in Nat
  <1>1. bytes \in Seq(0 .. 255) /\ Len(bytes) \in Nat
    BY InputsAssumption, PayloadLength DEF bytes
  <1>2. ASSUME NEW j \in Nat, j < Left PROVE Byte(j) \in 0 .. 255
    <2>1. at + j + 1 \in 1 .. Len(bytes)
      BY <1>1, <1>2 DEF Left
    <2> QED BY <1>1, <2>1, ElementOfSeq DEF Byte
  <1>3. ASSUME k + 2 <= Left PROVE U16(k) \in Nat
    <2>1. k + 1 \in Nat /\ k < Left /\ k + 1 < Left
      BY <1>1, <1>3 DEF Left
    <2>2. Byte(k) \in 0 .. 255 /\ Byte(k + 1) \in 0 .. 255
      BY <1>2, <2>1
    <2>3. \A a, b \in 0 .. 255 : a * 256 + b \in Nat
      OBVIOUS
    <2> QED BY <2>2, <2>3, Zenon DEF U16
  <1> QED BY <1>2, <1>3

LEMMA Half ==
  ASSUME NEW n \in Nat
  PROVE  n \div 2 \in Nat /\ n \div 2 <= n
  OBVIOUS

(* A size that fits does not wrap. *)
LEMMA Fits ==
  ASSUME NEW n \in Nat, NEW m \in Nat, n < m
  PROVE  n % m = n
  OBVIOUS

-----------------------------------------------------------------------------
(* The Host line *)

(* A piece of n cells from an offset on. *)
LEMMA Slice ==
  ASSUME NEW S, NEW s \in Seq(S), NEW k \in Nat, NEW n \in Nat, k + n <= Len(s)
  PROVE  /\ SubSeq(s, k + 1, k + n) \in Seq(S)
         /\ Len(SubSeq(s, k + 1, k + n)) = n
         /\ \A j \in 1 .. n : SubSeq(s, k + 1, k + n)[j] = s[k + j]
  <1>1. Len(s) \in Nat
    BY LenProperties
  <1>2. \A i \in k + 1 .. k + n : s[i] \in S
    BY <1>1, ElementOfSeq
  <1>3. /\ SubSeq(s, k + 1, k + n) \in Seq(S)
        /\ Len(SubSeq(s, k + 1, k + n)) = n
    BY <1>1, <1>2, SubSeqProperties
  <1>4. ASSUME NEW j \in 1 .. n PROVE SubSeq(s, k + 1, k + n)[j] = s[k + j]
    <2>1. SubSeq(s, k + 1, k + n)[j] = s[(k + 1) + j - 1]
      BY <1>1, SubSeqProperties
    <2>2. (k + 1) + j - 1 = k + j
      OBVIOUS
    <2> QED BY <2>1, <2>2
  <1> QED BY <1>3, <1>4

(* An offset at which a word occurs, and what is there. *)
LEMMA OccursAt ==
  ASSUME input \in Inputs, input.proto = "HTTP", NEW word \in Seq(Characters),
         NEW k \in Occurs(word)
  PROVE  /\ k \in Nat /\ k + Len(word) <= Len(bytes)
         /\ \A j \in 1 .. Len(word) : bytes[k + j] = word[j]
  <1>1. bytes \in Seq(Characters) /\ Len(bytes) \in Nat /\ Len(word) \in Nat
    BY InputsAssumption, PayloadLength, LenProperties DEF bytes
  <1>2. k \in 0 .. Len(bytes) - Len(word)
        /\ SubSeq(bytes, k + 1, k + Len(word)) = word
    BY DEF Occurs
  <1>3. k \in Nat /\ k + Len(word) <= Len(bytes)
    BY <1>1, <1>2
  <1>4. ASSUME NEW j \in 1 .. Len(word) PROVE bytes[k + j] = word[j]
    <2>1. SubSeq(bytes, k + 1, k + Len(word))[j] = bytes[(k + 1) + j - 1]
      BY <1>1, <1>3, SubSeqProperties
    <2>2. (k + 1) + j - 1 = k + j
      BY <1>1, <1>3
    <2> QED BY <1>2, <2>1, <2>2
  <1> QED BY <1>3, <1>4

(* A set of natural numbers that is not empty has a least element. *)
LEMMA LeastIn ==
  ASSUME NEW S \in SUBSET Nat, S # {}
  PROVE  Least(S) \in S /\ \A k \in S : Least(S) <= k
  <1>1. \E i \in S : \A j \in S : i <= j
    BY LeastElement
  <1> QED BY <1>1, Zenon DEF Least

LEMMA FiveCells ==
  ASSUME NEW S, NEW a \in S, NEW b \in S, NEW c \in S, NEW d \in S, NEW e \in S
  PROVE  <<a, b, c, d, e>> \in Seq(S) /\ Len(<<a, b, c, d, e>>) = 5
  OBVIOUS

LEMMA TwoCells ==
  ASSUME NEW S, NEW a \in S, NEW b \in S
  PROVE  <<a, b>> \in Seq(S) /\ Len(<<a, b>>) = 2
  OBVIOUS

LEMMA Words ==
  /\ HOST_HEADER_NAME \in Seq(Characters) /\ Len(HOST_HEADER_NAME) = 5
  /\ \A j \in 1 .. 5 : HOST_HEADER_NAME[j] # "CR"
  /\ CRLF \in Seq(Characters) /\ Len(CRLF) = 2 /\ CRLF[1] = "CR"
  <1>1. HOST_HEADER_NAME \in Seq(Characters) /\ Len(HOST_HEADER_NAME) = 5
    BY CharactersAssumption, FiveCells, Zenon DEF HOST_HEADER_NAME
  <1>2. \A j \in 1 .. 5 : HOST_HEADER_NAME[j] # "CR"
    BY DEF HOST_HEADER_NAME
  <1>3. CRLF \in Seq(Characters) /\ Len(CRLF) = 2
    BY CharactersAssumption, TwoCells, Zenon DEF CRLF
  <1>4. CRLF[1] = "CR"
    BY DEF CRLF
  <1> QED BY <1>1, <1>2, <1>3, <1>4

(* A Host line that ends right behind the colon is a bare one.             *)
LEMMA BareLine ==
  ASSUME input \in Inputs, input.proto = "HTTP", NEW k \in Nat,
         k \in Occurs(HOST_HEADER_NAME), k + 5 \in Occurs(CRLF)
  PROVE  BareHost
  <1> DEFINE both == HOST_HEADER_NAME \o CRLF
             seen == SubSeq(bytes, k + 1, k + 7)
  <1>1. bytes \in Seq(Characters) /\ Len(bytes) \in Nat
    BY InputsAssumption, PayloadLength DEF bytes
  <1>2. k + 7 <= Len(bytes)
    <2>1. (k + 5) + Len(CRLF) <= Len(bytes)
      BY OccursAt, Words
    <2> QED BY <1>1, <2>1, Words
  <1>3. /\ both \in Seq(Characters) /\ Len(both) = 7
        /\ \A j \in 1 .. 7 : both[j] = IF j <= 5 THEN HOST_HEADER_NAME[j] ELSE CRLF[j - 5]
    <2>1. /\ both \in Seq(Characters)
          /\ Len(both) = Len(HOST_HEADER_NAME) + Len(CRLF)
          /\ \A j \in 1 .. Len(HOST_HEADER_NAME) + Len(CRLF) :
               both[j] = IF j <= Len(HOST_HEADER_NAME) THEN HOST_HEADER_NAME[j]
                         ELSE CRLF[j - Len(HOST_HEADER_NAME)]
      BY Words, ConcatProperties, Zenon
    <2> HIDE DEF both
    <2> QED BY <2>1, Words
  <1>4. /\ seen \in Seq(Characters) /\ Len(seen) = 7
        /\ \A j \in 1 .. 7 : seen[j] = bytes[k + j]
    BY <1>1, <1>2, Slice
  <1> HIDE DEF both, seen
  <1>5. /\ \A j \in 1 .. 5 : bytes[k + j] = HOST_HEADER_NAME[j]
        /\ \A j \in 1 .. 2 : bytes[(k + 5) + j] = CRLF[j]
    BY OccursAt, Words, ZenonT(40)
  <1>6. ASSUME NEW j \in 1 .. 7 PROVE bytes[k + j] = both[j]
    <2>1. CASE j <= 5
      BY <1>3, <1>5, <2>1
    <2>2. CASE j > 5
      <3>1. j - 5 \in 1 .. 2 /\ (k + 5) + (j - 5) = k + j /\ ~(j <= 5)
        BY <2>2
      <3> QED BY <1>3, <1>5, <3>1
    <2> QED BY <2>1, <2>2
  <1>7. seen = both
    BY <1>3, <1>4, <1>6, SeqEqual
  <1>8. k \in 0 .. Len(bytes) - Len(both)
    BY <1>1, <1>2, <1>3
  <1>9. k + Len(both) = k + 7
    BY <1>3
  <1> QED BY <1>7, <1>8, <1>9 DEF BareHost, Occurs, both, seen

(* Where the name of a request ends, unless its Host line is a bare one.   *)
LEMMA HostFound ==
  ASSUME input \in Inputs, input.proto = "HTTP", HasHost, ~BareHost
  PROVE  /\ HostPos \in Nat /\ HostEnd \in Nat /\ HostStart = HostPos + 6
         /\ HostStart <= HostEnd /\ HostEnd + 2 <= Len(bytes)
  <1> DEFINE ends == {k \in Occurs(CRLF) : k >= HostPos}
  <1>1. HostPos \in Occurs(HOST_HEADER_NAME)
    <2>1. Occurs(HOST_HEADER_NAME) \in SUBSET Nat
      BY OccursAt, Words
    <2> QED BY <2>1, LeastIn DEF HasHost, HostPos
  <1>2. /\ HostPos \in Nat
        /\ \A j \in 1 .. 5 : bytes[HostPos + j] = HOST_HEADER_NAME[j]
    BY <1>1, OccursAt, Words
  <1>3. HostEnd \in ends
    <2>1. ends \in SUBSET Nat
      BY OccursAt, Words
    <2>2. ends # {}
      BY DEF HasHost
    <2> HIDE DEF ends
    <2>3. Least(ends) \in ends
      BY <2>1, <2>2, LeastIn
    <2> QED BY <2>3 DEF HostEnd, ends
  <1>4. /\ HostEnd \in Nat /\ HostEnd + 2 <= Len(bytes) /\ HostEnd >= HostPos
        /\ bytes[HostEnd + 1] = "CR"
    <2>1. HostEnd \in Occurs(CRLF) /\ HostEnd >= HostPos
      BY <1>3
    <2>2. /\ HostEnd \in Nat /\ HostEnd + Len(CRLF) <= Len(bytes)
          /\ \A j \in 1 .. Len(CRLF) : bytes[HostEnd + j] = CRLF[j]
      BY <2>1, OccursAt, Words
    <2> QED BY <2>1, <2>2, Words
  <1>5. ~(HostEnd < HostPos + 5)
    <2> SUFFICES ASSUME HostEnd < HostPos + 5 PROVE FALSE
      OBVIOUS
    <2>1. HostEnd - HostPos + 1 \in 1 .. 5 /\ HostPos + (HostEnd - HostPos + 1) = HostEnd + 1
      BY <1>2, <1>4
    <2>2. bytes[HostEnd + 1] = HOST_HEADER_NAME[HostEnd - HostPos + 1]
      BY <1>2, <2>1
    <2> QED BY <1>4, <2>1, <2>2, Words
  <1>6. HostEnd # HostPos + 5
    <2> SUFFICES ASSUME HostEnd = HostPos + 5 PROVE FALSE
      OBVIOUS
    <2>1. HostPos + 5 \in Occurs(CRLF)
      BY <1>3
    <2> QED BY <1>1, <1>2, <2>1, BareLine
  <1>7. HostStart = HostPos + 6
    BY <1>2 DEF HostStart
  <1> QED BY <1>2, <1>4, <1>5, <1>6, <1>7

(* The markers of a request that has a host. *)
LEMMA RequestMarkers ==
  ASSUME input \in Inputs, input.proto = "HTTP", HasHost, ~BareHost
  PROVE  LET mid == (HostStart + HostSize \div 2) % SizeSpace
             end == (HostStart + HostSize) % SizeSpace
         IN  6 <= HostStart /\ HostStart <= mid /\ mid <= end /\ end + 2 <= Len(bytes)
  <1>1. /\ HostStart \in Nat /\ 6 <= HostStart /\ HostEnd \in Nat
        /\ HostStart <= HostEnd /\ HostEnd + 2 <= Len(bytes)
    BY HostFound
  <1>2. Len(bytes) \in Nat /\ Len(bytes) < SizeSpace /\ SizeSpace \in Nat
    BY PayloadLength, SizesAssumption
  <1>3. HostSize = HostEnd - HostStart
    <2>1. HostEnd - HostStart \in Nat /\ HostEnd - HostStart < SizeSpace
      BY <1>1, <1>2
    <2> QED BY <1>2, <2>1, Fits DEF HostSize
  <1>4. HostSize \in Nat /\ HostSize \div 2 \in Nat /\ HostSize \div 2 <= HostSize
    <2>1. HostSize \in Nat
      BY <1>1, <1>3
    <2> QED BY <2>1, Half
  <1>5. (HostStart + HostSize \div 2) % SizeSpace = HostStart + HostSize \div 2
    <2>1. /\ HostStart + HostSize \div 2 \in Nat
          /\ HostStart + HostSize \div 2 < SizeSpace
      BY <1>1, <1>2, <1>3, <1>4
    <2> QED BY <1>2, <2>1, Fits
  <1>6. (HostStart + HostSize) % SizeSpace = HostEnd
    <2>1. HostStart + HostSize = HostEnd /\ HostEnd < SizeSpace
      BY <1>1, <1>2, <1>3
    <2> QED BY <1>1, <1>2, <2>1, Fits
  <1> QED BY <1>1, <1>3, <1>4, <1>5, <1>6

-----------------------------------------------------------------------------
(* The steps *)

LEMMA InitInside == Init => Inside
  <1> SUFFICES ASSUME Init PROVE Inside
    OBVIOUS
  <1>1. input \in Inputs /\ at = 0 /\ sniext = 0
    BY DEF Init
  <1>2. /\ input.proto = "TLS" => pc = "header"
        /\ input.proto = "HTTP" => pc = "request"
    BY DEF Init
  <1>3. Len(bytes) \in Nat /\ input.proto \in {"TLS", "HTTP"}
    BY <1>1, PayloadLength
  <1> QED BY <1>1, <1>2, <1>3
       DEF Inside, TypeOK, Places, Fields, TlsMarkersInside, HttpMarkersInside

(* A step inside a ClientHello that does not find anything: what is left to*)
(* show is that the bytes read are inside and the next field's premise.    *)
LEMMA FieldStep ==
  ASSUME Inside, pc \in Fields,
         UNCHANGED input,
         at' \in 0 .. Len(bytes), sniext' \in 0 .. Len(bytes),
         pc' \in Fields \cup {"none", "undefined"},
         pc' = "header" => at' = 0,
         pc' = "hello" => at' = 5,
         pc' = "session" => at' = 43,
         pc' = "name" => at' = sniext' + 4,
         pc' = "undefined" => Len(bytes) <= 5 \/ Len(bytes) = 43
  PROVE  Inside'
  <1>1. input.proto = "TLS"
    BY PayloadLength DEF Inside, TypeOK, Places, Fields
  <1>2. bytes' = bytes
    BY DEF bytes
  <1> QED BY <1>1, <1>2
       DEF Inside, TypeOK, Places, Fields, TlsMarkersInside, HttpMarkersInside

(* In a field of a ClientHello, what is left is a number of bytes.         *)
LEMMA FieldPremise ==
  ASSUME Inside, pc \in Fields
  PROVE  /\ input \in Inputs /\ input.proto = "TLS"
         /\ Len(bytes) \in Nat /\ at \in 0 .. Len(bytes) /\ sniext \in 0 .. Len(bytes)
         /\ Left \in Nat /\ at + Left = Len(bytes)
  BY PayloadLength DEF Inside, TypeOK, Places, Fields, Left

LEMMA HeaderStep == ASSUME Inside, Header PROVE Inside'
  <1>1. pc \in Fields /\ UNCHANGED <<input, sniext>>
    BY DEF Header, Fields
  <1>2. CASE Left >= 5 /\ at' = 5 /\ pc' = "hello"
    BY <1>1, <1>2, FieldPremise, FieldStep DEF Fields
  <1>3. CASE Left < 5 /\ Undefined
    <2>1. at = 0
      BY DEF Header, Inside, Places
    <2> QED BY <1>1, <1>3, <2>1, FieldPremise, FieldStep DEF Fields, Undefined
  <1> QED BY <1>2, <1>3 DEF Header

(* Going on to the next field never leaves the payload. *)
LEMMA SkipStep ==
  ASSUME Inside, pc \in Fields, UNCHANGED input, sniext' \in 0 .. Len(bytes),
         NEW n \in Nat, NEW field \in {"session", "suites", "length", "extension"},
         field = "session" => at + n = 43,
         Skip(n, field)
  PROVE  Inside'
  <1>1. CASE Left >= n /\ at' = at + n /\ pc' = field
    <2>1. at' \in 0 .. Len(bytes)
      BY <1>1, FieldPremise
    <2> QED BY <1>1, <2>1, FieldStep DEF Fields
  <1>2. CASE Left < n /\ NotFound
    BY <1>2, FieldPremise, FieldStep DEF Fields, NotFound
  <1> QED BY <1>1, <1>2 DEF Skip

LEMMA HelloStep == ASSUME Inside, Hello PROVE Inside'
  <1>1. pc \in Fields /\ at = 5 /\ UNCHANGED <<input, sniext>>
    BY DEF Hello, Fields, Inside, Places
  <1>2. CASE Left = 0 /\ Undefined
    <2>1. Len(bytes) = 5
      BY <1>1, <1>2, FieldPremise
    <2>2. at' = 5 /\ 5 \in 0 .. Len(bytes) /\ sniext' \in 0 .. Len(bytes)
      BY <1>1, <1>2, <2>1, FieldPremise DEF Undefined
    <2>3. pc' = "undefined" /\ Len(bytes) <= 5
      BY <1>2, <2>1 DEF Undefined
    <2> QED BY <1>1, <2>2, <2>3, FieldStep DEF Fields
  <1>3. CASE NotFound
    BY <1>1, <1>3, FieldPremise, FieldStep DEF Fields, NotFound
  <1>4. CASE Skip(FixedSize, "session")
    BY <1>1, <1>4, FieldPremise, SkipStep DEF FixedSize
  <1> QED BY <1>2, <1>3, <1>4 DEF Hello

LEMMA SessionIdStep == ASSUME Inside, SessionId PROVE Inside'
  <1>1. pc \in Fields /\ at = 43 /\ UNCHANGED <<input, sniext>>
    BY DEF SessionId, Fields, Inside, Places
  <1>2. CASE Left = 0 /\ Undefined
    <2>1. Len(bytes) = 43
      BY <1>1, <1>2, FieldPremise
    <2>2. at' = 43 /\ 43 \in 0 .. Len(bytes) /\ sniext' \in 0 .. Len(bytes)
      BY <1>1, <1>2, <2>1, FieldPremise DEF Undefined
    <2> QED BY <1>1, <1>2, <2>1, <2>2, FieldStep DEF Fields, Undefined
  <1>3. CASE Left > 0 /\ Skip(1 + Byte(0), "suites")
    <2>1. Byte(0) \in 0 .. 255
      BY <1>1, <1>3, FieldPremise, BytesLeft
    <2>2. 1 + Byte(0) \in Nat
      BY <2>1
    <2> QED BY <1>1, <1>3, <2>2, FieldPremise, SkipStep
  <1> QED BY <1>2, <1>3 DEF SessionId

LEMMA CipherSuitesStep == ASSUME Inside, CipherSuites PROVE Inside'
  <1>1. pc \in Fields /\ UNCHANGED <<input, sniext>>
    BY DEF CipherSuites, Fields
  <1>2. CASE NotFound
    BY <1>1, <1>2, FieldPremise, FieldStep DEF Fields, NotFound
  <1>3. CASE Left >= 2 /\ Skip(2 + U16(0) + 2, "length")
    <2>1. 2 + U16(0) + 2 \in Nat
      BY <1>1, <1>3, FieldPremise, BytesLeft
    <2> QED BY <1>1, <1>3, <2>1, FieldPremise, SkipStep
  <1> QED BY <1>2, <1>3 DEF CipherSuites

LEMMA ExtensionsLengthStep == ASSUME Inside, ExtensionsLength PROVE Inside'
  <1>1. pc \in Fields /\ UNCHANGED <<input, sniext>>
    BY DEF ExtensionsLength, Fields
  <1> QED BY <1>1, FieldPremise, SkipStep DEF ExtensionsLength

LEMMA ExtensionStep == ASSUME Inside, Extension PROVE Inside'
  <1>1. pc \in Fields /\ UNCHANGED input
    BY DEF Extension, Fields
  <1>2. sniext' \in 0 .. Len(bytes)
    BY <1>1, FieldPremise DEF Extension
  <1>3. CASE NotFound
    BY <1>1, <1>2, <1>3, FieldPremise, FieldStep DEF Fields, NotFound
  <1>4. CASE Left >= 4 /\ Skip(Extent, "extension")
    <2>1. U16(2) \in Nat
      BY <1>1, <1>4, FieldPremise, BytesLeft
    <2>2. Extent \in Nat
      BY <2>1 DEF Extent
    <2> QED BY <1>1, <1>2, <1>4, <2>2, SkipStep
  <1>5. CASE Left >= 4 /\ at' = at + 4 /\ pc' = "name"
    <2>1. sniext' = at /\ at' \in 0 .. Len(bytes)
      BY <1>1, <1>5, FieldPremise DEF Extension
    <2> QED BY <1>1, <1>2, <1>5, <2>1, FieldPremise, FieldStep DEF Fields
  <1> QED BY <1>3, <1>4, <1>5 DEF Extension

LEMMA NameStep == ASSUME Inside, Name PROVE Inside'
  <1>1. /\ pc \in Fields /\ at = sniext + 4 /\ UNCHANGED <<input, sniext>>
        /\ at' = at
    BY DEF Name, NotFound, Fields, Inside, Places
  <1>2. CASE ServerName /\ pc' = "found"
    <2> DEFINE size == U16(3)
               found == [sniext |-> sniext, hoststart |-> at + 5,
                         hostmid |-> at + 5 + size \div 2, hostend |-> at + 5 + size]
    <2>1. size \in Nat /\ at + 5 + size <= Len(bytes)
      BY <1>1, <1>2, FieldPremise, BytesLeft, SMTT(30) DEF ServerName
    <2>2. size \div 2 \in Nat /\ size \div 2 <= size
      BY <2>1, Half
    <2>3. markers' = found
      BY <1>2 DEF Name, NotFound
    <2> HIDE DEF size
    <2>4. /\ found.sniext + 9 = found.hoststart /\ found.hoststart <= found.hostmid
          /\ found.hostmid <= found.hostend /\ found.hostend <= Len(bytes)
      <3>1. /\ found.sniext = sniext /\ found.hoststart = at + 5
            /\ found.hostmid = at + 5 + size \div 2 /\ found.hostend = at + 5 + size
        OBVIOUS
      <3> HIDE DEF found
      <3>2. at \in Nat /\ sniext \in Nat /\ at = sniext + 4
        BY <1>1, FieldPremise
      <3> QED BY <2>1, <2>2, <3>1, <3>2
    <2> HIDE DEF found
    <2>5. bytes' = bytes
      BY <1>1 DEF bytes
    <2> QED BY <1>1, <1>2, <2>3, <2>4, <2>5, FieldPremise
         DEF Inside, TypeOK, Places, Fields, TlsMarkersInside, HttpMarkersInside
  <1>3. CASE NotFound
    BY <1>1, <1>3, FieldPremise, FieldStep DEF Fields, NotFound
  <1> QED BY <1>2, <1>3 DEF Name

LEMMA RequestStep == ASSUME Inside, Request PROVE Inside'
  <1>1. /\ input \in Inputs /\ input.proto = "HTTP" /\ UNCHANGED <<input, sniext>>
        /\ at' = at /\ pc' \in {"found", "none"} /\ bytes' = bytes
    BY PayloadLength DEF Request, NotFound, Inside, TypeOK, Places, bytes
  <1>2. BareHost' = BareHost
    BY <1>1 DEF BareHost, Occurs
  <1>3. ASSUME pc' = "found", ~BareHost
        PROVE  /\ 6 <= markers'.hoststart /\ markers'.hoststart <= markers'.hostmid
               /\ markers'.hostmid <= markers'.hostend
               /\ markers'.hostend + 2 <= Len(bytes)
    <2>1. HasHost /\ markers' = [hoststart |-> HostStart,
                       hostmid |-> (HostStart + HostSize \div 2) % SizeSpace,
                       hostend |-> (HostStart + HostSize) % SizeSpace]
      BY <1>3 DEF Request, NotFound
    <2>2. /\ 6 <= HostStart
          /\ HostStart <= (HostStart + HostSize \div 2) % SizeSpace
          /\ (HostStart + HostSize \div 2) % SizeSpace <= (HostStart + HostSize) % SizeSpace
          /\ ((HostStart + HostSize) % SizeSpace) + 2 <= Len(bytes)
      BY <1>1, <1>3, <2>1, RequestMarkers
    <2> QED BY <2>1, <2>2
  <1> QED BY <1>1, <1>2, <1>3
       DEF Inside, TypeOK, Places, Fields, TlsMarkersInside, HttpMarkersInside

LEMMA ResolveStep == ASSUME Inside, Resolve PROVE Inside'
  <1>1. /\ pc = "found" /\ pc' = "cut" /\ UNCHANGED <<input, at, sniext, markers>>
        /\ bytes' = bytes
    BY DEF Resolve, bytes
  <1>2. BareHost' = BareHost
    BY <1>1 DEF BareHost, Occurs
  <1> QED BY <1>1, <1>2
       DEF Inside, TypeOK, Places, Fields, TlsMarkersInside, HttpMarkersInside

LEMMA StutterStep == ASSUME Inside, UNCHANGED vars PROVE Inside'
  <1>1. UNCHANGED <<input, at, sniext, markers, pc>> /\ bytes' = bytes
    BY DEF vars, bytes
  <1>2. BareHost' = BareHost
    BY <1>1 DEF BareHost, Occurs
  <1> QED BY <1>1, <1>2
       DEF Inside, TypeOK, Places, Fields, TlsMarkersInside, HttpMarkersInside

LEMMA InsideStep == Inside /\ [Next]_vars => Inside'
  BY HeaderStep, HelloStep, SessionIdStep, CipherSuitesStep, ExtensionsLengthStep,
     ExtensionStep, NameStep, RequestStep, ResolveStep, StutterStep
     DEF Next, Parse

LEMMA InsideInvariant == Spec => []Inside
  BY InitInside, InsideStep, PTL DEF Spec

-----------------------------------------------------------------------------
(* Every variable of the parser keeps its type; in particular what it has  *)
(* read is never more than there is.                                       *)
THEOREM MarkersTypes == Spec => []TypeOK
  <1>1. Inside => TypeOK
    BY DEF Inside
  <1> QED BY InsideInvariant, <1>1, PTL

(* In any payload recognised as TLS, whatever its bytes and wherever it    *)
(* stops, the markers are in order and inside.                             *)
THEOREM TlsMarkersInsideAlways == Spec => []TlsMarkersInside
  <1>1. Inside => TlsMarkersInside
    BY DEF Inside
  <1> QED BY InsideInvariant, <1>1, PTL

(* In any payload recognised as HTTP, they are unless a line consists of   *)
(* "Host:" alone.                                                          *)
THEOREM HttpMarkersInsideAlways == Spec => []HttpMarkersInside
  <1>1. Inside => HttpMarkersInside
    BY DEF Inside
  <1> QED BY InsideInvariant, <1>1, PTL

(* In any payload, a field is read behind the end only if the payload is   *)
(* not the whole record, or the record has no body or ends with the random.*)
THEOREM ReadsInsideAlways == Spec => []ReadsInside
  <1>1. Inside => ReadsInside
    <2> SUFFICES ASSUME Inside, pc = "undefined" PROVE ReadsInside
      BY DEF ReadsInside
    <2>1. Len(bytes) \in Nat
      BY PayloadLength DEF Inside, TypeOK
    <2>2. Len(bytes) < 5 \/ Len(bytes) = 5 \/ Len(bytes) = 43
      <3>1. Places
        BY DEF Inside
      <3>2. Len(bytes) <= 5 \/ Len(bytes) = 43
        BY <3>1 DEF Places
      <3>3. \A n \in Nat : n <= 5 => n < 5 \/ n = 5
        OBVIOUS
      <3> QED BY <2>1, <3>2, <3>3, Zenon
    <2>3. Len(bytes) < 5 => TlsHandshakeClassify(bytes) # "DONE"
      BY DEF TlsHandshakeClassify, TLS_HDR_LEN
    <2> QED BY <2>2, <2>3 DEF ReadsInside
  <1> QED BY InsideInvariant, <1>1, PTL

-----------------------------------------------------------------------------
(* What a ClientHello is made of: w is in s from offset k on. *)

Has(s, k, w) ==
  k + Len(w) <= Len(s) /\ \A j \in 1 .. Len(w) : s[k + j] = w[j]

LEMMA HasParts ==
  ASSUME NEW S, NEW a \in Seq(S), NEW b \in Seq(S)
  PROVE  /\ a \o b \in Seq(S)
         /\ Len(a) \in Nat /\ Len(b) \in Nat /\ Len(a \o b) = Len(a) + Len(b)
         /\ Has(a \o b, 0, a) /\ Has(a \o b, Len(a), b)
  <1> DEFINE s == a \o b
  <1>1. /\ s \in Seq(S) /\ Len(a) \in Nat /\ Len(b) \in Nat /\ Len(s) = Len(a) + Len(b)
        /\ \A i \in 1 .. Len(a) + Len(b) : s[i] = IF i <= Len(a) THEN a[i] ELSE b[i - Len(a)]
    BY ConcatProperties, LenProperties
  <1> HIDE DEF s
  <1>2. Has(s, 0, a)
    <2>1. \A j \in 1 .. Len(a) : s[0 + j] = a[j]
      <3> TAKE j \in 1 .. Len(a)
      <3>1. 0 + j = j /\ j \in 1 .. Len(a) + Len(b) /\ j <= Len(a)
        BY <1>1
      <3> QED BY <1>1, <3>1
    <2> QED BY <1>1, <2>1 DEF Has
  <1>3. Has(s, Len(a), b)
    <2>1. \A j \in 1 .. Len(b) : s[Len(a) + j] = b[j]
      <3> TAKE j \in 1 .. Len(b)
      <3>1. /\ Len(a) + j \in 1 .. Len(a) + Len(b) /\ ~(Len(a) + j <= Len(a))
            /\ (Len(a) + j) - Len(a) = j
        BY <1>1
      <3> QED BY <1>1, <3>1
    <2> QED BY <1>1, <2>1 DEF Has
  <1> QED BY <1>1, <1>2, <1>3 DEF s

LEMMA HasInside ==
  ASSUME NEW S, NEW s \in Seq(S), NEW w \in Seq(S), NEW v \in Seq(S),
         NEW k \in Nat, NEW j \in Nat, Has(s, k, w), Has(w, j, v)
  PROVE  Has(s, k + j, v)
  <1>1. Len(s) \in Nat /\ Len(w) \in Nat /\ Len(v) \in Nat
    BY LenProperties
  <1>2. k + Len(w) <= Len(s) /\ j + Len(v) <= Len(w)
    BY DEF Has
  <1>3. ASSUME NEW i \in 1 .. Len(v) PROVE s[(k + j) + i] = v[i]
    <2>1. j + i \in 1 .. Len(w) /\ k + (j + i) = (k + j) + i
      BY <1>1, <1>2
    <2>2. s[k + (j + i)] = w[j + i] /\ w[j + i] = v[i]
      BY <2>1 DEF Has
    <2> QED BY <2>1, <2>2
  <1> QED BY <1>1, <1>2, <1>3 DEF Has

LEMMA OneByte ==
  ASSUME NEW n \in Nat
  PROVE  <<n>> \in Seq(Nat) /\ Len(<<n>>) = 1 /\ <<n>>[1] = n
  OBVIOUS

LEMMA Halves ==
  ASSUME NEW n \in Nat
  PROVE  n \div 256 \in Nat /\ n % 256 \in Nat /\ (n \div 256) * 256 + (n % 256) = n
  OBVIOUS

LEMMA TwoBytesAre ==
  ASSUME NEW n \in Nat
  PROVE  /\ TwoBytes(n) \in Seq(Nat) /\ Len(TwoBytes(n)) = 2
         /\ TwoBytes(n)[1] * 256 + TwoBytes(n)[2] = n
  <1>1. \A a, b, m \in Nat : a * 256 + b = m =>
          /\ <<a, b>> \in Seq(Nat) /\ Len(<<a, b>>) = 2
          /\ <<a, b>>[1] * 256 + <<a, b>>[2] = m
    OBVIOUS
  <1> QED BY <1>1, Halves, ZenonT(40) DEF TwoBytes

LEMMA ZerosAre ==
  ASSUME NEW n \in Nat
  PROVE  Zeros(n) \in Seq(Nat) /\ Len(Zeros(n)) = n
  BY DEF Zeros

LEMMA SizedHas ==
  ASSUME NEW s \in Seq(Nat)
  PROVE  /\ Sized(s) \in Seq(Nat) /\ Len(s) \in Nat /\ Len(Sized(s)) = Len(s) + 2
         /\ Has(Sized(s), 0, TwoBytes(Len(s))) /\ Has(Sized(s), 2, s)
  <1> DEFINE size == TwoBytes(Len(s))
  <1>1. Len(s) \in Nat
    BY LenProperties
  <1>2. size \in Seq(Nat) /\ Len(size) = 2
    BY <1>1, TwoBytesAre
  <1>3. Sized(s) = size \o s
    BY DEF Sized
  <1> HIDE DEF size
  <1>4. /\ size \o s \in Seq(Nat) /\ Len(size \o s) = 2 + Len(s)
        /\ Has(size \o s, 0, size) /\ Has(size \o s, 2, s)
    BY <1>2, HasParts
  <1>5. 2 + Len(s) = Len(s) + 2
    BY <1>1
  <1> QED BY <1>1, <1>3, <1>4, <1>5 DEF size

LEMMA ExtHas ==
  ASSUME NEW e \in Extensions
  PROVE  /\ Ext(e) \in Seq(Nat) /\ Len(Ext(e)) = e.size + 4
         /\ Has(Ext(e), 0, TwoBytes(e.type)) /\ Has(Ext(e), 2, TwoBytes(e.size))
  <1> DEFINE type == TwoBytes(e.type)
             body == Sized(Zeros(e.size))
  <1>1. e.type \in Nat /\ e.size \in Nat
    BY DEF Extensions
  <1>2. type \in Seq(Nat) /\ Len(type) = 2 /\ TwoBytes(e.size) \in Seq(Nat)
    BY <1>1, TwoBytesAre
  <1>3. body \in Seq(Nat) /\ Len(body) = e.size + 2 /\ Has(body, 0, TwoBytes(e.size))
    BY <1>1, ZerosAre, SizedHas
  <1> HIDE DEF type, body
  <1>4. /\ type \o body \in Seq(Nat) /\ Len(type \o body) = 2 + (e.size + 2)
        /\ Has(type \o body, 0, type) /\ Has(type \o body, 2, body)
    BY <1>2, <1>3, HasParts
  <1>5. Has(type \o body, 2 + 0, TwoBytes(e.size))
    BY <1>2, <1>3, <1>4, HasInside
  <1>6. Ext(e) = type \o body
    BY DEF Ext, type, body
  <1> QED BY <1>1, <1>4, <1>5, <1>6 DEF type

(* The extension with the name: its type, the type of the name and its     *)
(* length where the parser looks for them.                                 *)
LEMMA SniExtHas ==
  ASSUME NEW name \in Seq(Nat)
  PROVE  /\ SniExt(name) \in Seq(Nat) /\ Len(name) \in Nat
         /\ Len(SniExt(name)) = Len(name) + 9
         /\ Has(SniExt(name), 0, TwoBytes(0)) /\ Has(SniExt(name), 6, <<0>>)
         /\ Has(SniExt(name), 7, TwoBytes(Len(name)))
  <1> DEFINE type == TwoBytes(0)
             size == TwoBytes(Len(name))
             entry == <<0>> \o Sized(name)
             list == Sized(entry)
             body == Sized(list)
             ext == type \o body
  <1>1. type \in Seq(Nat) /\ Len(type) = 2 /\ <<0>> \in Seq(Nat) /\ Len(<<0>>) = 1
    BY TwoBytesAre, OneByte
  <1>2. /\ Sized(name) \in Seq(Nat) /\ Len(name) \in Nat /\ Len(Sized(name)) = Len(name) + 2
        /\ Has(Sized(name), 0, size)
    BY SizedHas
  <1>3. size \in Seq(Nat)
    BY <1>2, TwoBytesAre
  <1> HIDE DEF size
  <1>4. /\ entry \in Seq(Nat) /\ Len(entry) = Len(name) + 3
        /\ Has(entry, 0, <<0>>) /\ Has(entry, 1, Sized(name))
    <2>1. /\ entry \in Seq(Nat) /\ Len(entry) = 1 + Len(Sized(name))
          /\ Has(entry, 0, <<0>>) /\ Has(entry, Len(<<0>>), Sized(name))
      <3>1. Len(<<0>>) = 1 /\ <<0>> \in Seq(Nat) /\ Sized(name) \in Seq(Nat)
        BY <1>1, <1>2
      <3> QED BY <3>1, HasParts, Zenon
    <2> HIDE DEF entry
    <2> QED BY <1>1, <1>2, <2>1
  <1>5. Has(entry, 1 + 0, size)
    BY <1>2, <1>3, <1>4, HasInside
  <1> HIDE DEF entry
  <1>6. /\ list \in Seq(Nat) /\ Len(list) = Len(name) + 5 /\ Has(list, 2, entry)
    BY <1>2, <1>4, SizedHas
  <1> HIDE DEF list
  <1>7. /\ body \in Seq(Nat) /\ Len(body) = Len(name) + 7 /\ Has(body, 2, list)
    BY <1>2, <1>6, SizedHas
  <1> HIDE DEF body
  <1>8. /\ ext \in Seq(Nat) /\ Len(ext) = Len(name) + 9
        /\ Has(ext, 0, type) /\ Has(ext, 2, body)
    <2>1. /\ ext \in Seq(Nat) /\ Len(ext) = Len(type) + Len(body)
          /\ Has(ext, 0, type) /\ Has(ext, Len(type), body)
      BY <1>1, <1>7, HasParts, Zenon
    <2> HIDE DEF ext, type
    <2> QED BY <1>1, <1>2, <1>7, <2>1
  <1>9. SniExt(name) = ext
    BY DEF SniExt, ext, type, body, list, entry
  <1> HIDE DEF ext, type
  <1>10. Has(ext, 2 + 2, list)
    BY <1>6, <1>7, <1>8, HasInside
  <1>11. Has(ext, 4 + 2, entry)
    BY <1>4, <1>6, <1>8, <1>10, HasInside
  <1>12. Has(ext, 6 + 0, <<0>>)
    <2>1. 0 \in Nat /\ 6 \in Nat /\ 4 + 2 = 6
      OBVIOUS
    <2>2. Has(ext, 6, entry)
      BY <1>11, <2>1
    <2> QED BY <1>1, <1>4, <1>8, <2>1, <2>2, HasInside, Zenon
  <1>13. Has(ext, 6 + 1, size)
    BY <1>3, <1>4, <1>5, <1>8, <1>11, HasInside
  <1> QED BY <1>2, <1>8, <1>9, <1>12, <1>13 DEF type, size

(* Lists that are joined: each is in the whole behind the ones before it. *)
LEMMA ListHas ==
  ASSUME NEW S, NEW lists \in Seq(Seq(S)), NEW f \in [0 .. Len(lists) -> Seq(S)],
         Joins(f, lists), NEW k \in 1 .. Len(lists)
  PROVE  /\ Len(f[k]) = Len(f[k - 1]) + Len(lists[k])
         /\ Has(f[Len(lists)], Len(f[k - 1]), lists[k])
  <1> DEFINE n == Len(lists)
             here == Len(f[k - 1])
             Good == {m \in k .. n : Has(f[m], here, lists[k])}
  <1>1. n \in Nat /\ \A m \in 1 .. n : lists[m] \in Seq(S)
    OBVIOUS
  <1>2. \A m \in 1 .. n : /\ f[m] = f[m - 1] \o lists[m]
                          /\ f[m] \in Seq(S) /\ f[m - 1] \in Seq(S)
    <2> TAKE m \in 1 .. n
    <2>1. m \in 0 .. n /\ m - 1 \in 0 .. n
      BY <1>1
    <2> QED BY <2>1 DEF Joins
  <1>3. f[k - 1] \in Seq(S) /\ lists[k] \in Seq(S) /\ f[k] = f[k - 1] \o lists[k]
    BY <1>1, <1>2
  <1>4. /\ Len(f[k]) = here + Len(lists[k]) /\ here \in Nat /\ Has(f[k], here, lists[k])
    BY <1>3, HasParts
  <1> HIDE DEF here
  <1>5. k \in Good
    BY <1>1, <1>4
  <1>6. \A m \in k .. n : m \in Good /\ m + 1 <= n => m + 1 \in Good
    <2> SUFFICES ASSUME NEW m \in k .. n, m \in Good, m + 1 <= n PROVE m + 1 \in Good
      OBVIOUS
    <2>1. m + 1 \in 1 .. n /\ (m + 1) - 1 = m /\ m + 1 \in k .. n
      BY <1>1
    <2>2. /\ f[m + 1] = f[m] \o lists[m + 1] /\ f[m] \in Seq(S) /\ f[m + 1] \in Seq(S)
          /\ lists[m + 1] \in Seq(S)
      BY <1>1, <1>2, <2>1
    <2>3. Has(f[m + 1], 0, f[m])
      BY <2>2, HasParts
    <2>4. Has(f[m], here, lists[k])
      OBVIOUS
    <2>5. Has(f[m + 1], 0 + here, lists[k])
      BY <1>3, <1>4, <2>2, <2>3, <2>4, HasInside
    <2>6. 0 + here = here
      BY <1>4
    <2> QED BY <2>1, <2>5, <2>6
  <1>7. n \in Good
    <2>1. n \in k .. n /\ k \in Nat
      BY <1>1
    <2> HIDE DEF Good
    <2> QED BY <1>1, <1>5, <1>6, <2>1, Climb
  <1> QED BY <1>4, <1>7 DEF here

(* The extensions of a list, laid out one by one. *)
Laid(es) ==
  CHOOSE f \in [0 .. Len(es) -> Seq(Nat)] :
    Joins(f, [i \in DOMAIN es |-> Ext(es[i])]) /\ Exts(es) = f[Len(es)]

LEMMA LaidFacts ==
  ASSUME NEW es \in Seq(Extensions)
  PROVE  /\ Len(es) \in Nat /\ Exts(es) \in Seq(Nat)
         /\ Len(Laid(es)[0]) = 0 /\ Laid(es)[Len(es)] = Exts(es)
         /\ \A k \in 0 .. Len(es) : Len(Laid(es)[k]) \in Nat
         /\ \A k \in 1 .. Len(es) :
              /\ Len(Laid(es)[k]) = Len(Laid(es)[k - 1]) + es[k].size + 4
              /\ Has(Exts(es), Len(Laid(es)[k - 1]), Ext(es[k]))
  <1> DEFINE lists == [i \in DOMAIN es |-> Ext(es[i])]
             n == Len(es)
             f == Laid(es)
  <1>1. /\ n \in Nat /\ DOMAIN es = 1 .. n
        /\ \A i \in 1 .. n : es[i] \in Extensions
    OBVIOUS
  <1>2. \A i \in 1 .. n : Ext(es[i]) \in Seq(Nat) /\ Len(Ext(es[i])) = es[i].size + 4
    BY <1>1, ExtHas
  <1>3. /\ lists \in Seq(Seq(Nat)) /\ Len(lists) = n
        /\ \A i \in 1 .. n : lists[i] = Ext(es[i])
    BY <1>1, <1>2
  <1>4. Exts(es) = FlattenSeq(lists)
    BY DEF Exts
  <1> HIDE DEF lists
  <1>5. \E g \in [0 .. n -> Seq(Nat)] : Joins(g, lists) /\ Exts(es) = g[n]
    BY <1>3, <1>4, Flattened
  <1>6. f \in [0 .. n -> Seq(Nat)] /\ Joins(f, lists) /\ Exts(es) = f[n]
    BY <1>5 DEF Laid, lists
  <1> HIDE DEF f
  <1>7. \A k \in 0 .. n : f[k] \in Seq(Nat) /\ Len(f[k]) \in Nat
    BY <1>6, LenProperties
  <1>8. Len(f[0]) = 0
    BY <1>6 DEF Joins
  <1>9. ASSUME NEW k \in 1 .. n
        PROVE  /\ Len(f[k]) = Len(f[k - 1]) + es[k].size + 4
               /\ Has(Exts(es), Len(f[k - 1]), Ext(es[k]))
    <2>1. f \in [0 .. Len(lists) -> Seq(Nat)] /\ k \in 1 .. Len(lists)
      BY <1>3, <1>6
    <2>2. /\ Len(f[k]) = Len(f[k - 1]) + Len(lists[k])
          /\ Has(f[Len(lists)], Len(f[k - 1]), lists[k])
      BY <1>3, <1>6, <2>1, ListHas
    <2>3. k - 1 \in 0 .. n
      BY <1>1
    <2>4. Len(f[k - 1]) \in Nat /\ es[k].size \in Nat
      BY <1>1, <1>7, <2>3 DEF Extensions
    <2>5. lists[k] = Ext(es[k]) /\ Len(Ext(es[k])) = es[k].size + 4 /\ Len(lists) = n
      BY <1>2, <1>3
    <2> HIDE DEF n
    <2>6. Len(f[k]) = Len(f[k - 1]) + es[k].size + 4
      BY <2>2, <2>4, <2>5
    <2>7. Has(Exts(es), Len(f[k - 1]), Ext(es[k]))
      BY <1>6, <2>2, <2>5
    <2> QED BY <2>6, <2>7
  <1>10. Exts(es) \in Seq(Nat)
    <2>1. n \in 0 .. n
      BY <1>1
    <2> QED BY <1>6, <1>7, <2>1
  <1> QED BY <1>1, <1>6, <1>7, <1>8, <1>9, <1>10 DEF f

LEMMA NameExtsAre ==
  ASSUME NEW names \in Seq(Seq(Nat)), Len(names) <= 1
  PROVE  /\ NameExts(names) \in Seq(Nat)
         /\ names = << >> => NameExts(names) = << >>
         /\ names # << >> => names[1] \in Seq(Nat) /\ NameExts(names) = SniExt(names[1])
  <1> DEFINE lists == [i \in DOMAIN names |-> SniExt(names[i])]
             n == Len(names)
  <1>1. /\ n \in Nat /\ DOMAIN names = 1 .. n /\ n <= 1
        /\ \A i \in 1 .. n : names[i] \in Seq(Nat)
    OBVIOUS
  <1>2. \A i \in 1 .. n : SniExt(names[i]) \in Seq(Nat)
    BY <1>1, SniExtHas
  <1>3. /\ lists \in Seq(Seq(Nat)) /\ Len(lists) = n
        /\ \A i \in 1 .. n : lists[i] = SniExt(names[i])
    BY <1>1, <1>2
  <1>4. NameExts(names) = FlattenSeq(lists)
    BY DEF NameExts
  <1> HIDE DEF lists
  <1>5. PICK f \in [0 .. n -> Seq(Nat)] : Joins(f, lists) /\ NameExts(names) = f[n]
    BY <1>3, <1>4, Flattened
  <1>6. n \in 0 .. n /\ (names = << >> => n = 0) /\ (names # << >> => n = 1)
    BY <1>1, EmptySeq
  <1>7. f[n] \in Seq(Nat) /\ f[0] = << >>
    BY <1>5, <1>6 DEF Joins
  <1>8. CASE names = << >>
    BY <1>5, <1>6, <1>7, <1>8
  <1>9. CASE names # << >>
    <2>1. 1 \in 1 .. n /\ n = 1 /\ 1 - 1 = 0
      BY <1>6, <1>9
    <2>2. f[1] = f[1 - 1] \o lists[1] /\ lists[1] = SniExt(names[1])
      BY <1>3, <1>5, <2>1 DEF Joins
    <2>3. << >> \o SniExt(names[1]) = SniExt(names[1])
      BY <1>2, <2>1, ConcatEmptySeq
    <2>4. f[1] = SniExt(names[1])
      BY <1>7, <2>1, <2>2, <2>3
    <2> QED BY <1>1, <1>5, <1>7, <1>9, <2>1, <2>4
  <1> QED BY <1>8, <1>9

(* A part in front stays where it is when more is put behind it. *)
LEMMA HasStill ==
  ASSUME NEW S, NEW a \in Seq(S), NEW b \in Seq(S), NEW v \in Seq(S), NEW k \in Nat,
         Has(a, k, v)
  PROVE  Has(a \o b, k, v)
  <1>1. a \o b \in Seq(S) /\ Has(a \o b, 0, a) /\ 0 + k = k
    BY HasParts
  <1>2. Has(a \o b, 0 + k, v)
    BY <1>1, HasInside
  <1> QED BY <1>1, <1>2

(* The fields in front of the extensions, with one compression method. *)
LEMMA FixedHas ==
  ASSUME NEW h \in Hellos, h.methods = 1
  PROVE  /\ Fixed(h) \in Seq(Nat) /\ Len(Fixed(h)) = h.session + h.suites + 43
         /\ Has(Fixed(h), 0, <<1>>) /\ Has(Fixed(h), 38, <<h.session>>)
         /\ Has(Fixed(h), h.session + 39, TwoBytes(h.suites))
  <1> DEFINE s == h.session
             u == h.suites
             size == TwoBytes(u)
             session == Zeros(s)
             suites == Sized(Zeros(u))
             a1 == <<1>> \o Zeros(37)
             a2 == a1 \o <<s>>
             a3 == a2 \o session
             a4 == a3 \o suites
             a5 == a4 \o <<h.methods>>
             a6 == a5 \o Zeros(h.methods)
  <1>1. s \in Nat /\ u \in Nat /\ h.methods = 1
    BY HellosAssumption
  <1> HIDE DEF s, u
  <1>2. /\ size \in Seq(Nat) /\ session \in Seq(Nat) /\ Len(session) = s
        /\ suites \in Seq(Nat) /\ Len(suites) = u + 2 /\ Has(suites, 0, size)
    BY <1>1, TwoBytesAre, ZerosAre, SizedHas, ZenonT(40)
  <1> HIDE DEF size, session, suites
  <1>3. /\ <<1>> \in Seq(Nat) /\ Len(<<1>>) = 1 /\ <<s>> \in Seq(Nat) /\ Len(<<s>>) = 1
        /\ Zeros(37) \in Seq(Nat) /\ Len(Zeros(37)) = 37
        /\ <<h.methods>> \in Seq(Nat) /\ Len(<<h.methods>>) = 1
        /\ Zeros(h.methods) \in Seq(Nat) /\ Len(Zeros(h.methods)) = 1
    BY <1>1, OneByte, ZerosAre
  <1>4. a1 \in Seq(Nat) /\ Len(a1) = 38 /\ Has(a1, 0, <<1>>)
    <2>1. a1 \in Seq(Nat) /\ Len(a1) = Len(<<1>>) + Len(Zeros(37)) /\ Has(a1, 0, <<1>>)
      BY <1>3, HasParts, Zenon
    <2>2. 1 + 37 = 38
      OBVIOUS
    <2> QED BY <1>3, <2>1, <2>2, Zenon
  <1> HIDE DEF a1
  <1>5. /\ a2 \in Seq(Nat) /\ Len(a2) = 39 /\ Has(a2, 0, <<1>>) /\ Has(a2, 38, <<s>>)
    <2>1. a2 \in Seq(Nat) /\ Len(a2) = Len(a1) + Len(<<s>>) /\ Has(a2, Len(a1), <<s>>)
      BY <1>3, <1>4, HasParts, Zenon
    <2>2. Has(a2, 0, <<1>>)
      BY <1>3, <1>4, HasStill
    <2> HIDE DEF a2
    <2> QED BY <1>3, <1>4, <2>1, <2>2
  <1> HIDE DEF a2
  <1>6. /\ a3 \in Seq(Nat) /\ Len(a3) = s + 39 /\ Has(a3, 0, <<1>>) /\ Has(a3, 38, <<s>>)
    <2>1. a3 \in Seq(Nat) /\ Len(a3) = Len(a2) + Len(session)
      BY <1>2, <1>5, HasParts, Zenon
    <2>2. Has(a3, 0, <<1>>) /\ Has(a3, 38, <<s>>)
      BY <1>2, <1>3, <1>5, HasStill
    <2> HIDE DEF a3
    <2> QED BY <1>1, <1>2, <1>5, <2>1, <2>2
  <1> HIDE DEF a3
  <1>7. /\ a4 \in Seq(Nat) /\ Len(a4) = s + u + 41 /\ Has(a4, 0, <<1>>)
        /\ Has(a4, 38, <<s>>) /\ Has(a4, s + 39, size)
    <2>1. a4 \in Seq(Nat) /\ Len(a4) = Len(a3) + Len(suites) /\ Has(a4, Len(a3), suites)
      BY <1>2, <1>6, HasParts, Zenon
    <2>2. Has(a4, 0, <<1>>) /\ Has(a4, 38, <<s>>)
      BY <1>2, <1>3, <1>6, HasStill
    <2> HIDE DEF a4
    <2>3. Has(a4, s + 39, suites) /\ s + 39 \in Nat /\ (s + 39) + 0 = s + 39
      BY <1>1, <1>6, <2>1
    <2>4. Has(a4, (s + 39) + 0, size)
      BY <1>2, <2>1, <2>3, HasInside
    <2>5. Len(a4) = s + u + 41
      BY <1>1, <1>2, <1>6, <2>1
    <2> QED BY <2>1, <2>2, <2>3, <2>4, <2>5
  <1> HIDE DEF a4
  <1>8. s + 39 \in Nat
    BY <1>1
  <1>9. /\ a5 \in Seq(Nat) /\ Len(a5) = s + u + 42 /\ Has(a5, 0, <<1>>)
        /\ Has(a5, 38, <<s>>) /\ Has(a5, s + 39, size)
    <2>1. a5 \in Seq(Nat) /\ Len(a5) = Len(a4) + Len(<<h.methods>>)
      BY <1>3, <1>7, HasParts, Zenon
    <2>2. Has(a5, 0, <<1>>) /\ Has(a5, 38, <<s>>) /\ Has(a5, s + 39, size)
      BY <1>2, <1>3, <1>7, <1>8, HasStill
    <2> HIDE DEF a5
    <2>3. Len(a5) = s + u + 42
      BY <1>1, <1>3, <1>7, <2>1
    <2> QED BY <2>1, <2>2, <2>3
  <1> HIDE DEF a5
  <1>10. /\ a6 \in Seq(Nat) /\ Len(a6) = s + u + 43 /\ Has(a6, 0, <<1>>)
         /\ Has(a6, 38, <<s>>) /\ Has(a6, s + 39, size)
    <2>1. a6 \in Seq(Nat) /\ Len(a6) = Len(a5) + Len(Zeros(h.methods))
      BY <1>3, <1>9, HasParts, Zenon
    <2>2. Has(a6, 0, <<1>>) /\ Has(a6, 38, <<s>>) /\ Has(a6, s + 39, size)
      BY <1>2, <1>3, <1>8, <1>9, HasStill
    <2> HIDE DEF a6
    <2>3. Len(a6) = s + u + 43
      BY <1>1, <1>3, <1>9, <2>1
    <2> QED BY <2>1, <2>2, <2>3
  <1>11. Fixed(h) = a6
    BY DEF Fixed, a6, a5, a4, a3, a2, a1, session, suites, s, u
  <1> QED BY <1>10, <1>11 DEF s, u, size

(* Where the extensions begin. *)
First(h) == h.session + h.suites + 50

LEMMA HelloHas ==
  ASSUME NEW h \in Hellos, h.methods = 1
  PROVE  LET all == Exts(h.before) \o NameExts(h.name) \o Exts(h.after)
         IN  /\ Encode(h) \in Seq(Nat) /\ all \in Seq(Nat)
             /\ Len(Encode(h)) = First(h) + Len(all)
             /\ First(h) = 5 + Len(Fixed(h)) + 2
             /\ Has(Encode(h), 5, <<1>>) /\ Has(Encode(h), 43, <<h.session>>)
             /\ Has(Encode(h), h.session + 44, TwoBytes(h.suites))
             /\ Has(Encode(h), First(h), all)
  <1> DEFINE s == h.session
             u == h.suites
             fixed == Fixed(h)
             all == Exts(h.before) \o NameExts(h.name) \o Exts(h.after)
             tail == Sized(all)
             body == fixed \o tail
             head == <<TLS_HANDSHAKE_TYPE, TLS_VERSION_MAJOR, 1>>
             record == head \o Sized(body)
  <1>1. s \in Nat /\ u \in Nat /\ <<1>> \in Seq(Nat) /\ <<s>> \in Seq(Nat)
        /\ TwoBytes(u) \in Seq(Nat)
    BY HellosAssumption, OneByte, TwoBytesAre
  <1>2. all \in Seq(Nat)
    <2>1. /\ Exts(h.before) \in Seq(Nat) /\ NameExts(h.name) \in Seq(Nat)
          /\ Exts(h.after) \in Seq(Nat)
      BY HellosAssumption, LaidFacts, NameExtsAre
    <2> QED BY <2>1, ConcatProperties
  <1>3. /\ fixed \in Seq(Nat) /\ Len(fixed) = s + u + 43
        /\ Has(fixed, 0, <<1>>) /\ Has(fixed, 38, <<s>>) /\ Has(fixed, s + 39, TwoBytes(u))
    BY FixedHas
  <1> HIDE DEF all, fixed
  <1>4. tail \in Seq(Nat) /\ Len(tail) = Len(all) + 2 /\ Has(tail, 2, all) /\ Len(all) \in Nat
    BY <1>2, SizedHas
  <1> HIDE DEF tail, s, u
  <1>5. /\ body \in Seq(Nat) /\ Len(body) = s + u + 45 + Len(all)
        /\ Has(body, 0, <<1>>) /\ Has(body, 38, <<s>>) /\ Has(body, s + 39, TwoBytes(u))
        /\ Has(body, s + u + 45, all)
    <2>1. body \in Seq(Nat) /\ Len(body) = Len(fixed) + Len(tail) /\ Has(body, Len(fixed), tail)
      BY <1>3, <1>4, HasParts, Zenon
    <2>2. s + 39 \in Nat
      BY <1>1
    <2>3. Has(body, 0, <<1>>) /\ Has(body, 38, <<s>>) /\ Has(body, s + 39, TwoBytes(u))
      BY <1>1, <1>3, <1>4, <2>2, HasStill
    <2> HIDE DEF body
    <2>4. Has(body, s + u + 43, tail) /\ s + u + 43 \in Nat /\ (s + u + 43) + 2 = s + u + 45
      BY <1>1, <1>3, <2>1
    <2>5. Has(body, (s + u + 43) + 2, all)
      BY <1>2, <1>4, <2>1, <2>4, HasInside
    <2>6. Len(body) = s + u + 45 + Len(all)
      BY <1>1, <1>3, <1>4, <2>1
    <2> QED BY <2>1, <2>3, <2>4, <2>5, <2>6
  <1> HIDE DEF body
  <1>6. /\ Sized(body) \in Seq(Nat) /\ Len(Sized(body)) = Len(body) + 2 /\ Has(Sized(body), 2, body)
    BY <1>5, SizedHas
  <1>7. head \in Seq(Nat) /\ Len(head) = 3
    BY DEF TLS_HANDSHAKE_TYPE, TLS_VERSION_MAJOR
  <1> HIDE DEF head
  <1>8. /\ record \in Seq(Nat) /\ Len(record) = Len(body) + 5 /\ Has(record, 5, body)
    <2>1. /\ record \in Seq(Nat) /\ Len(record) = Len(head) + Len(Sized(body))
          /\ Has(record, Len(head), Sized(body))
      BY <1>6, <1>7, HasParts, Zenon
    <2> HIDE DEF record
    <2>2. Has(record, 3, Sized(body)) /\ 3 + 2 = 5 /\ 3 \in Nat
      BY <1>7, <2>1
    <2>3. Has(record, 3 + 2, body)
      BY <1>5, <1>6, <2>1, <2>2, HasInside
    <2>4. Len(record) = Len(body) + 5
      BY <1>1, <1>4, <1>5, <1>6, <1>7, <2>1
    <2> QED BY <2>1, <2>2, <2>3, <2>4
  <1> HIDE DEF record
  <1>9. Has(record, 5 + 0, <<1>>) /\ Has(record, 5 + 38, <<s>>)
    BY <1>1, <1>5, <1>8, HasInside
  <1>10. Has(record, 5 + (s + 39), TwoBytes(u)) /\ Has(record, 5 + (s + u + 45), all)
    <2>1. s + 39 \in Nat /\ s + u + 45 \in Nat
      BY <1>1
    <2> QED BY <1>1, <1>2, <1>5, <1>8, <2>1, HasInside
  <1>11. Encode(h) = record
    BY DEF Encode, record, head, body, tail, all, fixed
  <1>12. /\ 5 + 0 = 5 /\ 5 + 38 = 43 /\ 5 + (s + 39) = s + 44 /\ 5 + (s + u + 45) = s + u + 50
         /\ s + u + 50 = 5 + Len(fixed) + 2
         /\ Len(record) = s + u + 50 + Len(all)
    BY <1>1, <1>3, <1>4, <1>5, <1>8
  <1>13. First(h) = s + u + 50
    BY DEF First, s, u
  <1>14. /\ record \in Seq(Nat) /\ all \in Seq(Nat) /\ Len(record) = First(h) + Len(all)
         /\ First(h) = 5 + Len(fixed) + 2 /\ Has(record, 5, <<1>>) /\ Has(record, 43, <<s>>)
         /\ Has(record, s + 44, TwoBytes(u)) /\ Has(record, First(h), all)
    BY <1>2, <1>8, <1>9, <1>10, <1>12, <1>13
  <1> QED BY <1>11, <1>14 DEF all, fixed, s, u

(* Extensions that are in a payload from offset q on: each has its type    *)
(* and its size in front, and the next one follows.                        *)
LEMMA ExtsIn ==
  ASSUME NEW s \in Seq(Nat), NEW es \in Seq(Extensions), NEW q \in Nat,
         Has(s, q, Exts(es)), NEW k \in 1 .. Len(es)
  PROVE  LET p == q + Len(Laid(es)[k - 1])
         IN  /\ p \in Nat /\ es[k].type \in Nat \ {0} /\ es[k].size \in Nat
             /\ Has(s, p, TwoBytes(es[k].type)) /\ Has(s, p + 2, TwoBytes(es[k].size))
             /\ p + (4 + es[k].size) <= Len(s)
             /\ p + (4 + es[k].size) = q + Len(Laid(es)[k])
  <1> DEFINE j == Len(Laid(es)[k - 1])
             e == es[k]
             p == q + j
  <1>1. k - 1 \in 0 .. Len(es) /\ e \in Extensions /\ k \in Nat
    OBVIOUS
  <1>2. e.type \in Nat \ {0} /\ e.type \in Nat /\ e.size \in Nat
    BY <1>1 DEF Extensions
  <1>3. /\ j \in Nat /\ Exts(es) \in Seq(Nat)
        /\ Len(Laid(es)[k]) = j + e.size + 4 /\ Has(Exts(es), j, Ext(e))
    BY <1>1, LaidFacts
  <1>4. /\ Ext(e) \in Seq(Nat) /\ Len(Ext(e)) = e.size + 4
        /\ Has(Ext(e), 0, TwoBytes(e.type)) /\ Has(Ext(e), 2, TwoBytes(e.size))
    BY <1>1, ExtHas
  <1>5. TwoBytes(e.type) \in Seq(Nat) /\ TwoBytes(e.size) \in Seq(Nat)
    BY <1>2, TwoBytesAre
  <1> HIDE DEF e, j
  <1>6. Has(s, p, Ext(e)) /\ p \in Nat /\ p + 0 = p
    BY <1>3, <1>4, HasInside
  <1> HIDE DEF p
  <1>7. Has(s, p + 0, TwoBytes(e.type)) /\ Has(s, p + 2, TwoBytes(e.size))
    BY <1>4, <1>5, <1>6, HasInside
  <1>8. p + (4 + e.size) <= Len(s)
    <2>1. p + Len(Ext(e)) <= Len(s)
      BY <1>6 DEF Has
    <2>2. e.size + 4 = 4 + e.size
      BY <1>2
    <2> QED BY <1>4, <2>1, <2>2
  <1>9. p + (4 + e.size) = q + (j + e.size + 4)
    BY <1>2, <1>3 DEF p
  <1> QED BY <1>2, <1>3, <1>6, <1>7, <1>8, <1>9 DEF e, j, p

(* Where the extension with the name begins, or would. *)
NamePlace(h) == First(h) + Len(Exts(h.before))

LEMMA HelloParts ==
  ASSUME NEW h \in Hellos, h.methods = 1
  PROVE  /\ h.session \in Nat /\ h.suites \in Nat /\ First(h) \in Nat /\ NamePlace(h) \in Nat
         /\ h.before \in Seq(Extensions) /\ h.after \in Seq(Extensions)
         /\ Encode(h) \in Seq(Nat) /\ Len(Encode(h)) \in Nat
         /\ First(h) <= Len(Encode(h))
         /\ Has(Encode(h), First(h), Exts(h.before))
         /\ Has(Encode(h), NamePlace(h), NameExts(h.name))
         /\ h.name = << >> => /\ Has(Encode(h), NamePlace(h), Exts(h.after))
                              /\ Len(Encode(h)) = NamePlace(h) + Len(Exts(h.after))
  <1> DEFINE b == Exts(h.before)
             n == NameExts(h.name)
             a == Exts(h.after)
             front == b \o n
             all == front \o a
             record == Encode(h)
             p == First(h)
  <1>1. /\ h.session \in Nat /\ h.suites \in Nat
        /\ h.before \in Seq(Extensions) /\ h.after \in Seq(Extensions)
        /\ h.name \in Seq(Seq(Nat)) /\ Len(h.name) <= 1
    BY HellosAssumption
  <1>2. p \in Nat
    BY <1>1 DEF First
  <1>3. /\ b \in Seq(Nat) /\ n \in Seq(Nat) /\ a \in Seq(Nat)
        /\ h.name = << >> => n = << >>
    BY <1>1, LaidFacts, NameExtsAre
  <1>4. /\ record \in Seq(Nat) /\ all \in Seq(Nat) /\ Len(record) = p + Len(all)
        /\ Has(record, p, all)
    BY HelloHas
  <1>5. NamePlace(h) = p + Len(b)
    BY DEF NamePlace
  <1> HIDE DEF b, n, a, record, p
  <1>6. /\ front \in Seq(Nat) /\ Len(b) \in Nat /\ Len(n) \in Nat /\ Len(a) \in Nat
        /\ Len(front) = Len(b) + Len(n)
        /\ Has(front, 0, b) /\ Has(front, Len(b), n)
    BY <1>3, HasParts, LenProperties
  <1> HIDE DEF front
  <1>7. /\ Len(all) = Len(front) + Len(a) /\ Has(all, 0, front) /\ Has(all, Len(front), a)
    BY <1>3, <1>6, HasParts
  <1> HIDE DEF all
  <1>8. Has(all, 0, b) /\ Has(all, Len(b), n)
    <2>1. Has(all, 0 + 0, b) /\ Has(all, 0 + Len(b), n)
      BY <1>3, <1>4, <1>6, <1>7, HasInside
    <2>2. 0 + 0 = 0 /\ 0 + Len(b) = Len(b)
      BY <1>6
    <2> QED BY <2>1, <2>2
  <1>9. Has(record, p + 0, b) /\ Has(record, p + Len(b), n)
    BY <1>2, <1>3, <1>4, <1>6, <1>8, HasInside
  <1>10. Len(front) \in Nat /\ Has(record, p + Len(front), a)
    BY <1>2, <1>3, <1>4, <1>6, <1>7, HasInside
  <1>11. h.name = << >> => Len(front) = Len(b)
    <2>1. Len(<< >>) = 0
      OBVIOUS
    <2>2. h.name = << >> => Len(n) = 0
      BY <1>3, <2>1
    <2> QED BY <1>6, <2>2
  <1>12. p + 0 = p /\ p + Len(b) \in Nat /\ Len(record) \in Nat /\ p <= Len(record)
    BY <1>2, <1>4, <1>6, <1>7
  <1>13. h.name = << >> => Len(record) = (p + Len(b)) + Len(a)
    <2>1. Len(record) = p + (Len(front) + Len(a))
      BY <1>4, <1>7
    <2>2. p + (Len(b) + Len(a)) = (p + Len(b)) + Len(a)
      BY <1>2, <1>6
    <2> QED BY <1>11, <2>1, <2>2, Zenon
  <1> QED BY <1>1, <1>2, <1>4, <1>5, <1>9, <1>10, <1>11, <1>12, <1>13 DEF b, n, a, record, p

LEMMA HelloName ==
  ASSUME NEW h \in Hellos, h.methods = 1, h.name # << >>
  PROVE  LET p == NamePlace(h)
             size == Len(h.name[1])
         IN  /\ size \in Nat
             /\ Has(Encode(h), p, TwoBytes(0)) /\ Has(Encode(h), p + 6, <<0>>)
             /\ Has(Encode(h), p + 7, TwoBytes(size)) /\ p + 9 + size <= Len(Encode(h))
  <1> DEFINE p == NamePlace(h)
             name == h.name[1]
             size == Len(name)
             ext == SniExt(name)
             record == Encode(h)
  <1>1. name \in Seq(Nat) /\ NameExts(h.name) = ext
    BY HellosAssumption, NameExtsAre
  <1>2. /\ ext \in Seq(Nat) /\ size \in Nat /\ Len(ext) = size + 9
        /\ Has(ext, 0, TwoBytes(0)) /\ Has(ext, 6, <<0>>) /\ Has(ext, 7, TwoBytes(size))
    BY <1>1, SniExtHas
  <1>3. p \in Nat /\ record \in Seq(Nat) /\ Has(record, p, ext)
    BY <1>1, HelloParts
  <1>4. TwoBytes(0) \in Seq(Nat) /\ <<0>> \in Seq(Nat) /\ TwoBytes(size) \in Seq(Nat)
    BY <1>2, TwoBytesAre, OneByte
  <1> HIDE DEF p, name, ext, record
  <1>5. /\ Has(record, p + 0, TwoBytes(0)) /\ Has(record, p + 6, <<0>>)
        /\ Has(record, p + 7, TwoBytes(size))
    BY <1>2, <1>3, <1>4, HasInside
  <1>6. p + Len(ext) <= Len(record) /\ Len(record) \in Nat
    BY <1>3 DEF Has
  <1> HIDE DEF size
  <1>7. p + 0 = p /\ p + 9 + size <= Len(record)
    BY <1>2, <1>3, <1>6
  <1> QED BY <1>2, <1>5, <1>7 DEF p, name, size, record

-----------------------------------------------------------------------------
(* Reading a ClientHello *)

(* What the parser reads is what is there. *)
LEMMA ReadsSize ==
  ASSUME at \in Nat, Len(bytes) \in Nat, NEW k \in Nat, NEW n \in Nat,
         Has(bytes, at + k, TwoBytes(n))
  PROVE  U16(k) = n /\ Left >= k + 2
  <1> DEFINE w == TwoBytes(n)
  <1>1. Has(bytes, at + k, w) /\ Len(w) = 2 /\ w[1] * 256 + w[2] = n
    BY TwoBytesAre
  <1> HIDE DEF w
  <1>2. (at + k) + 2 <= Len(bytes) /\ \A j \in 1 .. 2 : bytes[(at + k) + j] = w[j]
    BY <1>1 DEF Has
  <1>3. /\ 1 \in 1 .. 2 /\ 2 \in 1 .. 2
        /\ (at + k) + 1 = at + k + 1 /\ (at + k) + 2 = at + (k + 1) + 1
    OBVIOUS
  <1>4. bytes[at + k + 1] = w[1] /\ bytes[at + (k + 1) + 1] = w[2]
    BY <1>2, <1>3
  <1>5. U16(k) = n
    BY <1>1, <1>4 DEF U16, Byte
  <1>6. Left >= k + 2
    BY <1>2 DEF Left
  <1> QED BY <1>5, <1>6

LEMMA ReadsByte ==
  ASSUME at \in Nat, Len(bytes) \in Nat, NEW k \in Nat, NEW n \in Nat,
         Has(bytes, at + k, <<n>>)
  PROVE  Byte(k) = n /\ Left >= k + 1
  <1> DEFINE w == <<n>>
  <1>1. Has(bytes, at + k, w) /\ Len(w) = 1 /\ w[1] = n
    OBVIOUS
  <1> HIDE DEF w
  <1>2. (at + k) + 1 <= Len(bytes) /\ \A j \in 1 .. 1 : bytes[(at + k) + j] = w[j]
    BY <1>1 DEF Has
  <1>3. 1 \in 1 .. 1 /\ (at + k) + 1 = at + k + 1
    OBVIOUS
  <1>4. Byte(k) = n
    BY <1>1, <1>2, <1>3 DEF Byte
  <1>5. Left >= k + 1
    BY <1>2 DEF Left
  <1> QED BY <1>4, <1>5

(* Where a walk over the extensions of a ClientHello may stand: behind one *)
(* of those before the name, or of all of them if there is no name.        *)
Stops(h) ==
  {First(h) + Len(Laid(h.before)[k]) : k \in 0 .. Len(h.before)}
    \cup {NamePlace(h) + Len(Laid(h.after)[k]) :
            k \in {j \in 0 .. Len(h.after) : h.name = << >>}}

(* What has been read of a ClientHello is what was written.                *)
ReadAs(h) ==
  /\ pc = "suites" => at = h.session + 44
  /\ pc = "length" => at = h.session + h.suites + 48
  /\ pc = "extension" => at \in Stops(h)
  /\ pc = "name" => h.name # << >> /\ sniext = NamePlace(h)
  /\ pc \in {"found", "cut"} => h.name # << >> /\ markers = NameAt(h)
  /\ pc \in {"none", "undefined"} => h.name = << >>

(* The input is the ClientHello h. *)
Reading(h) == input.proto = "TLS" /\ h.methods = 1 /\ bytes = Encode(h)

HelloRead == \A h \in Hellos : Reading(h) => ReadAs(h)

(* What the steps of the walk rely on. *)
LEMMA ReadingFacts ==
  ASSUME Inside, NEW h \in Hellos, Reading(h)
  PROVE  /\ input \in Inputs /\ Len(bytes) \in Nat /\ at \in Nat /\ at <= Len(bytes)
         /\ Left \in Nat
         /\ h.methods = 1 /\ bytes = Encode(h) /\ Places
         /\ h.session \in Nat /\ h.suites \in Nat
         /\ First(h) = h.session + h.suites + 50 /\ First(h) <= Len(bytes)
  <1>1. input \in Inputs /\ Places /\ h.methods = 1 /\ bytes = Encode(h)
    BY DEF Inside, TypeOK, Reading
  <1>2. Len(bytes) \in Nat
    BY <1>1, PayloadLength
  <1>3. at \in Nat /\ at <= Len(bytes)
    BY <1>2 DEF Inside, TypeOK
  <1>4. h.session \in Nat /\ h.suites \in Nat /\ First(h) <= Len(bytes)
    BY <1>1, HelloParts
  <1>5. Left \in Nat
    BY <1>2, <1>3 DEF Left
  <1> QED BY <1>1, <1>2, <1>3, <1>4, <1>5 DEF First

LEMMA ReadHeader ==
  ASSUME Inside, NEW h \in Hellos, Reading(h), Header PROVE ReadAs(h)'
  <1>1. at = 0 /\ Left >= 5
    BY ReadingFacts DEF Header, Places, Left
  <1>2. pc' = "hello"
    BY <1>1, ReadingFacts DEF Header, Left, Undefined
  <1> QED BY <1>2 DEF ReadAs

LEMMA ReadHello ==
  ASSUME Inside, NEW h \in Hellos, Reading(h), Hello PROVE ReadAs(h)'
  <1>1. at = 5 /\ at + 0 = 5 /\ Left >= 38 /\ Left > 0
    BY ReadingFacts DEF Hello, Places, Left
  <1>2. Byte(0) = 1
    <2>1. Has(bytes, at + 0, <<1>>)
      BY <1>1, ReadingFacts, HelloHas
    <2> QED BY <2>1, ReadingFacts, ReadsByte
  <1>3. pc' = "session"
    <2>1. FixedSize = 38
      BY DEF FixedSize
    <2>2. ~(Left < 38) /\ Left # 0
      BY <1>1, ReadingFacts
    <2> QED BY <1>1, <1>2, <2>1, <2>2 DEF Hello, Skip
  <1> QED BY <1>3 DEF ReadAs

LEMMA ReadSessionId ==
  ASSUME Inside, NEW h \in Hellos, Reading(h), SessionId PROVE ReadAs(h)'
  <1>1. at = 43 /\ at + 0 = 43 /\ Left >= h.session + 1
    BY ReadingFacts DEF SessionId, Places, Left
  <1>2. Byte(0) = h.session
    <2>1. Has(bytes, at + 0, <<h.session>>)
      BY <1>1, ReadingFacts, HelloHas
    <2> QED BY <2>1, ReadingFacts, ReadsByte
  <1>3. pc' = "suites" /\ at' = at + (1 + h.session)
    <2>1. ~(Left < 1 + h.session) /\ Left # 0
      BY <1>1, ReadingFacts
    <2> QED BY <1>2, <2>1 DEF SessionId, Skip
  <1>4. at' = h.session + 44
    BY <1>1, <1>3, ReadingFacts
  <1> QED BY <1>3, <1>4 DEF ReadAs

LEMMA ReadCipherSuites ==
  ASSUME Inside, NEW h \in Hellos, Reading(h), ReadAs(h), CipherSuites PROVE ReadAs(h)'
  <1>1. /\ at = h.session + 44 /\ at + 0 = h.session + 44
        /\ Left >= 2 + h.suites + 2
    BY ReadingFacts DEF CipherSuites, ReadAs, Left
  <1>2. U16(0) = h.suites
    <2>1. Has(bytes, at + 0, TwoBytes(h.suites))
      BY <1>1, ReadingFacts, HelloHas
    <2> QED BY <2>1, ReadingFacts, ReadsSize
  <1>3. pc' = "length" /\ at' = at + (2 + h.suites + 2)
    <2>1. ~(Left < 2 + h.suites + 2) /\ ~(Left < 2)
      BY <1>1, ReadingFacts
    <2> QED BY <1>2, <2>1 DEF CipherSuites, Skip
  <1>4. at' = h.session + h.suites + 48
    <2>1. \A s, u \in Nat : (s + 44) + (2 + u + 2) = s + u + 48
      OBVIOUS
    <2> QED BY <1>1, <1>3, <2>1, ReadingFacts, Zenon
  <1> QED BY <1>3, <1>4 DEF ReadAs

LEMMA ReadExtensionsLength ==
  ASSUME Inside, NEW h \in Hellos, Reading(h), ReadAs(h), ExtensionsLength
  PROVE  ReadAs(h)'
  <1>1. at = h.session + h.suites + 48 /\ ~(Left < 2)
    BY ReadingFacts DEF ExtensionsLength, ReadAs, Left
  <1>2. pc' = "extension" /\ at' = at + 2
    BY <1>1 DEF ExtensionsLength, Skip
  <1>3. at' = First(h)
    BY <1>1, <1>2, ReadingFacts
  <1>4. First(h) \in Stops(h)
    <2>1. h.before \in Seq(Extensions) /\ First(h) \in Nat
      BY ReadingFacts, HelloParts
    <2>2. 0 \in 0 .. Len(h.before) /\ Len(Laid(h.before)[0]) = 0
      BY <2>1, LaidFacts
    <2>3. First(h) + 0 = First(h)
      BY <2>1
    <2> QED BY <2>2, <2>3 DEF Stops
  <1> QED BY <1>2, <1>3, <1>4 DEF ReadAs

(* In front of an extension that is not the name's, the walk goes on       *)
(* behind it.                                                              *)
LEMMA PassesOver ==
  ASSUME Inside, NEW h \in Hellos, Reading(h), Extension,
         NEW es \in Seq(Extensions), NEW q \in Nat, Has(Encode(h), q, Exts(es)),
         NEW k \in 1 .. Len(es), at = q + Len(Laid(es)[k - 1])
  PROVE  pc' = "extension" /\ at' = q + Len(Laid(es)[k])
  <1> DEFINE e == es[k]
  <1>1. /\ at \in Nat /\ e.type \in Nat \ {0} /\ e.size \in Nat
        /\ Has(bytes, at, TwoBytes(e.type)) /\ Has(bytes, at + 2, TwoBytes(e.size))
        /\ at + (4 + e.size) <= Len(bytes) /\ at + (4 + e.size) = q + Len(Laid(es)[k])
    <2>1. Encode(h) \in Seq(Nat) /\ bytes = Encode(h)
      BY ReadingFacts, HelloParts
    <2> QED BY <2>1, ExtsIn
  <1> HIDE DEF e
  <1>2. e.type \in Nat /\ e.type # 0 /\ at + 0 = at
    BY <1>1
  <1>3. U16(0) = e.type
    BY <1>1, <1>2, ReadingFacts, ReadsSize
  <1>4. U16(2) = e.size
    BY <1>1, ReadingFacts, ReadsSize
  <1>5. ~(Left < 4 + e.size) /\ ~(Left < 4)
    <2>1. Len(bytes) \in Nat
      BY ReadingFacts
    <2>2. \A m, k1, n \in Nat : k1 + (4 + m) <= n => ~(n - k1 < 4 + m) /\ ~(n - k1 < 4)
      OBVIOUS
    <2> QED BY <1>1, <2>1, <2>2, Zenon DEF Left
  <1>6. pc' = "extension" /\ at' = at + (4 + e.size)
    <2>1. Skip(Extent, "extension")
      BY <1>2, <1>3, <1>5 DEF Extension, NotFound
    <2>2. Extent = 4 + e.size
      BY <1>4 DEF Extent
    <2> QED BY <1>5, <2>1, <2>2 DEF Skip
  <1> QED BY <1>1, <1>6

LEMMA ReadExtension ==
  ASSUME Inside, NEW h \in Hellos, Reading(h), ReadAs(h), Extension PROVE ReadAs(h)'
  <1> DEFINE b == h.before
             a == h.after
             there == NamePlace(h)
  <1>1. /\ b \in Seq(Extensions) /\ a \in Seq(Extensions) /\ bytes = Encode(h)
        /\ First(h) \in Nat /\ there \in Nat
        /\ Has(Encode(h), First(h), Exts(b))
        /\ h.name = << >> => /\ Has(Encode(h), there, Exts(a))
                             /\ Len(bytes) = there + Len(Exts(a))
    BY ReadingFacts, HelloParts
  <1>2. /\ Len(b) \in Nat /\ Len(a) \in Nat /\ Len(Laid(a)[0]) = 0
        /\ Laid(b)[Len(b)] = Exts(b) /\ Laid(a)[Len(a)] = Exts(a)
    BY <1>1, LaidFacts
  <1>3. there = First(h) + Len(Exts(b))
    BY DEF NamePlace
  <1>4. pc = "extension" /\ at \in Stops(h)
    BY DEF Extension, ReadAs
  <1> HIDE DEF there
  <1>5. ASSUME pc' = "extension", at' \in Stops(h) PROVE ReadAs(h)'
    BY <1>5 DEF ReadAs
  <1>6. ASSUME NEW k \in 0 .. Len(a), h.name = << >>, at = there + Len(Laid(a)[k])
        PROVE  ReadAs(h)'
    <2>1. CASE k = Len(a)
      <3>1. at = Len(bytes)
        BY <1>1, <1>2, <1>6, <2>1
      <3>2. Left < 4 /\ ~(Left >= 4)
        BY <3>1, ReadingFacts DEF Left
      <3>3. pc' = "none"
        BY <3>2 DEF Extension, NotFound
      <3> QED BY <1>6, <3>3 DEF ReadAs
    <2>2. CASE k # Len(a)
      <3>1. k + 1 \in 1 .. Len(a) /\ (k + 1) - 1 = k /\ k + 1 \in 0 .. Len(a)
        BY <1>2, <2>2
      <3>2. pc' = "extension" /\ at' = there + Len(Laid(a)[k + 1])
        BY <1>1, <1>6, <3>1, PassesOver
      <3>3. at' \in Stops(h)
        BY <1>6, <3>1, <3>2 DEF Stops, there
      <3> QED BY <1>5, <3>2, <3>3
    <2> QED BY <2>1, <2>2
  <1>7. ASSUME NEW k \in 0 .. Len(b), at = First(h) + Len(Laid(b)[k])
        PROVE  ReadAs(h)'
    <2>1. CASE k # Len(b)
      <3>1. k + 1 \in 1 .. Len(b) /\ (k + 1) - 1 = k /\ k + 1 \in 0 .. Len(b)
        BY <1>2, <2>1
      <3>2. pc' = "extension" /\ at' = First(h) + Len(Laid(b)[k + 1])
        BY <1>1, <1>7, <3>1, PassesOver
      <3>3. at' \in Stops(h)
        BY <3>1, <3>2 DEF Stops
      <3> QED BY <1>5, <3>2, <3>3
    <2>2. CASE k = Len(b) /\ h.name = << >>
      <3>1. 0 \in 0 .. Len(a) /\ at = there + Len(Laid(a)[0])
        BY <1>1, <1>2, <1>3, <1>7, <2>2
      <3> QED BY <1>6, <2>2, <3>1
    <2>3. CASE k = Len(b) /\ h.name # << >>
      <3>1. at = there /\ at + 0 = at
        BY <1>1, <1>2, <1>3, <1>7, <2>3
      <3>2. /\ Len(h.name[1]) \in Nat /\ Has(bytes, at + 0, TwoBytes(0))
            /\ at + 9 + Len(h.name[1]) <= Len(bytes)
        BY <1>1, <2>3, <3>1, ReadingFacts, HelloName DEF there
      <3>3. U16(0) = 0
        BY <3>2, ReadingFacts, ReadsSize
      <3>4. Left >= 4 /\ ~(Left < 4) /\ Left >= 2
        BY <3>2, ReadingFacts DEF Left
      <3>5. pc' = "name" /\ sniext' = there
        BY <3>1, <3>3, <3>4 DEF Extension
      <3> QED BY <2>3, <3>5 DEF ReadAs, there
    <2> QED BY <2>1, <2>2, <2>3
  <1> QED BY <1>4, <1>6, <1>7 DEF Stops, there

LEMMA ReadName ==
  ASSUME Inside, NEW h \in Hellos, Reading(h), ReadAs(h), Name PROVE ReadAs(h)'
  <1> DEFINE there == NamePlace(h)
             size == Len(h.name[1])
  <1>1. /\ pc = "name" /\ h.name # << >> /\ sniext = there /\ at = there + 4
        /\ there \in Nat /\ bytes = Encode(h) /\ Len(bytes) \in Nat /\ at \in Nat
    BY ReadingFacts, HelloParts DEF Name, ReadAs, Places
  <1>2. /\ size \in Nat /\ Has(bytes, there + 6, <<0>>)
        /\ Has(bytes, there + 7, TwoBytes(size)) /\ there + 9 + size <= Len(bytes)
    BY <1>1, ReadingFacts, HelloName
  <1>3. there = 5 + Len(Fixed(h)) + 2 + Len(Exts(h.before))
    BY ReadingFacts, HelloHas DEF NamePlace
  <1> HIDE DEF there, size
  <1>4. there + 6 = at + 2 /\ there + 7 = at + 3 /\ Left >= 5 + size /\ Left >= 5
    BY <1>1, <1>2 DEF Left
  <1>5. Byte(2) = 0 /\ U16(3) = size
    BY <1>1, <1>2, <1>4, ReadsByte, ReadsSize
  <1>6. /\ pc' = "found"
        /\ markers' = [sniext |-> there, hoststart |-> at + 5,
                       hostmid |-> at + 5 + size \div 2, hostend |-> at + 5 + size]
    <2>1. ServerName
      BY <1>4, <1>5 DEF ServerName
    <2> QED BY <1>1, <1>5, <2>1 DEF Name
  <1>7. /\ at + 5 = there + 9 /\ size \div 2 \in Nat
        /\ at + 5 + size \div 2 = there + 9 + size \div 2
        /\ at + 5 + size = there + 9 + size
    <2>1. size \div 2 \in Nat
      BY <1>2, Half
    <2>2. at + 5 = there + 9
      BY <1>1
    <2> QED BY <2>1, <2>2
  <1>8. NameAt(h) = [sniext |-> there, hoststart |-> there + 9,
                     hostmid |-> there + 9 + size \div 2, hostend |-> there + 9 + size]
    BY <1>3 DEF NameAt, size
  <1>9. markers' = NameAt(h)
    BY <1>6, <1>7, <1>8
  <1> QED BY <1>1, <1>6, <1>9 DEF ReadAs

(* Once found, the markers stay. *)
LEMMA ReadResolve ==
  ASSUME NEW h \in Hellos, ReadAs(h), Resolve PROVE ReadAs(h)'
  <1>1. pc = "found" /\ pc' = "cut" /\ markers' = markers
    BY DEF Resolve
  <1> QED BY <1>1 DEF ReadAs

LEMMA HelloReadStep ==
  ASSUME Inside, HelloRead, [Next]_vars PROVE HelloRead'
  <1>1. input' = input
    BY DEF Next, Parse, Header, Hello, SessionId, CipherSuites, ExtensionsLength,
           Extension, Name, Request, Resolve, vars
  <1>2. SUFFICES ASSUME NEW h \in Hellos, Reading(h) PROVE ReadAs(h)'
    BY <1>1 DEF HelloRead, Reading, bytes
  <1>3. ReadAs(h)
    BY <1>2 DEF HelloRead
  <1>4. ~Request
    BY <1>2, ReadingFacts DEF Request, Places, Reading
  <1>5. CASE UNCHANGED vars
    BY <1>3, <1>5 DEF ReadAs, vars
  <1> QED BY <1>2, <1>3, <1>4, <1>5, ReadHeader, ReadHello, ReadSessionId, ReadCipherSuites,
             ReadExtensionsLength, ReadExtension, ReadName, ReadResolve DEF Next, Parse

LEMMA InitHelloRead == Init => HelloRead
  BY InputsAssumption DEF Init, HelloRead, Reading, ReadAs

-----------------------------------------------------------------------------
(* Reading a request *)

(* Where the line with the name begins. *)
HostLine(r) ==
  Len(Line(r.line) \o FlattenSeq([i \in DOMAIN r.headers |-> Line(r.headers[i])]))

LEMMA LineIs ==
  ASSUME NEW l \in Seq(Characters)
  PROVE  /\ Line(l) \in Seq(Characters) /\ Len(l) \in Nat /\ Len(Line(l)) = Len(l) + 2
         /\ Has(Line(l), 0, l) /\ Has(Line(l), Len(l), CRLF)
  <1>1. CRLF \in Seq(Characters) /\ Len(CRLF) = 2
    BY Words
  <1>2. /\ l \o CRLF \in Seq(Characters) /\ Len(l) \in Nat
        /\ Len(l \o CRLF) = Len(l) + Len(CRLF)
        /\ Has(l \o CRLF, 0, l) /\ Has(l \o CRLF, Len(l), CRLF)
    BY <1>1, HasParts
  <1>3. Line(l) = l \o CRLF
    BY DEF Line
  <1> QED BY <1>1, <1>2, <1>3, Zenon

LEMMA RequestHas ==
  ASSUME NEW r \in Requests
  PROVE  LET s == EncodeRequest(r)
             p == HostLine(r)
             size == Len(r.name)
         IN  /\ s \in Seq(Characters) /\ p \in Nat /\ size \in Nat
             /\ r.name \in Seq(Characters \ {"CR"}) /\ Len(r.rest) \in Nat
             /\ Len(s) = p + 6 + size + 2 + Len(r.rest)
             /\ Has(s, p, HOST_HEADER_NAME) /\ Has(s, p + 5, <<" ">>)
             /\ Has(s, p + 6, r.name) /\ Has(s, p + 6 + size, CRLF)
  <1> DEFINE lines == [i \in DOMAIN r.headers |-> Line(r.headers[i])]
             front == Line(r.line) \o FlattenSeq(lines)
             name == r.name
             size == Len(name)
             word == HOST_HEADER_NAME
             gap == <<" ">>
             label == word \o gap
             field == label \o name
             host == Line(field)
             top == front \o host
             rest == r.rest
             s == top \o rest
             p == Len(front)
  <1>1. /\ r.line \in Seq(Characters) /\ r.headers \in Seq(Seq(Characters))
        /\ name \in Seq(Characters \ {"CR"}) /\ rest \in Seq(Characters)
        /\ gap \in Seq(Characters) /\ Len(gap) = 1
        /\ word \in Seq(Characters) /\ Len(word) = 5
    <2>1. gap \in Seq(Characters) /\ Len(gap) = 1
      <3>1. \A c \in Characters : <<c>> \in Seq(Characters) /\ Len(<<c>>) = 1
        OBVIOUS
      <3> QED BY <3>1, RequestsAssumption, Zenon
    <2> HIDE DEF gap
    <2> QED BY <2>1, RequestsAssumption, Words
  <1>2. name \in Seq(Characters) /\ size \in Nat /\ Len(rest) \in Nat
    <2>1. \A S, T : \A t \in Seq(T) : T \subseteq S => t \in Seq(S)
      OBVIOUS
    <2>2. name \in Seq(Characters)
      <3>1. Characters \ {"CR"} \subseteq Characters
        OBVIOUS
      <3> QED BY <1>1, <2>1, <3>1, Zenon
    <2> QED BY <1>1, <2>2, LenProperties
  <1>3. lines \in Seq(Seq(Characters))
    <2> DEFINE n == Len(r.headers)
    <2>1. /\ n \in Nat /\ DOMAIN r.headers = 1 .. n
          /\ \A i \in 1 .. n : r.headers[i] \in Seq(Characters)
      <3>1. \A S : \A t \in Seq(S) : /\ Len(t) \in Nat /\ DOMAIN t = 1 .. Len(t)
                                    /\ \A i \in 1 .. Len(t) : t[i] \in S
        OBVIOUS
      <3> QED BY <1>1, <3>1
    <2>2. \A i \in 1 .. n : Line(r.headers[i]) \in Seq(Characters)
      BY <2>1, LineIs
    <2>3. lines = [i \in 1 .. n |-> Line(r.headers[i])]
      BY <2>1
    <2> HIDE DEF lines, n
    <2> QED BY <2>1, <2>2, <2>3
  <1> HIDE DEF lines
  <1>4. front \in Seq(Characters) /\ p \in Nat
    <2>1. FlattenSeq(lines) \in Seq(Characters)
      <3>1. PICK f \in [0 .. Len(lines) -> Seq(Characters)] : FlattenSeq(lines) = f[Len(lines)]
        BY <1>3, Flattened
      <3>2. Len(lines) \in 0 .. Len(lines)
        BY <1>3
      <3> QED BY <3>1, <3>2
    <2>2. Line(r.line) \in Seq(Characters)
      BY <1>1, LineIs
    <2>3. front \in Seq(Characters)
      BY <2>1, <2>2, ConcatProperties
    <2> QED BY <2>3, LenProperties
  <1> HIDE DEF front, word, gap
  <1>5. /\ label \in Seq(Characters) /\ Len(label) = 6
        /\ Has(label, 0, word) /\ Has(label, 5, gap)
    <2>1. /\ label \in Seq(Characters) /\ Len(label) = Len(word) + Len(gap)
          /\ Has(label, 0, word) /\ Has(label, Len(word), gap)
      BY <1>1, HasParts
    <2>2. 5 + 1 = 6
      OBVIOUS
    <2> QED BY <1>1, <2>1, <2>2, Zenon
  <1> HIDE DEF label, name
  <1>6. /\ field \in Seq(Characters) /\ Len(field) = 6 + size
        /\ Has(field, 0, label) /\ Has(field, 6, name)
    <2>1. /\ field \in Seq(Characters) /\ Len(field) = Len(label) + Len(name)
          /\ Has(field, 0, label) /\ Has(field, Len(label), name)
      BY <1>2, <1>5, HasParts
    <2> QED BY <1>5, <2>1, Zenon
  <1> HIDE DEF field, size
  <1>7. /\ host \in Seq(Characters) /\ Len(host) = (6 + size) + 2
        /\ Has(host, 0, field) /\ Has(host, 6 + size, CRLF)
    <2>1. /\ host \in Seq(Characters) /\ Len(host) = Len(field) + 2
          /\ Has(host, 0, field) /\ Has(host, Len(field), CRLF)
      BY <1>6, LineIs
    <2> QED BY <1>6, <2>1, Zenon
  <1> HIDE DEF host
  <1>8. /\ top \in Seq(Characters) /\ Len(top) = p + ((6 + size) + 2)
        /\ Has(top, p, host)
    <2>1. /\ top \in Seq(Characters) /\ Len(top) = Len(front) + Len(host)
          /\ Has(top, Len(front), host)
      BY <1>4, <1>7, HasParts
    <2> QED BY <1>7, <2>1, Zenon
  <1>9. /\ s \in Seq(Characters) /\ Len(s) = (p + ((6 + size) + 2)) + Len(rest)
        /\ Has(s, p, host)
    <2> HIDE DEF top, p
    <2>1. /\ s \in Seq(Characters) /\ Len(s) = Len(top) + Len(rest)
      BY <1>1, <1>8, HasParts
    <2>2. Has(s, p, host)
      BY <1>1, <1>4, <1>7, <1>8, HasStill
    <2> QED BY <1>8, <2>1, <2>2, Zenon
  <1>10. EncodeRequest(r) = s
    BY DEF EncodeRequest, s, top, host, field, label, word, gap, name, front, lines
  <1>11. HostLine(r) = p
    BY DEF HostLine, p, front, lines
  <1>12. CRLF \in Seq(Characters)
    BY Words
  <1> HIDE DEF s, p, rest
  <1>13. 0 \in Nat /\ 5 \in Nat /\ 6 \in Nat /\ 6 + size \in Nat
    BY <1>2
  <1>14. Has(s, p + 0, field) /\ Has(s, p + (6 + size), CRLF)
    BY <1>4, <1>6, <1>7, <1>9, <1>12, <1>13, HasInside
  <1>15. /\ p + 0 = p /\ p + (6 + size) = p + 6 + size
         /\ (p + ((6 + size) + 2)) + Len(rest) = p + 6 + size + 2 + Len(rest)
    BY <1>2, <1>4
  <1>16. Has(s, p, field)
    BY <1>14, <1>15
  <1>17. Has(s, p + 0, label) /\ Has(s, p + 6, name)
    BY <1>2, <1>4, <1>5, <1>6, <1>9, <1>13, <1>16, HasInside
  <1>18. Has(s, p, label)
    BY <1>15, <1>17
  <1>19. Has(s, p + 0, word) /\ Has(s, p + 5, gap)
    BY <1>1, <1>4, <1>5, <1>9, <1>13, <1>18, HasInside
  <1>20. Has(s, p, word) /\ Has(s, p + 6 + size, CRLF)
         /\ Len(s) = p + 6 + size + 2 + Len(rest)
    BY <1>9, <1>14, <1>15, <1>19, Zenon
  <1> QED BY <1>1, <1>2, <1>4, <1>9, <1>10, <1>11, <1>17, <1>19, <1>20
       DEF word, gap, name, size, rest

(* A word that is there occurs there. *)
LEMMA HasOccurs ==
  ASSUME input \in Inputs, input.proto = "HTTP", NEW word \in Seq(Characters),
         NEW k \in Nat, Has(bytes, k, word)
  PROVE  k \in Occurs(word)
  <1> DEFINE n == Len(word)
             seen == SubSeq(bytes, k + 1, k + n)
  <1>1. bytes \in Seq(Characters) /\ Len(bytes) \in Nat /\ n \in Nat
    BY InputsAssumption, PayloadLength, LenProperties DEF bytes
  <1>2. k + n <= Len(bytes) /\ \A j \in 1 .. n : bytes[k + j] = word[j]
    BY DEF Has
  <1>3. seen \in Seq(Characters) /\ Len(seen) = n /\ \A j \in 1 .. n : seen[j] = bytes[k + j]
    BY <1>1, <1>2, Slice
  <1> HIDE DEF seen
  <1>4. seen = word
    BY <1>2, <1>3, SeqEqual
  <1>5. k \in 0 .. Len(bytes) - n
    BY <1>1, <1>2
  <1> QED BY <1>4, <1>5 DEF Occurs, seen

(* The least element is the one below all others. *)
LEMMA LeastIs ==
  ASSUME NEW S \in SUBSET Nat, NEW m \in S, \A k \in S : m <= k
  PROVE  Least(S) = m
  <1>1. Least(S) \in S /\ \A k \in S : Least(S) <= k
    BY LeastIn
  <1>2. Least(S) <= m /\ m <= Least(S) /\ Least(S) \in Nat /\ m \in Nat
    BY <1>1
  <1> QED BY <1>2

(* The input is the request r, and "Host:" occurs nowhere before its line. *)
Asked(r) ==
  /\ input.proto = "HTTP" /\ bytes = EncodeRequest(r)
  /\ \A k \in Occurs(HOST_HEADER_NAME) : k >= HostLine(r)

(* The name of a request is where the parser finds it. *)
LEMMA NameOfRequest ==
  ASSUME input \in Inputs, NEW r \in Requests, Asked(r)
  PROVE  /\ HasHost /\ HostPos = HostLine(r) /\ HostStart = HostLine(r) + 6
         /\ HostEnd = HostLine(r) + 6 + Len(r.name)
  <1> DEFINE p == HostLine(r)
             name == r.name
             size == Len(name)
             end == p + 6 + size
             ends == {k \in Occurs(CRLF) : k >= HostPos}
  <1>1. p \in Nat /\ size \in Nat
    BY RequestHas
  <1>2. /\ name \in Seq(Characters \ {"CR"}) /\ size = Len(name)
        /\ Has(bytes, p, HOST_HEADER_NAME) /\ Has(bytes, p + 5, <<" ">>)
        /\ Has(bytes, p + 6, name) /\ Has(bytes, end, CRLF)
    BY RequestHas DEF Asked
  <1>3. input.proto = "HTTP" /\ \A k \in Occurs(HOST_HEADER_NAME) : k >= p
    BY DEF Asked
  <1> HIDE DEF p, name, size
  <1>4. end \in Nat /\ end >= p
    BY <1>1
  <1>5. p \in Occurs(HOST_HEADER_NAME) /\ end \in Occurs(CRLF)
    BY <1>2, <1>1, <1>3, <1>4, HasOccurs, Words
  <1>6. HostPos = p
    <2>1. Occurs(HOST_HEADER_NAME) \in SUBSET Nat
      BY <1>3, OccursAt, Words
    <2>2. \A k \in Occurs(HOST_HEADER_NAME) : p <= k
      BY <1>1, <1>3, <2>1
    <2> QED BY <1>5, <2>1, <2>2, LeastIs DEF HostPos
  <1>7. /\ \A j \in 1 .. 5 : bytes[p + j] = HOST_HEADER_NAME[j]
        /\ bytes[p + 6] = " "
        /\ \A j \in 1 .. size : bytes[(p + 6) + j] = name[j]
    <2>1. \A j \in 1 .. 5 : bytes[p + j] = HOST_HEADER_NAME[j]
      BY <1>2, Words DEF Has
    <2>2. bytes[p + 6] = " "
      <3> DEFINE gap == <<" ">>
      <3>1. Len(gap) = 1 /\ gap[1] = " " /\ Has(bytes, p + 5, gap)
        BY <1>2
      <3> HIDE DEF gap
      <3>2. \A j \in 1 .. 1 : bytes[(p + 5) + j] = gap[j]
        BY <3>1, Zenon DEF Has
      <3>3. 1 \in 1 .. 1 /\ (p + 5) + 1 = p + 6
        BY <1>1
      <3> QED BY <3>1, <3>2, <3>3, Zenon
    <2>3. \A j \in 1 .. size : bytes[(p + 6) + j] = name[j]
      BY <1>2 DEF Has
    <2> QED BY <2>1, <2>2, <2>3
  <1>8. ASSUME NEW k \in ends PROVE end <= k
    <2>1. k \in Nat /\ k >= p /\ bytes[k + 1] = "CR"
      <3>1. /\ k \in Nat /\ \A j \in 1 .. Len(CRLF) : bytes[k + j] = CRLF[j]
        BY <1>3, OccursAt, Words
      <3>2. bytes[k + 1] = "CR"
        BY <3>1, Words
      <3> QED BY <1>6, <3>1, <3>2
    <2> SUFFICES ASSUME k < end PROVE FALSE
      BY <1>4, <2>1
    <2> HIDE DEF ends
    <2>2. CASE k < p + 5
      <3>1. k - p + 1 \in 1 .. 5 /\ p + (k - p + 1) = k + 1
        BY <1>1, <2>1, <2>2
      <3> QED BY <1>7, <2>1, <3>1, Words
    <2>3. CASE k = p + 5
      <3>1. k + 1 = p + 6
        BY <1>1, <2>3
      <3> QED BY <1>7, <2>1, <3>1
    <2>4. CASE k > p + 5
      <3>1. k - p - 5 \in 1 .. size /\ (p + 6) + (k - p - 5) = k + 1
        BY <1>1, <2>1, <2>4
      <3>2. bytes[k + 1] = name[k - p - 5]
        BY <1>7, <3>1
      <3>3. name[k - p - 5] \in Characters \ {"CR"}
        BY <1>2, <3>1, ElementOfSeq
      <3> QED BY <2>1, <3>2, <3>3
    <2> QED BY <1>1, <2>1, <2>2, <2>3, <2>4
  <1>9. HostEnd = end
    <2>1. ends \in SUBSET Nat
      BY <1>3, OccursAt, Words
    <2>2. end \in ends
      BY <1>4, <1>5, <1>6
    <2> HIDE DEF end, ends
    <2>3. Least(ends) = end
      BY <1>8, <2>1, <2>2, LeastIs
    <2> QED BY <2>3 DEF HostEnd, ends
  <1>10. HasHost
    <2>1. end >= HostPos
      BY <1>4, <1>6
    <2> QED BY <1>5, <2>1 DEF HasHost
  <1>11. HostStart = p + 6
    BY <1>1, <1>6 DEF HostStart
  <1> QED BY <1>6, <1>9, <1>10, <1>11 DEF p, name, size

(* The name of a request is found where it is. *)
RequestRead ==
  \A r \in Requests : Asked(r) =>
    /\ pc \in {"found", "cut"} => markers = RequestNameAt(r)
    /\ pc # "none"

LEMMA ReadRequest ==
  ASSUME Inside, NEW r \in Requests, Asked(r), Request
  PROVE  pc' = "found" /\ markers' = RequestNameAt(r)
  <1> DEFINE start == HostLine(r) + 6
             size == Len(r.name)
  <1>1. input \in Inputs /\ input.proto = "HTTP" /\ bytes = EncodeRequest(r)
    BY DEF Inside, TypeOK, Asked
  <1>2. HasHost /\ HostStart = start /\ HostEnd = start + size
    BY <1>1, NameOfRequest
  <1>3. HostLine(r) \in Nat /\ size \in Nat /\ Len(r.rest) \in Nat
        /\ Len(EncodeRequest(r)) = start + size + 2 + Len(r.rest)
    BY RequestHas
  <1>4. Len(bytes) \in Nat /\ Len(bytes) < SizeSpace /\ SizeSpace \in Nat
    BY <1>1, PayloadLength, SizesAssumption
  <1> HIDE DEF size
  <1>5. start \in Nat /\ size \div 2 \in Nat /\ size \div 2 <= size
    BY <1>3, Half
  <1> HIDE DEF start
  <1>6. start + size < SizeSpace /\ start + size \div 2 < SizeSpace /\ size < SizeSpace
    <2>1. \A a, b, c, d, m \in Nat :
            a + b + 2 + c < m /\ d <= b => a + b < m /\ a + d < m /\ b < m
      OBVIOUS
    <2>2. start + size + 2 + Len(r.rest) < SizeSpace
      BY <1>1, <1>3, <1>4, Zenon
    <2> QED BY <1>3, <1>4, <1>5, <2>1, <2>2, Zenon
  <1>7. HostSize = size
    <2>1. (start + size) - start = size
      BY <1>3, <1>5
    <2> QED BY <1>2, <1>3, <1>4, <1>6, <2>1, Fits DEF HostSize
  <1>8. /\ (start + size \div 2) % SizeSpace = start + size \div 2
        /\ (start + size) % SizeSpace = start + size
    <2>1. start + size \div 2 \in Nat /\ start + size \in Nat
      BY <1>3, <1>5
    <2> QED BY <1>4, <1>6, <2>1, Fits
  <1>9. /\ pc' = "found"
        /\ markers' = [hoststart |-> start, hostmid |-> start + size \div 2,
                       hostend |-> start + size]
    BY <1>2, <1>7, <1>8 DEF Request
  <1>10. Len(EncodeRequest(r)) - Len(r.rest) - 2 - size = start
    BY <1>3, <1>5
  <1>11. RequestNameAt(r) = [hoststart |-> start, hostmid |-> start + size \div 2,
                             hostend |-> start + size]
    BY <1>10 DEF RequestNameAt, size
  <1> QED BY <1>9, <1>11

LEMMA RequestReadStep ==
  ASSUME Inside, RequestRead, [Next]_vars PROVE RequestRead'
  <1>1. input' = input
    BY DEF Next, Parse, Header, Hello, SessionId, CipherSuites, ExtensionsLength,
           Extension, Name, Request, Resolve, vars
  <1>2. SUFFICES ASSUME NEW r \in Requests, Asked(r)
                 PROVE  /\ pc' \in {"found", "cut"} => markers' = RequestNameAt(r)
                        /\ pc' # "none"
    BY <1>1 DEF RequestRead, Asked, bytes, Occurs
  <1>3. /\ pc \in {"found", "cut"} => markers = RequestNameAt(r)
        /\ pc # "none"
    BY <1>2 DEF RequestRead
  <1>4. pc \in {"request", "found", "none", "cut"}
    BY <1>2 DEF Asked, Inside, Places
  <1>5. CASE Request
    BY <1>2, <1>5, ReadRequest
  <1>6. CASE Resolve
    BY <1>3, <1>6 DEF Resolve
  <1>7. CASE UNCHANGED vars
    BY <1>3, <1>7 DEF vars
  <1> QED BY <1>4, <1>5, <1>6, <1>7
       DEF Next, Parse, Header, Hello, SessionId, CipherSuites, ExtensionsLength, Extension, Name

LEMMA InitRequestRead == Init => RequestRead
  BY InputsAssumption DEF Init, RequestRead, Asked

-----------------------------------------------------------------------------
(* In every well-formed ClientHello with one compression method, whatever  *)
(* extensions are in front of or behind the name, find_markers_tls finds   *)
(* the name where it is, and none where there is none; and in every        *)
(* request without an earlier "Host:", find_markers_http does.             *)
THEOREM FindsTheNameAlways == Spec => []FindsTheName
  <1> DEFINE Read == Inside /\ HelloRead /\ RequestRead
  <1>1. Init => Read
    BY InitInside, InitHelloRead, InitRequestRead
  <1>2. Read /\ [Next]_vars => Read'
    BY InsideStep, HelloReadStep, RequestReadStep
  <1>3. Read => FindsTheName
    <2> SUFFICES ASSUME Read PROVE FindsTheName
      OBVIOUS
    <2>1. input.proto \in {"TLS", "HTTP"}
      BY PayloadLength DEF Inside, TypeOK
    <2>2. CASE input.proto = "TLS"
      <3>1. \A h \in Hellos : h.methods = 1 /\ bytes = Encoded[h] => ReadAs(h)
        BY <2>2 DEF HelloRead, Reading, Encoded
      <3>2. TrueMarkers = HelloNames
        BY <2>2 DEF TrueMarkers
      <3>3. \A names \in HelloNames :
              \E h \in Hellos : names = NameAt(h) /\ h.name # << >> /\ ReadAs(h)
        BY <3>1 DEF HelloNames
      <3>4. pc \in {"found", "cut"} => HelloNames \subseteq {markers}
        BY <3>3 DEF ReadAs
      <3>5. pc \in {"none", "undefined"} => HelloNames = {}
        BY <3>3 DEF ReadAs
      <3>6. pc \in {"found", "cut"} =>
              \A h \in Hellos : h.methods = 1 /\ h.name = << >> => bytes # Encoded[h]
        BY <3>1 DEF ReadAs
      <3> QED BY <3>2, <3>4, <3>5, <3>6 DEF FindsTheName
    <2>3. CASE input.proto = "HTTP"
      <3>1. TrueMarkers = RequestNames /\ pc # "undefined"
        BY <2>3 DEF TrueMarkers, Inside, Places
      <3>2. \A names \in RequestNames :
              \E r \in Requests : names = RequestNameAt(r) /\ Asked(r)
        <4> SUFFICES ASSUME NEW names \in RequestNames
                     PROVE  \E r \in Requests : names = RequestNameAt(r) /\ Asked(r)
          OBVIOUS
        <4>1. PICK r \in Requests : names = RequestNameAt(r) /\ bytes = EncodeRequest(r)
          BY DEF RequestNames
        <4>2. \A k \in Occurs(HOST_HEADER_NAME) : k >= RequestNameAt(r).hoststart - 6
          BY <4>1 DEF RequestNames
        <4>3. RequestNameAt(r).hoststart - 6 = HostLine(r)
          <5> DEFINE all == Len(EncodeRequest(r))
                     rest == Len(r.rest)
                     size == Len(r.name)
                     p == HostLine(r)
                     start == RequestNameAt(r).hoststart
          <5>1. start = all - rest - 2 - size
            BY DEF RequestNameAt
          <5>2. p \in Nat /\ size \in Nat /\ rest \in Nat /\ all = p + 6 + size + 2 + rest
            BY RequestHas
          <5> HIDE DEF all, rest, size, p, start
          <5>3. start - 6 = p
            BY <5>1, <5>2
          <5> QED BY <5>3 DEF start, p
        <4> QED BY <2>3, <4>1, <4>2, <4>3 DEF Asked
      <3>3. \A r \in Requests : Asked(r) =>
              /\ pc \in {"found", "cut"} => markers = RequestNameAt(r)
              /\ pc # "none"
        BY DEF RequestRead
      <3>4. pc \in {"found", "cut"} => RequestNames \subseteq {markers}
        BY <3>2, <3>3
      <3>5. pc \in {"none", "undefined"} => RequestNames = {}
        BY <3>1, <3>2, <3>3
      <3> QED BY <2>3, <3>1, <3>4, <3>5 DEF FindsTheName
    <2> QED BY <2>1, <2>2, <2>3
  <1> QED BY <1>1, <1>2, <1>3, PTL DEF Spec

-----------------------------------------------------------------------------
(* Positions *)

(* Reading up to three tokens is reading one after the other. *)
LEMMA ReadTokens ==
  ASSUME NEW tokens, Len(tokens) \in 1 .. 3
  PROVE  LET first == Scan(NoPosition, tokens[1])
             second == Scan(first, tokens[2])
             third == Scan(second, tokens[3])
             pos == IF Len(tokens) = 1 THEN first
                    ELSE IF Len(tokens) = 2 THEN second ELSE third
         IN  ParsePosition(tokens) =
               IF pos.op # "none" /\ pos.arg = << >> THEN Refused ELSE pos
  <1> DEFINE n == Len(tokens)
             first == Scan(NoPosition, tokens[1])
             second == Scan(first, tokens[2])
             third == Scan(second, tokens[3])
             Reads(f) ==
               f = [k \in 0 .. n |-> IF k = 0 THEN NoPosition ELSE Scan(f[k - 1], tokens[k])]
             read == CHOOSE f : Reads(f)
             pos == read[n]
             f0 == [k \in 0 .. n |-> IF k = 0 THEN NoPosition
                                     ELSE IF k = 1 THEN first
                                     ELSE IF k = 2 THEN second ELSE third]
  <1>1. ParsePosition(tokens) = IF pos.op # "none" /\ pos.arg = << >> THEN Refused ELSE pos
    BY DEF ParsePosition
  <1>2. Reads(f0)
    <2>1. \A k \in 0 .. n : f0[k] = IF k = 0 THEN NoPosition ELSE Scan(f0[k - 1], tokens[k])
      <3> TAKE k \in 0 .. n
      <3>1. CASE k = 0
        BY <3>1
      <3>2. CASE k = 1
        <4>1. f0[1] = first /\ f0[0] = NoPosition /\ k - 1 = 0
          BY <3>2
        <4> QED BY <3>2, <4>1
      <3>3. CASE k = 2
        <4>1. f0[2] = second /\ f0[1] = first /\ k - 1 = 1
          BY <3>3
        <4> QED BY <3>3, <4>1
      <3>4. CASE k = 3
        <4>1. f0[3] = third /\ f0[2] = second /\ k - 1 = 2
          BY <3>4
        <4> QED BY <3>4, <4>1
      <3> QED BY <3>1, <3>2, <3>3, <3>4
    <2> QED BY <2>1
  <1>3. Reads(read)
    <2> HIDE DEF Reads, f0
    <2> QED BY <1>2
  <1> HIDE DEF read
  <1>4. read[0] = NoPosition /\ read[1] = first
    <2>1. 0 \in 0 .. n /\ 1 \in 0 .. n /\ 1 # 0 /\ 1 - 1 = 0
      OBVIOUS
    <2> QED BY <1>3, <2>1
  <1> HIDE DEF first
  <1>5. n >= 2 => read[2] = second
    <2>1. n >= 2 => 2 \in 0 .. n /\ 2 # 0 /\ 2 - 1 = 1
      OBVIOUS
    <2> QED BY <1>3, <1>4, <2>1
  <1> HIDE DEF second
  <1>6. n >= 3 => read[3] = third
    <2>1. n >= 3 => 3 \in 0 .. n /\ 3 # 0 /\ 3 - 1 = 2
      OBVIOUS
    <2> QED BY <1>3, <1>5, <2>1
  <1> HIDE DEF third, Reads
  <1>7. pos = IF n = 1 THEN first ELSE IF n = 2 THEN second ELSE third
    <2>1. n = 1 \/ n = 2 \/ n = 3
      OBVIOUS
    <2> HIDE DEF n
    <2>2. CASE n = 1
      BY <1>4, <2>2
    <2>3. CASE n = 2
      BY <1>5, <2>3
    <2>4. CASE n = 3
      BY <1>6, <2>4
    <2> QED BY <2>1, <2>2, <2>3, <2>4
  <1> QED BY <1>1, <1>7 DEF third, second, first

(* What each kind of token adds to a position. *)
LEMMA ScanWord ==
  ASSUME NEW w
  PROVE  Scan(NoPosition, Word(w)) =
           [arg |-> <<w>>, op |-> "none", off |-> 0, last |-> "word"]
  <1> DEFINE p == NoPosition
             t == Word(w)
  <1>1. p = [arg |-> << >>, op |-> "none", off |-> 0, last |-> "sign"]
    BY DEF NoPosition
  <1>2. t.kind = "word" /\ t.val = w
    BY DEF Word
  <1>3. Append(p.arg, t.val) = <<w>>
    BY <1>1, <1>2
  <1> HIDE DEF p, t
  <1>4. Scan(p, t) = [p EXCEPT !.arg = Append(@, t.val), !.last = "word"]
    BY <1>1, <1>2 DEF Scan
  <1>5. [p EXCEPT !.arg = <<w>>, !.last = "word"] =
          [arg |-> <<w>>, op |-> "none", off |-> 0, last |-> "word"]
    <2>1. [p EXCEPT !.arg = <<w>>, !.last = "word"] =
            [[p EXCEPT !.arg = <<w>>] EXCEPT !.last = "word"]
      BY <1>1
    <2>2. [p EXCEPT !.arg = <<w>>] =
            [arg |-> <<w>>, op |-> "none", off |-> 0, last |-> "sign"]
      BY <1>1
    <2>3. [[arg |-> <<w>>, op |-> "none", off |-> 0, last |-> "sign"]
             EXCEPT !.last = "word"] =
            [arg |-> <<w>>, op |-> "none", off |-> 0, last |-> "word"]
      OBVIOUS
    <2> QED BY <2>1, <2>2, <2>3, Zenon
  <1> QED BY <1>3, <1>4, <1>5 DEF p, t

LEMMA ScanSign ==
  ASSUME NEW w, NEW pos, pos = [arg |-> w, op |-> "none", off |-> 0, last |-> "word"],
         NEW s \in {"+", "-"}
  PROVE  Scan(pos, Sign(s)) = [arg |-> w, op |-> s, off |-> 0, last |-> "sign"]
  <1> DEFINE t == Sign(s)
  <1>1. t.kind = "sign" /\ t.val = s
    BY DEF Sign
  <1> HIDE DEF t
  <1>2. Scan(pos, t) = [pos EXCEPT !.op = t.val, !.last = "sign"]
    BY <1>1 DEF Scan
  <1>3. [pos EXCEPT !.op = s, !.last = "sign"] =
          [arg |-> w, op |-> s, off |-> 0, last |-> "sign"]
    <2>1. [pos EXCEPT !.op = s, !.last = "sign"] =
            [[pos EXCEPT !.op = s] EXCEPT !.last = "sign"]
      OBVIOUS
    <2>2. [pos EXCEPT !.op = s] = [arg |-> w, op |-> s, off |-> 0, last |-> "word"]
      OBVIOUS
    <2>3. [[arg |-> w, op |-> s, off |-> 0, last |-> "word"] EXCEPT !.last = "sign"] =
            [arg |-> w, op |-> s, off |-> 0, last |-> "sign"]
      OBVIOUS
    <2> QED BY <2>1, <2>2, <2>3, Zenon
  <1> QED BY <1>1, <1>2, <1>3 DEF t

LEMMA ScanNumber ==
  ASSUME NEW w, NEW s, NEW pos, pos = [arg |-> w, op |-> s, off |-> 0, last |-> "sign"],
         NEW n \in 0 .. MaxInt
  PROVE  Scan(pos, Number(n)) = [arg |-> w, op |-> s, off |-> n, last |-> "number"]
  <1> DEFINE t == Number(n)
  <1>1. t.kind = "number" /\ t.val = n /\ n <= MaxInt
    BY SizesAssumption DEF Number
  <1> HIDE DEF t
  <1>2. Scan(pos, t) = [pos EXCEPT !.off = t.val, !.last = "number"]
    BY <1>1 DEF Scan
  <1>3. [pos EXCEPT !.off = n, !.last = "number"] =
          [arg |-> w, op |-> s, off |-> n, last |-> "number"]
    <2>1. [pos EXCEPT !.off = n, !.last = "number"] =
            [[pos EXCEPT !.off = n] EXCEPT !.last = "number"]
      OBVIOUS
    <2>2. [pos EXCEPT !.off = n] = [arg |-> w, op |-> s, off |-> n, last |-> "sign"]
      OBVIOUS
    <2>3. [[arg |-> w, op |-> s, off |-> n, last |-> "sign"] EXCEPT !.last = "number"] =
            [arg |-> w, op |-> s, off |-> n, last |-> "number"]
      OBVIOUS
    <2> QED BY <2>1, <2>2, <2>3, Zenon
  <1> QED BY <1>1, <1>2, <1>3 DEF t

(* A text that has a meaning is read as that. *)
IsRead(pos, m, n) ==
  /\ pos.off = n
  /\ \/ m.marker = "" /\ pos.arg = << >> /\ pos.op = "none" /\ m.shift = n
     \/ /\ m.marker # "" /\ pos.arg = <<m.marker>>
        /\ \/ pos.op = "none" /\ n = 0 /\ m.shift = 0
           \/ pos.op = "+" /\ m.shift = n
           \/ pos.op = "-" /\ m.shift = -n

LEMMA MeaningRead ==
  ASSUME NEW m \in Meanings
  PROVE  \E n \in 0 .. MaxInt : IsRead(ParsePosition(m.text), m, n)
  <1> DEFINE w == m.marker
             pos == ParsePosition(m.text)
             start == Scan(NoPosition, Word(w))
  <1>1. PICK n \in 0 .. MaxInt :
          \/ m.text = <<Number(n)>> /\ w = "" /\ m.shift = n
          \/ m.text = <<Word(w)>> /\ w # "" /\ m.shift = 0
          \/ m.text = <<Word(w), Sign("+"), Number(n)>> /\ w # "" /\ m.shift = n
          \/ m.text = <<Word(w), Sign("-"), Number(n)>> /\ w # "" /\ m.shift = -n
    BY MeaningsAssumption, Zenon
  <1>2. 0 \in 0 .. MaxInt
    BY SizesAssumption
  <1>3. start = [arg |-> <<w>>, op |-> "none", off |-> 0, last |-> "word"] /\ <<w>> # << >>
    BY ScanWord
  <1>4. CASE m.text = <<Number(n)>> /\ w = "" /\ m.shift = n
    <2> DEFINE t == <<Number(n)>>
    <2>1. Len(t) = 1 /\ t[1] = Number(n)
      OBVIOUS
    <2>2. Scan(NoPosition, Number(n)) =
            [arg |-> << >>, op |-> "none", off |-> n, last |-> "number"]
      BY ScanNumber DEF NoPosition
    <2> HIDE DEF t
    <2>3. ParsePosition(t) = [arg |-> << >>, op |-> "none", off |-> n, last |-> "number"]
      BY <2>1, <2>2, ReadTokens
    <2>4. pos = [arg |-> << >>, op |-> "none", off |-> n, last |-> "number"]
      BY <1>4, <2>3 DEF t
    <2> HIDE DEF pos
    <2>5. IsRead(pos, m, n)
      BY <1>4, <2>4 DEF IsRead
    <2> QED BY <2>5 DEF pos
  <1>5. CASE m.text = <<Word(w)>> /\ w # "" /\ m.shift = 0
    <2> DEFINE t == <<Word(w)>>
    <2>1. Len(t) = 1 /\ t[1] = Word(w)
      OBVIOUS
    <2> HIDE DEF t
    <2>2. ParsePosition(t) = start
      BY <1>3, <2>1, ReadTokens
    <2>3. pos = start
      BY <1>5, <2>2 DEF t
    <2> HIDE DEF pos, start
    <2>4. IsRead(pos, m, 0)
      BY <1>3, <1>5, <2>3 DEF IsRead
    <2> QED BY <1>2, <2>4 DEF pos
  <1>6. ASSUME NEW s \in {"+", "-"}, m.text = <<Word(w), Sign(s), Number(n)>>
        PROVE  pos = [arg |-> <<w>>, op |-> s, off |-> n, last |-> "number"]
    <2> DEFINE t == <<Word(w), Sign(s), Number(n)>>
    <2>1. Len(t) = 3 /\ t[1] = Word(w) /\ t[2] = Sign(s) /\ t[3] = Number(n)
      OBVIOUS
    <2> HIDE DEF t
    <2>2. Scan(Scan(start, Sign(s)), Number(n)) =
            [arg |-> <<w>>, op |-> s, off |-> n, last |-> "number"]
      <3> HIDE DEF start
      <3>1. Scan(start, Sign(s)) = [arg |-> <<w>>, op |-> s, off |-> 0, last |-> "sign"]
        BY <1>3, ScanSign
      <3> QED BY <3>1, ScanNumber
    <2>3. ParsePosition(t) = [arg |-> <<w>>, op |-> s, off |-> n, last |-> "number"]
      BY <1>3, <2>1, <2>2, ReadTokens
    <2> QED BY <1>6, <2>3 DEF t
  <1> HIDE DEF pos
  <1>7. CASE m.text = <<Word(w), Sign("+"), Number(n)>> /\ w # "" /\ m.shift = n
    <2>1. pos = [arg |-> <<w>>, op |-> "+", off |-> n, last |-> "number"]
      BY <1>6, <1>7
    <2>2. IsRead(pos, m, n)
      BY <1>7, <2>1 DEF IsRead
    <2> QED BY <2>2 DEF pos
  <1>8. CASE m.text = <<Word(w), Sign("-"), Number(n)>> /\ w # "" /\ m.shift = -n
    <2>1. pos = [arg |-> <<w>>, op |-> "-", off |-> n, last |-> "number"]
      BY <1>6, <1>8
    <2>2. IsRead(pos, m, n)
      BY <1>8, <2>1 DEF IsRead
    <2> QED BY <2>2 DEF pos
  <1> QED BY <1>1, <1>4, <1>5, <1>7, <1>8

(* The places of the name are numbers of size_t, and none is called "".    *)
Fitting(names) ==
  \A m \in DOMAIN names : m # "" /\ names[m] \in Nat /\ names[m] < SizeSpace

LEMMA NamesFit ==
  ASSUME Inside, NEW names \in TrueMarkers
  PROVE  Fitting(names)
  <1>1. input \in Inputs
    BY DEF Inside, TypeOK
  <1>2. /\ input.proto \in {"TLS", "HTTP"} /\ Len(bytes) \in Nat /\ Len(bytes) < SizeSpace
        /\ SizeSpace \in Nat
    BY <1>1, PayloadLength, SizesAssumption
  <1>3. ASSUME NEW start \in Nat, NEW size \in Nat, start + size <= Len(bytes)
        PROVE  /\ start < SizeSpace /\ start + size < SizeSpace
               /\ start + size \div 2 \in Nat /\ start + size \div 2 < SizeSpace
    <2>1. size \div 2 \in Nat /\ size \div 2 <= size
      BY Half
    <2> QED BY <1>2, <1>3, <2>1
  <1>4. CASE input.proto = "TLS"
    <2>1. PICK h \in Hellos : /\ names = NameAt(h) /\ h.methods = 1 /\ h.name # << >>
                              /\ bytes = Encode(h)
      BY <1>4 DEF TrueMarkers, HelloNames, Encoded
    <2> DEFINE p == NamePlace(h)
               size == Len(h.name[1])
    <2>2. p \in Nat /\ size \in Nat /\ p + 9 + size <= Len(bytes)
      BY <2>1, HelloParts, HelloName
    <2>3. p = 5 + Len(Fixed(h)) + 2 + Len(Exts(h.before))
      BY <2>1, HelloHas DEF NamePlace
    <2>4. names = [sniext |-> p, hoststart |-> p + 9, hostmid |-> p + 9 + size \div 2,
                   hostend |-> p + 9 + size]
      BY <2>1, <2>3 DEF NameAt
    <2> HIDE DEF p, size
    <2>5. p + 9 \in Nat /\ p + 9 + size \in Nat /\ p < SizeSpace
      BY <1>2, <2>2
    <2>6. /\ p + 9 < SizeSpace /\ p + 9 + size < SizeSpace
          /\ p + 9 + size \div 2 \in Nat /\ p + 9 + size \div 2 < SizeSpace
      BY <1>3, <2>2, <2>5
    <2> HIDE DEF p
    <2>7. DOMAIN names = {"sniext", "hoststart", "hostmid", "hostend"}
      BY <2>4
    <2>8. /\ names["sniext"] = p /\ names["hoststart"] = p + 9
          /\ names["hostmid"] = p + 9 + size \div 2 /\ names["hostend"] = p + 9 + size
      BY <2>4
    <2> QED BY <2>2, <2>5, <2>6, <2>7, <2>8 DEF Fitting
  <1>5. CASE input.proto = "HTTP"
    <2>1. PICK r \in Requests : names = RequestNameAt(r) /\ bytes = EncodeRequest(r)
      BY <1>5 DEF TrueMarkers, RequestNames
    <2> DEFINE start == Len(bytes) - Len(r.rest) - 2 - Len(r.name)
               size == Len(r.name)
    <2>2. names = [hoststart |-> start, hostmid |-> start + size \div 2,
                   hostend |-> start + size]
      BY <2>1 DEF RequestNameAt
    <2>3. start \in Nat /\ size \in Nat /\ start + size <= Len(bytes)
      <3>1. /\ HostLine(r) \in Nat /\ size \in Nat /\ Len(r.rest) \in Nat
            /\ Len(bytes) = HostLine(r) + 6 + size + 2 + Len(r.rest)
        BY <2>1, RequestHas
      <3>2. start = HostLine(r) + 6 /\ start + size <= Len(bytes)
        BY <3>1, SMTT(30)
      <3> QED BY <3>1, <3>2
    <2> HIDE DEF start, size
    <2>4. /\ start < SizeSpace /\ start + size < SizeSpace /\ start + size \in Nat
          /\ start + size \div 2 \in Nat /\ start + size \div 2 < SizeSpace
      BY <1>3, <2>3
    <2>5. DOMAIN names = {"hoststart", "hostmid", "hostend"}
      BY <2>2
    <2>6. /\ names["hoststart"] = start /\ names["hostmid"] = start + size \div 2
          /\ names["hostend"] = start + size
      BY <2>2
    <2> QED BY <2>3, <2>4, <2>5, <2>6 DEF Fitting
  <1> QED BY <1>2, <1>4, <1>5

LEMMA Numbers ==
  SizeSpace \in Nat /\ SizeSpace > 0 /\ \A n \in 0 .. MaxInt : n \in Nat
  BY SizesAssumption

LEMMA Singles ==
  \A a, b : <<a>> # << >> /\ (<<a>> = <<b>> => a = b)
  <1>1. \A a : <<a>> # << >> /\ <<a>>[1] = a
    OBVIOUS
  <1> QED BY <1>1, Zenon

(* Among markers that fit, a position with a meaning cuts there. *)
LEMMA CutsThere ==
  ASSUME NEW names, NEW m \in Meanings, Fitting(names)
  PROVE  SplitPos(names, ParsePosition(m.text)) =
           IF m.marker \in DOMAIN names
           THEN (names[m.marker] + m.shift) % SizeSpace
           ELSE Distance(m)
  <1> DEFINE pos == ParsePosition(m.text)
             w == m.marker
  <1>1. PICK n \in 0 .. MaxInt : IsRead(pos, m, n)
    BY MeaningRead
  <1> HIDE DEF pos
  <1>2. /\ pos.off = n
        /\ \/ w = "" /\ pos.arg = << >> /\ pos.op = "none" /\ m.shift = n
           \/ /\ w # "" /\ pos.arg = <<w>>
              /\ \/ pos.op = "none" /\ n = 0 /\ m.shift = 0
                 \/ pos.op = "+" /\ m.shift = n
                 \/ pos.op = "-" /\ m.shift = -n
    BY <1>1 DEF IsRead
  <1>3. n \in Nat /\ SizeSpace \in Nat /\ SizeSpace > 0
    BY Numbers, Zenon
  <1>4. CASE w \in DOMAIN names
    <2> DEFINE start == names[w]
    <2>1. start \in Nat /\ start < SizeSpace /\ w # "" /\ pos.arg = <<w>>
      BY <1>2, <1>4 DEF Fitting
    <2>2. SplitPos(names, pos) = DoOperation(start, pos)
      <3>1. \A k \in DOMAIN names : pos.arg = <<k>> <=> k = w
        BY <2>1, Singles, Zenon
      <3>2. (CHOOSE k \in DOMAIN names : pos.arg = <<k>>) = w
        BY <1>4, <3>1
      <3> QED BY <1>4, <3>1, <3>2 DEF SplitPos
    <2> HIDE DEF start
    <2>3. DoOperation(start, pos) = (start + m.shift) % SizeSpace
      <3>1. CASE pos.op = "none" /\ n = 0 /\ m.shift = 0
        <4>1. start % SizeSpace = start
          BY <1>3, <2>1, Fits, Zenon
        <4>2. start + 0 = start
          <5>1. \A k \in Nat : k + 0 = k
            OBVIOUS
          <5> QED BY <2>1, <5>1, Zenon
        <4> QED BY <3>1, <4>1, <4>2 DEF DoOperation
      <3>2. CASE pos.op = "+" /\ m.shift = n
        BY <1>2, <3>2 DEF DoOperation
      <3>3. CASE pos.op = "-" /\ m.shift = -n
        <4>1. start + (-n) = start - n
          BY <1>3, <2>1
        <4> QED BY <1>2, <3>3, <4>1 DEF DoOperation
      <3> QED BY <1>2, <2>1, <3>1, <3>2, <3>3
    <2> QED BY <1>4, <2>2, <2>3 DEF start, pos
  <1>5. CASE w \notin DOMAIN names
    <2>1. \A k \in DOMAIN names : pos.arg # <<k>>
      BY <1>2, <1>5, Singles, Zenon
    <2>2. SplitPos(names, pos) = n
      BY <1>2, <2>1 DEF SplitPos
    <2>3. Distance(m) = n
      <3>1. /\ ~(n < 0) /\ ~(0 < 0)
            /\ (IF -n < 0 THEN -(-n) ELSE -n) = n
        BY <1>3
      <3>2. m.shift = n \/ m.shift = -n \/ (n = 0 /\ m.shift = 0)
        BY <1>2
      <3> QED BY <3>1, <3>2 DEF Distance
    <2> QED BY <1>5, <2>2, <2>3 DEF pos
  <1> QED BY <1>4, <1>5

(* The cut is the position's, among the markers that were found. *)
CutRead == pc = "cut" => cut = SplitPos(markers, ParsePosition(text))

(* Every position the configuration can name, of a marker, with a number   *)
(* added or taken away, or a bare number, cuts every well-formed payload   *)
(* where it says (parse_position, split_tls and split_http together with   *)
(* find_markers).                                                          *)
THEOREM CutsWhereItSaysAlways == Spec => []CutsWhereItSays
  <1>1. Init => CutRead
    BY InputsAssumption DEF Init, CutRead
  <1>2. CutRead /\ [Next]_vars => CutRead'
    <2> SUFFICES ASSUME CutRead, [Next]_vars PROVE CutRead'
      OBVIOUS
    <2>1. CASE Resolve
      BY <2>1 DEF Resolve, CutRead
    <2>2. CASE Parse
      <3>1. pc' # "cut"
        BY <2>2 DEF Parse, Header, Hello, SessionId, CipherSuites, ExtensionsLength,
                    Extension, Name, Request, Skip, NotFound, Undefined
      <3> QED BY <3>1 DEF CutRead
    <2>3. CASE UNCHANGED vars
      BY <2>3 DEF CutRead, vars
    <2> QED BY <2>1, <2>2, <2>3 DEF Next
  <1>3. Inside /\ FindsTheName /\ CutRead => CutsWhereItSays
    <2> SUFFICES ASSUME Inside, FindsTheName, CutRead, pc = "cut",
                        NEW names \in TrueMarkers, NEW m \in Meanings, text = m.text
                 PROVE  cut = IF m.marker \in DOMAIN names
                              THEN (names[m.marker] + m.shift) % SizeSpace
                              ELSE Distance(m)
      BY DEF CutsWhereItSays
    <2>1. names = markers
      BY DEF FindsTheName
    <2>2. cut = SplitPos(names, ParsePosition(m.text))
      BY <2>1 DEF CutRead
    <2> QED BY <2>2, NamesFit, CutsThere
  <1> QED BY <1>1, <1>2, <1>3, InsideInvariant, FindsTheNameAlways, PTL DEF Spec
=============================================================================
