--------------------------- MODULE ClassifierProofs ---------------------------
(***************************************************************************)
(* Proofs about ClassifierStream, for every profile, every alphabet of     *)
(* bytes and streams of any length.                                        *)
(***************************************************************************)
EXTENDS ClassifierStream, SequenceTheorems, TLAPS

-----------------------------------------------------------------------------
(* One more byte *)

LEMMA OneMore ==
  ASSUME NEW p \in Seq(Alphabet), NEW b \in Alphabet
  PROVE  /\ Append(p, b) \in Seq(Alphabet)
         /\ Len(Append(p, b)) = Len(p) + 1 /\ Len(p) \in Nat
         /\ \A i \in 1 .. Len(p) : Append(p, b)[i] = p[i]
  BY AppendProperties, LenProperties

(* A record header keeps what it says, and the record only gets longer.    *)
LEMMA TlsGoesOn ==
  ASSUME NEW p \in Seq(Alphabet), NEW b \in Alphabet,
         TlsHandshakeClassify(p) # "unexpected"
  PROVE  /\ TlsHandshakeClassify(Append(p, b)) # "unexpected"
         /\ TlsHandshakeClassify(p) = "DONE"
              => TlsHandshakeClassify(Append(p, b)) = "DONE"
  <1> DEFINE q == Append(p, b)
  <1>1. /\ q \in Seq(Alphabet) /\ Len(q) = Len(p) + 1 /\ Len(p) \in Nat
        /\ \A i \in 1 .. Len(p) : q[i] = p[i]
    BY OneMore
  <1>2. ~ (Len(p) < TLS_HDR_LEN)
    BY DEF TlsHandshakeClassify
  <1>3. q[1] = p[1] /\ q[2] = p[2] /\ q[3] = p[3] /\ q[4] = p[4] /\ q[5] = p[5]
    BY <1>1, <1>2 DEF TLS_HDR_LEN
  <1>4. p[4] \in Nat /\ p[5] \in Nat
    <2>0. \A i \in 1 .. Len(p) : p[i] \in Alphabet
      OBVIOUS
    <2>1. p[4] \in Alphabet /\ p[5] \in Alphabet
      BY <1>1, <1>2, <2>0 DEF TLS_HDR_LEN
    <2>2. \A x \in 0 .. HTTP_TAG : x \in Nat
      BY DEF HTTP_TAG
    <2> QED BY <2>1, <2>2, AlphabetAssumption, Zenon
  <1>5. TlsLen(q) = TlsLen(p) /\ TlsLen(p) \in Nat
    BY <1>3, <1>4 DEF TlsLen
  <1>6. ~Fragmented(p) => ~Fragmented(q)
    BY <1>1, <1>5 DEF Fragmented, TLS_HDR_LEN
  <1> HIDE DEF q
  <1>7. TlsHandshakeClassify(q) = IF Fragmented(q) THEN "REASSEMBLING" ELSE "DONE"
    BY <1>1, <1>2, <1>3 DEF TlsHandshakeClassify, TLS_HDR_LEN
  <1>8. TlsHandshakeClassify(p) = IF Fragmented(p) THEN "REASSEMBLING" ELSE "DONE"
    BY DEF TlsHandshakeClassify
  <1>9. /\ TlsHandshakeClassify(q) # "unexpected"
        /\ TlsHandshakeClassify(p) = "DONE" => TlsHandshakeClassify(q) = "DONE"
    BY <1>6, <1>7, <1>8
  <1> QED BY <1>9 DEF q

(* A line that has ended stays ended, and a new one ends behind it. *)
LEMMA HttpGoesOn ==
  ASSUME NEW p \in Seq(Alphabet), NEW b \in Alphabet,
         HttpClassify(p) # "unexpected"
  PROVE  /\ HttpClassify(Append(p, b)) # "unexpected"
         /\ HttpClassify(p) = "DONE" => HttpClassify(Append(p, b)) = "DONE"
  <1> DEFINE q == Append(p, b)
             Named(r) == \E i \in 1 .. Len(r) :
                           r[i] = HTTP_TAG /\ \A e \in LineEnds(r) : i < e
             Blank(r) == \E e \in LineEnds(r) : e + 2 \in LineEnds(r)
  <1>1. /\ Len(q) = Len(p) + 1 /\ Len(p) \in Nat
        /\ \A i \in 1 .. Len(p) : q[i] = p[i]
    BY OneMore
  <1>2. LineEnds(p) # {} /\ Named(p)
    BY DEF HttpClassify
  <1> HIDE DEF q
  <1>3. LineEnds(p) \subseteq LineEnds(q)
    BY <1>1 DEF LineEnds
  <1>4. \A e \in LineEnds(q) : e \in LineEnds(p) \/ e = Len(p)
    BY <1>1 DEF LineEnds
  <1>5. Named(q)
    <2>1. PICK i \in 1 .. Len(p) : p[i] = HTTP_TAG /\ \A e \in LineEnds(p) : i < e
      BY <1>2
    <2>2. PICK e \in LineEnds(p) : TRUE
      BY <1>2
    <2>3. i < e /\ e \in 1 .. Len(p) - 1
      BY <2>1, <2>2 DEF LineEnds
    <2>4. i \in 1 .. Len(q) /\ q[i] = HTTP_TAG /\ i < Len(p)
      BY <1>1, <2>1, <2>3
    <2>5. \A f \in LineEnds(q) : i < f
      BY <1>4, <2>1, <2>4
    <2> QED BY <2>4, <2>5
  <1>6. Blank(p) => Blank(q)
    BY <1>3
  <1>7. HttpClassify(q) = IF Blank(q) THEN "DONE" ELSE "REASSEMBLING"
    BY <1>2, <1>3, <1>5 DEF HttpClassify
  <1>8. HttpClassify(p) = IF Blank(p) THEN "DONE" ELSE "REASSEMBLING"
    BY <1>2 DEF HttpClassify
  <1>9. /\ HttpClassify(q) # "unexpected"
        /\ HttpClassify(p) = "DONE" => HttpClassify(q) = "DONE"
    BY <1>6, <1>7, <1>8
  <1> QED BY <1>9 DEF q

LEMMA ClassifierGoesOn ==
  ASSUME NEW p \in Seq(Alphabet), NEW b \in Alphabet, NEW name
  PROVE  /\ PayloadClassify(name, p) \in {"REASSEMBLING", "DONE"}
              => PayloadClassify(name, Append(p, b)) \in {"REASSEMBLING", "DONE"}
         /\ PayloadClassify(name, p) = "DONE"
              => PayloadClassify(name, Append(p, b)) = "DONE"
  <1>1. \A r : TlsHandshakeClassify(r) \in {"unexpected", "REASSEMBLING", "DONE"}
    BY DEF TlsHandshakeClassify
  <1>2. \A r : HttpClassify(r) \in {"unexpected", "REASSEMBLING", "DONE"}
    BY DEF HttpClassify
  <1>3. CASE name = "tls_handshake_classifier"
    BY <1>1, <1>3, TlsGoesOn DEF PayloadClassify
  <1>4. CASE name # "tls_handshake_classifier"
    BY <1>2, <1>4, HttpGoesOn DEF PayloadClassify
  <1> QED BY <1>3, <1>4

-----------------------------------------------------------------------------
(* The chain *)

LEMMA ChainAnswers ==
  ASSUME NEW p
  PROVE  /\ Classify(Names, p).res \in ClassifyResults
         /\ Classify(Names, p).res = "DONE"
              <=> \E i \in DOMAIN Names : PayloadClassify(Names[i], p) = "DONE"
         /\ Classify(Names, p).res = "ERROR"
              <=> ~ \E i \in DOMAIN Names :
                      PayloadClassify(Names[i], p) \in {"REASSEMBLING", "DONE"}
  BY DEF Classify, ClassifyResults

LEMMA ChainGoesOn ==
  ASSUME NEW p \in Seq(Alphabet), NEW b \in Alphabet
  PROVE  /\ Classify(Names, p).res # "ERROR"
              => Classify(Names, Append(p, b)).res # "ERROR"
         /\ Classify(Names, p).res = "DONE"
              => Classify(Names, Append(p, b)).res = "DONE"
  BY ChainAnswers, ClassifierGoesOn

-----------------------------------------------------------------------------
(* The invariant: the answer is the one about the payload so far.          *)
Answered ==
  /\ payload \in Seq(Alphabet)
  /\ payload # << >> => answer = Classify(Names, payload)
  /\ payload = << >> => answer.res = "REASSEMBLING"

LEMMA AnsweredInit == Init => Answered
  BY DEF Init, Answered

LEMMA AnsweredStep == Answered /\ [Next]_vars => Answered'
  <1> SUFFICES ASSUME Answered, [Next]_vars PROVE Answered'
    OBVIOUS
  <1>1. ASSUME NEW b \in Alphabet, Feed(b) PROVE Answered'
    <2>1. payload' = Append(payload, b) /\ answer' = Classify(Names, payload')
      BY <1>1 DEF Feed
    <2>2. /\ Append(payload, b) \in Seq(Alphabet)
          /\ Len(Append(payload, b)) = Len(payload) + 1 /\ Len(payload) \in Nat
      BY OneMore DEF Answered
    <2>3. payload' \in Seq(Alphabet) /\ payload' # << >>
      BY <2>1, <2>2
    <2> QED BY <2>1, <2>3 DEF Answered
  <1>2. CASE UNCHANGED vars
    BY <1>2 DEF Answered, vars
  <1> QED BY <1>1, <1>2 DEF Next

(* For every chain of classifiers and every stream: a payload the chain    *)
(* wants more of is never rejected once more of it has come, so the held   *)
(* packets of an in-order stream never meet cb_loop's ERROR branch.        *)
THEOREM HoldingNeverFailsAlways == Spec => HoldingNeverFails
  <1>1. Answered /\ [Next]_vars
          => [(payload # << >> /\ answer.res = "REASSEMBLING")
                => answer'.res # "ERROR"]_vars
    <2> SUFFICES ASSUME Answered, NEW b \in Alphabet, Feed(b),
                        payload # << >>, answer.res = "REASSEMBLING"
                 PROVE  answer'.res # "ERROR"
      BY DEF Next
    <2>1. payload' = Append(payload, b) /\ answer' = Classify(Names, payload')
      BY DEF Feed
    <2>2. payload \in Seq(Alphabet) /\ answer = Classify(Names, payload)
      BY DEF Answered
    <2>3. Classify(Names, payload).res # "ERROR"
      BY <2>2
    <2> QED BY <2>1, <2>2, <2>3, ChainGoesOn
  <1> QED BY <1>1, AnsweredInit, AnsweredStep, PTL DEF Spec, HoldingNeverFails

(* And a payload the chain has recognised it recognises with whatever      *)
(* follows, so how the sender cut the stream behind it makes no difference.*)
THEOREM DoneIsStableAlways == Spec => DoneIsStable
  <1>1. Answered /\ [Next]_vars
          => [answer.res = "DONE" => answer'.res = "DONE"]_vars
    <2> SUFFICES ASSUME Answered, NEW b \in Alphabet, Feed(b), answer.res = "DONE"
                 PROVE  answer'.res = "DONE"
      BY DEF Next
    <2>1. payload' = Append(payload, b) /\ answer' = Classify(Names, payload')
      BY DEF Feed
    <2>2. payload \in Seq(Alphabet) /\ answer = Classify(Names, payload)
      BY DEF Answered
    <2> QED BY <2>1, <2>2, ChainGoesOn
  <1> QED BY <1>1, AnsweredInit, AnsweredStep, PTL DEF Spec, DoneIsStable
=============================================================================
