-------------------------- MODULE DispatcherProofs --------------------------
(***************************************************************************)
(* Proofs about Dispatcher, for every set of connections, profiles, packets*)
(* and queue lengths.                                                      *)
(***************************************************************************)
EXTENDS DispatcherProperties, ConnectionLemmas, FiniteSetTheorems, TLAPS

-----------------------------------------------------------------------------
(* Lemmas about the operators *)

LEMMA ParseMssOptType ==
  ASSUME NEW opts \in Seq(Options)
  PROVE  ParseMssOpt(opts) \in Nat \cup {NoAnswer}
<1> DEFINE answers == {i \in DOMAIN opts : Stops(opts, i) /\ opts[i].kind = "MSS"}
<1>1. ASSUME answers # {} PROVE opts[CHOOSE i \in answers : TRUE].val \in Nat
  <2>1. (CHOOSE i \in answers : TRUE) \in DOMAIN opts
    BY <1>1
  <2>2. \A i \in DOMAIN opts : opts[i].val \in Nat
    <3>1. \A i \in DOMAIN opts : opts[i] \in Options
      OBVIOUS
    <3>2. \A o \in Options : o.val \in Nat
      BY DEF Options
    <3>3. QED BY <3>1, <3>2
  <2>3. QED BY <2>1, <2>2
<1>2. QED BY <1>1 DEF ParseMssOpt

LEMMA ProgressFacts ==
  /\ Progress["UNKNOWN"] = 0 /\ Progress["SYN"] = 1 /\ Progress["ESTAB"] = 2
  /\ Progress["FIN"] = 3 /\ Progress["CLOSED"] = 4
BY DEF Progress, TcpStates

(* Neither direction's packets change what is held or decided, and the     *)
(* state does not go back.                                                 *)
LEMMA TrackTcpFacts ==
  ASSUME NEW c \in Connections, NEW p \in Packets
  PROVE  /\ TrackTcp(c, p) \in Connections
         /\ TrackTcp(c, p).segs = c.segs
         /\ TrackTcp(c, p).done = c.done
         /\ TrackTcp(c, p).l7 = c.l7
         /\ Progress[c.state] <= Progress[TrackTcp(c, p).state]
<1> USE SeqSpaceAssumption, PacketsAssumption
<1> DEFINE Keeps(d) == /\ d \in Connections
                       /\ d.segs = c.segs /\ d.done = c.done /\ d.l7 = c.l7
                       /\ Progress[c.state] <= Progress[d.state]
           c1 == LearnMss(c, p)
           c2 == Handshake(c1, p)
           c3 == Finish(c2, p)
           c4 == Reset(c3, p)
<1>0. \A s \in TcpStates : Progress[s] \in 0 .. 4
  BY ProgressFacts DEF TcpStates
<1>a. ASSUME NEW d \in Connections, NEW e \in Connections, Keeps(d),
             e.segs = d.segs, e.done = d.done, e.l7 = d.l7,
             Progress[d.state] <= Progress[e.state]
      PROVE  Keeps(e)
  <2>1. {c.state, d.state, e.state} \subseteq TcpStates
    BY DEF Connections
  <2>2. QED BY <1>0, <1>a, <2>1
<1>1. Keeps(c1)
  <2>1. ParseMssOpt(p.opts) # NoAnswer => ParseMssOpt(p.opts) \in Nat
    BY ParseMssOptType
  <2>2. /\ c1 \in Connections /\ c1.state = c.state
        /\ c1.segs = c.segs /\ c1.done = c.done /\ c1.l7 = c.l7
    BY <2>1 DEF LearnMss, Connections
  <2>3. Progress[c.state] <= Progress[c1.state]
    <3>1. c.state \in TcpStates
      BY DEF Connections
    <3>2. QED BY <1>0, <2>2, <3>1
  <2>4. QED BY <2>2, <2>3
<1> HIDE DEF c1
<1>2. Keeps(c2)
  <2>1. (p.seq + 1) % SeqSpace \in SeqNums /\ 0 \in SeqNums
    BY DEF SeqNums
  <2>2. /\ c2 \in Connections
        /\ c2.segs = c1.segs /\ c2.done = c1.done /\ c2.l7 = c1.l7
    BY <1>1, <2>1 DEF Handshake, NextSeq, Connections, TcpStates
  <2>3. \/ c2.state = c1.state
        \/ c1.state = "UNKNOWN" /\ c2.state \in {"SYN", "ESTAB"}
        \/ c1.state = "SYN" /\ c2.state = "ESTAB"
    BY <1>1 DEF Handshake, Connections
  <2>4. c1.state \in TcpStates
    BY <1>1 DEF Connections
  <2>5. Progress[c1.state] <= Progress[c2.state]
    BY <1>0, <2>3, <2>4, ProgressFacts
  <2>6. QED BY <1>1, <1>a, <2>2, <2>5
<1> HIDE DEF c2
<1>3. Keeps(c3)
  <2>1. /\ c3 \in Connections
        /\ c3.segs = c2.segs /\ c3.done = c2.done /\ c3.l7 = c2.l7
        /\ c3.state = c2.state \/ (c2.state = "ESTAB" /\ c3.state = "FIN")
    BY <1>2 DEF Finish, Connections, TcpStates
  <2>2. c2.state \in TcpStates
    BY <1>2 DEF Connections
  <2>3. Progress[c2.state] <= Progress[c3.state]
    BY <1>0, <2>1, <2>2, ProgressFacts
  <2>4. QED BY <1>2, <1>a, <2>1, <2>3
<1> HIDE DEF c3
<1>4. Keeps(c4)
  <2>1. /\ c4 \in Connections
        /\ c4.segs = c3.segs /\ c4.done = c3.done /\ c4.l7 = c3.l7
        /\ c4.state = c3.state \/ c4.state = "CLOSED"
    BY <1>3 DEF Reset, Connections, TcpStates
  <2>2. c3.state \in TcpStates
    BY <1>3 DEF Connections
  <2>3. Progress[c3.state] <= Progress[c4.state]
    BY <1>0, <2>1, <2>2, ProgressFacts
  <2>4. QED BY <1>3, <1>a, <2>1, <2>3
<1>5. QED BY <1>4 DEF TrackTcp, c3, c2, c1

LEMMA TrackFacts ==
  ASSUME NEW proto, NEW c \in Connections, NEW p \in Packets
  PROVE  /\ Track(proto, c, p) \in Connections
         /\ Track(proto, c, p).segs = c.segs
         /\ Track(proto, c, p).done = c.done
         /\ Track(proto, c, p).l7 = c.l7
         /\ Progress[c.state] <= Progress[Track(proto, c, p).state]
<1> DEFINE d == IF proto = "TCP" THEN TrackTcp(c, p) ELSE c
<1>0. Progress[c.state] <= Progress[c.state]
  BY ProgressFacts DEF Connections, TcpStates
<1>1. /\ d \in Connections /\ d.segs = c.segs /\ d.done = c.done /\ d.l7 = c.l7
      /\ Progress[c.state] <= Progress[d.state]
  BY <1>0, TrackTcpFacts
<1>2. 0 \in Int
  OBVIOUS
<1>3. Track(proto, c, p) = [d EXCEPT !.age = 0]
  BY DEF Track
<1> HIDE DEF d
<1>4. QED BY <1>1, <1>2, <1>3 DEF Connections

LEMMA DecideFacts ==
  ASSUME NEW c \in Connections, NEW proto
  PROVE  /\ Decide(c, proto).segs = << >>
         /\ Decide(c, proto).done
         /\ proto \in L7Protos => Decide(c, proto) \in Connections
<1>1. << >> \in Seq(Segments)
  OBVIOUS
<1>2. QED BY <1>1 DEF Decide, Connections

LEMMA ClassifyType ==
  ASSUME NEW names, NEW payload
  PROVE  Classify(names, payload).proto \in L7Protos
BY DEF Classify, Protocol, L7Protos

(* No two positions of a list of segments hold the same packet. *)
Distinct(segs) ==
  \A i, j \in DOMAIN segs : segs[i].id = segs[j].id => i = j

LEMMA ShuffleFacts ==
  ASSUME NEW segs \in Seq(Segments), NEW new \in Shuffles(segs)
  PROVE  /\ new \in Seq(Segments)
         /\ Len(new) = Len(segs)
         /\ IdsOf(new) = IdsOf(segs)
         /\ Distinct(segs) => Distinct(new)
<1>1. PICK f \in Bijection(DOMAIN segs, DOMAIN segs) :
        new = [i \in DOMAIN segs |-> segs[f[i]]]
  BY DEF Shuffles
<1>2. /\ f \in [DOMAIN segs -> DOMAIN segs]
      /\ \A i, j \in DOMAIN segs : f[i] = f[j] => i = j
      /\ \A j \in DOMAIN segs : \E i \in DOMAIN segs : f[i] = j
  BY DEF Bijection, Injection, Surjection, IsInjective
<1>3. new \in [1 .. Len(segs) -> Segments] /\ DOMAIN new = DOMAIN segs
  BY <1>1, <1>2
<1>4. new \in Seq(Segments) /\ Len(new) = Len(segs)
  BY <1>3
<1>5. IdsOf(new) = IdsOf(segs)
  BY <1>1, <1>2, <1>3 DEF IdsOf
<1>6. Distinct(segs) => Distinct(new)
  BY <1>1, <1>2, <1>3 DEF Distinct
<1>7. QED BY <1>4, <1>5, <1>6

(* What reasm_insert may leave: the list as it was, or the list and the new*)
(* packet; never an empty list, and never a packet twice.                  *)
LEMMA InsertFacts ==
  ASSUME NEW segs \in Seq(Segments), NEW seg \in Segments,
         NEW new \in InsertOutcomes(segs, seg)
  PROVE  /\ new \in Seq(Segments)
         /\ new # << >>
         /\ new = segs \/ IdsOf(new) = IdsOf(segs) \cup {seg.id}
         /\ Distinct(segs) /\ seg.id \notin IdsOf(segs) => Distinct(new)
<1> DEFINE grown == Append(segs, seg)
<1>1. /\ grown \in Seq(Segments)
      /\ Len(grown) = Len(segs) + 1
      /\ \A i \in DOMAIN segs : grown[i] = segs[i]
      /\ grown[Len(segs) + 1] = seg
      /\ DOMAIN grown = DOMAIN segs \cup {Len(segs) + 1}
  OBVIOUS
<1> HIDE DEF grown
<1>2. IdsOf(grown) = IdsOf(segs) \cup {seg.id}
  BY <1>1 DEF IdsOf
<1>3. Distinct(segs) /\ seg.id \notin IdsOf(segs) => Distinct(grown)
  BY <1>1 DEF Distinct, IdsOf
<1>4. CASE segs = << >>
  <2>1. new = <<seg>>
    BY <1>4 DEF InsertOutcomes
  <2>2. QED BY <2>1, <1>4 DEF IdsOf, Distinct
<1>5. CASE segs # << >> /\ new = segs
  BY <1>5
<1>6. CASE segs # << >> /\ new = grown
  BY <1>1, <1>2, <1>3, <1>6
<1>7. CASE segs # << >> /\ new \in Shuffles(grown)
  <2>1. /\ new \in Seq(Segments) /\ Len(new) = Len(grown)
        /\ IdsOf(new) = IdsOf(grown) /\ (Distinct(grown) => Distinct(new))
    BY <1>1, <1>7, ShuffleFacts
  <2>2. new # << >>
    BY <1>1, <2>1
  <2>3. QED BY <1>2, <1>3, <2>1, <2>2
<1>8. segs # << >> => \/ new = segs
                      \/ new = grown
                      \/ new \in Shuffles(grown)
  BY DEF InsertOutcomes, SortOutcomes, FollowsLast, grown
<1>9. QED BY <1>4, <1>5, <1>6, <1>7, <1>8

-----------------------------------------------------------------------------
(* Type correctness *)

LEMMA NewConnectionType == NewConnection \in Connections
BY SeqSpaceAssumption, ClockAssumption
   DEF NewConnection, Connections, TcpStates, L7Protos, SeqNums, DEFAULT_MSS

LEMMA RespondType ==
  ASSUME pending \subseteq Ids, NEW arrived \in SUBSET Ids,
         NEW msgs \in SUBSET Verdicts, Respond(arrived, msgs)
  PROVE  pending' \subseteq Ids /\ out' \subseteq Verdicts
BY DEF Respond

(* The list reasm_insert works on, and the packet it is given. *)
LEMMA ArrivalFacts ==
  ASSUME TypeOK, NEW id \in Ids, NEW p \in Packets
  PROVE  /\ p.conn \in Tuples
         /\ conn[p.conn] \in Connections
         /\ conn[p.conn].segs \in Seq(Segments)
         /\ [id |-> id, seq |-> p.seq, data |-> p.data] \in Segments
         /\ Seen(p) \in Connections
         /\ Seen(p).segs = conn[p.conn].segs
         /\ Seen(p).done = conn[p.conn].done
         /\ Seen(p).l7 = conn[p.conn].l7
         /\ Progress[conn[p.conn].state] <= Progress[Seen(p).state]
         /\ \A segs \in Inserted(id, p) : segs \in Seq(Segments) /\ segs # << >>
<1>1. p.conn \in Tuples /\ p.seq \in SeqNums /\ p.data \in Seq(Bytes)
  BY PacketsAssumption
<1>2. conn[p.conn] \in Connections
  BY <1>1 DEF TypeOK
<1>3. conn[p.conn].segs \in Seq(Segments)
  BY <1>2 DEF Connections
<1>4. [id |-> id, seq |-> p.seq, data |-> p.data] \in Segments
  BY <1>1 DEF Segments
<1>5. /\ Seen(p) \in Connections
      /\ Seen(p).segs = conn[p.conn].segs
      /\ Seen(p).done = conn[p.conn].done
      /\ Seen(p).l7 = conn[p.conn].l7
      /\ Progress[conn[p.conn].state] <= Progress[Seen(p).state]
  BY <1>2, TrackFacts DEF Seen
<1>6. \A segs \in Inserted(id, p) : segs \in Seq(Segments) /\ segs # << >>
  BY <1>3, <1>4, InsertFacts DEF Inserted
<1>7. QED BY <1>1, <1>2, <1>3, <1>4, <1>5, <1>6

LEMMA VerdictType ==
  ASSUME NEW t \in Tuples, NEW pos \in Nat, NEW id \in Ids,
         NEW v \in {"ACCEPT", "DROP"}
  PROVE  Verdict(t, pos, id, v) \in Verdicts
BY DEF Verdict, Verdicts

LEMMA SegmentIds ==
  ASSUME NEW segs \in Seq(Segments), NEW i \in DOMAIN segs
  PROVE  segs[i].id \in Ids /\ i \in Nat
<1>1. segs[i] \in Segments /\ i \in Nat
  OBVIOUS
<1>2. QED BY <1>1 DEF Segments

LEMMA AcceptAllType ==
  ASSUME NEW t \in Tuples, NEW segs \in Seq(Segments)
  PROVE  AcceptAll(t, segs) \in SUBSET Verdicts
BY SegmentIds, VerdictType DEF AcceptAll

LEMMA TypeInit == Init => TypeOK
BY NewConnectionType, ClockAssumption DEF Init, TypeOK

LEMMA TypeStep == TypeOK /\ [Next]_vars => TypeOK'
<1> SUFFICES ASSUME TypeOK, [Next]_vars PROVE TypeOK'
  OBVIOUS
<1>1. ASSUME NEW id \in Ids, NEW p \in Packets, Arrive(id, p) PROVE TypeOK'
  <2> DEFINE t == p.conn
  <2>0. /\ t \in Tuples /\ Seen(p) \in Connections
        /\ \A segs \in Inserted(id, p) : segs \in Seq(Segments)
    BY ArrivalFacts
  <2>1. ASSUME Receive(id, p)
        PROVE  /\ tracked' \subseteq Tuples
               /\ sinceCheck' \in Int /\ back' \in 0 .. MaxBack
               /\ pc' \in {"recv", "check", "terminated"}
               /\ {id} \in SUBSET Ids
    BY <2>0, <2>1 DEF Receive, TypeOK
  <2>2. ASSUME NEW c \in Connections, conn' = [conn EXCEPT ![t] = c]
        PROVE  conn' \in [Tuples -> Connections]
    BY <2>2 DEF TypeOK
  <2>3. << >> \in Seq(Segments)
    OBVIOUS
  <2>4. Verdict(t, 0, id, "ACCEPT") \in Verdicts
    BY <2>0, VerdictType
  <2>5. CASE AcceptNow(id, p)
    <3>1. pending' \subseteq Ids /\ out' \subseteq Verdicts
      BY <2>1, <2>4, <2>5, RespondType DEF AcceptNow, TypeOK
    <3>2. conn' \in [Tuples -> Connections]
      BY <2>0, <2>2, <2>5 DEF AcceptNow
    <3>3. QED BY <2>1, <2>3, <2>5, <3>1, <3>2 DEF AcceptNow, TypeOK
  <2>6. CASE Hold(id, p)
    <3>1. pending' \subseteq Ids /\ out' \subseteq Verdicts
      BY <2>1, <2>6, RespondType DEF Hold, TypeOK
    <3>2. PICK segs \in Inserted(id, p) :
            conn' = [conn EXCEPT ![t] = [Seen(p) EXCEPT !.segs = segs]]
      BY <2>6 DEF Hold
    <3>3. [Seen(p) EXCEPT !.segs = segs] \in Connections
      BY <2>0 DEF Connections
    <3>4. conn' \in [Tuples -> Connections]
      BY <2>2, <3>2, <3>3
    <3>5. QED BY <2>1, <2>3, <2>6, <3>1, <3>4 DEF Hold, TypeOK
  <2>7. CASE Deliver(id, p)
    <3>1. PICK segs \in Inserted(id, p) :
            /\ conn' = [conn EXCEPT ![t] = Decide(Seen(p), Judge(p, segs).proto)]
            /\ handed' = segs
            /\ \E replaced \in SUBSET DOMAIN segs :
                 Respond({id}, {Verdict(t, i, segs[i].id,
                                  IF i \in replaced THEN "DROP" ELSE "ACCEPT")
                                : i \in DOMAIN segs})
      BY <2>7 DEF Deliver
    <3>2. Judge(p, segs).proto \in L7Protos
      BY ClassifyType DEF Judge
    <3>3. Decide(Seen(p), Judge(p, segs).proto) \in Connections
      BY <2>0, <3>2, DecideFacts
    <3>4. conn' \in [Tuples -> Connections]
      BY <2>2, <3>1, <3>3
    <3>5. PICK replaced \in SUBSET DOMAIN segs :
            Respond({id}, {Verdict(t, i, segs[i].id,
                             IF i \in replaced THEN "DROP" ELSE "ACCEPT")
                           : i \in DOMAIN segs})
      BY <3>1
    <3>6. {Verdict(t, i, segs[i].id, IF i \in replaced THEN "DROP" ELSE "ACCEPT")
             : i \in DOMAIN segs} \in SUBSET Verdicts
      BY <2>0, SegmentIds, VerdictType
    <3>7. pending' \subseteq Ids /\ out' \subseteq Verdicts
      BY <2>1, <2>7, <3>5, <3>6, RespondType DEF Deliver, TypeOK
    <3>8. QED BY <2>0, <2>1, <2>7, <3>1, <3>4, <3>7 DEF Deliver, TypeOK
  <2>8. CASE GiveUp(id, p)
    <3> DEFINE c == Decide(Seen(p), conn[p.conn].l7)
    <3>1. c \in Connections /\ conn' = [conn EXCEPT ![t] = c]
      <4>1. conn[p.conn].l7 \in L7Protos
        BY ArrivalFacts DEF Connections
      <4>2. QED BY <2>0, <2>8, <4>1, DecideFacts DEF GiveUp
    <3>2. conn' \in [Tuples -> Connections]
      BY <2>2, <3>1
    <3>3. conn'[t].segs \in Seq(Segments)
      BY <2>0, <3>2 DEF Connections
    <3>4. AcceptAll(t, conn'[t].segs) \cup {Verdict(t, 0, id, "ACCEPT")}
            \in SUBSET Verdicts
      BY <2>0, <2>4, <3>3, AcceptAllType
    <3>5. pending' \subseteq Ids /\ out' \subseteq Verdicts
      BY <2>1, <2>8, <3>4, RespondType DEF GiveUp, TypeOK
    <3>6. QED BY <2>1, <2>3, <2>8, <3>2, <3>5 DEF GiveUp, TypeOK
  <2>9. CASE Terminate(id, p)
    BY <2>3, <2>9, NewConnectionType DEF Terminate, TypeOK
  <2>10. QED BY <1>1, <2>5, <2>6, <2>7, <2>8, <2>9 DEF Arrive
<1>2. CASE Sweep
  <2>1. conn' \in [Tuples -> Connections]
    BY <1>2, NewConnectionType DEF Sweep, TypeOK
  <2>2. \A t \in Dead : t \in Tuples /\ conn[t].segs \in Seq(Segments)
    BY DEF Dead, TypeOK, Connections
  <2>3. UNION {AcceptAll(t, conn[t].segs) : t \in Dead} \in SUBSET Verdicts
    BY <2>2, AcceptAllType
  <2>4. pending' \subseteq Ids /\ out' \subseteq Verdicts
    BY <1>2, <2>3, RespondType DEF Sweep, TypeOK
  <2>5. QED BY <1>2, <2>1, <2>4, ClockAssumption DEF Sweep, TypeOK
<1>3. CASE SkipSweep
  BY <1>3 DEF SkipSweep, TypeOK
<1>4. CASE Tick
  <2>1. \A c \in Connections : Older(c) \in Connections
    BY ClockAssumption DEF Older, Connections
  <2>2. conn' \in [Tuples -> Connections]
    BY <1>4, <2>1 DEF Tick, TypeOK
  <2>3. sinceCheck' \in Int
    BY <1>4, ClockAssumption DEF Tick, TypeOK
  <2>4. QED BY <1>4, <2>2, <2>3 DEF Tick, TypeOK
<1>5. CASE SetBack
  <2>1. \A c \in Connections : Younger(c) \in Connections
    BY DEF Younger, Connections
  <2>2. conn' \in [Tuples -> Connections]
    BY <1>5, <2>1 DEF SetBack, TypeOK
  <2>3. sinceCheck' \in Int /\ back' \in 0 .. MaxBack
    BY <1>5, ClockAssumption DEF SetBack, TypeOK
  <2>4. QED BY <1>5, <2>2, <2>3 DEF SetBack, TypeOK
<1>6. CASE UNCHANGED vars
  BY <1>6 DEF vars, TypeOK
<1>7. QED BY <1>1, <1>2, <1>3, <1>4, <1>5, <1>6 DEF Next

(* Every variable of the loop keeps its type, whatever arrives: in         *)
(* particular what is held are always packets of the queue, and the MSS and*)
(* the expected sequence number stay in range.                             *)
THEOREM TypeCorrect == Spec => []TypeOK
<1>1. QED BY TypeInit, TypeStep, PTL DEF Spec

-----------------------------------------------------------------------------
(* Custody: what is held is unanswered, and held once *)

(* HeldOnce needs HeldArePending to be inductive (a packet that arrives is *)
(* new to every list because the lists are within pending), HeldArePending *)
(* needs HeldOnce (an answer to one connection's packets takes nothing away*)
(* from another's).                                                        *)
Custody == HeldArePending /\ HeldOnce

IInv == TypeOK /\ Custody /\ HeldIsUndecided

LEMMA CustodyFacts ==
  ASSUME Custody, NEW t \in Tuples
  PROVE  /\ IdsOf(conn[t].segs) \subseteq pending
         /\ Distinct(conn[t].segs)
         /\ \A u \in Tuples \ {t} :
              IdsOf(conn[u].segs) \cap IdsOf(conn[t].segs) = {}
BY DEF Custody, HeldArePending, HeldOnce, Held, Distinct, IdsOf

(* A step that changes one connection's list, which may only take in the   *)
(* packet that arrived, and that answers only packets the list then lacks. *)
LEMMA OneListStep ==
  ASSUME Custody, NEW t \in Tuples, NEW id \in Ids \ pending,
         \A u \in Tuples \ {t} : conn'[u].segs = conn[u].segs,
         Distinct(conn'[t].segs),
         IdsOf(conn'[t].segs) \subseteq IdsOf(conn[t].segs) \cup {id},
         \A x \in (pending \cup {id}) \ pending' :
           /\ x \in IdsOf(conn[t].segs) \cup {id}
           /\ x \notin IdsOf(conn'[t].segs)
  PROVE  Custody'
<1>1. /\ IdsOf(conn[t].segs) \subseteq pending
      /\ \A u \in Tuples \ {t} : /\ IdsOf(conn[u].segs) \subseteq pending
                                /\ Distinct(conn[u].segs)
  BY CustodyFacts
<1>2. \A u, v \in Tuples :
        u # v => IdsOf(conn[u].segs) \cap IdsOf(conn[v].segs) = {}
  BY CustodyFacts
<1>3. \A u \in Tuples : IdsOf(conn'[u].segs) \subseteq pending'
  BY <1>1, <1>2
<1>4. \A u, v \in Tuples :
        u # v => IdsOf(conn'[u].segs) \cap IdsOf(conn'[v].segs) = {}
  BY <1>1, <1>2
<1>5. \A u \in Tuples : Distinct(conn'[u].segs)
  BY <1>1
<1>6. HeldArePending'
  BY <1>3 DEF HeldArePending, Held
<1>7. HeldOnce'
  BY <1>4, <1>5 DEF HeldOnce, Distinct, IdsOf
<1>8. QED BY <1>6, <1>7 DEF Custody

(* The packets a step answers are those it sends verdicts for. *)
LEMMA RespondAnswers ==
  ASSUME NEW arrived, NEW msgs, Respond(arrived, msgs)
  PROVE  \A x \in (pending \cup arrived) \ pending' : \E m \in msgs : m.id = x
BY DEF Respond

LEMMA CustodyInit == Init => Custody /\ HeldIsUndecided
<1> SUFFICES ASSUME Init PROVE Custody /\ HeldIsUndecided
  OBVIOUS
<1>1. \A t \in Tuples : conn[t].segs = << >>
  BY DEF Init, NewConnection
<1>2. \A t \in Tuples : IdsOf(conn[t].segs) = {} /\ DOMAIN conn[t].segs = {}
  BY <1>1 DEF IdsOf
<1>3. Custody
  BY <1>2 DEF Custody, HeldArePending, HeldOnce, Held
<1>4. HeldIsUndecided
  BY <1>1 DEF HeldIsUndecided
<1>5. QED BY <1>3, <1>4

LEMMA ArrivalCustody ==
  ASSUME TypeOK, Custody, NEW id \in Ids, NEW p \in Packets, Arrive(id, p)
  PROVE  Custody'
<1> DEFINE t == p.conn
<1>1. /\ t \in Tuples /\ Seen(p).segs = conn[t].segs
      /\ Seen(p) \in Connections /\ conn \in [Tuples -> Connections]
  BY ArrivalFacts DEF TypeOK
<1>2. /\ IdsOf(conn[t].segs) \subseteq pending
      /\ Distinct(conn[t].segs)
  BY <1>1, CustodyFacts
<1>3. IdsOf(<< >>) = {} /\ Distinct(<< >>)
  BY DEF IdsOf, Distinct
<1>4. ASSUME id \notin pending, NEW segs \in Inserted(id, p)
      PROVE  /\ IdsOf(segs) \subseteq IdsOf(conn[t].segs) \cup {id}
             /\ Distinct(segs)
  <2> DEFINE seg == [id |-> id, seq |-> p.seq, data |-> p.data]
  <2>1. conn[t].segs \in Seq(Segments) /\ seg \in Segments
    BY ArrivalFacts
  <2>2. segs \in InsertOutcomes(conn[t].segs, seg)
    BY <1>4 DEF Inserted
  <2>3. /\ segs = conn[t].segs \/ IdsOf(segs) = IdsOf(conn[t].segs) \cup {seg.id}
        /\ Distinct(conn[t].segs) /\ seg.id \notin IdsOf(conn[t].segs)
             => Distinct(segs)
    BY <2>1, <2>2, InsertFacts
  <2>4. seg.id = id /\ id \notin IdsOf(conn[t].segs)
    BY <1>2, <1>4
  <2>5. QED BY <1>2, <2>3, <2>4
<1>5. CASE AcceptNow(id, p)
  <2>1. id \in Ids \ pending /\ conn' = [conn EXCEPT ![t] = Seen(p)]
    BY <1>5 DEF AcceptNow, Receive
  <2>2. /\ \A u \in Tuples \ {t} : conn'[u].segs = conn[u].segs
        /\ conn'[t].segs = conn[t].segs
    BY <1>1, <2>1
  <2>3. \A x \in (pending \cup {id}) \ pending' : x = id
    BY <1>5, RespondAnswers DEF AcceptNow, Verdict
  <2>4. QED BY <1>1, <1>2, <2>1, <2>2, <2>3, OneListStep
<1>6. CASE Hold(id, p)
  <2>1. PICK segs \in Inserted(id, p) :
          conn' = [conn EXCEPT ![t] = [Seen(p) EXCEPT !.segs = segs]]
    BY <1>6 DEF Hold
  <2>2. id \in Ids \ pending
    BY <1>6 DEF Hold, Receive
  <2>3. ([Seen(p) EXCEPT !.segs = segs]).segs = segs
    BY <1>1 DEF Connections
  <2>4. /\ \A u \in Tuples \ {t} : conn'[u].segs = conn[u].segs
        /\ conn'[t].segs = segs
    BY <1>1, <2>1, <2>3
  <2>5. (pending \cup {id}) \ pending' = {}
    BY <1>6, RespondAnswers DEF Hold
  <2>6. QED BY <1>1, <1>4, <2>2, <2>4, <2>5, OneListStep
<1>7. CASE Deliver(id, p)
  <2>0. PICK segs \in Inserted(id, p) :
          /\ conn' = [conn EXCEPT ![t] = Decide(Seen(p), Judge(p, segs).proto)]
          /\ \E replaced \in SUBSET DOMAIN segs :
               Respond({id}, {Verdict(t, i, segs[i].id,
                                IF i \in replaced THEN "DROP" ELSE "ACCEPT")
                              : i \in DOMAIN segs})
    BY <1>7 DEF Deliver
  <2>1. PICK replaced \in SUBSET DOMAIN segs :
          Respond({id}, {Verdict(t, i, segs[i].id,
                           IF i \in replaced THEN "DROP" ELSE "ACCEPT")
                         : i \in DOMAIN segs})
    BY <2>0
  <2>2. id \in Ids \ pending
    BY <1>7 DEF Deliver, Receive
  <2>3. Decide(Seen(p), Judge(p, segs).proto).segs = << >>
    BY <1>1, DecideFacts
  <2>4. /\ \A u \in Tuples \ {t} : conn'[u].segs = conn[u].segs
        /\ conn'[t].segs = << >>
    BY <1>1, <2>0, <2>3
  <2>5. \A x \in (pending \cup {id}) \ pending' : x \in IdsOf(segs)
    BY <2>1, RespondAnswers DEF Verdict, IdsOf
  <2>6. IdsOf(segs) \subseteq IdsOf(conn[t].segs) \cup {id}
    BY <1>4, <2>2
  <2>7. QED BY <1>1, <1>3, <2>2, <2>4, <2>5, <2>6, OneListStep
<1>8. CASE GiveUp(id, p)
  <2> DEFINE c == Decide(Seen(p), conn[p.conn].l7)
  <2>1. id \in Ids \ pending /\ conn' = [conn EXCEPT ![t] = c]
    BY <1>8 DEF GiveUp, Receive
  <2>2. c.segs = << >>
    BY <1>1, DecideFacts
  <2>3. /\ \A u \in Tuples \ {t} : conn'[u].segs = conn[u].segs
        /\ conn'[t].segs = << >>
    BY <1>1, <2>1, <2>2
  <2>4. AcceptAll(t, conn'[t].segs) = {}
    BY <2>3 DEF AcceptAll
  <2>5. \A x \in (pending \cup {id}) \ pending' : x = id
    BY <1>8, <2>4, RespondAnswers DEF GiveUp, Verdict
  <2>6. QED BY <1>1, <1>3, <2>1, <2>3, <2>5, OneListStep
<1>9. CASE Terminate(id, p)
  <2>1. \A u \in Tuples : conn'[u].segs = << >>
    BY <1>9 DEF Terminate, NewConnection
  <2>2. \A u \in Tuples : IdsOf(conn'[u].segs) = {} /\ DOMAIN conn'[u].segs = {}
    BY <2>1 DEF IdsOf
  <2>3. QED BY <2>2 DEF Custody, HeldArePending, HeldOnce, Held
<1>10. QED BY <1>5, <1>6, <1>7, <1>8, <1>9 DEF Arrive

(* The ids of the verdicts a sweep sends are those of the lists it erases. *)
LEMMA SweptIds ==
  ASSUME NEW m \in UNION {AcceptAll(t, conn[t].segs) : t \in Dead}
  PROVE  \E t \in Dead : m.id \in IdsOf(conn[t].segs)
BY DEF AcceptAll, Verdict, IdsOf

LEMMA SweepCustody ==
  ASSUME TypeOK, Custody, Sweep
  PROVE  Custody'
<1>1. Dead \subseteq Tuples
  BY DEF Dead, TypeOK
<1>2. \A x \in pending \ pending' : \E t \in Dead : x \in IdsOf(conn[t].segs)
  BY SweptIds, RespondAnswers DEF Sweep
<1>3. \A u \in Tuples :
        \/ u \in Dead /\ conn'[u].segs = << >>
        \/ u \notin Dead /\ conn'[u].segs = conn[u].segs
  BY DEF Sweep, NewConnection
<1>4. \A u \in Tuples \ Dead : IdsOf(conn'[u].segs) \subseteq pending'
  BY <1>1, <1>2, <1>3, CustodyFacts
<1>5. \A u \in Dead : DOMAIN conn'[u].segs = {} /\ IdsOf(conn'[u].segs) = {}
  BY <1>1, <1>3 DEF IdsOf
<1>6. HeldArePending'
  BY <1>4, <1>5 DEF HeldArePending, Held
<1>7. HeldOnce'
  BY <1>3, <1>5 DEF Custody, HeldOnce
<1>8. QED BY <1>6, <1>7 DEF Custody

LEMMA CustodyStep == TypeOK /\ Custody /\ [Next]_vars => Custody'
<1> SUFFICES ASSUME TypeOK, Custody, [Next]_vars PROVE Custody'
  OBVIOUS
<1>1. CASE \E id \in Ids, p \in Packets : Arrive(id, p)
  BY <1>1, ArrivalCustody
<1>2. CASE Sweep
  BY <1>2, SweepCustody
<1>3. ASSUME pending' = pending, \A t \in Tuples : conn'[t].segs = conn[t].segs
      PROVE  Custody'
  BY <1>3 DEF Custody, HeldArePending, HeldOnce, Held, IdsOf
<1>4. CASE SkipSweep
  BY <1>3, <1>4 DEF SkipSweep
<1>5. CASE Tick
  <2>1. \A t \in Tuples : conn[t] \in Connections
    BY DEF TypeOK
  <2>2. \A c \in Connections : Older(c).segs = c.segs
    BY DEF Older, Connections
  <2>3. QED BY <1>3, <1>5, <2>1, <2>2 DEF Tick
<1>6. CASE SetBack
  <2>1. \A t \in Tuples : conn[t] \in Connections
    BY DEF TypeOK
  <2>2. \A c \in Connections : Younger(c).segs = c.segs
    BY DEF Younger, Connections
  <2>3. QED BY <1>3, <1>6, <2>1, <2>2 DEF SetBack
<1>7. CASE UNCHANGED vars
  BY <1>3, <1>7 DEF vars
<1>8. QED BY <1>1, <1>2, <1>4, <1>5, <1>6, <1>7 DEF Next

-----------------------------------------------------------------------------
(* Only what is undecided is held *)

Undecided(t) ==
  conn[t].segs # << >> =>
    /\ ~conn[t].done
    /\ Classify(Profile[t], ConcatSorted(conn[t].segs)).res = "REASSEMBLING"

LEMMA UndecidedKept ==
  ASSUME HeldIsUndecided, NEW t \in Tuples,
         \/ conn'[t].segs = << >>
         \/ conn'[t].segs = conn[t].segs /\ conn'[t].done = conn[t].done
  PROVE  Undecided(t)'
BY DEF HeldIsUndecided, Undecided

LEMMA UndecidedStep ==
  TypeOK /\ HeldIsUndecided /\ [Next]_vars => HeldIsUndecided'
<1> SUFFICES ASSUME TypeOK, HeldIsUndecided, [Next]_vars, NEW t \in Tuples
             PROVE  Undecided(t)'
  BY DEF HeldIsUndecided, Undecided
<1>1. conn \in [Tuples -> Connections] /\ conn[t] \in Connections
  BY DEF TypeOK
<1>2. ASSUME NEW id \in Ids, NEW p \in Packets, Arrive(id, p)
      PROVE  Undecided(t)'
  <2>1. /\ p.conn \in Tuples /\ Seen(p) \in Connections
        /\ Seen(p).segs = conn[p.conn].segs /\ Seen(p).done = conn[p.conn].done
    BY ArrivalFacts
  <2>2. ASSUME t # p.conn, NEW c, conn' = [conn EXCEPT ![p.conn] = c]
        PROVE  conn'[t] = conn[t]
    BY <1>1, <2>1, <2>2
  <2>3. CASE AcceptNow(id, p)
    <3>1. conn' = [conn EXCEPT ![p.conn] = Seen(p)]
      BY <2>3 DEF AcceptNow
    <3>2. QED BY <1>1, <2>1, <3>1, UndecidedKept
  <2>4. CASE Hold(id, p)
    <3>1. PICK segs \in Inserted(id, p) :
            /\ Judge(p, segs).res = "REASSEMBLING"
            /\ conn' = [conn EXCEPT ![p.conn] = [Seen(p) EXCEPT !.segs = segs]]
      BY <2>4 DEF Hold
    <3> DEFINE c == [Seen(p) EXCEPT !.segs = segs]
    <3>2. c.segs = segs /\ c.done = Seen(p).done
      BY <2>1 DEF Connections
    <3>3. CASE t = p.conn
      <4>1. conn'[t].segs = segs /\ ~conn'[t].done
        BY <1>1, <2>1, <2>4, <3>1, <3>2, <3>3 DEF Hold, Inspected
      <4>2. QED BY <3>1, <3>3, <4>1 DEF Judge, Undecided
    <3>4. CASE t # p.conn
      BY <2>2, <3>1, <3>4, UndecidedKept
    <3>5. QED BY <3>3, <3>4
  <2>5. ASSUME NEW c, conn' = [conn EXCEPT ![p.conn] = c], c.segs = << >>
        PROVE  Undecided(t)'
    BY <1>1, <2>1, <2>5, UndecidedKept
  <2>6. CASE Deliver(id, p)
    <3>1. PICK segs \in Inserted(id, p) :
            conn' = [conn EXCEPT ![p.conn] = Decide(Seen(p), Judge(p, segs).proto)]
      BY <2>6 DEF Deliver
    <3>2. Decide(Seen(p), Judge(p, segs).proto).segs = << >>
      BY <2>1, DecideFacts
    <3>3. QED BY <2>5, <3>1, <3>2
  <2>7. CASE GiveUp(id, p)
    <3>1. Decide(Seen(p), conn[p.conn].l7).segs = << >>
      BY <2>1, DecideFacts
    <3>2. QED BY <2>5, <2>7, <3>1 DEF GiveUp
  <2>8. CASE Terminate(id, p)
    <3>1. conn'[t].segs = << >>
      BY <2>8 DEF Terminate, NewConnection
    <3>2. QED BY <3>1, UndecidedKept
  <2>9. QED BY <1>2, <2>3, <2>4, <2>6, <2>7, <2>8 DEF Arrive
<1>3. CASE Sweep
  <2>1. conn'[t].segs = << >> \/ conn'[t] = conn[t]
    BY <1>3 DEF Sweep, NewConnection
  <2>2. QED BY <2>1, UndecidedKept
<1>4. CASE SkipSweep
  BY <1>4, UndecidedKept DEF SkipSweep
<1>5. CASE Tick
  <2>1. Older(conn[t]).segs = conn[t].segs /\ Older(conn[t]).done = conn[t].done
    BY <1>1 DEF Older, Connections
  <2>2. QED BY <1>5, <2>1, UndecidedKept DEF Tick
<1>6. CASE SetBack
  <2>1. /\ Younger(conn[t]).segs = conn[t].segs
        /\ Younger(conn[t]).done = conn[t].done
    BY <1>1 DEF Younger, Connections
  <2>2. QED BY <1>6, <2>1, UndecidedKept DEF SetBack
<1>7. CASE UNCHANGED vars
  BY <1>7, UndecidedKept DEF vars
<1>8. QED BY <1>2, <1>3, <1>4, <1>5, <1>6, <1>7 DEF Next

THEOREM Inductive == Spec => []IInv
<1>1. Init => IInv
  BY TypeInit, CustodyInit DEF IInv
<1>2. IInv /\ [Next]_vars => IInv'
  BY TypeStep, CustodyStep, UndecidedStep DEF IInv
<1>3. QED BY <1>1, <1>2, PTL DEF Spec

(* No packet is held after it was answered: none is ever answered twice.   *)
THEOREM HeldArePendingAlways == Spec => []HeldArePending
<1>1. IInv => HeldArePending
  BY DEF IInv, Custody
<1>2. QED BY <1>1, Inductive, PTL

(* No packet is in two lists, or twice in one. *)
THEOREM HeldOnceAlways == Spec => []HeldOnce
<1>1. IInv => HeldOnce
  BY DEF IInv, Custody
<1>2. QED BY <1>1, Inductive, PTL

(* The daemon never holds a payload its classifiers could already decide.  *)
THEOREM HeldIsUndecidedAlways == Spec => []HeldIsUndecided
<1>1. IInv => HeldIsUndecided
  BY DEF IInv
<1>2. QED BY <1>1, Inductive, PTL

-----------------------------------------------------------------------------
(* The loop implements the queue's contract *)

LEMMA RespondContract ==
  ASSUME NEW arrived \in SUBSET (Ids \ pending), NEW msgs,
         Respond(arrived, msgs),
         Contract!OnePerPacket(msgs),
         \A m \in msgs : m.id \in pending \cup arrived
  PROVE  Contract!Step
<1>1. PICK failed \in SUBSET msgs :
        pending' = (pending \cup arrived) \ {m.id : m \in msgs \ failed}
  BY DEF Respond
<1>2. out' = msgs /\ msgs \ failed \in SUBSET out'
  BY DEF Respond
<1>3. Contract!Answer(arrived, out', msgs \ failed)
  BY <1>1, <1>2 DEF Contract!Answer
<1>4. QED BY <1>2, <1>3 DEF Contract!Step

LEMMA SilentContract ==
  ASSUME pending' = pending, out' = {}
  PROVE  Contract!Step
<1>1. Contract!Answer({}, out', {})
  BY DEF Contract!Answer, Contract!OnePerPacket
<1>2. QED BY <1>1 DEF Contract!Step

LEMMA ArrivalContract ==
  ASSUME TypeOK, Custody, NEW id \in Ids, NEW p \in Packets, Arrive(id, p)
  PROVE  Contract!Next
<1> DEFINE t == p.conn
           now == Verdict(t, 0, id, "ACCEPT")
<1>1. /\ t \in Tuples /\ conn[t].segs \in Seq(Segments)
      /\ Seen(p) \in Connections /\ conn \in [Tuples -> Connections]
  BY ArrivalFacts DEF TypeOK
<1>2. IdsOf(conn[t].segs) \subseteq pending /\ Distinct(conn[t].segs)
  BY <1>1, CustodyFacts
<1>3. now.id = id /\ Contract!OnePerPacket({now}) /\ Contract!OnePerPacket({})
  BY DEF Verdict, Contract!OnePerPacket
<1>4. CASE AcceptNow(id, p)
  <2>1. {id} \in SUBSET (Ids \ pending) /\ Respond({id}, {now})
    BY <1>4 DEF AcceptNow, Receive
  <2>2. Contract!Step
    BY <1>3, <2>1, RespondContract
  <2>3. QED BY <2>2 DEF Contract!Next
<1>5. CASE Hold(id, p)
  <2>1. {id} \in SUBSET (Ids \ pending) /\ Respond({id}, {})
    BY <1>5 DEF Hold, Receive
  <2>2. Contract!Step
    BY <1>3, <2>1, RespondContract
  <2>3. QED BY <2>2 DEF Contract!Next
<1>6. CASE Deliver(id, p)
  <2>1. {id} \in SUBSET (Ids \ pending)
    BY <1>6 DEF Deliver, Receive
  <2>2. PICK segs \in Inserted(id, p) :
          \E replaced \in SUBSET DOMAIN segs :
            Respond({id}, {Verdict(t, i, segs[i].id,
                             IF i \in replaced THEN "DROP" ELSE "ACCEPT")
                           : i \in DOMAIN segs})
    BY <1>6 DEF Deliver
  <2>3. PICK replaced \in SUBSET DOMAIN segs :
          Respond({id}, {Verdict(t, i, segs[i].id,
                           IF i \in replaced THEN "DROP" ELSE "ACCEPT")
                         : i \in DOMAIN segs})
    BY <2>2
  <2> DEFINE seg == [id |-> id, seq |-> p.seq, data |-> p.data]
             msgs == {Verdict(t, i, segs[i].id,
                        IF i \in replaced THEN "DROP" ELSE "ACCEPT")
                      : i \in DOMAIN segs}
  <2>4. seg \in Segments /\ segs \in InsertOutcomes(conn[t].segs, seg)
    BY ArrivalFacts, <2>2 DEF Inserted
  <2>5. seg.id = id /\ id \notin IdsOf(conn[t].segs)
    BY <1>2, <2>1
  <2>6. Distinct(segs) /\ IdsOf(segs) \subseteq pending \cup {id}
    BY <1>1, <1>2, <2>4, <2>5, InsertFacts
  <2>7. Contract!OnePerPacket(msgs)
    BY <2>6 DEF Distinct, Verdict, Contract!OnePerPacket
  <2>8. \A m \in msgs : m.id \in pending \cup {id}
    BY <2>6 DEF Verdict, IdsOf
  <2>9. Contract!Step
    BY <2>1, <2>3, <2>7, <2>8, RespondContract
  <2>10. QED BY <2>9 DEF Contract!Next
<1>7. CASE GiveUp(id, p)
  <2> DEFINE c == Decide(Seen(p), conn[p.conn].l7)
  <2>1. {id} \in SUBSET (Ids \ pending) /\ conn' = [conn EXCEPT ![t] = c]
    BY <1>7 DEF GiveUp, Receive
  <2>2. c.segs = << >>
    BY <1>1, DecideFacts
  <2>3. AcceptAll(t, conn'[t].segs) = {}
    BY <1>1, <2>1, <2>2 DEF AcceptAll
  <2>4. Respond({id}, {now})
    BY <1>7, <2>3 DEF GiveUp
  <2>5. Contract!Step
    BY <1>3, <2>1, <2>4, RespondContract
  <2>6. QED BY <2>5 DEF Contract!Next
<1>8. CASE Terminate(id, p)
  BY <1>8 DEF Terminate, Contract!Next, Contract!Close
<1>9. QED BY <1>4, <1>5, <1>6, <1>7, <1>8 DEF Arrive

LEMMA SweepContract ==
  ASSUME TypeOK, Custody, Sweep
  PROVE  Contract!Step
<1> DEFINE msgs == UNION {AcceptAll(t, conn[t].segs) : t \in Dead}
<1>1. Dead \subseteq Tuples
  BY DEF Dead, TypeOK
<1>2. \A m \in msgs : m.id \in pending
  BY <1>1, SweptIds, CustodyFacts
<1>3. \A m \in msgs : \E t \in Dead : \E i \in DOMAIN conn[t].segs :
        m = Verdict(t, i, conn[t].segs[i].id, "ACCEPT")
  BY DEF AcceptAll
<1>4. ASSUME NEW m \in msgs, NEW n \in msgs, m.id = n.id PROVE m = n
  <2>1. PICK t \in Dead : \E i \in DOMAIN conn[t].segs :
          m = Verdict(t, i, conn[t].segs[i].id, "ACCEPT")
    BY <1>3
  <2>2. PICK i \in DOMAIN conn[t].segs :
          m = Verdict(t, i, conn[t].segs[i].id, "ACCEPT")
    BY <2>1
  <2>3. PICK u \in Dead : \E j \in DOMAIN conn[u].segs :
          n = Verdict(u, j, conn[u].segs[j].id, "ACCEPT")
    BY <1>3
  <2>4. PICK j \in DOMAIN conn[u].segs :
          n = Verdict(u, j, conn[u].segs[j].id, "ACCEPT")
    BY <2>3
  <2>5. conn[t].segs[i].id = conn[u].segs[j].id
    BY <1>4, <2>2, <2>4 DEF Verdict
  <2>6. t = u /\ i = j
    BY <1>1, <2>5 DEF Custody, HeldOnce
  <2>7. QED BY <2>2, <2>4, <2>6
<1>5. Contract!OnePerPacket(msgs)
  BY <1>4 DEF Contract!OnePerPacket
<1>6. {} \in SUBSET (Ids \ pending) /\ Respond({}, msgs)
  BY DEF Sweep
<1>7. QED BY <1>2, <1>5, <1>6, RespondContract

(* Whatever arrives, fails to be sent or is swept, every verdict the daemon*)
(* sends is for a packet the kernel is still keeping, and no step sends two*)
(* for one packet: Dispatcher implements NfqContract.                      *)
THEOREM Implements == Spec => KeepsContract
<1>1. Init => Contract!Init
  BY DEF Init, Contract!Init
<1>2. TypeOK /\ Custody /\ [Next]_vars => [Contract!Next]_(Contract!vars)
  <2> SUFFICES ASSUME TypeOK, Custody, [Next]_vars
               PROVE  [Contract!Next]_(Contract!vars)
    OBVIOUS
  <2>1. CASE \E id \in Ids, p \in Packets : Arrive(id, p)
    BY <2>1, ArrivalContract
  <2>2. CASE Sweep
    BY <2>2, SweepContract DEF Contract!Next
  <2>3. CASE SkipSweep
    BY <2>3, SilentContract DEF SkipSweep, Contract!Next
  <2>4. CASE Tick
    BY <2>4, SilentContract DEF Tick, Contract!Next
  <2>5. CASE SetBack
    BY <2>5, SilentContract DEF SetBack, Contract!Next
  <2>6. CASE UNCHANGED vars
    BY <2>6 DEF vars, Contract!vars
  <2>7. QED BY <2>1, <2>2, <2>3, <2>4, <2>5, <2>6 DEF Next
<1>3. IInv => TypeOK /\ Custody
  BY DEF IInv
<1>4. QED BY <1>1, <1>2, <1>3, Inductive, PTL DEF Spec, KeepsContract, Contract!Spec

-----------------------------------------------------------------------------
(* What a step may never do *)

(* The record of the arriving packet's connection is what tracking made of *)
(* it, but for what is held and decided; the others stay.                  *)
LEMMA ArrivalRecord ==
  ASSUME TypeOK, NEW id \in Ids, NEW p \in Packets, Arrive(id, p)
  PROVE  \/ tracked' = {}
         \/ /\ \A t \in Tuples \ {p.conn} : conn'[t] = conn[t]
            /\ conn'[p.conn].state = Seen(p).state
<1>1. /\ conn \in [Tuples -> Connections] /\ p.conn \in Tuples
      /\ Seen(p) \in Connections
  BY ArrivalFacts DEF TypeOK
<1>2. ASSUME NEW c, conn' = [conn EXCEPT ![p.conn] = c], c.state = Seen(p).state
      PROVE  /\ \A t \in Tuples \ {p.conn} : conn'[t] = conn[t]
             /\ conn'[p.conn].state = Seen(p).state
  BY <1>1, <1>2
<1>3. \A proto : Decide(Seen(p), proto).state = Seen(p).state
  BY <1>1 DEF Decide, Connections
<1>4. CASE AcceptNow(id, p)
  BY <1>2, <1>4 DEF AcceptNow
<1>5. CASE Hold(id, p)
  <2>1. PICK segs : conn' = [conn EXCEPT ![p.conn] = [Seen(p) EXCEPT !.segs = segs]]
    BY <1>5 DEF Hold
  <2>2. [Seen(p) EXCEPT !.segs = segs].state = Seen(p).state
    BY <1>1 DEF Connections
  <2>3. QED BY <1>2, <2>1, <2>2
<1>6. CASE Deliver(id, p)
  <2>1. PICK proto : conn' = [conn EXCEPT ![p.conn] = Decide(Seen(p), proto)]
    BY <1>6 DEF Deliver
  <2>2. QED BY <1>2, <1>3, <2>1
<1>7. CASE GiveUp(id, p)
  BY <1>2, <1>3, <1>7 DEF GiveUp
<1>8. CASE Terminate(id, p)
  BY <1>8 DEF Terminate
<1>9. QED BY <1>4, <1>5, <1>6, <1>7, <1>8 DEF Arrive

Advances(t) == Progress[conn[t].state] <= Progress[conn'[t].state]

LEMMA AdvancesStep ==
  ASSUME TypeOK, [Next]_vars, NEW t \in tracked \cap tracked'
  PROVE  Advances(t)
<1>1. t \in Tuples /\ conn[t] \in Connections /\ conn[t].state \in TcpStates
  BY DEF TypeOK, Connections
<1>2. \A s \in TcpStates : Progress[s] \in 0 .. 4
  BY ProgressFacts DEF TcpStates
<1>3. ASSUME conn'[t].state = conn[t].state PROVE Advances(t)
  BY <1>1, <1>2, <1>3 DEF Advances
<1>4. ASSUME NEW id \in Ids, NEW p \in Packets, Arrive(id, p) PROVE Advances(t)
  <2>1. CASE t = p.conn
    BY <1>4, <2>1, ArrivalFacts, ArrivalRecord DEF Advances
  <2>2. CASE t # p.conn
    BY <1>1, <1>3, <1>4, <2>2, ArrivalRecord
  <2>3. QED BY <2>1, <2>2
<1>5. CASE Sweep
  <2>1. t \notin Dead
    BY <1>5 DEF Sweep
  <2>2. QED BY <1>1, <1>3, <1>5, <2>1 DEF Sweep
<1>6. CASE SkipSweep
  BY <1>3, <1>6 DEF SkipSweep
<1>7. CASE Tick
  <2>1. Older(conn[t]).state = conn[t].state
    BY <1>1 DEF Older, Connections
  <2>2. QED BY <1>1, <1>3, <1>7, <2>1 DEF Tick
<1>8. CASE SetBack
  <2>1. Younger(conn[t]).state = conn[t].state
    BY <1>1 DEF Younger, Connections
  <2>2. QED BY <1>1, <1>3, <1>8, <2>1 DEF SetBack
<1>9. CASE UNCHANGED vars
  BY <1>3, <1>9 DEF vars
<1>10. QED BY <1>4, <1>5, <1>6, <1>7, <1>8, <1>9 DEF Next

(* While a record lives its TCP state only moves forward, in whatever order*)
(* SYN, ACK, FIN and RST are seen.                                         *)
THEOREM StateOnlyAdvancesAlways == Spec => StateOnlyAdvances
<1>1. TypeOK /\ [Next]_vars =>
        [\A t \in tracked \cap tracked' :
           Progress[conn[t].state] <= Progress[conn'[t].state]]_vars
  BY AdvancesStep DEF Advances
<1>2. QED BY <1>1, TypeCorrect, PTL DEF Spec, StateOnlyAdvances

Final(t) ==
  /\ conn'[t].done /\ conn'[t].l7 = conn[t].l7 /\ conn'[t].segs = << >>
  /\ \A m \in out' : m.conn = t => m.verdict = "ACCEPT" /\ m.pos = 0

(* A packet of a done connection is accepted at once; the verdicts for a   *)
(* packet are about its connection.                                        *)
LEMMA ArrivalVerdicts ==
  ASSUME TypeOK, NEW id \in Ids, NEW p \in Packets, Arrive(id, p),
         NEW m \in out'
  PROVE  m.conn = p.conn
<1>1. \A msgs : Respond({id}, msgs) => out' = msgs
  BY DEF Respond
<1>2. CASE AcceptNow(id, p)
  BY <1>1, <1>2 DEF AcceptNow, Verdict
<1>3. CASE Hold(id, p)
  BY <1>1, <1>3 DEF Hold
<1>4. CASE Deliver(id, p)
  <2>1. PICK segs \in Inserted(id, p) :
          \E replaced \in SUBSET DOMAIN segs :
            Respond({id}, {Verdict(p.conn, i, segs[i].id,
                             IF i \in replaced THEN "DROP" ELSE "ACCEPT")
                           : i \in DOMAIN segs})
    BY <1>4 DEF Deliver
  <2>2. PICK replaced \in SUBSET DOMAIN segs :
          Respond({id}, {Verdict(p.conn, i, segs[i].id,
                           IF i \in replaced THEN "DROP" ELSE "ACCEPT")
                         : i \in DOMAIN segs})
    BY <2>1
  <2>3. QED BY <1>1, <2>2 DEF Verdict
<1>5. CASE GiveUp(id, p)
  BY <1>1, <1>5 DEF GiveUp, AcceptAll, Verdict
<1>6. CASE Terminate(id, p)
  BY <1>6 DEF Terminate
<1>7. QED BY <1>2, <1>3, <1>4, <1>5, <1>6 DEF Arrive

LEMMA DoneAccepts ==
  ASSUME TypeOK, HeldIsUndecided, NEW id \in Ids, NEW p \in Packets, Arrive(id, p),
         conn[p.conn].done
  PROVE  tracked' = {} \/ Final(p.conn)
<1>1. ~Inspected(p)
  BY DEF Inspected
<1>2. AcceptNow(id, p)
  BY <1>1 DEF Arrive, Hold, Deliver, GiveUp, Terminate
<1>3. /\ conn \in [Tuples -> Connections] /\ p.conn \in Tuples
      /\ Seen(p).segs = conn[p.conn].segs /\ Seen(p).done = conn[p.conn].done
      /\ Seen(p).l7 = conn[p.conn].l7
  BY ArrivalFacts DEF TypeOK
<1>4. conn[p.conn].segs = << >>
  BY <1>3 DEF HeldIsUndecided
<1>5. conn'[p.conn] = Seen(p)
  BY <1>2, <1>3 DEF AcceptNow
<1>6. out' = {Verdict(p.conn, 0, id, "ACCEPT")}
  BY <1>2 DEF AcceptNow, Respond
<1>7. \A m \in out' : m.verdict = "ACCEPT" /\ m.pos = 0
  BY <1>6 DEF Verdict
<1>8. QED BY <1>3, <1>4, <1>5, <1>7 DEF Final

LEMMA FinalStep ==
  ASSUME TypeOK, HeldIsUndecided, [Next]_vars, NEW t \in tracked \cap tracked',
         conn[t].done
  PROVE  Final(t) \/ UNCHANGED vars
<1>1. t \in Tuples /\ conn[t] \in Connections
  BY DEF TypeOK
<1>2. conn[t].segs = << >>
  BY <1>1 DEF HeldIsUndecided
<1>3. ASSUME conn'[t].segs = conn[t].segs, conn'[t].done = conn[t].done,
             conn'[t].l7 = conn[t].l7, \A m \in out' : m.conn # t
      PROVE  Final(t)
  BY <1>2, <1>3 DEF Final
<1>4. ASSUME NEW id \in Ids, NEW p \in Packets, Arrive(id, p) PROVE Final(t)
  <2>1. CASE t = p.conn
    BY <1>4, <2>1, DoneAccepts
  <2>2. CASE t # p.conn
    <3>1. conn'[t] = conn[t]
      BY <1>1, <1>4, <2>2, ArrivalRecord
    <3>2. \A m \in out' : m.conn # t
      BY <1>4, <2>2, ArrivalVerdicts
    <3>3. QED BY <1>3, <3>1, <3>2
  <2>3. QED BY <2>1, <2>2
<1>5. CASE Sweep
  <2>1. t \notin Dead
    BY <1>5 DEF Sweep
  <2>2. conn'[t] = conn[t]
    BY <1>1, <1>5, <2>1 DEF Sweep
  <2>3. out' = UNION {AcceptAll(u, conn[u].segs) : u \in Dead}
    BY <1>5 DEF Sweep, Respond
  <2>4. \A m \in out' : m.conn \in Dead
    BY <2>3 DEF AcceptAll, Verdict
  <2>5. QED BY <1>3, <2>1, <2>2, <2>4
<1>6. CASE SkipSweep
  BY <1>3, <1>6 DEF SkipSweep
<1>7. CASE Tick
  <2>1. /\ Older(conn[t]).segs = conn[t].segs /\ Older(conn[t]).done = conn[t].done
        /\ Older(conn[t]).l7 = conn[t].l7
    BY <1>1 DEF Older, Connections
  <2>2. QED BY <1>1, <1>3, <1>7, <2>1 DEF Tick
<1>8. CASE SetBack
  <2>1. /\ Younger(conn[t]).segs = conn[t].segs
        /\ Younger(conn[t]).done = conn[t].done
        /\ Younger(conn[t]).l7 = conn[t].l7
    BY <1>1 DEF Younger, Connections
  <2>2. QED BY <1>1, <1>3, <1>8, <2>1 DEF SetBack
<1>9. QED BY <1>4, <1>5, <1>6, <1>7, <1>8 DEF Next

(* A decision is final: whatever a done connection still sends is accepted *)
(* when it arrives, and it never holds anything again.                     *)
THEOREM DoneIsFinalAlways == Spec => DoneIsFinal
<1>1. TypeOK /\ HeldIsUndecided /\ [Next]_vars =>
        [\A t \in tracked \cap tracked' :
           conn[t].done =>
             /\ conn'[t].done /\ conn'[t].l7 = conn[t].l7 /\ conn'[t].segs = << >>
             /\ \A m \in out' : m.conn = t => m.verdict = "ACCEPT" /\ m.pos = 0]_vars
  BY FinalStep DEF Final
<1>2. IInv => TypeOK /\ HeldIsUndecided
  BY DEF IInv
<1>3. QED BY <1>1, <1>2, Inductive, PTL DEF Spec, DoneIsFinal

-----------------------------------------------------------------------------
(* The order of what is held *)

(* The bytes held for a connection lie within half the sequence space, as  *)
(* those of a receive window do.                                           *)
HeldInWindow ==
  \A t \in Tuples : \E base \in SeqNums : InWindow(base, conn[t].segs)

(* So they do when all the data a connection may send does.                *)
DataInWindow ==
  \A t \in Tuples : \E base \in SeqNums : \A p \in Packets :
    (p.conn = t /\ p.data # << >>) => 2 * (Offset(base, p.seq) + Len(p.data)) < SeqSpace

(* What may be held for a connection: a packet it sent, with its payload.  *)
DataOf(t) ==
  {[id |-> id, seq |-> p.seq, data |-> p.data] :
     id \in Ids, p \in {q \in Packets : q.conn = t /\ q.data # << >>}}

HeldIsData == \A t \in Tuples : conn[t].segs \in Seq(DataOf(t))

LEMMA DataIsSegment ==
  ASSUME NEW t \in Tuples
  PROVE  DataOf(t) \subseteq Segments
BY PacketsAssumption DEF DataOf, Segments

(* What a step may do to a connection's list. *)
LEMMA ListOutcomes ==
  ASSUME TypeOK, [Next]_vars, NEW t \in Tuples
  PROVE  \/ conn'[t].segs = << >>
         \/ conn'[t].segs = conn[t].segs
         \/ \E seg \in DataOf(t) : conn'[t].segs \in InsertOutcomes(conn[t].segs, seg)
<1> DEFINE Outcome == \/ conn'[t].segs = << >>
                      \/ conn'[t].segs = conn[t].segs
                      \/ \E seg \in DataOf(t) :
                           conn'[t].segs \in InsertOutcomes(conn[t].segs, seg)
<1>1. conn \in [Tuples -> Connections] /\ conn[t] \in Connections
  BY DEF TypeOK
<1>2. ASSUME NEW id \in Ids, NEW p \in Packets, Arrive(id, p) PROVE Outcome
  <2>1. /\ p.conn \in Tuples /\ Seen(p) \in Connections
        /\ Seen(p).segs = conn[p.conn].segs
    BY ArrivalFacts
  <2>2. ASSUME NEW c, conn' = [conn EXCEPT ![p.conn] = c],
               \/ c.segs = << >> \/ c.segs = conn[p.conn].segs
               \/ p.data # << >> /\ c.segs \in Inserted(id, p)
        PROVE  Outcome
    <3>1. CASE t = p.conn
      <4>1. conn'[t] = c
        BY <1>1, <2>2, <3>1
      <4>2. p.data # << >> => [id |-> id, seq |-> p.seq, data |-> p.data] \in DataOf(t)
        BY <3>1 DEF DataOf
      <4> QED BY <2>1, <2>2, <3>1, <4>1, <4>2 DEF Inserted
    <3>2. CASE t # p.conn
      BY <1>1, <2>1, <2>2, <3>2
    <3> QED BY <3>1, <3>2
  <2> HIDE DEF Outcome
  <2>3. CASE AcceptNow(id, p)
    BY <2>1, <2>2, <2>3 DEF AcceptNow
  <2>4. CASE Hold(id, p)
    <3>1. PICK segs \in Inserted(id, p) :
            conn' = [conn EXCEPT ![p.conn] = [Seen(p) EXCEPT !.segs = segs]]
      BY <2>4 DEF Hold
    <3>2. [Seen(p) EXCEPT !.segs = segs].segs = segs
      BY <2>1 DEF Connections
    <3>3. p.data # << >>
      BY <2>4 DEF Hold, Inspected
    <3> QED BY <2>2, <3>1, <3>2, <3>3
  <2>5. ASSUME NEW proto, conn' = [conn EXCEPT ![p.conn] = Decide(Seen(p), proto)]
        PROVE  Outcome
    <3>1. Decide(Seen(p), proto).segs = << >>
      BY <2>1, DecideFacts
    <3> QED BY <2>2, <2>5, <3>1
  <2>6. CASE Deliver(id, p)
    <3>1. PICK segs \in Inserted(id, p) :
            conn' = [conn EXCEPT ![p.conn] = Decide(Seen(p), Judge(p, segs).proto)]
      BY <2>6 DEF Deliver
    <3> QED BY <2>5, <3>1
  <2>7. CASE GiveUp(id, p)
    BY <2>5, <2>7 DEF GiveUp
  <2>8. CASE Terminate(id, p)
    BY <2>8 DEF Terminate, NewConnection, Outcome
  <2> QED BY <1>2, <2>3, <2>4, <2>6, <2>7, <2>8 DEF Arrive
<1>3. CASE Sweep
  BY <1>3 DEF Sweep, NewConnection
<1>4. CASE SkipSweep
  BY <1>4 DEF SkipSweep
<1>5. CASE Tick
  <2>1. Older(conn[t]).segs = conn[t].segs
    BY <1>1 DEF Older, Connections
  <2> QED BY <1>5, <2>1 DEF Tick
<1>6. CASE SetBack
  <2>1. Younger(conn[t]).segs = conn[t].segs
    BY <1>1 DEF Younger, Connections
  <2> QED BY <1>6, <2>1 DEF SetBack
<1>7. CASE UNCHANGED vars
  BY <1>7 DEF vars
<1> QED BY <1>2, <1>3, <1>4, <1>5, <1>6, <1>7 DEF Next

LEMMA SequenceStep ==
  TypeOK /\ HeldInSequence /\ HeldInWindow' /\ [Next]_vars => HeldInSequence'
<1> SUFFICES ASSUME TypeOK, HeldInSequence, HeldInWindow', [Next]_vars,
                    NEW t \in Tuples, Proto[t] = "TCP"
             PROVE  Rising(conn'[t].segs)
  BY DEF HeldInSequence, Rising
<1>1. conn[t].segs \in Seq(Segments) /\ Rising(conn[t].segs)
  BY DEF HeldInSequence, Rising, TypeOK, Connections
<1>2. \A s \in Segments : s.seq \in SeqNums /\ Len(s.data) \in Nat
  BY DEF Segments
<1>3. PICK base \in SeqNums : InWindow(base, conn'[t].segs)
  BY DEF HeldInWindow
<1>4. CASE conn'[t].segs = << >>
  BY <1>4 DEF Rising
<1>5. CASE conn'[t].segs = conn[t].segs
  BY <1>1, <1>5
<1>6. ASSUME NEW seg \in DataOf(t), conn'[t].segs \in InsertOutcomes(conn[t].segs, seg)
      PROVE  Rising(conn'[t].segs)
  <2>1. seg \in Segments
    BY DataIsSegment
  <2> QED BY <1>1, <1>2, <1>3, <1>6, <2>1, InsertKeepsOrder
<1> QED BY <1>4, <1>5, <1>6, ListOutcomes

(* While the bytes held for each connection lie within half the sequence   *)
(* space, its segments are in strictly rising order: appending without     *)
(* sorting, sorting, and leaving out duplicates never break it, also when  *)
(* the numbers wrap, and although the append test does not.                *)
THEOREM HeldInSequenceAlways == Spec /\ []HeldInWindow => []HeldInSequence
<1>1. Init => HeldInSequence
  <2> SUFFICES ASSUME Init PROVE HeldInSequence
    OBVIOUS
  <2>1. \A t \in Tuples : conn[t].segs = << >>
    BY DEF Init, NewConnection
  <2> QED BY <2>1 DEF HeldInSequence
<1>2. TypeOK /\ HeldInSequence /\ HeldInWindow' /\ [Next]_vars => HeldInSequence'
  BY SequenceStep
<1> QED BY <1>1, <1>2, TypeCorrect, PTL DEF Spec

(* What is held for a connection is what it sent, and has payload.         *)
THEOREM HeldAsSent == Spec => []HeldIsData
<1>1. Init => HeldIsData
  <2> SUFFICES ASSUME Init, NEW t \in Tuples PROVE conn[t].segs \in Seq(DataOf(t))
    BY DEF HeldIsData
  <2>1. conn[t].segs = << >>
    BY DEF Init, NewConnection
  <2> QED BY <2>1
<1>2. TypeOK /\ HeldIsData /\ [Next]_vars => HeldIsData'
  <2> SUFFICES ASSUME TypeOK, HeldIsData, [Next]_vars, NEW t \in Tuples
               PROVE  conn'[t].segs \in Seq(DataOf(t))
    BY DEF HeldIsData, DataOf
  <2>1. CASE conn'[t].segs = << >>
    <3>1. << >> \in Seq(DataOf(t))
      OBVIOUS
    <3> QED BY <2>1, <3>1, Zenon
  <2>2. CASE conn'[t].segs = conn[t].segs
    <3>1. conn[t].segs \in Seq(DataOf(t))
      BY DEF HeldIsData
    <3> QED BY <2>2, <3>1, Zenon
  <2>3. CASE \E seg \in DataOf(t) : conn'[t].segs \in InsertOutcomes(conn[t].segs, seg)
    <3>1. conn[t].segs \in Seq(DataOf(t))
      BY DEF HeldIsData
    <3> QED BY <2>3, <3>1, InsertElements
  <2> QED BY <2>1, <2>2, <2>3, ListOutcomes
<1> QED BY <1>1, <1>2, TypeCorrect, PTL DEF Spec

(* So the window is no matter of the program: it is there when the data of *)
(* each connection lies in one.                                            *)
THEOREM WindowOfData ==
  ASSUME DataInWindow
  PROVE  Spec => []HeldInSequence
<1>1. HeldIsData => HeldInWindow
  <2> SUFFICES ASSUME HeldIsData, NEW t \in Tuples
               PROVE  \E base \in SeqNums : InWindow(base, conn[t].segs)
    BY DEF HeldInWindow
  <2>1. PICK base \in SeqNums : \A p \in Packets :
          (p.conn = t /\ p.data # << >>) => 2 * (Offset(base, p.seq) + Len(p.data)) < SeqSpace
    BY DEF DataInWindow
  <2>2. \A s \in DataOf(t) : 2 * (Offset(base, s.seq) + Len(s.data)) < SeqSpace
    BY <2>1 DEF DataOf
  <2>3. \A i \in DOMAIN conn[t].segs : conn[t].segs[i] \in DataOf(t)
    <3>1. conn[t].segs \in Seq(DataOf(t))
      BY DEF HeldIsData
    <3> QED BY <3>1, ElementOfSeq
  <2>4. InWindow(base, conn[t].segs)
    BY <2>2, <2>3 DEF InWindow
  <2> QED BY <2>4
<1> QED BY <1>1, HeldAsSent, HeldInSequenceAlways, PTL

-----------------------------------------------------------------------------
(* What is lost to the program *)

LEMMA RespondReliably ==
  ASSUME SendMayFail = FALSE, NEW arrived, NEW msgs, Respond(arrived, msgs)
  PROVE  \A x : x \in pending' <=> /\ x \in pending \cup arrived
                                   /\ \A m \in msgs : m.id # x
BY DEF Respond

(* One verdict, of the packet in hand: then the kernel keeps what it kept. *)
LEMMA AcceptedAtOnce ==
  ASSUME SendMayFail = FALSE, NEW id \in Ids \ pending, NEW m, m.id = id,
         Respond({id}, {m})
  PROVE  pending' = pending
<1>1. \A x : x \in pending' <=> /\ x \in pending \cup {id}
                                /\ \A n \in {m} : n.id # x
  BY RespondReliably
<1>2. \A x : x \in pending' <=> x \in pending \cup {id} /\ id # x
  BY <1>1
<1> QED BY <1>2

LEMMA VerdictId == \A t, pos, id, verdict : Verdict(t, pos, id, verdict).id = id
BY DEF Verdict

LEMMA NothingLost ==
  ASSUME \A x \in pending' : x \in Held' \/ (x \in pending /\ x \notin Held)
  PROVE  LeakedNow = {}
BY DEF LeakedNow, Leaked

LEMMA HeldByOne ==
  ASSUME NEW t \in Tuples, \A u \in Tuples \ {t} : conn'[u].segs = conn[u].segs
  PROVE  /\ Held \ IdsOf(conn[t].segs) \subseteq Held'
         /\ IdsOf(conn'[t].segs) \subseteq Held'
         /\ Held' \subseteq Held \cup IdsOf(conn'[t].segs)
BY DEF Held

LEMMA ArrivalLeaks ==
  ASSUME SendMayFail = FALSE, IInv, NEW id \in Ids, NEW p \in Packets, Arrive(id, p),
         LeakedNow # {}
  PROVE  \E t \in Tuples : Duplicated(t) \/ GivenUp(t)
<1> DEFINE t == p.conn
           seg == [id |-> id, seq |-> p.seq, data |-> p.data]
<1>1. /\ conn \in [Tuples -> Connections] /\ t \in Tuples
      /\ conn[t].segs \in Seq(Segments) /\ seg \in Segments
      /\ Seen(p) \in Connections /\ Seen(p).segs = conn[t].segs
  BY ArrivalFacts DEF TypeOK, IInv
<1>2. /\ Held \subseteq pending /\ IdsOf(conn[t].segs) \subseteq Held
      /\ Undecided(t)
  BY <1>1 DEF IInv, Custody, HeldArePending, HeldIsUndecided, Undecided, Held
<1>3. \A new \in Inserted(id, p) :
        /\ new # << >>
        /\ new = conn[t].segs \/ IdsOf(new) = IdsOf(conn[t].segs) \cup {id}
  BY <1>1, InsertFacts DEF Inserted
<1>4. CASE AcceptNow(id, p)
  <2>1. conn'[t].segs = conn[t].segs /\ \A u \in Tuples \ {t} : conn'[u].segs = conn[u].segs
    BY <1>1, <1>4 DEF AcceptNow
  <2>2. pending' = pending /\ id \notin pending
    <3>1. id \notin pending /\ Respond({id}, {Verdict(t, 0, id, "ACCEPT")})
      BY <1>4 DEF AcceptNow, Receive
    <3>2. Verdict(t, 0, id, "ACCEPT").id = id
      BY VerdictId
    <3> QED BY <3>1, <3>2, AcceptedAtOnce
  <2>3. LeakedNow = {}
    BY <1>1, <2>1, <2>2, HeldByOne, NothingLost
  <2> QED BY <2>3
<1>5. CASE Hold(id, p)
  <2>1. PICK new \in Inserted(id, p) :
          conn' = [conn EXCEPT ![t] = [Seen(p) EXCEPT !.segs = new]]
    BY <1>5 DEF Hold
  <2>2. /\ conn'[t].segs = new
        /\ \A u \in Tuples \ {t} : conn'[u].segs = conn[u].segs
    <3>1. [Seen(p) EXCEPT !.segs = new].segs = new
      BY <1>1 DEF Connections
    <3> QED BY <1>1, <2>1, <3>1
  <2>3. pending' = pending \cup {id} /\ id \notin pending
    <3>1. id \notin pending /\ Respond({id}, {})
      BY <1>5 DEF Hold, Receive
    <3>2. \A x : x \in pending' <=> /\ x \in pending \cup {id}
                                    /\ \A m \in {} : m.id # x
      BY <3>1, RespondReliably
    <3> QED BY <3>1, <3>2
  <2>4. CASE IdsOf(new) = IdsOf(conn[t].segs) \cup {id}
    <3>1. LeakedNow = {}
      BY <1>1, <2>2, <2>3, <2>4, HeldByOne, NothingLost
    <3> QED BY <3>1
  <2>5. CASE new = conn[t].segs
    <3>1. LeakedNow \subseteq {id}
      BY <1>1, <2>2, <2>3, <2>5, HeldByOne DEF LeakedNow, Leaked
    <3>2. LeakedNow = {id}
      BY <3>1
    <3>3. Duplicated(t)
      <4>1. Cardinality(LeakedNow) = 1 /\ LeakedNow \cap pending = {}
        BY <2>3, <3>2, FS_Singleton
      <4>2. conn[t].segs # << >> /\ conn'[t].segs = conn[t].segs
        BY <1>3, <2>2, <2>5
      <4> QED BY <4>1, <4>2 DEF Duplicated
    <3> QED BY <1>1, <3>3
  <2> QED BY <1>3, <2>4, <2>5
<1>6. CASE Deliver(id, p)
  <2>0. PICK new \in Inserted(id, p) :
          /\ Judge(p, new).res = "DONE"
          /\ conn' = [conn EXCEPT ![t] = Decide(Seen(p), Judge(p, new).proto)]
          /\ \E replaced \in SUBSET DOMAIN new :
               Respond({id}, {Verdict(t, i, new[i].id,
                                IF i \in replaced THEN "DROP" ELSE "ACCEPT")
                              : i \in DOMAIN new})
    BY <1>6 DEF Deliver
  <2>1. PICK replaced \in SUBSET DOMAIN new :
          Respond({id}, {Verdict(t, i, new[i].id,
                           IF i \in replaced THEN "DROP" ELSE "ACCEPT")
                         : i \in DOMAIN new})
    BY <2>0
  <2>2. Decide(Seen(p), Judge(p, new).proto).segs = << >>
    BY <1>1, DecideFacts
  <2>3. \A u \in Tuples \ {t} : conn'[u].segs = conn[u].segs
    BY <1>1, <2>0
  <2>4. new # conn[t].segs
    BY <1>2, <1>3, <2>0 DEF Undecided, Judge
  <2>5. IdsOf(new) = IdsOf(conn[t].segs) \cup {id}
    BY <1>3, <2>4
  <2>6. pending' = (pending \cup {id}) \ IdsOf(new)
    <3> DEFINE msgs == {Verdict(t, i, new[i].id,
                          IF i \in replaced THEN "DROP" ELSE "ACCEPT")
                        : i \in DOMAIN new}
    <3>1. \A x : x \in IdsOf(new) <=> \E m \in msgs : m.id = x
      BY VerdictId DEF IdsOf
    <3>2. Respond({id}, msgs)
      BY <2>1
    <3> HIDE DEF msgs
    <3> QED BY <3>1, <3>2, RespondReliably, ZenonT(40)
  <2>7. LeakedNow = {}
    BY <1>1, <2>3, <2>5, <2>6, HeldByOne, NothingLost
  <2> QED BY <2>7
<1>7. CASE GiveUp(id, p)
  <2> DEFINE c == Decide(Seen(p), conn[t].l7)
  <2>1. conn' = [conn EXCEPT ![t] = c] /\ ~conn[t].done /\ handed' = << >>
    BY <1>7 DEF GiveUp, Inspected
  <2>2. c.segs = << >> /\ c.done
    BY <1>1, DecideFacts
  <2>3. /\ \A u \in Tuples \ {t} : conn'[u].segs = conn[u].segs
        /\ conn'[t].segs = << >> /\ conn'[t].done
    BY <1>1, <2>1, <2>2
  <2>4. AcceptAll(t, conn'[t].segs) = {}
    BY <2>3 DEF AcceptAll
  <2>5. pending' = pending
    <3>1. id \notin pending /\ Respond({id}, {Verdict(t, 0, id, "ACCEPT")})
      BY <1>7, <2>4 DEF GiveUp, Receive
    <3>2. Verdict(t, 0, id, "ACCEPT").id = id
      BY VerdictId
    <3> QED BY <3>1, <3>2, AcceptedAtOnce
  <2>6. IdsOf(conn'[t].segs) = {}
    BY <2>3 DEF IdsOf
  <2>7. Held' = Held \ IdsOf(conn[t].segs)
    <3>1. \A u \in Tuples \ {t} : IdsOf(conn[u].segs) \cap IdsOf(conn[t].segs) = {}
      BY <1>1, CustodyFacts DEF IInv
    <3> QED BY <1>1, <2>3, <2>6, <3>1 DEF Held
  <2>8. LeakedNow = IdsOf(conn[t].segs)
    BY <1>2, <2>5, <2>7 DEF LeakedNow, Leaked
  <2>9. GivenUp(t)
    BY <2>1, <2>3, <2>8 DEF GivenUp
  <2> QED BY <1>1, <2>9
<1>8. CASE Terminate(id, p)
  BY <1>8 DEF Terminate, LeakedNow, Leaked
<1> QED BY <1>4, <1>5, <1>6, <1>7, <1>8 DEF Arrive

LEMMA LeaksStep ==
  ASSUME SendMayFail = FALSE, IInv, [Next]_vars, LeakedNow # {}
  PROVE  \E t \in Tuples : Duplicated(t) \/ GivenUp(t)
<1>1. CASE \E id \in Ids, p \in Packets : Arrive(id, p)
  BY <1>1, ArrivalLeaks
<1>2. ASSUME pending' = pending, \A t \in Tuples : conn'[t].segs = conn[t].segs
      PROVE  LeakedNow = {}
  BY <1>2 DEF LeakedNow, Leaked, Held
<1>3. \A t \in Tuples : conn[t] \in Connections
  BY DEF IInv, TypeOK
<1>4. CASE Sweep
  <2> DEFINE msgs == UNION {AcceptAll(t, conn[t].segs) : t \in Dead}
  <2>1. \A x : x \in pending' <=> x \in pending /\ \A m \in msgs : m.id # x
    <3>1. Respond({}, msgs)
      BY <1>4 DEF Sweep
    <3> HIDE DEF msgs
    <3>2. \A x : x \in pending' <=> x \in pending \cup {} /\ \A m \in msgs : m.id # x
      BY <3>1, RespondReliably
    <3> QED BY <3>2
  <2>2. \A t \in Dead : \A x \in IdsOf(conn[t].segs) : \E m \in msgs : m.id = x
    <3> SUFFICES ASSUME NEW t \in Dead, NEW i \in DOMAIN conn[t].segs
                 PROVE  \E m \in msgs : m.id = conn[t].segs[i].id
      BY DEF IdsOf
    <3>1. Verdict(t, i, conn[t].segs[i].id, "ACCEPT") \in msgs
      BY DEF AcceptAll
    <3> QED BY <3>1, VerdictId
  <2>3. \A t \in Tuples \ Dead : conn'[t].segs = conn[t].segs
    BY <1>4 DEF Sweep
  <2> HIDE DEF msgs
  <2>4. LeakedNow = {}
    <3>1. ASSUME NEW x \in pending', x \in Held PROVE x \in Held'
      <4>1. PICK t \in Tuples : x \in IdsOf(conn[t].segs)
        BY <3>1 DEF Held
      <4>2. t \notin Dead
        BY <2>1, <2>2, <4>1
      <4> QED BY <2>3, <4>1, <4>2 DEF Held, IdsOf
    <3> QED BY <2>1, <3>1, NothingLost
  <2> QED BY <2>4
<1>5. CASE SkipSweep
  BY <1>2, <1>5 DEF SkipSweep
<1>6. CASE Tick
  <2>1. \A c \in Connections : Older(c).segs = c.segs
    BY DEF Older, Connections
  <2> QED BY <1>2, <1>3, <1>6, <2>1 DEF Tick
<1>7. CASE SetBack
  <2>1. \A c \in Connections : Younger(c).segs = c.segs
    BY DEF Younger, Connections
  <2> QED BY <1>2, <1>3, <1>7, <2>1 DEF SetBack
<1>8. CASE UNCHANGED vars
  BY <1>2, <1>8 DEF vars
<1> QED BY <1>1, <1>4, <1>5, <1>6, <1>7, <1>8 DEF Next

(* When every verdict can be sent, a packet is lost to the program in two  *)
(* ways only: as a duplicate of a held one, or held when the classifier    *)
(* gives up.  (Without the assumption a verdict that fails is a third.)    *)
THEOREM LeaksAreKnown ==
  ASSUME SendMayFail = FALSE
  PROVE  Spec => LeaksOnlyOnDuplicateOrError
<1>1. IInv /\ [Next]_vars =>
        [LeakedNow # {} => \E t \in Tuples : Duplicated(t) \/ GivenUp(t)]_vars
  BY LeaksStep
<1> QED BY <1>1, Inductive, PTL DEF Spec, LeaksOnlyOnDuplicateOrError
=============================================================================
