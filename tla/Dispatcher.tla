----------------------------- MODULE Dispatcher -----------------------------
(***************************************************************************)
(* The daemon's packet loop (src/src/main.cpp): packets arrive from the    *)
(* netfilter queue one at a time, cb_loop tracks the connection, holds its *)
(* payload until the profile's classifier recognises or rejects it, and    *)
(* sends the verdicts; after every packet the loop may sweep connections   *)
(* that have been silent for too long.                                     *)
(*                                                                         *)
(* The kernel's side is `pending', the packets it keeps for the program.   *)
(* The Modifier is abstracted to the one thing the loop sees of it: which  *)
(* of the packets it was handed it leaves to be accepted and which it      *)
(* replaces, so that the original is dropped and new packets are sent raw. *)
(*                                                                         *)
(* An operator named Bug... is the one below it with a plausible mistake:  *)
(* nothing uses it; the mutation runs put it in the other's place to see   *)
(* which property notices.                                                 *)
(***************************************************************************)
EXTENDS Connection, FiniteSets

CONSTANTS
  Tuples,        \* connection keys: addresses, ports and protocol
  Proto,         \* Proto[t]: "TCP" or "UDP"
  Profile,       \* Profile[t]: the classifiers of the profile of t's port
  Packets,       \* what may arrive: [conn, seq, data, syn, ack, fin, rst, opts]
  Ids,           \* packet ids; as many as the queue has room for
  CHECK_DEAD_CONNECTIONS_INTERVAL_SECS,
  MaxAge,        \* bound: ages beyond every timeout are all alike
  MaxBack,       \* bound: how far the clock is set back in all
  SendMayFail    \* BOOLEAN: may sending a verdict fail?

Bytes == 0 .. 256     \* 256 is Classifier's HTTP_TAG
Options == [kind : {"NOP", "MSS", "OTHER", "BAD"}, val : Nat]
PacketShape ==
  [conn : Tuples, seq : SeqNums, data : Seq(Bytes), syn : BOOLEAN,
   ack : BOOLEAN, fin : BOOLEAN, rst : BOOLEAN, opts : Seq(Options)]

ASSUME ProfileAssumption ==
  /\ Proto \in [Tuples -> {"TCP", "UDP"}]
  /\ \A t \in Tuples : \A i \in DOMAIN Profile[t] : Profile[t][i] \in ClassifierNames

ASSUME PacketsAssumption ==
  \A p \in Packets :
    /\ p.conn \in Tuples /\ p.seq \in SeqNums
    /\ p.data \in Seq(Bytes) /\ p.opts \in Seq(Options)
    /\ {p.syn, p.ack, p.fin, p.rst} \subseteq BOOLEAN

ASSUME ClockAssumption ==
  /\ CHECK_DEAD_CONNECTIONS_INTERVAL_SECS \in Nat
  /\ MaxAge \in Nat /\ MaxBack \in Nat
  /\ MaxAge >= MaxBack + DEFAULT_CONNECTION_TIMEOUT_SECS
  /\ MaxAge >= MaxBack + SYN_TCP_CONNECTION_TIMEOUT_SECS
  /\ MaxAge >= MaxBack + ESTAB_TCP_CONNECTION_TIMEOUT_SECS
  /\ MaxAge >= MaxBack + FIN_TCP_CONNECTION_TIMEOUT_SECS
  /\ MaxAge >= MaxBack + CLOSE_TCP_CONNECTION_TIMEOUT_SECS

ASSUME SendAssumption == SendMayFail \in BOOLEAN

VARIABLES
  tracked,       \* the keys in ConnTracker::conns_
  conn,          \* conn[t]: the record of t, NewConnection if not tracked
  pending,       \* packets the kernel keeps until it gets their verdict
  out,           \* verdict messages of the last step
  handed,        \* packets handed to the Modifier in the last step
  sinceCheck,    \* time since the last sweep
  back,          \* how far the clock has been set back
  pc             \* "recv", "check", or "terminated"

vars == <<tracked, conn, pending, out, handed, sinceCheck, back, pc>>

Segments == [id : Ids, seq : SeqNums, data : Seq(Bytes)]
Connections ==
  [state : TcpStates, expected : SeqNums, mss : Nat, segs : Seq(Segments),
   done : BOOLEAN, l7 : L7Protos, age : Int]
Verdicts ==
  [conn : Tuples, pos : Nat, id : Ids, verdict : {"ACCEPT", "DROP"}]

TypeOK ==
  /\ tracked \subseteq Tuples
  /\ conn \in [Tuples -> Connections]
  /\ pending \subseteq Ids
  /\ out \subseteq Verdicts
  /\ handed \in Seq(Segments)
  /\ sinceCheck \in Int
  /\ back \in 0 .. MaxBack
  /\ pc \in {"recv", "check", "terminated"}

Init ==
  /\ tracked = {}
  /\ conn = [t \in Tuples |-> NewConnection]
  /\ pending = {}
  /\ out = {}
  /\ handed = << >>
  /\ sinceCheck = 0 /\ back = 0
  /\ pc = "recv"

-----------------------------------------------------------------------------
(* Verdicts *)

(* Position 0 is the packet in hand; i > 0 the i-th packet of a list.      *)
Verdict(t, pos, id, verdict) ==
  [conn |-> t, pos |-> pos, id |-> id, verdict |-> verdict]

BugAcceptAll(t, segs) ==
  {Verdict(t, i, segs[i].id, "ACCEPT") : i \in DOMAIN segs \cap {1}}
AcceptAll(t, segs) ==
  {Verdict(t, i, segs[i].id, "ACCEPT") : i \in DOMAIN segs}

(* A verdict that could not be sent is logged and forgotten: the kernel    *)
(* keeps the packet.                                                       *)
Respond(arrived, msgs) ==
  /\ out' = msgs
  /\ \E failed \in SUBSET msgs :
       /\ failed # {} => SendMayFail
       /\ pending' = (pending \cup arrived) \ {m.id : m \in msgs \ failed}

-----------------------------------------------------------------------------
(* cb_loop: one action per way out of it *)

(* recvfrom returned packet p, which the kernel numbered id. *)
Receive(id, p) ==
  /\ pc = "recv"
  /\ id \in Ids \ pending
  /\ pc' = "check"
  /\ tracked' = tracked \cup {p.conn}
  /\ UNCHANGED <<sinceCheck, back>>

Seen(p) == Track(Proto[p.conn], conn[p.conn], p)

BugInspected(p) == p.data # << >>
Inspected(p) == p.data # << >> /\ ~conn[p.conn].done

(* reasm_insert sorts, and throws for UDP, as soon as a packet is held.    *)
CanInsert(p) == Proto[p.conn] = "TCP" \/ conn[p.conn].segs = << >>

Inserted(id, p) ==
  InsertOutcomes(conn[p.conn].segs, [id |-> id, seq |-> p.seq, data |-> p.data])

(* The classifier has decided: nothing is held and the connection is done. *)
BugDecide(c, proto) == [c EXCEPT !.done = TRUE, !.l7 = proto]
Decide(c, proto) == [c EXCEPT !.segs = << >>, !.done = TRUE, !.l7 = proto]

Judge(p, segs) == Classify(Profile[p.conn], ConcatSorted(segs))

(* No payload, or the connection has been dealt with: accept and move on.  *)
AcceptNow(id, p) ==
  /\ Receive(id, p)
  /\ ~Inspected(p)
  /\ conn' = [conn EXCEPT ![p.conn] = Seen(p)]
  /\ handed' = << >>
  /\ Respond({id}, {Verdict(p.conn, 0, id, "ACCEPT")})

(* REASSEMBLING: no verdict.  A duplicate is not even held. *)
Hold(id, p) ==
  /\ Receive(id, p)
  /\ Inspected(p) /\ CanInsert(p)
  /\ \E segs \in Inserted(id, p) :
       /\ Judge(p, segs).res = "REASSEMBLING"
       /\ conn' = [conn EXCEPT ![p.conn] = [Seen(p) EXCEPT !.segs = segs]]
  /\ handed' = << >>
  /\ Respond({id}, {})

(* DONE: the Modifier gets every held packet, replaces some of them, and   *)
(* every one is accepted or dropped.                                       *)
Deliver(id, p) ==
  /\ Receive(id, p)
  /\ Inspected(p) /\ Proto[p.conn] = "TCP"
  /\ \E segs \in Inserted(id, p) :
       /\ Judge(p, segs).res = "DONE"
       /\ conn' = [conn EXCEPT ![p.conn] = Decide(Seen(p), Judge(p, segs).proto)]
       /\ handed' = segs
       /\ \E replaced \in SUBSET DOMAIN segs :
            Respond({id}, {Verdict(p.conn, i, segs[i].id,
                             IF i \in replaced THEN "DROP" ELSE "ACCEPT")
                           : i \in DOMAIN segs})

(* ERROR: the held packets are forgotten first, so the loop that accepts   *)
(* them finds none; only the packet in hand is accepted.                   *)
GiveUp(id, p) ==
  /\ Receive(id, p)
  /\ Inspected(p) /\ CanInsert(p)
  /\ \E segs \in Inserted(id, p) : Judge(p, segs).res = "ERROR"
  /\ conn' = [conn EXCEPT ![p.conn] = Decide(Seen(p), conn[p.conn].l7)]
  /\ handed' = << >>
  /\ Respond({id}, AcceptAll(p.conn, conn'[p.conn].segs)
                     \cup {Verdict(p.conn, 0, id, "ACCEPT")})

(* An exception nobody catches: sorting a second UDP packet, or joining the*)
(* payload of a recognised one.  The kernel drops what it was keeping.     *)
Terminate(id, p) ==
  /\ pc = "recv"
  /\ id \in Ids \ pending
  /\ Inspected(p) /\ Proto[p.conn] = "UDP"
  /\ \/ ~CanInsert(p)
     \/ \E segs \in Inserted(id, p) : Judge(p, segs).res = "DONE"
  /\ pc' = "terminated"
  /\ tracked' = {}
  /\ conn' = [t \in Tuples |-> NewConnection]
  /\ pending' = {} /\ out' = {} /\ handed' = << >>
  /\ UNCHANGED <<sinceCheck, back>>

-----------------------------------------------------------------------------
(* The rest of the loop, and time *)

BugDead ==
  {t \in tracked : conn[t].done /\ conn[t].age >= TimeoutFor(conn[t])}
Dead == {t \in tracked : conn[t].age >= TimeoutFor(conn[t])}

Sweep ==
  /\ pc = "check" /\ sinceCheck >= CHECK_DEAD_CONNECTIONS_INTERVAL_SECS
  /\ tracked' = tracked \ Dead
  /\ conn' = [t \in Tuples |-> IF t \in Dead THEN NewConnection ELSE conn[t]]
  /\ sinceCheck' = 0
  /\ pc' = "recv"
  /\ handed' = << >>
  /\ UNCHANGED back
  /\ Respond({}, UNION {AcceptAll(t, conn[t].segs) : t \in Dead})

SkipSweep ==
  /\ pc = "check" /\ sinceCheck < CHECK_DEAD_CONNECTIONS_INTERVAL_SECS
  /\ pc' = "recv"
  /\ out' = {} /\ handed' = << >>
  /\ UNCHANGED <<tracked, conn, pending, sinceCheck, back>>

(* The system's clock.  What has just been seen may turn out to be newer   *)
(* than now: ages and the time since the last sweep may be negative.       *)
Older(c) == [c EXCEPT !.age = IF @ < MaxAge THEN @ + 1 ELSE @]
Younger(c) == [c EXCEPT !.age = @ - 1]

Tick ==
  /\ pc # "terminated"
  /\ conn' = [t \in Tuples |-> IF t \in tracked THEN Older(conn[t]) ELSE conn[t]]
  /\ sinceCheck' = IF sinceCheck < CHECK_DEAD_CONNECTIONS_INTERVAL_SECS + MaxBack
                   THEN sinceCheck + 1 ELSE sinceCheck
  /\ out' = {} /\ handed' = << >>
  /\ UNCHANGED <<tracked, pending, back, pc>>

SetBack ==
  /\ pc # "terminated" /\ back < MaxBack
  /\ back' = back + 1
  /\ conn' = [t \in Tuples |-> IF t \in tracked THEN Younger(conn[t]) ELSE conn[t]]
  /\ sinceCheck' = sinceCheck - 1
  /\ out' = {} /\ handed' = << >>
  /\ UNCHANGED <<tracked, pending, pc>>

Arrive(id, p) ==
  \/ AcceptNow(id, p)
  \/ Hold(id, p)
  \/ Deliver(id, p)
  \/ GiveUp(id, p)
  \/ Terminate(id, p)

Next ==
  \/ \E id \in Ids, p \in Packets : Arrive(id, p)
  \/ Sweep
  \/ SkipSweep
  \/ Tick
  \/ SetBack

Spec == Init /\ [][Next]_vars

(* The loop never waits except for a packet, the clock runs (and is set    *)
(* back only so far), and while the queue has room some packet keeps coming.*)
Fairness ==
  /\ WF_vars(\E id \in Ids, p \in Packets : Arrive(id, p))
  /\ WF_vars(Sweep \/ SkipSweep)
  /\ WF_vars(Tick)

FairSpec == Spec /\ Fairness
=============================================================================
