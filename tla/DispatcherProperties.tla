------------------------ MODULE DispatcherProperties ------------------------
(***************************************************************************)
(* What the packet loop must and must not do, stated over Dispatcher.      *)
(***************************************************************************)
EXTENDS Dispatcher

IdsOf(segs) == {segs[i].id : i \in DOMAIN segs}

Held == UNION {IdsOf(conn[t].segs) : t \in Tuples}

(* Packets the kernel is keeping and the program no longer knows of: only  *)
(* closing the queue can ever answer them.                                 *)
Leaked == pending \ Held

-----------------------------------------------------------------------------
(* Invariants *)

(* A packet the program holds still waits for its verdict: reasm_.segs     *)
(* never keeps a packet that one of the exits of cb_loop or the sweep has  *)
(* answered, so no packet is answered twice.                               *)
HeldArePending == Held \subseteq pending

(* A packet is held in one place: no connection holds it twice, whatever   *)
(* reasm_insert and reasm_sort do to the list, and no two connections do.  *)
HeldOnce ==
  \A t, u \in Tuples :
    \A i \in DOMAIN conn[t].segs, j \in DOMAIN conn[u].segs :
      conn[t].segs[i].id = conn[u].segs[j].id => t = u /\ i = j

(* Only what the classifier still cannot decide is held: a connection with *)
(* held segments is not done, and its segments, joined as the classifier   *)
(* joins them, are a payload some classifier of the profile wants more of. *)
HeldIsUndecided ==
  \A t \in Tuples :
    conn[t].segs # << >> =>
      /\ ~conn[t].done
      /\ Classify(Profile[t], ConcatSorted(conn[t].segs)).res = "REASSEMBLING"

(* Held segments are in strictly rising sequence order, across the wrap of *)
(* the sequence space too: neither reasm_insert's append without sorting   *)
(* nor the dropped duplicates break the order concat_sorted relies on.     *)
HeldInSequence ==
  \A t \in Tuples :
    Proto[t] = "TCP" =>
      \A i, j \in DOMAIN conn[t].segs :
        i < j => SeqLT(conn[t].segs[i].seq, conn[t].segs[j].seq)

-----------------------------------------------------------------------------
(* Action properties *)

(* When every verdict can be sent, packets are lost to the program in two  *)
(* ways only, both in cb_loop: the arriving packet repeats the sequence    *)
(* number of a held one (then it alone is lost), or it makes the classifier*)
(* give up (then all that was held is lost).  In particular neither a sweep*)
(* nor a finished connection leaves anything behind.                       *)
LeakedNow == Leaked' \ Leaked
Duplicated(t) ==
  /\ conn[t].segs # << >> /\ conn'[t].segs = conn[t].segs
  /\ Cardinality(LeakedNow) = 1 /\ LeakedNow \cap pending = {}
GivenUp(t) ==
  /\ ~conn[t].done /\ conn'[t].done /\ handed' = << >>
  /\ LeakedNow = IdsOf(conn[t].segs)
LeaksOnlyOnDuplicateOrError ==
  [][LeakedNow # {} => \E t \in Tuples : Duplicated(t) \/ GivenUp(t)]_vars

(* While a record lives its TCP state only moves forward: no late or       *)
(* reordered packet reopens a connection that was seen closing, or sends an*)
(* established one back to its handshake.                                  *)
Progress ==
  [s \in TcpStates |-> CASE s = "UNKNOWN" -> 0 [] s = "SYN" -> 1
                         [] s = "ESTAB" -> 2 [] s = "FIN" -> 3 [] s = "CLOSED" -> 4]
StateOnlyAdvances ==
  [][\A t \in tracked \cap tracked' :
       Progress[conn[t].state] <= Progress[conn'[t].state]]_vars

(* What was decided stays decided: a done connection keeps its protocol,   *)
(* holds nothing, and every packet of it is accepted the moment it arrives,*)
(* until the sweep forgets the connection.                                 *)
DoneIsFinal ==
  [][\A t \in tracked \cap tracked' :
       conn[t].done =>
         /\ conn'[t].done /\ conn'[t].l7 = conn[t].l7 /\ conn'[t].segs = << >>
         /\ \A m \in out' : m.conn = t => m.verdict = "ACCEPT" /\ m.pos = 0]_vars

(* The loop keeps the netfilter queue's contract. *)
Contract == INSTANCE NfqContract
KeepsContract == Contract!Spec

-----------------------------------------------------------------------------
(* Liveness *)

Hears(t) == \E id \in Ids, p \in Packets : p.conn = t /\ Arrive(id, p)

(* What a connection holds is let go in the end, by a decision or by the   *)
(* sweep, unless its own packets keep arriving (each one makes it young    *)
(* again) or the queue is full of unanswered packets (then nothing wakes   *)
(* the loop and no sweep runs).                                            *)
QuietIsReleased ==
  \A t \in Tuples :
    \/ []<>(conn[t].segs = << >>)
    \/ []<><<Hears(t)>>_vars
    \/ <>[](pending = Ids)

-----------------------------------------------------------------------------
(* What comments of the code say, and the code does not do *)

(* main.cpp:149-153: when the classifier gives up, the packets held so far *)
(* are accepted.                                                           *)
ErrorReleasesHeld ==
  [][\A t \in Tuples :
       (~conn[t].done /\ conn'[t].done /\ handed' = << >>)
         => IdsOf(conn[t].segs) \cap pending' = {}]_vars

(* markers.cpp:37: what the modifiers parse as TLS is what the classifier  *)
(* recognised as a complete TLS handshake record.  The comment takes only  *)
(* its being a handshake for granted; the whole record is asked for since  *)
(* the parser's first read behind the header (line 45) is unguarded, and   *)
(* the run hands it a header and nothing behind.                           *)
HandedIsTls ==
  \A m \in out :
    (handed # << >> /\ conn[m.conn].l7 = "TLS")
      => TlsHandshakeClassify(Concat(handed)) = "DONE"
=============================================================================
