---------------------------- MODULE NfqContract -----------------------------
(***************************************************************************)
(* What a netfilter queue needs from the program that reads it: a verdict  *)
(* is only ever sent for a packet the kernel is still keeping, and one step*)
(* never sends two verdicts for the same packet.  Nothing is promised about*)
(* when a packet is answered; that is Dispatcher's liveness.               *)
(***************************************************************************)
CONSTANT Ids      \* the packets the queue can keep

VARIABLES
  pending,        \* packets handed to the program and not yet answered
  out             \* verdict messages of the last step, each with an id

vars == <<pending, out>>

Init == pending = {} /\ out = {}

OnePerPacket(msgs) == \A m, n \in msgs : m.id = n.id => m = n

(* The program takes in some packets and sends some verdicts; the kernel   *)
(* forgets the packets whose verdict it received, which may be fewer.      *)
Answer(arrived, msgs, received) ==
  /\ arrived \subseteq Ids \ pending
  /\ received \subseteq msgs
  /\ OnePerPacket(msgs)
  /\ \A m \in msgs : m.id \in pending \cup arrived
  /\ out' = msgs
  /\ pending' = (pending \cup arrived) \ {m.id : m \in received}

(* The queue's socket is closed: the kernel drops what it was keeping.     *)
Close == pending' = {} /\ out' = {}

(* The messages themselves are whatever the program sends, so the step is  *)
(* written on out'.                                                        *)
Step ==
  \E arrived \in SUBSET (Ids \ pending) : \E received \in SUBSET out' :
    Answer(arrived, out', received)

Next == Step \/ Close

Spec == Init /\ [][Next]_vars
=============================================================================
