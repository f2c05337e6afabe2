------------------------ MODULE LifecycleProperties ------------------------
(***************************************************************************)
(* What the daemon may do to its host, stated over Lifecycle, however      *)
(* earlier processes ended.                                                *)
(***************************************************************************)
EXTENDS Lifecycle

(* The rules that a packet to port matches; the first one decides.  A      *)
(* packet passes if no queue rule is first; it goes to a queue if the rules*)
(* up to some rule of that queue all are.                                  *)
Matching(port, marked) ==
  {i \in DOMAIN chain : \/ chain[i].target = "ACCEPT" /\ marked
                        \/ chain[i].target = "NFQUEUE" /\ chain[i].port = port}
Passes(port, marked) ==
  \A i \in Matching(port, marked) :
    chain[i].target = "NFQUEUE" => \E k \in Matching(port, marked) : k < i
GoesTo(port, num) ==
  \E i \in Matching(port, FALSE) :
    \A k \in Matching(port, FALSE) : k <= i => chain[k].num = num

(* A rule for port that belongs to another queue than the configured one;  *)
(* one of these ahead of the configured one; one of these found instead.   *)
Foreign(i, port) ==
  chain[i].target = "NFQUEUE" /\ chain[i].port = port /\ chain[i].num # config.num
Behind(port) ==
  \E i, k \in DOMAIN chain :
    k < i /\ Foreign(k, port) /\ chain[i] = QueueRule(port, config.num)
Taken(port) ==
  listed /\ \E i \in DOMAIN chain :
              i <= Window /\ Foreign(i, port) /\ Begins(config.num, chain[i].num)

-----------------------------------------------------------------------------
(* What the daemon sends itself is never queued to it again, which would   *)
(* have it rewrite its own packets without end: the mark rule stays ahead  *)
(* of every queue rule although each start adds one of each at the end and *)
(* each exit removes the first of each, whatever killed or failing         *)
(* processes left in between, rules that were missed and added twice too.  *)
(* (A command that failed, or a start with another configuration over      *)
(* rules left behind, can break it.)                                       *)
OwnPacketsPass ==
  mishaps \subseteq {"missed"} =>
    \A c \in Configs : \A i \in DOMAIN c.profiles :
      Passes(c.profiles[i].port, TRUE)

(* After a clean exit no queue rule is left, those of earlier processes    *)
(* that were killed or failed included: with nobody to read the queue, such*)
(* a rule drops every connection to its port.  This is claimed only when   *)
(* nothing went wrong on the way (mishaps = {}): no command failed, no     *)
(* start had another configuration over rules left behind, and no rule that*)
(* was there was missed in the listing.  A host whose iptables lists a     *)
(* rule's options in another order than the program asks for them (listed) *)
(* misses every rule left behind; there a clean exit removes one of each.  *)
NothingLeftBehind ==
  (exit = "clean" /\ mishaps = {}) =>
    \A i \in DOMAIN chain : chain[i].target # "NFQUEUE"

(* While the loop runs, the packets of every configured port come to this  *)
(* process's queue, its rules being added, found or missed by a text search*)
(* over what earlier processes left.  There are three exceptions: a command*)
(* has failed (nobody looks) and the port has no rule of this queue; and,  *)
(* if since the first start one had another configuration over rules left  *)
(* behind, a rule of another queue is ahead of this process's, or it was   *)
(* taken for it, as a search for "--queue-num 14" finds "--queue-num 1489".*)
(* For no other reason is a port not captured.                             *)
CapturesItsPorts ==
  pc \in {"test", "recv"} =>
    \A i \in DOMAIN config.profiles :
      LET port == config.profiles[i].port
          ruled == InChain(QueueRule(port, config.num))
      IN  \/ GoesTo(port, config.num)
          \/ ~ruled /\ "failed" \in mishaps
          \/ /\ "reconfigured" \in mishaps
             /\ Behind(port) \/ (~ruled /\ Taken(port))

(* SIGINT in the loop ends the process, rules removed or not, unless the   *)
(* loop waits for a packet forever: the handler may restart recvfrom, and  *)
(* a signal just before the call does not end it.                          *)
SignalEnds == []<>(~stop) \/ <>[](pc = "recv")
=============================================================================
