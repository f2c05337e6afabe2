----------------------------- MODULE Lifecycle -----------------------------
(***************************************************************************)
(* The life of the daemon around its packet loop (main in src/src/main.cpp,*)
(* build_profiles, src/src/sys/iptables.cpp): it installs a rule that lets *)
(* its own marked packets pass and one rule per profile that queues a port,*)
(* loops until SIGINT, removes the rules again; and it may fail or be      *)
(* killed on the way, leave rules behind, and be started again.            *)
(*                                                                         *)
(* What outlives the process is `chain', the host's OUTPUT chain.  The     *)
(* loop's body is Dispatcher's; here it is one step, Receive.              *)
(*                                                                         *)
(* An operator named Bug... is the one below it with a plausible mistake:  *)
(* nothing uses it; the mutation runs put it in the other's place to see   *)
(* which property notices.                                                 *)
(***************************************************************************)
EXTENDS Naturals, Sequences

CONSTANTS
  Configs,          \* [profiles, num]: what a start may be configured with;
                    \* a profile is [port, valid], num is the queue's number
  Window,           \* how many rules of the chain 1024 bytes of listing show
  CommandsMayFail,  \* BOOLEAN: may an iptables command fail (nobody looks)?
  MaxStarts         \* bound: how often the daemon is started

ASSUME ConfigsAssumption ==
  \A c \in Configs :
    /\ c.num \in Nat
    /\ c.profiles \in Seq([port : Nat, valid : BOOLEAN])

ASSUME BoundsAssumption ==
  Window \in Nat /\ MaxStarts \in Nat /\ CommandsMayFail \in BOOLEAN

VARIABLES
  chain,      \* the rules of OUTPUT, in the order in which they are tried
  listed,     \* does this iptables list a queue rule in the program's words?
  config,     \* the configuration of the last start
  pc,         \* where main is; "down" when there is no process
  built,      \* profiles built so far
  left,       \* rules still to be removed
  running,    \* the flag the signal handler clears
  restarts,   \* does the handler restart system calls? (sa_flags is not set)
  stop,       \* SIGINT came since the loop began
  exit,       \* how the last process ended
  mishaps,    \* what went wrong since the first start; see below
  starts      \* number of starts

vars == <<chain, listed, config, pc, built, left, running, restarts, stop, exit,
          mishaps, starts>>

MarkRule == [target |-> "ACCEPT", port |-> 0, num |-> 0]
QueueRule(port, num) == [target |-> "NFQUEUE", port |-> port, num |-> num]
Rules == [target : {"ACCEPT", "NFQUEUE"}, port : Nat, num : Nat]

Wanted(c) == {QueueRule(c.profiles[i].port, c.num) : i \in DOMAIN c.profiles}

(* "failed": an iptables command did not do what it was told.              *)
(* "missed": a queue rule that was there was not found and added again.    *)
(* "reconfigured": a start found a queue rule it was not configured for.   *)
Mishaps == {"failed", "missed", "reconfigured"}

TypeOK ==
  /\ chain \in Seq(Rules)
  /\ listed \in BOOLEAN
  /\ config \in Configs
  /\ pc \in {"down", "arguments", "mark", "profiles", "sockets", "armed", "test",
             "recv", "unrule"}
  /\ built \in 0 .. Len(config.profiles)
  /\ left \subseteq (IF pc = "unrule" THEN Wanted(config) ELSE {})
  /\ running \in BOOLEAN /\ restarts \in BOOLEAN /\ stop \in BOOLEAN
  /\ exit \in {"none", "clean", "failure", "exception", "killed"}
  /\ mishaps \subseteq Mishaps
  /\ starts \in 0 .. MaxStarts

Init ==
  /\ chain = << >>
  /\ listed \in BOOLEAN
  /\ config \in Configs
  /\ pc = "down"
  /\ built = 0 /\ left = {}
  /\ running = TRUE /\ restarts = FALSE /\ stop = FALSE
  /\ exit = "none" /\ mishaps = {} /\ starts = 0

(* The process is gone; the kernel closes its sockets. *)
BugEnds(how) ==
  /\ pc' = "down" /\ exit' = how
  /\ stop' = FALSE
  /\ UNCHANGED <<listed, config, built, left, running, restarts, starts>>
Ends(how) ==
  /\ pc' = "down" /\ exit' = how
  /\ left' = {} /\ stop' = FALSE
  /\ UNCHANGED <<listed, config, built, running, restarts, starts>>

-----------------------------------------------------------------------------
(* iptables (external), and rule_exists, rule_add, rule_remove *)

(* A text search: a number that begins with the one asked for will do.     *)
Begins(n, m) == \E k \in 0 .. 5 : m \div 10 ^ k = n

(* The mark is asked for in decimal and listed in hexadecimal.             *)
BugMatchesText(rule, asked) == rule.target = asked.target /\ rule.num = asked.num
MatchesText(rule, asked) ==
  /\ asked.target = "NFQUEUE" /\ rule.target = "NFQUEUE"
  /\ rule.port = asked.port /\ Begins(asked.num, rule.num)

Shown == {chain[i] : i \in {k \in DOMAIN chain : k <= Window}}

BugRuleExists(asked) == FALSE
RuleExists(asked) == listed /\ \E rule \in Shown : MatchesText(rule, asked)

(* A command whose exit status is not zero counts as success.              *)
Command(effect, noted) ==
  \/ chain' = effect /\ mishaps' = mishaps \cup noted
  \/ CommandsMayFail /\ UNCHANGED chain /\ mishaps' = mishaps \cup noted \cup {"failed"}

InChain(rule) == \E i \in DOMAIN chain : chain[i] = rule

(* A queue rule is in the chain, but not in what the program reads of it.  *)
Missed(rule) ==
  IF rule.target = "NFQUEUE" /\ InChain(rule) /\ ~(listed /\ rule \in Shown)
  THEN {"missed"} ELSE {}

BugAdded(rule) == <<rule>> \o chain
Added(rule) == Append(chain, rule)
EnsureRule(rule) ==
  IF RuleExists(rule) THEN UNCHANGED <<chain, mishaps>>
                      ELSE Command(Added(rule), Missed(rule))

IsFirst(i, rule) == chain[i] = rule /\ \A k \in 1 .. i - 1 : chain[k] # rule
Without(i) == SubSeq(chain, 1, i - 1) \o SubSeq(chain, i + 1, Len(chain))

(* -D removes the first such rule; without one the command fails.          *)
RuleRemove(rule) ==
  \/ \E i \in DOMAIN chain : IsFirst(i, rule) /\ Command(Without(i), {})
  \/ ~InChain(rule) /\ UNCHANGED <<chain, mishaps>>

-----------------------------------------------------------------------------
(* Starting *)

(* Which of the handler's flags are set is whatever was on the stack.      *)
Start ==
  /\ pc = "down" /\ starts < MaxStarts
  /\ config' \in Configs
  /\ restarts' \in BOOLEAN
  /\ pc' = "arguments" /\ running' = TRUE /\ built' = 0 /\ starts' = starts + 1
  /\ mishaps' = mishaps \cup
       (IF \A i \in DOMAIN chain : chain[i] \in Wanted(config') \cup {MarkRule}
        THEN {} ELSE {"reconfigured"})
  /\ exit' = "none"
  /\ UNCHANGED <<chain, listed, left, stop>>

(* No configuration file, or a queue number above 65535.                   *)
BadArguments ==
  /\ pc = "arguments"
  /\ Ends("exception")
  /\ UNCHANGED <<chain, mishaps>>

GoodArguments ==
  /\ pc = "arguments" /\ config.num <= 65535
  /\ pc' = "mark"
  /\ UNCHANGED <<chain, listed, config, built, left, running, restarts, stop, exit,
                 mishaps, starts>>

AddMark ==
  /\ pc = "mark"
  /\ EnsureRule(MarkRule)
  /\ pc' = "profiles"
  /\ UNCHANGED <<listed, config, built, left, running, restarts, stop, exit, starts>>

Profile == config.profiles[built + 1]
Duplicate == \E i \in 1 .. built : config.profiles[i].port = Profile.port

(* One profile: its arguments first, its rule last. *)
BuildProfile ==
  /\ pc = "profiles" /\ built < Len(config.profiles)
  /\ Profile.valid /\ ~Duplicate
  /\ EnsureRule(QueueRule(Profile.port, config.num))
  /\ built' = built + 1
  /\ UNCHANGED <<listed, config, pc, left, running, restarts, stop, exit, starts>>

(* A profile with a missing or wrong argument or a port seen before throws,*)
(* and so does a file without profiles; the rules added so far stay.       *)
BadProfile ==
  /\ pc = "profiles"
  /\ \/ config.profiles = << >>
     \/ built < Len(config.profiles) /\ (~Profile.valid \/ Duplicate)
  /\ Ends("exception")
  /\ UNCHANGED <<chain, mishaps>>

ProfilesBuilt ==
  /\ pc = "profiles" /\ config.profiles # << >> /\ built = Len(config.profiles)
  /\ pc' = "sockets"
  /\ UNCHANGED <<chain, listed, config, built, left, running, restarts, stop, exit,
                 mishaps, starts>>

OpenSockets ==
  /\ pc = "sockets"
  /\ pc' = "armed"
  /\ UNCHANGED <<chain, listed, config, built, left, running, restarts, stop, exit,
                 mishaps, starts>>

OpenFails ==
  /\ pc = "sockets"
  /\ Ends("failure")
  /\ UNCHANGED <<chain, mishaps>>

(* running.store(true): a SIGINT that came before is forgotten. *)
EnterLoop ==
  /\ pc = "armed"
  /\ running' = TRUE
  /\ pc' = "test"
  /\ UNCHANGED <<chain, listed, config, built, left, restarts, stop, exit, mishaps,
                 starts>>

-----------------------------------------------------------------------------
(* The loop, and SIGINT *)

ToRemove == Wanted(config)

BugWhile ==
  /\ pc' = "recv" /\ UNCHANGED left
While ==
  \/ running /\ pc' = "recv" /\ UNCHANGED left
  \/ ~running /\ pc' = "unrule" /\ left' = ToRemove

Test ==
  /\ pc = "test"
  /\ While
  /\ UNCHANGED <<chain, listed, config, built, running, restarts, stop, exit, mishaps,
                 starts>>

(* A packet comes, is dealt with, and dead connections may be swept. *)
Receive ==
  /\ pc = "recv"
  /\ pc' = "test"
  /\ UNCHANGED <<chain, listed, config, built, left, running, restarts, stop, exit,
                 mishaps, starts>>

LoopFails ==
  /\ pc = "recv"
  /\ Ends("failure")
  /\ UNCHANGED <<chain, mishaps>>

(* The handler clears the flag.  In recvfrom the signal ends the call, and *)
(* the loop, unless calls are restarted; just before it, it does not.      *)
Sigint ==
  /\ pc # "down"
  /\ running' = FALSE
  /\ stop' = (stop \/ pc \in {"test", "recv"})
  /\ \/ UNCHANGED <<pc, left>>
     \/ pc = "recv" /\ ~restarts /\ pc' = "unrule" /\ left' = ToRemove
  /\ UNCHANGED <<chain, listed, config, built, restarts, exit, mishaps, starts>>

-----------------------------------------------------------------------------
(* Ending *)

Unrule ==
  /\ pc = "unrule"
  /\ \E rule \in left : RuleRemove(rule) /\ left' = left \ {rule}
  /\ UNCHANGED <<listed, config, pc, built, running, restarts, stop, exit, starts>>

Unmark ==
  /\ pc = "unrule" /\ left = {}
  /\ RuleRemove(MarkRule)
  /\ Ends("clean")

(* Killed, or an exception nobody catches, at any point. *)
Die ==
  /\ pc # "down"
  /\ Ends("killed")
  /\ UNCHANGED <<chain, mishaps>>

Step ==
  \/ GoodArguments \/ AddMark \/ BuildProfile \/ BadProfile \/ ProfilesBuilt
  \/ OpenSockets \/ EnterLoop \/ Test \/ Unrule \/ Unmark

Next ==
  \/ Step
  \/ Start \/ BadArguments \/ OpenFails \/ Receive \/ LoopFails \/ Sigint \/ Die

Spec == Init /\ [][Next]_vars

(* The process keeps taking its own steps; nobody owes it a packet.        *)
FairSpec == Spec /\ WF_vars(Step)
=============================================================================
