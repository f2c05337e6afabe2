-------------------------- MODULE LifecycleProofs --------------------------
(***************************************************************************)
(* Theorems about Lifecycle, for every set of configurations, any number of*)
(* starts, and any listing.                                                *)
(***************************************************************************)
EXTENDS LifecycleProperties, SequenceTheorems, TLAPS

(* The steps that leave the chain, the configuration and what went wrong.  *)
Elsewhere ==
  \/ GoodArguments \/ BadArguments \/ BadProfile \/ ProfilesBuilt \/ OpenSockets
  \/ OpenFails \/ EnterLoop \/ Test \/ Receive \/ LoopFails \/ Sigint \/ Die

(* A rule a configuration asks for is a queue rule, and the mark rule none.*)
LEMMA WantedFacts ==
  ASSUME NEW c \in Configs
  PROVE  /\ Wanted(c) \subseteq Rules
         /\ \A r \in Wanted(c) : r.target = "NFQUEUE" /\ r.num = c.num /\ r # MarkRule
         /\ \A r, s \in Wanted(c) : r.port = s.port => r = s
         /\ MarkRule \in Rules /\ MarkRule.target = "ACCEPT"
<1>1. c.num \in Nat /\ c.profiles \in Seq([port : Nat, valid : BOOLEAN])
  BY ConfigsAssumption
<1>2. \A i \in DOMAIN c.profiles : c.profiles[i].port \in Nat
  <2>1. \A i \in 1 .. Len(c.profiles) : c.profiles[i] \in [port : Nat, valid : BOOLEAN]
    BY <1>1, ElementOfSeq
  <2> QED
    BY <1>1, <2>1, LenProperties
<1>3. \A r \in Wanted(c) :
        \E n \in Nat : r = [target |-> "NFQUEUE", port |-> n, num |-> c.num]
  BY <1>2 DEF Wanted, QueueRule
<1> QED
  BY <1>1, <1>3 DEF MarkRule, Rules

(* A chain without its f-th rule: every other rule is there, in the order  *)
(* it was in.                                                              *)
LEMMA WithoutFacts ==
  ASSUME chain \in Seq(Rules), NEW f \in DOMAIN chain
  PROVE  /\ Without(f) \in Seq(Rules)
         /\ Len(Without(f)) = Len(chain) - 1
         /\ \A n \in 1 .. Len(chain) - 1 :
              Without(f)[n] = chain[IF n < f THEN n ELSE n + 1]
<1> DEFINE front == SubSeq(chain, 1, f - 1)
           back == SubSeq(chain, f + 1, Len(chain))
<1>1. f \in 1 .. Len(chain) /\ Len(chain) \in Nat
  BY LenProperties
<1>2. \A i \in 1 .. Len(chain) : chain[i] \in Rules
  BY ElementOfSeq
<1>3. /\ front \in Seq(Rules) /\ Len(front) = f - 1
      /\ \A n \in 1 .. f - 1 : front[n] = chain[n]
  <2>1. \A i \in 1 .. f - 1 : chain[i] \in Rules
    BY <1>1, <1>2
  <2>2. 1 \in Int /\ f - 1 \in Int
    BY <1>1
  <2> QED
    BY <1>1, <2>1, <2>2, SubSeqProperties
<1>4. /\ back \in Seq(Rules) /\ Len(back) = Len(chain) - f
      /\ \A n \in 1 .. Len(chain) - f : back[n] = chain[f + n]
  <2>1. \A i \in f + 1 .. Len(chain) : chain[i] \in Rules
    BY <1>1, <1>2
  <2>2. f + 1 \in Int /\ Len(chain) \in Int
    BY <1>1
  <2> QED
    BY <1>1, <2>1, <2>2, SubSeqProperties
<1> HIDE DEF front, back
<1>5. /\ front \o back \in Seq(Rules)
      /\ Len(front \o back) = Len(front) + Len(back)
      /\ \A i \in 1 .. Len(front) + Len(back) :
           (front \o back)[i] = IF i <= Len(front) THEN front[i] ELSE back[i - Len(front)]
  BY <1>3, <1>4, ConcatProperties
<1>6. Without(f) = front \o back
  BY DEF Without, front, back
<1>7. Len(front) + Len(back) = Len(chain) - 1
  BY <1>1, <1>3, <1>4
<1>8. ASSUME NEW n \in 1 .. Len(chain) - 1
      PROVE  (front \o back)[n] = chain[IF n < f THEN n ELSE n + 1]
  <2>1. (front \o back)[n] = IF n <= f - 1 THEN front[n] ELSE back[n - (f - 1)]
    BY <1>3, <1>5, <1>7
  <2>2. CASE n < f
    BY <1>1, <1>3, <2>1, <2>2
  <2>3. CASE ~(n < f)
    <3>1. n - (f - 1) \in 1 .. Len(chain) - f /\ f + (n - (f - 1)) = n + 1
      BY <1>1, <2>3
    <3> QED
      BY <1>1, <1>4, <2>1, <2>3, <3>1, SMTT(30)
  <2> QED
    BY <2>2, <2>3
<1> QED
  BY <1>5, <1>6, <1>7, <1>8

LEMMA AddedFacts ==
  ASSUME chain \in Seq(Rules), NEW rule \in Rules
  PROVE  /\ Added(rule) \in Seq(Rules)
         /\ Len(Added(rule)) = Len(chain) + 1
         /\ \A n \in 1 .. Len(chain) : Added(rule)[n] = chain[n]
         /\ Added(rule)[Len(chain) + 1] = rule
  BY DEF Added

LEMMA CommandTypes ==
  ASSUME NEW effect \in Seq(Rules), NEW noted \in SUBSET Mishaps, Command(effect, noted),
         chain \in Seq(Rules), mishaps \subseteq Mishaps
  PROVE  chain' \in Seq(Rules) /\ mishaps' \subseteq Mishaps
<1>1. "failed" \in Mishaps
  BY DEF Mishaps
<1> QED
  BY <1>1 DEF Command

LEMMA EnsureTypes ==
  ASSUME TypeOK, NEW rule \in Rules, EnsureRule(rule)
  PROVE  chain' \in Seq(Rules) /\ mishaps' \subseteq Mishaps
<1>1. chain \in Seq(Rules) /\ mishaps \subseteq Mishaps
  BY DEF TypeOK
<1>2. Added(rule) \in Seq(Rules) /\ Missed(rule) \in SUBSET Mishaps
  BY <1>1, AddedFacts DEF Missed, Mishaps
<1> QED
  BY <1>1, <1>2, CommandTypes DEF EnsureRule

LEMMA RemoveTypes ==
  ASSUME TypeOK, NEW rule, RuleRemove(rule)
  PROVE  chain' \in Seq(Rules) /\ mishaps' \subseteq Mishaps
<1>1. chain \in Seq(Rules) /\ mishaps \subseteq Mishaps
  BY DEF TypeOK
<1>2. \A i \in DOMAIN chain : Without(i) \in Seq(Rules)
  BY <1>1, WithoutFacts
<1> QED
  BY <1>1, <1>2, CommandTypes DEF RuleRemove

LEMMA ConfigFacts ==
  ASSUME TypeOK
  PROVE  /\ config \in Configs /\ config.num \in Nat
         /\ Len(config.profiles) \in Nat /\ DOMAIN config.profiles = 1 .. Len(config.profiles)
         /\ \A i \in DOMAIN config.profiles : config.profiles[i].port \in Nat
         /\ built \in 0 .. Len(config.profiles)
<1>1. config \in Configs /\ built \in 0 .. Len(config.profiles)
  BY DEF TypeOK
<1>2. config.num \in Nat /\ config.profiles \in Seq([port : Nat, valid : BOOLEAN])
  BY <1>1, ConfigsAssumption
<1>3. \A i \in 1 .. Len(config.profiles) : config.profiles[i] \in [port : Nat, valid : BOOLEAN]
  BY <1>2, ElementOfSeq
<1>4. Len(config.profiles) \in Nat /\ DOMAIN config.profiles = 1 .. Len(config.profiles)
  BY <1>2, LenProperties
<1> QED
  BY <1>1, <1>2, <1>3, <1>4

(* The profile at hand is one of the configuration's. *)
LEMMA ProfileFacts ==
  ASSUME TypeOK, built < Len(config.profiles)
  PROVE  /\ built + 1 \in DOMAIN config.profiles
         /\ QueueRule(Profile.port, config.num) \in Wanted(config)
<1>1. built + 1 \in DOMAIN config.profiles
  BY ConfigFacts
<1> QED
  BY <1>1 DEF Profile, Wanted

LEMMA ElsewhereKeeps ==
  ASSUME Elsewhere
  PROVE  UNCHANGED <<chain, mishaps, config, listed, starts>>
  BY DEF Elsewhere, GoodArguments, BadArguments, BadProfile, ProfilesBuilt, OpenSockets,
         OpenFails, EnterLoop, Test, Receive, LoopFails, Sigint, Die, Ends

(* Every variable of the daemon's life keeps its type. *)
THEOREM LifecycleTypes == Spec => []TypeOK
<1>1. Init => TypeOK
  <2> SUFFICES ASSUME Init PROVE TypeOK
    OBVIOUS
  <2>1. config.profiles \in Seq([port : Nat, valid : BOOLEAN])
    BY ConfigsAssumption DEF Init
  <2>2. Len(config.profiles) \in Nat
    BY <2>1, LenProperties
  <2>3. << >> \in Seq(Rules)
    BY EmptySeq
  <2>4. 0 \in 0 .. Len(config.profiles) /\ 0 \in 0 .. MaxStarts
    BY <2>2, BoundsAssumption
  <2> QED
    BY <2>3, <2>4 DEF Init, TypeOK
<1>2. TypeOK /\ [Next]_vars => TypeOK'
  <2> SUFFICES ASSUME TypeOK, [Next]_vars PROVE TypeOK'
    OBVIOUS
  <2>1. CASE Start
    <3>1. Len(config'.profiles) \in Nat
      BY <2>1, ConfigsAssumption DEF Start
    <3> QED
      BY <2>1, <3>1, BoundsAssumption DEF Start, TypeOK, Mishaps
  <2>2. CASE AddMark
    BY <2>2, EnsureTypes, WantedFacts DEF TypeOK, AddMark
  <2>3. CASE BuildProfile
    <3>1. Len(config.profiles) \in Nat
      BY ConfigFacts
    <3>2. QueueRule(Profile.port, config.num) \in Rules
      BY <2>3, ProfileFacts, WantedFacts DEF BuildProfile, TypeOK
    <3> QED
      BY <2>3, <3>1, <3>2, EnsureTypes DEF TypeOK, BuildProfile
  <2>4. CASE Unrule
    BY <2>4, RemoveTypes DEF Unrule, TypeOK
  <2>5. CASE Unmark
    BY <2>5, RemoveTypes DEF Unmark, TypeOK, Ends
  <2>6. CASE Elsewhere
    <3>1. CASE \/ GoodArguments \/ ProfilesBuilt \/ OpenSockets \/ EnterLoop \/ Receive
      <4>1. pc # "unrule" /\ pc' # "unrule" /\ left' = left
        BY <3>1 DEF GoodArguments, ProfilesBuilt, OpenSockets, EnterLoop, Receive
      <4>2. left' = {}
        BY <4>1 DEF TypeOK
      <4>3. UNCHANGED <<chain, listed, config, built, restarts, stop, exit, mishaps, starts>>
        BY <3>1 DEF GoodArguments, ProfilesBuilt, OpenSockets, EnterLoop, Receive
      <4>4. pc' \in {"mark", "sockets", "armed", "test"}
        BY <3>1 DEF GoodArguments, ProfilesBuilt, OpenSockets, EnterLoop, Receive
      <4>5. running' = running \/ running' = TRUE
        BY <3>1 DEF GoodArguments, ProfilesBuilt, OpenSockets, EnterLoop, Receive
      <4> QED
        BY <4>2, <4>3, <4>4, <4>5 DEF TypeOK
    <3>4. CASE \/ BadArguments \/ BadProfile \/ OpenFails \/ LoopFails \/ Die
      BY <3>4 DEF BadArguments, BadProfile, OpenFails, LoopFails, Die, Ends, TypeOK
    <3>2. CASE Test
      BY <3>2 DEF Test, While, ToRemove, TypeOK
    <3>3. CASE Sigint
      BY <3>3 DEF Sigint, ToRemove, TypeOK
    <3> QED
      BY <2>6, <3>1, <3>2, <3>3, <3>4 DEF Elsewhere
  <2>7. CASE UNCHANGED vars
    BY <2>7 DEF vars, TypeOK
  <2> QED
    BY <2>1, <2>2, <2>3, <2>4, <2>5, <2>6, <2>7 DEF Next, Step, Elsewhere
<1> QED
  BY <1>1, <1>2, PTL DEF Spec

-----------------------------------------------------------------------------
(* What the steps do to the chain *)

(* Nothing went wrong that can break the order or the contents of the chain.*)
Clean == mishaps \subseteq {"missed"}

LEMMA BeginsItself == \A n \in Nat : Begins(n, n)
  BY DEF Begins

(* A rule that is not found is added; unless that is noted it is new.      *)
LEMMA EnsureFacts ==
  ASSUME TypeOK, NEW rule \in Rules, EnsureRule(rule)
  PROVE  /\ mishaps \subseteq mishaps'
         /\ chain' = chain \/ chain' = Added(rule)
         /\ Clean' => (RuleExists(rule) /\ chain' = chain) \/ chain' = Added(rule)
         /\ (mishaps' = {} /\ rule.target = "NFQUEUE" /\ InChain(rule)) => chain' = chain
<1>1. CASE RuleExists(rule)
  BY <1>1 DEF EnsureRule
<1>2. CASE ~RuleExists(rule)
  <2>1. Command(Added(rule), Missed(rule))
    BY <1>2 DEF EnsureRule
  <2>2. rule.target = "NFQUEUE" => ~(listed /\ rule \in Shown)
    BY <1>2, BeginsItself DEF RuleExists, MatchesText, Rules
  <2>3. (rule.target = "NFQUEUE" /\ InChain(rule)) => Missed(rule) = {"missed"}
    BY <2>2 DEF Missed
  <2> QED
    BY <2>1, <2>3 DEF Command, Clean
<1> QED
  BY <1>1, <1>2

LEMMA RemoveFacts ==
  ASSUME NEW rule, RuleRemove(rule)
  PROVE  /\ mishaps \subseteq mishaps'
         /\ chain' = chain \/ \E f \in DOMAIN chain : chain' = Without(f)
         /\ Clean' =>
              \/ \E f \in DOMAIN chain : IsFirst(f, rule) /\ chain' = Without(f)
              \/ ~InChain(rule) /\ chain' = chain
<1> DEFINE Removed == \E f \in DOMAIN chain : IsFirst(f, rule) /\ chain' = Without(f)
           Kept == ~InChain(rule) /\ chain' = chain
           Failed == chain' = chain /\ mishaps' = mishaps \cup {} \cup {"failed"}
<1>1. \/ Removed /\ mishaps' = mishaps \cup {}
      \/ Failed
      \/ Kept /\ mishaps' = mishaps
  BY DEF RuleRemove, Command
<1>2. mishaps \subseteq mishaps'
  BY <1>1
<1>3. Removed => \E f \in DOMAIN chain : chain' = Without(f)
  OBVIOUS
<1>4. Failed => ~Clean'
  BY DEF Clean
<1>5. Clean' => Removed \/ Kept
  BY <1>1, <1>4
<1>6. chain' = chain \/ \E f \in DOMAIN chain : chain' = Without(f)
  BY <1>1, <1>3
<1> QED
  BY <1>2, <1>5, <1>6

(* What main does to left: it is all rules when the removal begins.        *)
LEMMA ElsewhereFacts ==
  ASSUME Elsewhere
  PROVE  /\ (pc' = "unrule" => (pc = "unrule" /\ left' = left) \/ left' = Wanted(config))
         /\ (pc' # "down" => exit' = exit)
         /\ (pc # "down" /\ exit' # "clean") \/ exit' = exit
         /\ pc' = "down" => exit' # "clean"
         /\ (pc' = "profiles" => pc = "profiles" /\ built' = built)
         /\ pc # "down"
<1>1. CASE GoodArguments \/ ProfilesBuilt \/ OpenSockets \/ EnterLoop \/ Receive
  BY <1>1 DEF GoodArguments, ProfilesBuilt, OpenSockets, EnterLoop, Receive
<1>2. CASE BadArguments \/ BadProfile \/ OpenFails \/ LoopFails \/ Die
  BY <1>2 DEF BadArguments, BadProfile, OpenFails, LoopFails, Die, Ends
<1>3. CASE Test
  BY <1>3 DEF Test, While, ToRemove
<1>4. CASE Sigint
  BY <1>4 DEF Sigint, ToRemove
<1> QED
  BY <1>1, <1>2, <1>3, <1>4 DEF Elsewhere

LEMMA NextCases ==
  ASSUME [Next]_vars
  PROVE  \/ Start \/ AddMark \/ BuildProfile \/ Unrule \/ Unmark \/ Elsewhere
         \/ UNCHANGED vars
  BY DEF Next, Step, Elsewhere

(* The rule being made sure of: the mark rule or a configured queue rule.  *)
LEMMA EnsuredFacts ==
  ASSUME TypeOK
  PROVE  /\ AddMark => EnsureRule(MarkRule) /\ MarkRule \in Rules
         /\ BuildProfile => /\ EnsureRule(QueueRule(Profile.port, config.num))
                            /\ QueueRule(Profile.port, config.num) \in Wanted(config)
                            /\ QueueRule(Profile.port, config.num) \in Rules
<1>1. config \in Configs
  BY DEF TypeOK
<1>2. MarkRule \in Rules /\ Wanted(config) \subseteq Rules
  BY <1>1, WantedFacts
<1> QED
  BY <1>2, ProfileFacts DEF AddMark, BuildProfile

(* While nothing is reconfigured, the chain holds the mark rule and rules  *)
(* of this configuration only.                                             *)
Known ==
  "reconfigured" \notin mishaps =>
    \A i \in DOMAIN chain : chain[i] \in Wanted(config) \cup {MarkRule}

LEMMA AddedKnown ==
  ASSUME TypeOK, NEW S, NEW rule \in Rules \cap S, \A i \in DOMAIN chain : chain[i] \in S
  PROVE  \A i \in DOMAIN Added(rule) : Added(rule)[i] \in S
<1>1. chain \in Seq(Rules)
  BY DEF TypeOK
<1>2. DOMAIN chain = 1 .. Len(chain) /\ Len(chain) \in Nat
  BY <1>1, LenProperties
<1>3. DOMAIN Added(rule) = 1 .. Len(chain) + 1
  BY <1>1, AddedFacts, LenProperties
<1> QED
  BY <1>1, <1>2, <1>3, AddedFacts

LEMMA WithoutKnown ==
  ASSUME TypeOK, NEW f \in DOMAIN chain, NEW S, \A i \in DOMAIN chain : chain[i] \in S
  PROVE  \A i \in DOMAIN Without(f) : Without(f)[i] \in S
<1>1. chain \in Seq(Rules)
  BY DEF TypeOK
<1>2. DOMAIN chain = 1 .. Len(chain) /\ Len(chain) \in Nat
  BY <1>1, LenProperties
<1>3. DOMAIN Without(f) = 1 .. Len(chain) - 1
  BY <1>1, WithoutFacts, LenProperties
<1>4. \A n \in 1 .. Len(chain) - 1 : (IF n < f THEN n ELSE n + 1) \in DOMAIN chain
  BY <1>2
<1> QED
  BY <1>1, <1>3, <1>4, WithoutFacts

LEMMA KnownStep ==
  ASSUME TypeOK, Known, [Next]_vars
  PROVE  Known'
<1> DEFINE S == Wanted(config) \cup {MarkRule}
<1> SUFFICES ASSUME "reconfigured" \notin mishaps'
             PROVE  \A i \in DOMAIN chain' : chain'[i] \in Wanted(config') \cup {MarkRule}
  BY DEF Known
<1>1. CASE Start
  BY <1>1 DEF Start
<1>2. CASE AddMark
  <2>1. "reconfigured" \notin mishaps /\ config' = config
    BY <1>2, EnsuredFacts, EnsureFacts DEF AddMark
  <2> QED
    BY <1>2, <2>1, EnsuredFacts, EnsureFacts, AddedKnown DEF Known
<1>3. CASE BuildProfile
  <2>1. "reconfigured" \notin mishaps /\ config' = config
    BY <1>3, EnsuredFacts, EnsureFacts DEF BuildProfile
  <2> QED
    BY <1>3, <2>1, EnsuredFacts, EnsureFacts, AddedKnown DEF Known
<1>4. CASE Unrule
  <2>1. PICK rule \in left : RuleRemove(rule)
    BY <1>4 DEF Unrule
  <2>2. "reconfigured" \notin mishaps /\ config' = config
    BY <1>4, <2>1, RemoveFacts DEF Unrule
  <2> QED
    BY <2>1, <2>2, RemoveFacts, WithoutKnown DEF Known
<1>5. CASE Unmark
  <2>2. "reconfigured" \notin mishaps /\ config' = config
    BY <1>5, RemoveFacts DEF Unmark, Ends
  <2> QED
    BY <1>5, <2>2, RemoveFacts, WithoutKnown DEF Known, Unmark
<1>6. CASE Elsewhere
  BY <1>6, ElsewhereKeeps DEF Known
<1>7. CASE UNCHANGED vars
  BY <1>7 DEF vars, Known
<1> QED
  BY NextCases, <1>1, <1>2, <1>3, <1>4, <1>5, <1>6, <1>7

-----------------------------------------------------------------------------
(* Nothing is left behind *)

(* No queue rule is there twice, and once removed, none is there.          *)
Distinct ==
  mishaps = {} =>
    /\ \A i, j \in DOMAIN chain : chain[i] = chain[j] /\ chain[i] # MarkRule => i = j
    /\ pc = "unrule" => \A i \in DOMAIN chain : chain[i] \in left \cup {MarkRule}

LEMMA AddedDistinct ==
  ASSUME TypeOK, NEW rule \in Rules, rule = MarkRule \/ ~InChain(rule),
         \A i, j \in DOMAIN chain : chain[i] = chain[j] /\ chain[i] # MarkRule => i = j
  PROVE  \A i, j \in DOMAIN Added(rule) :
           Added(rule)[i] = Added(rule)[j] /\ Added(rule)[i] # MarkRule => i = j
<1>1. chain \in Seq(Rules)
  BY DEF TypeOK
<1>2. DOMAIN chain = 1 .. Len(chain) /\ Len(chain) \in Nat
  BY <1>1, LenProperties
<1>3. DOMAIN Added(rule) = 1 .. Len(chain) + 1
  BY <1>1, AddedFacts, LenProperties
<1>4. rule = MarkRule \/ \A i \in DOMAIN chain : chain[i] # rule
  BY DEF InChain
<1> QED
  BY <1>1, <1>2, <1>3, <1>4, AddedFacts

LEMMA WithoutDistinct ==
  ASSUME TypeOK, NEW f \in DOMAIN chain,
         \A i, j \in DOMAIN chain : chain[i] = chain[j] /\ chain[i] # MarkRule => i = j
  PROVE  /\ \A i, j \in DOMAIN Without(f) :
              Without(f)[i] = Without(f)[j] /\ Without(f)[i] # MarkRule => i = j
         /\ chain[f] # MarkRule =>
              \A i \in DOMAIN Without(f) : Without(f)[i] # chain[f]
<1>1. chain \in Seq(Rules)
  BY DEF TypeOK
<1>2. DOMAIN chain = 1 .. Len(chain) /\ Len(chain) \in Nat /\ f \in 1 .. Len(chain)
  BY <1>1, LenProperties
<1>3. DOMAIN Without(f) = 1 .. Len(chain) - 1
  BY <1>1, WithoutFacts, LenProperties
<1> DEFINE from(n) == IF n < f THEN n ELSE n + 1
<1>4. \A n \in 1 .. Len(chain) - 1 : from(n) \in DOMAIN chain /\ from(n) # f
  BY <1>2
<1>5. \A m, n \in 1 .. Len(chain) - 1 : from(m) = from(n) => m = n
  BY <1>2
<1>6. \A n \in 1 .. Len(chain) - 1 : Without(f)[n] = chain[from(n)]
  BY <1>1, WithoutFacts
<1> HIDE DEF from
<1> QED
  BY <1>3, <1>4, <1>5, <1>6

LEMMA DistinctStep ==
  ASSUME TypeOK, Known, Distinct, [Next]_vars
  PROVE  Distinct'
<1> SUFFICES ASSUME mishaps' = {}
             PROVE  /\ \A i, j \in DOMAIN chain' :
                         chain'[i] = chain'[j] /\ chain'[i] # MarkRule => i = j
                    /\ pc' = "unrule" =>
                         \A i \in DOMAIN chain' : chain'[i] \in left' \cup {MarkRule}
  BY DEF Distinct
<1> USE DEF Clean
<1>1. CASE Start
  BY <1>1 DEF Start, Distinct
<1>2. CASE AddMark
  <2>1. mishaps = {} /\ pc' # "unrule"
    BY <1>2, EnsuredFacts, EnsureFacts DEF AddMark
  <2> QED
    BY <1>2, <2>1, EnsuredFacts, EnsureFacts, AddedDistinct DEF Distinct
<1>3. CASE BuildProfile
  <2> DEFINE rule == QueueRule(Profile.port, config.num)
  <2>1. EnsureRule(rule) /\ rule \in Rules /\ rule.target = "NFQUEUE"
    BY <1>3, EnsuredFacts, WantedFacts DEF TypeOK
  <2> HIDE DEF rule
  <2>2. mishaps = {} /\ pc' # "unrule"
    BY <1>3, <2>1, EnsureFacts DEF BuildProfile
  <2> QED
    BY <2>1, <2>2, EnsureFacts, AddedDistinct DEF Distinct
<1>4. CASE Unrule
  <2>1. PICK rule \in left : RuleRemove(rule) /\ left' = left \ {rule}
    BY <1>4 DEF Unrule
  <2>2. mishaps = {} /\ pc = "unrule" /\ rule # MarkRule
    BY <1>4, <2>1, RemoveFacts, WantedFacts DEF Unrule, TypeOK
  <2>3. CASE \E f \in DOMAIN chain : IsFirst(f, rule) /\ chain' = Without(f)
    <3>1. PICK f \in DOMAIN chain : chain[f] = rule /\ chain' = Without(f)
      BY <2>3 DEF IsFirst
    <3>2. \A i \in DOMAIN chain : chain[i] \in left \cup {MarkRule}
      BY <2>2 DEF Distinct
    <3>3. \A i \in DOMAIN chain' : chain'[i] \in left \cup {MarkRule}
      BY <3>1, <3>2, WithoutKnown
    <3> QED
      BY <2>1, <2>2, <3>1, <3>3, WithoutDistinct DEF Distinct
  <2>4. CASE ~InChain(rule) /\ chain' = chain
    BY <2>1, <2>2, <2>4 DEF Distinct, InChain
  <2> QED
    BY <2>1, <2>3, <2>4, RemoveFacts
<1>5. CASE Unmark
  <2>1. mishaps = {} /\ pc' = "down" /\ RuleRemove(MarkRule)
    BY <1>5, RemoveFacts DEF Unmark, Ends
  <2> QED
    BY <2>1, RemoveFacts, WithoutDistinct DEF Distinct
<1>6. CASE Elsewhere
  <2>1. UNCHANGED <<chain, mishaps, config>>
    BY <1>6, ElsewhereKeeps
  <2>2. CASE pc' = "unrule"
    BY <1>6, <2>1, <2>2, ElsewhereFacts DEF Distinct, Known
  <2> QED
    BY <2>1, <2>2 DEF Distinct
<1>7. CASE UNCHANGED vars
  BY <1>7 DEF vars, Distinct
<1> QED
  BY NextCases, <1>1, <1>2, <1>3, <1>4, <1>5, <1>6, <1>7

(* A clean exit is the last step of the removal. *)
ExitTells == (exit = "clean" => pc = "down") /\ NothingLeftBehind

LEMMA ExitStep ==
  ASSUME TypeOK, Distinct, ExitTells, [Next]_vars
  PROVE  ExitTells'
<1>1. CASE Start
  BY <1>1 DEF Start, ExitTells, NothingLeftBehind
<1>2. CASE AddMark \/ BuildProfile \/ Unrule
  BY <1>2 DEF AddMark, BuildProfile, Unrule, ExitTells, NothingLeftBehind
<1>3. CASE Unmark
  <2>1. pc' = "down" /\ RuleRemove(MarkRule) /\ pc = "unrule" /\ left = {}
    BY <1>3 DEF Unmark, Ends
  <2>2. ASSUME mishaps' = {} PROVE \A i \in DOMAIN chain' : chain'[i] = MarkRule
    <3>1. mishaps = {}
      BY <2>1, <2>2, RemoveFacts
    <3>2. \A i \in DOMAIN chain : chain[i] \in {MarkRule}
      BY <2>1, <3>1 DEF Distinct
    <3>3. \A f \in DOMAIN chain : \A i \in DOMAIN Without(f) : Without(f)[i] \in {MarkRule}
      BY <3>2, WithoutKnown
    <3>4. chain' = chain \/ \E f \in DOMAIN chain : chain' = Without(f)
      BY <2>1, RemoveFacts
    <3> QED
      BY <3>2, <3>3, <3>4
  <2> QED
    BY <2>1, <2>2 DEF ExitTells, NothingLeftBehind, MarkRule
<1>4. CASE Elsewhere
  BY <1>4, ElsewhereKeeps, ElsewhereFacts DEF ExitTells, NothingLeftBehind
<1>5. CASE UNCHANGED vars
  BY <1>5 DEF vars, ExitTells, NothingLeftBehind
<1> QED
  BY NextCases, <1>1, <1>2, <1>3, <1>4, <1>5

(* After a clean exit no queue rule of this or an earlier process is left, *)
(* unless a command failed, a rule was missed, or the configuration changed*)
(* over rules left behind.                                                 *)
THEOREM NothingLeftBehindAlways == Spec => []NothingLeftBehind
<1>1. Init => Known /\ Distinct /\ ExitTells
  BY DEF Init, Known, Distinct, ExitTells, NothingLeftBehind
<1>2. /\ TypeOK /\ Known /\ Distinct /\ ExitTells /\ [Next]_vars
      => Known' /\ Distinct' /\ ExitTells'
  BY KnownStep, DistinctStep, ExitStep
<1>3. ExitTells => NothingLeftBehind
  BY DEF ExitTells
<1> QED
  BY <1>1, <1>2, <1>3, LifecycleTypes, PTL DEF Spec

-----------------------------------------------------------------------------
(* Every port is captured *)

(* The rule of a configured port is in the chain, unless a command failed, *)
(* or another was taken for it.                                            *)
Ruled(port) ==
  InChain(QueueRule(port, config.num)) \/ Taken(port) \/ "failed" \in mishaps

(* So it is for every profile built so far, and the loop runs with all.    *)
BuiltPorts == {config.profiles[i].port : i \in 1 .. built}
AllRuled ==
  /\ pc \in {"profiles", "sockets", "armed", "test", "recv"} =>
       \A port \in BuiltPorts : Ruled(port)
  /\ pc \in {"sockets", "armed", "test", "recv"} => built = Len(config.profiles)
  /\ pc \in {"arguments", "mark"} => built = 0

(* A chain that grows at its end keeps its rules where they are.           *)
LEMMA AddedKeeps ==
  ASSUME TypeOK, NEW rule \in Rules, chain' = Added(rule)
  PROVE  /\ \A i \in DOMAIN chain : i \in DOMAIN chain' /\ chain'[i] = chain[i]
         /\ \E i \in DOMAIN chain' : chain'[i] = rule
<1>1. chain \in Seq(Rules)
  BY DEF TypeOK
<1>2. DOMAIN chain = 1 .. Len(chain) /\ Len(chain) \in Nat
  BY <1>1, LenProperties
<1>3. DOMAIN Added(rule) = 1 .. Len(chain) + 1
  BY <1>1, AddedFacts, LenProperties
<1> QED
  BY <1>1, <1>2, <1>3, AddedFacts

(* What the text search takes for a queue rule is that rule, or one of     *)
(* another queue for the same port, whose number begins with this one's.   *)
LEMMA FoundIsRuled ==
  ASSUME TypeOK, NEW port \in Nat, RuleExists(QueueRule(port, config.num))
  PROVE  Ruled(port)
<1>1. PICK i \in DOMAIN chain :
        i <= Window /\ MatchesText(chain[i], QueueRule(port, config.num))
  BY DEF RuleExists, Shown
<1>2. /\ listed
      /\ chain[i].target = "NFQUEUE" /\ chain[i].port = port
      /\ Begins(config.num, chain[i].num)
  BY <1>1 DEF RuleExists, MatchesText, QueueRule
<1>3. chain[i] \in Rules
  <2>1. chain \in Seq(Rules)
    BY DEF TypeOK
  <2> QED
    BY <2>1, ElementOfSeq, LenProperties
<1>4. CASE chain[i].num = config.num
  BY <1>2, <1>3, <1>4 DEF Ruled, InChain, QueueRule, Rules
<1>5. CASE chain[i].num # config.num
  BY <1>1, <1>2, <1>5 DEF Ruled, Taken, Foreign
<1> QED
  BY <1>4, <1>5

(* Once ruled, a port stays so while rules are only added.                 *)
LEMMA RuledStays ==
  ASSUME NEW port, Ruled(port), mishaps \subseteq mishaps',
         UNCHANGED <<config, listed>>,
         \A i \in DOMAIN chain : i \in DOMAIN chain' /\ chain'[i] = chain[i]
  PROVE  Ruled(port)'
<1>1. CASE InChain(QueueRule(port, config.num))
  BY <1>1 DEF Ruled, InChain
<1>2. CASE Taken(port)
  <2>1. PICK i \in DOMAIN chain :
          i <= Window /\ Foreign(i, port) /\ Begins(config.num, chain[i].num)
    BY <1>2 DEF Taken
  <2> QED
    BY <1>2, <2>1 DEF Ruled, Taken, Foreign
<1>3. CASE "failed" \in mishaps
  BY <1>3 DEF Ruled
<1> QED
  BY <1>1, <1>2, <1>3 DEF Ruled

LEMMA AllRuledStep ==
  ASSUME TypeOK, AllRuled, [Next]_vars
  PROVE  AllRuled'
<1>1. CASE Start
  BY <1>1 DEF Start, AllRuled, BuiltPorts
<1>2. CASE AddMark
  <2>1. built = 0 /\ built' = 0 /\ pc' = "profiles"
    BY <1>2 DEF AddMark, AllRuled
  <2> QED
    BY <2>1 DEF AllRuled, BuiltPorts
<1>3. CASE BuildProfile
  <2>1. /\ pc = "profiles" /\ pc' = "profiles" /\ built' = built + 1 /\ built \in Nat
        /\ UNCHANGED <<config, listed>> /\ EnsureRule(QueueRule(Profile.port, config.num))
    BY <1>3, ConfigFacts DEF BuildProfile
  <2>2. PICK port \in Nat : port = Profile.port
    BY <1>3, ProfileFacts, ConfigFacts DEF BuildProfile, Profile
  <2>3. PICK rule \in Rules : rule = QueueRule(port, config.num)
    BY <1>3, <2>2, EnsuredFacts
  <2>4. /\ mishaps \subseteq mishaps'
        /\ \A i \in DOMAIN chain : i \in DOMAIN chain' /\ chain'[i] = chain[i]
    BY <2>1, <2>2, <2>3, EnsureFacts, AddedKeeps
  <2>5. Ruled(port)'
    <3>1. CASE RuleExists(rule)
      <4>1. Ruled(port)
        BY <2>3, <3>1, FoundIsRuled
      <4> QED
        BY <2>1, <2>4, <4>1, RuledStays
    <3>2. CASE ~RuleExists(rule) /\ chain' = Added(rule)
      <4>1. \E i \in DOMAIN chain' : chain'[i] = QueueRule(port, config'.num)
        BY <2>1, <2>3, <3>2, AddedKeeps
      <4> QED
        BY <4>1 DEF Ruled, InChain
    <3>3. CASE "failed" \in mishaps'
      BY <3>3 DEF Ruled
    <3> QED
      BY <2>1, <2>2, <2>3, <3>1, <3>2, <3>3 DEF EnsureRule, Command
  <2>6. \A p \in BuiltPorts : Ruled(p)'
    BY <2>1, <2>4, RuledStays DEF AllRuled
  <2>7. BuiltPorts' = BuiltPorts \cup {port}
    BY <2>1, <2>2 DEF BuiltPorts, Profile
  <2> QED
    BY <2>1, <2>5, <2>6, <2>7 DEF AllRuled
<1>4. CASE Unrule \/ Unmark
  BY <1>4 DEF Unrule, Unmark, Ends, AllRuled
<1>5. CASE Elsewhere
  <2>1. UNCHANGED <<chain, mishaps, config, listed>>
    BY <1>5, ElsewhereKeeps
  <2>2. /\ UNCHANGED built
        /\ \/ pc = "arguments" /\ pc' \in {"arguments", "mark", "down"}
           \/ pc = "profiles" /\ pc' \in {"profiles", "down"}
           \/ pc = "profiles" /\ pc' = "sockets" /\ built = Len(config.profiles)
           \/ pc \in {"sockets", "armed", "test", "recv"}
                /\ pc' \in {"sockets", "armed", "test", "recv", "unrule", "down"}
           \/ pc' \in {"down", "unrule"}
           \/ pc = "mark" /\ pc' = "mark"
    <3>1. CASE GoodArguments \/ ProfilesBuilt \/ OpenSockets \/ EnterLoop \/ Receive
      BY <3>1 DEF GoodArguments, ProfilesBuilt, OpenSockets, EnterLoop, Receive
    <3>2. CASE BadArguments \/ BadProfile \/ OpenFails \/ LoopFails \/ Die
      BY <3>2 DEF BadArguments, BadProfile, OpenFails, LoopFails, Die, Ends
    <3>3. CASE Test
      BY <3>3 DEF Test, While
    <3>4. CASE Sigint
      BY <3>4 DEF Sigint, TypeOK
    <3> QED
      BY <1>5, <3>1, <3>2, <3>3, <3>4 DEF Elsewhere
  <2>3. \A port : Ruled(port) => Ruled(port)'
    BY <2>1 DEF Ruled, InChain, Taken, Foreign
  <2> QED
    BY <2>1, <2>2, <2>3 DEF AllRuled, BuiltPorts
<1>6. CASE UNCHANGED vars
  <2>1. \A port : Ruled(port) => Ruled(port)'
    BY <1>6 DEF vars, Ruled, InChain, Taken, Foreign
  <2> QED
    BY <1>6, <2>1 DEF vars, AllRuled, BuiltPorts
<1> QED
  BY NextCases, <1>1, <1>2, <1>3, <1>4, <1>5, <1>6

(* While the loop runs, the packets of a configured port come to this      *)
(* process's queue, unless a command failed and the port has no rule of its*)
(* own, or some start had another configuration over rules left behind, and*)
(* a rule of another queue for the port is ahead or was taken for its own. *)
THEOREM CapturesItsPortsAlways == Spec => []CapturesItsPorts
<1>1. Init => Known /\ AllRuled
  BY DEF Init, Known, AllRuled, BuiltPorts
<1>2. TypeOK /\ Known /\ AllRuled /\ [Next]_vars => Known' /\ AllRuled'
  BY KnownStep, AllRuledStep
<1>3. TypeOK /\ Known /\ AllRuled => CapturesItsPorts
  <2> SUFFICES ASSUME TypeOK, Known, AllRuled, pc \in {"test", "recv"},
                      NEW n \in DOMAIN config.profiles
               PROVE  LET port == config.profiles[n].port
                          ruled == InChain(QueueRule(port, config.num))
                      IN  \/ GoesTo(port, config.num)
                          \/ ~ruled /\ "failed" \in mishaps
                          \/ /\ "reconfigured" \in mishaps
                             /\ Behind(port) \/ (~ruled /\ Taken(port))
    BY DEF CapturesItsPorts
  <2> DEFINE port == config.profiles[n].port
             rule == QueueRule(port, config.num)
  <2>1. Ruled(port)
    BY ConfigFacts DEF AllRuled, BuiltPorts
  (* A rule of another queue is one a start was not configured for. *)
  <2>2. (\E i \in DOMAIN chain : Foreign(i, port)) => "reconfigured" \in mishaps
    <3>1. \A r \in Wanted(config) \cup {MarkRule} :
            r.target = "NFQUEUE" => r.num = config.num
      BY WantedFacts DEF TypeOK, MarkRule
    <3> QED
      BY <3>1 DEF Known, Foreign
  <2>3. CASE ~InChain(rule)
    BY <2>1, <2>2, <2>3 DEF Ruled, Taken
  <2>4. CASE InChain(rule)
    <3>1. PICK i \in DOMAIN chain : chain[i] = rule
      BY <2>4 DEF InChain
    <3>2. i \in Matching(port, FALSE)
      BY <3>1 DEF Matching, QueueRule
    <3>3. CASE \A k \in Matching(port, FALSE) : k <= i => chain[k].num = config.num
      BY <3>2, <3>3 DEF GoesTo
    <3>4. CASE \E k \in Matching(port, FALSE) : k <= i /\ chain[k].num # config.num
      <4>1. PICK k \in DOMAIN chain : k <= i /\ Foreign(k, port)
        BY <3>4 DEF Matching, Foreign
      <4>2. k # i
        BY <3>1, <4>1 DEF Foreign, QueueRule
      <4>3. DOMAIN chain \subseteq Nat
        BY LenProperties DEF TypeOK
      <4>4. k < i
        BY <4>1, <4>2, <4>3
      <4> QED
        BY <2>2, <3>1, <4>1, <4>4 DEF Behind
    <3> QED
      BY <3>3, <3>4
  <2> QED
    BY <2>3, <2>4
<1> QED
  BY <1>1, <1>2, <1>3, LifecycleTypes, PTL DEF Spec

-----------------------------------------------------------------------------
(* Own packets pass *)

Mark(k) == chain[k] = MarkRule
Queue(i) == chain[i] # MarkRule

(* A mark rule is ahead of every queue rule, and between any two that are  *)
(* equal: each start adds its mark rule, then each queue rule at most once.*)
Ahead == \A i \in DOMAIN chain : Queue(i) => \E k \in DOMAIN chain : k < i /\ Mark(k)
Between ==
  \A i, j \in DOMAIN chain :
    (i < j /\ Queue(i) /\ chain[i] = chain[j])
      => \E k \in DOMAIN chain : i < k /\ k < j /\ Mark(k)

(* While profiles are built, behind some mark rule there are only rules of *)
(* the profiles built so far.                                              *)
Fresh ==
  pc = "profiles" =>
    \E m \in DOMAIN chain :
      /\ Mark(m)
      /\ \A j \in DOMAIN chain :
           j > m => \E b \in 1 .. built :
                      chain[j] = QueueRule(config.profiles[b].port, config.num)

(* While rules are removed, two mark rules are ahead of each rule that     *)
(* equals one already removed, so removing the first mark rule leaves one. *)
Twice(i) ==
  \E k, l \in DOMAIN chain : k < l /\ l < i /\ Mark(k) /\ Mark(l)
Spent ==
  pc = "unrule" =>
    \A i \in DOMAIN chain : Queue(i) /\ chain[i] \notin left => Twice(i)

Marked == Clean => Ahead /\ Between /\ Fresh /\ Spent

LEMMA AddedOrder ==
  ASSUME TypeOK, NEW rule \in Rules, chain' = Added(rule)
  PROVE  /\ DOMAIN chain = 1 .. Len(chain) /\ Len(chain) \in Nat
         /\ DOMAIN chain' = 1 .. Len(chain) + 1
         /\ \A i \in DOMAIN chain : chain'[i] = chain[i]
         /\ chain'[Len(chain) + 1] = rule
<1>1. chain \in Seq(Rules)
  BY DEF TypeOK
<1>2. DOMAIN chain = 1 .. Len(chain) /\ Len(chain) \in Nat
  BY <1>1, LenProperties
<1>3. DOMAIN Added(rule) = 1 .. Len(chain) + 1
  BY <1>1, AddedFacts, LenProperties
<1> QED
  BY <1>1, <1>2, <1>3, AddedFacts

(* Where the rules of a chain without its f-th rule were in the chain.     *)
From(f, n) == IF n < f THEN n ELSE n + 1
LEMMA WithoutOrder ==
  ASSUME TypeOK, NEW f \in DOMAIN chain, chain' = Without(f)
  PROVE  /\ DOMAIN chain \subseteq Nat /\ DOMAIN chain' \subseteq Nat
         /\ \A n \in DOMAIN chain' :
              From(f, n) \in DOMAIN chain /\ From(f, n) # f /\ chain'[n] = chain[From(f, n)]
         /\ \A m, n \in DOMAIN chain' : m < n <=> From(f, m) < From(f, n)
         /\ \A k \in DOMAIN chain : k # f => \E n \in DOMAIN chain' : From(f, n) = k
<1>1. chain \in Seq(Rules)
  BY DEF TypeOK
<1>2. DOMAIN chain = 1 .. Len(chain) /\ Len(chain) \in Nat /\ f \in 1 .. Len(chain)
  BY <1>1, LenProperties
<1>3. DOMAIN chain' = 1 .. Len(chain) - 1
  BY <1>1, WithoutFacts, LenProperties
<1>4. \A n \in 1 .. Len(chain) - 1 : From(f, n) \in 1 .. Len(chain) /\ From(f, n) # f
  BY <1>2 DEF From
<1>5. \A m, n \in 1 .. Len(chain) - 1 : m < n <=> From(f, m) < From(f, n)
  BY <1>2 DEF From
<1>6. ASSUME NEW k \in 1 .. Len(chain), k # f
      PROVE  \E n \in 1 .. Len(chain) - 1 : From(f, n) = k
  <2>1. CASE k < f
    BY <1>2, <2>1 DEF From
  <2>2. CASE k > f
    <3>1. k - 1 \in 1 .. Len(chain) - 1 /\ From(f, k - 1) = k
      BY <1>2, <2>2 DEF From
    <3> QED
      BY <3>1
  <2> QED
    BY <1>2, <1>6, <2>1, <2>2
<1>7. \A n \in 1 .. Len(chain) - 1 : chain'[n] = chain[From(f, n)]
  BY <1>1, WithoutFacts DEF From
<1>8. DOMAIN chain \subseteq Nat /\ DOMAIN chain' \subseteq Nat
  BY <1>2, <1>3
<1>9. \A n \in DOMAIN chain' :
        From(f, n) \in DOMAIN chain /\ From(f, n) # f /\ chain'[n] = chain[From(f, n)]
  BY <1>2, <1>3, <1>4, <1>7
<1>10. \A m, n \in DOMAIN chain' : m < n <=> From(f, m) < From(f, n)
  BY <1>3, <1>5
<1>11. \A k \in DOMAIN chain : k # f => \E n \in DOMAIN chain' : From(f, n) = k
  BY <1>2, <1>3, <1>6
<1> QED
  BY <1>8, <1>9, <1>10, <1>11

(* A rule at the end: the mark rule, or a queue rule behind a fresh mark.  *)
LEMMA AddedMarked ==
  ASSUME TypeOK, NEW rule \in Rules, chain' = Added(rule), Ahead, Between,
         \/ rule = MarkRule
         \/ \E m \in DOMAIN chain :
              Mark(m) /\ \A j \in DOMAIN chain : j > m => chain[j] # rule
  PROVE  Ahead' /\ Between'
<1> DEFINE end == Len(chain) + 1
<1>1. /\ DOMAIN chain = 1 .. Len(chain) /\ Len(chain) \in Nat
      /\ DOMAIN chain' = 1 .. end
      /\ \A i \in DOMAIN chain : chain'[i] = chain[i]
      /\ chain'[end] = rule
  BY AddedOrder
<1>2. \A i \in DOMAIN chain' : i = end \/ (i \in DOMAIN chain /\ i < end)
  BY <1>1
<1>3. DOMAIN chain \subseteq DOMAIN chain' /\ DOMAIN chain' \subseteq Nat
  BY <1>1
<1> HIDE DEF end
<1>4. Ahead'
  <2> SUFFICES ASSUME NEW i \in DOMAIN chain', chain'[i] # MarkRule
               PROVE  \E k \in DOMAIN chain' : k < i /\ chain'[k] = MarkRule
    BY DEF Ahead, Queue, Mark
  <2>1. CASE i = end
    BY <1>1, <1>2, <1>3, <2>1 DEF Mark
  <2>2. CASE i \in DOMAIN chain
    BY <1>1, <1>3, <2>2 DEF Ahead, Queue, Mark
  <2> QED
    BY <1>2, <2>1, <2>2
<1>5. Between'
  <2> SUFFICES ASSUME NEW i \in DOMAIN chain', NEW j \in DOMAIN chain', i < j,
                      chain'[i] # MarkRule, chain'[i] = chain'[j]
               PROVE  \E k \in DOMAIN chain' : i < k /\ k < j /\ chain'[k] = MarkRule
    BY DEF Between, Queue, Mark
  <2>1. i \in DOMAIN chain /\ i \in Nat /\ j \in Nat
    BY <1>2, <1>3
  <2>2. CASE j = end
    <3>1. chain[i] = rule /\ rule # MarkRule
      BY <1>1, <2>1, <2>2
    <3>2. PICK m \in DOMAIN chain :
            Mark(m) /\ \A l \in DOMAIN chain : l > m => chain[l] # rule
      BY <3>1
    <3>3. i < m
      BY <1>3, <2>1, <3>1, <3>2 DEF Mark
    <3> QED
      BY <1>1, <1>2, <1>3, <2>2, <3>2, <3>3 DEF Mark
  <2>3. CASE j \in DOMAIN chain
    BY <1>1, <1>3, <2>1, <2>3 DEF Between, Queue, Mark
  <2> QED
    BY <1>2, <2>2, <2>3
<1> QED
  BY <1>4, <1>5

(* Without its first rule of a kind: a queue rule, or the mark rule when   *)
(* two mark rules are ahead of every queue rule.                           *)
LEMMA WithoutMarked ==
  ASSUME TypeOK, NEW f \in DOMAIN chain, chain' = Without(f), Between,
         IsFirst(f, chain[f]), Ahead,
         chain[f] = MarkRule => \A i \in DOMAIN chain : Queue(i) => Twice(i)
  PROVE  Ahead' /\ Between'
<1>1. /\ DOMAIN chain \subseteq Nat /\ DOMAIN chain' \subseteq Nat
      /\ \A n \in DOMAIN chain' :
           From(f, n) \in DOMAIN chain /\ From(f, n) # f /\ chain'[n] = chain[From(f, n)]
      /\ \A m, n \in DOMAIN chain' : m < n <=> From(f, m) < From(f, n)
      /\ \A k \in DOMAIN chain : k # f => \E n \in DOMAIN chain' : From(f, n) = k
  BY WithoutOrder
<1>2. Ahead'
  <2> SUFFICES ASSUME NEW i \in DOMAIN chain', chain'[i] # MarkRule
               PROVE  \E k \in DOMAIN chain' : k < i /\ chain'[k] = MarkRule
    BY DEF Ahead, Queue, Mark
  <2> DEFINE old == From(f, i)
  <2>1. old \in DOMAIN chain /\ chain[old] # MarkRule
    BY <1>1
  <2>2. \E k \in DOMAIN chain : k # f /\ k < old /\ Mark(k)
    <3>1. CASE chain[f] = MarkRule
      <4>1. PICK k \in DOMAIN chain, l \in DOMAIN chain :
              k < l /\ l < old /\ Mark(k) /\ Mark(l)
        BY <2>1, <3>1 DEF Queue, Twice
      <4>2. l # f
        <5>1. k \in Nat /\ l \in Nat /\ k < l
          BY <1>1, <4>1
        <5>2. f \in DOMAIN chain /\ DOMAIN chain = 1 .. Len(chain)
          BY LenProperties DEF TypeOK
        <5> QED
          BY <3>1, <4>1, <5>1, <5>2 DEF IsFirst, Mark
      <4> QED
        BY <4>1, <4>2
    <3>2. CASE chain[f] # MarkRule
      BY <2>1, <3>2 DEF Ahead, Queue, Mark
    <3> QED
      BY <3>1, <3>2
  <2>3. PICK k \in DOMAIN chain : k # f /\ k < old /\ Mark(k)
    BY <2>2
  <2>4. PICK n \in DOMAIN chain' : From(f, n) = k
    BY <1>1, <2>3
  <2>5. n < i /\ chain'[n] = MarkRule
    BY <1>1, <2>3, <2>4 DEF Mark
  <2> QED
    BY <2>5
<1>3. Between'
  <2> SUFFICES ASSUME NEW i \in DOMAIN chain', NEW j \in DOMAIN chain', i < j,
                      chain'[i] # MarkRule, chain'[i] = chain'[j]
               PROVE  \E k \in DOMAIN chain' : i < k /\ k < j /\ chain'[k] = MarkRule
    BY DEF Between, Queue, Mark
  <2>1. /\ From(f, i) \in DOMAIN chain /\ From(f, j) \in DOMAIN chain
        /\ From(f, i) < From(f, j) /\ chain[From(f, i)] = chain[From(f, j)]
        /\ chain[From(f, i)] # MarkRule
    BY <1>1
  <2>2. PICK k \in DOMAIN chain : From(f, i) < k /\ k < From(f, j) /\ Mark(k)
    BY <2>1 DEF Between, Queue
  <2>3. k # f
    <3>1. CASE chain[f] = MarkRule
      <4>1. PICK l \in DOMAIN chain : l < From(f, i) /\ Mark(l)
        BY <2>1 DEF Ahead, Queue
      <4>2. l < k /\ l \in Nat /\ k \in Nat
        BY <1>1, <2>1, <2>2, <4>1
      <4>3. DOMAIN chain = 1 .. Len(chain)
        BY LenProperties DEF TypeOK
      <4> QED
        BY <3>1, <4>1, <4>2, <4>3 DEF IsFirst, Mark
    <3>2. CASE chain[f] # MarkRule
      BY <2>2, <3>2 DEF Mark
    <3> QED
      BY <3>1, <3>2
  <2>4. PICK n \in DOMAIN chain' : From(f, n) = k
    BY <1>1, <2>2, <2>3
  <2>5. i < n /\ n < j /\ chain'[n] = MarkRule
    BY <1>1, <2>2, <2>4 DEF Mark
  <2> QED
    BY <2>5
<1> QED
  BY <1>2, <1>3

(* Removing the first of a queue rule's copies spends the others: a mark   *)
(* rule is ahead of the first, and one between it and each other copy.     *)
LEMMA WithoutSpent ==
  ASSUME TypeOK, Ahead, Between, Spent, pc = "unrule",
         NEW rule \in left, rule # MarkRule, left' = left \ {rule},
         \/ ~InChain(rule) /\ chain' = chain
         \/ \E f \in DOMAIN chain : IsFirst(f, rule) /\ chain' = Without(f)
  PROVE  Spent'
<1> SUFFICES ASSUME NEW i \in DOMAIN chain', chain'[i] # MarkRule,
                    chain'[i] = rule \/ chain'[i] \notin left
             PROVE  \E k, l \in DOMAIN chain' :
                      k < l /\ l < i /\ chain'[k] = MarkRule /\ chain'[l] = MarkRule
  BY DEF Spent, Queue, Twice, Mark
<1>1. CASE ~InChain(rule) /\ chain' = chain
  <2>1. chain[i] # rule
    BY <1>1 DEF InChain
  <2> QED
    BY <1>1, <2>1 DEF Spent, Queue, Twice, Mark
<1>2. CASE \E f \in DOMAIN chain : IsFirst(f, rule) /\ chain' = Without(f)
  <2>1. PICK f \in DOMAIN chain : IsFirst(f, rule) /\ chain' = Without(f)
    BY <1>2
  <2>2. /\ DOMAIN chain \subseteq Nat /\ DOMAIN chain' \subseteq Nat
        /\ \A n \in DOMAIN chain' :
             From(f, n) \in DOMAIN chain /\ From(f, n) # f /\ chain'[n] = chain[From(f, n)]
        /\ \A m, n \in DOMAIN chain' : m < n <=> From(f, m) < From(f, n)
        /\ \A k \in DOMAIN chain : k # f => \E n \in DOMAIN chain' : From(f, n) = k
    BY <2>1, WithoutOrder
  <2>3. chain[f] = rule
    BY <2>1 DEF IsFirst
  <2> DEFINE old == From(f, i)
  <2>4. old \in DOMAIN chain /\ old # f /\ chain[old] = chain'[i]
    BY <2>2
  <2>5. Twice(old)
    <3>1. CASE chain[old] = rule
      <4>1. f < old
        <5>1. DOMAIN chain = 1 .. Len(chain)
          BY LenProperties DEF TypeOK
        <5> QED
          BY <2>1, <2>4, <3>1, <5>1 DEF IsFirst
      <4>2. PICK l \in DOMAIN chain : f < l /\ l < old /\ Mark(l)
        BY <2>3, <2>4, <3>1, <4>1 DEF Between, Queue
      <4>3. PICK k \in DOMAIN chain : k < f /\ Mark(k)
        BY <2>3 DEF Ahead, Queue
      <4>4. k < l
        BY <2>2, <4>2, <4>3
      <4> QED
        BY <4>2, <4>3, <4>4 DEF Twice
    <3>2. CASE chain[old] # rule
      BY <2>4, <3>2 DEF Spent, Queue
    <3> QED
      BY <3>1, <3>2
  <2>6. PICK k \in DOMAIN chain, l \in DOMAIN chain :
          k < l /\ l < old /\ Mark(k) /\ Mark(l)
    BY <2>5 DEF Twice
  <2>7. k # f /\ l # f
    BY <2>3, <2>6 DEF Mark
  <2>8. PICK m \in DOMAIN chain', n \in DOMAIN chain' : From(f, m) = k /\ From(f, n) = l
    BY <2>2, <2>7
  <2>9. m < n /\ n < i /\ chain'[m] = MarkRule /\ chain'[n] = MarkRule
    BY <2>2, <2>6, <2>8 DEF Mark
  <2> QED
    BY <2>9
<1> QED
  BY <1>1, <1>2

LEMMA MarkedStep ==
  ASSUME TypeOK, Known, Marked, [Next]_vars
  PROVE  Marked'
<1> SUFFICES ASSUME Clean' PROVE Ahead' /\ Between' /\ Fresh' /\ Spent'
  BY DEF Marked
<1>1. CASE Start
  BY <1>1 DEF Start, Marked, Clean, Ahead, Between, Fresh, Spent, Queue, Mark
<1>2. CASE AddMark
  <2>1. Clean /\ pc' = "profiles" /\ chain' = Added(MarkRule) /\ MarkRule \in Rules
    <3>1. EnsureRule(MarkRule) /\ MarkRule \in Rules /\ pc' = "profiles"
      BY <1>2, EnsuredFacts DEF AddMark
    <3>2. ~RuleExists(MarkRule)
      BY DEF RuleExists, MatchesText, MarkRule
    <3> QED
      BY <3>1, <3>2, EnsureFacts DEF Clean
  <2>2. Ahead' /\ Between'
    BY <2>1, AddedMarked DEF Marked
  <2>3. Fresh'
    <3>1. /\ Len(chain) \in Nat /\ DOMAIN chain' = 1 .. Len(chain) + 1
          /\ chain'[Len(chain) + 1] = MarkRule
      BY <2>1, AddedOrder
    <3>2. Len(chain) + 1 \in DOMAIN chain' /\ \A j \in DOMAIN chain' : ~(j > Len(chain) + 1)
      BY <3>1
    <3> QED
      BY <3>1, <3>2 DEF Fresh, Mark
  <2> QED
    BY <2>1, <2>2, <2>3 DEF Spent
<1>3. CASE BuildProfile
  <2> DEFINE rule == QueueRule(Profile.port, config.num)
             Of(b) == QueueRule(config.profiles[b].port, config.num)
  <2>1. EnsureRule(rule) /\ rule \in Rules /\ rule \in Wanted(config)
    BY <1>3, EnsuredFacts
  <2>2. /\ pc = "profiles" /\ pc' = "profiles" /\ built' = built + 1 /\ built \in Nat
        /\ config' = config /\ rule = Of(built + 1)
    BY <1>3, ConfigFacts DEF BuildProfile, Profile
  <2>3. \A b \in 1 .. built : Of(b) # rule
    BY <1>3 DEF BuildProfile, Duplicate, QueueRule
  <2> HIDE DEF rule
  <2>4. Clean
    BY <2>1, EnsureFacts DEF Clean
  <2>5. PICK m \in DOMAIN chain :
          Mark(m) /\ \A j \in DOMAIN chain : j > m => \E b \in 1 .. built : chain[j] = Of(b)
    BY <2>2, <2>4 DEF Marked, Fresh
  <2>6. \A b \in 1 .. built : b \in 1 .. built + 1
    BY <2>2
  <2>7. CASE chain' = chain
    BY <2>2, <2>4, <2>5, <2>6, <2>7 DEF Marked, Ahead, Between, Fresh, Spent, Queue, Mark
  <2>8. CASE chain' = Added(rule)
    <3>1. Ahead' /\ Between'
      BY <2>1, <2>3, <2>4, <2>5, <2>8, AddedMarked DEF Marked
    <3>2. /\ DOMAIN chain = 1 .. Len(chain) /\ Len(chain) \in Nat
          /\ DOMAIN chain' = 1 .. Len(chain) + 1
          /\ \A i \in DOMAIN chain : chain'[i] = chain[i]
          /\ chain'[Len(chain) + 1] = rule
      BY <2>1, <2>8, AddedOrder
    <3>3. m \in DOMAIN chain' /\ chain'[m] = MarkRule
      BY <2>5, <3>2 DEF Mark
    <3>4. ASSUME NEW j \in DOMAIN chain', j > m
          PROVE  \E b \in 1 .. built + 1 : chain'[j] = Of(b)
      <4>1. CASE j \in DOMAIN chain
        BY <2>5, <2>6, <3>2, <3>4, <4>1
      <4>2. CASE j = Len(chain) + 1
        <5>1. built + 1 \in 1 .. built + 1 /\ chain'[j] = Of(built + 1)
          BY <2>2, <3>2, <4>2
        <5> QED
          BY <5>1
      <4> QED
        BY <3>2, <4>1, <4>2
    <3>5. Fresh'
      BY <2>2, <3>3, <3>4 DEF Fresh, Mark
    <3> QED
      BY <2>2, <3>1, <3>5 DEF Spent
  <2> QED
    BY <2>1, <2>7, <2>8, EnsureFacts
<1>4. CASE Unrule
  <2>1. PICK rule \in left : RuleRemove(rule) /\ left' = left \ {rule}
    BY <1>4 DEF Unrule
  <2>2. /\ Clean /\ pc = "unrule" /\ pc' = "unrule" /\ rule # MarkRule
    BY <1>4, <2>1, RemoveFacts, WantedFacts DEF Unrule, TypeOK, Clean
  <2>3. Ahead /\ Between /\ Spent
    BY <2>2 DEF Marked
  <2>4. Spent'
    BY <2>1, <2>2, <2>3, RemoveFacts, WithoutSpent
  <2>5. Ahead' /\ Between'
    <3>1. CASE \E f \in DOMAIN chain : IsFirst(f, rule) /\ chain' = Without(f)
      <4>1. PICK f \in DOMAIN chain : IsFirst(f, rule) /\ chain' = Without(f)
        BY <3>1
      <4>2. chain[f] = rule
        BY <4>1 DEF IsFirst
      <4> QED
        BY <2>2, <2>3, <4>1, <4>2, WithoutMarked
    <3>2. CASE chain' = chain
      BY <2>3, <3>2 DEF Ahead, Between, Queue, Mark
    <3> QED
      BY <2>1, <3>1, <3>2, RemoveFacts
  <2> QED
    BY <2>2, <2>4, <2>5 DEF Fresh
<1>5. CASE Unmark
  <2>1. /\ Clean /\ pc = "unrule" /\ pc' = "down" /\ RuleRemove(MarkRule) /\ left = {}
    BY <1>5, RemoveFacts DEF Unmark, Clean, Ends
  <2>2. Ahead /\ Between /\ \A i \in DOMAIN chain : Queue(i) => Twice(i)
    BY <2>1 DEF Marked, Spent
  <2>3. CASE \E f \in DOMAIN chain : IsFirst(f, MarkRule) /\ chain' = Without(f)
    <3>1. PICK f \in DOMAIN chain : IsFirst(f, MarkRule) /\ chain' = Without(f)
      BY <2>3
    <3>2. chain[f] = MarkRule
      BY <3>1 DEF IsFirst
    <3>3. Ahead' /\ Between'
      BY <2>2, <3>1, <3>2, WithoutMarked
    <3> QED
      BY <2>1, <3>3 DEF Fresh, Spent
  <2>4. CASE chain' = chain
    BY <2>1, <2>2, <2>4 DEF Ahead, Between, Queue, Mark, Fresh, Spent
  <2> QED
    BY <2>1, <2>3, <2>4, RemoveFacts
<1>6. CASE Elsewhere
  <2>1. UNCHANGED <<chain, mishaps, config>>
    BY <1>6, ElsewhereKeeps
  <2>2. Ahead' /\ Between'
    BY <2>1 DEF Marked, Clean, Ahead, Between, Queue, Mark
  <2>3. Fresh'
    BY <1>6, <2>1, ElsewhereFacts DEF Marked, Clean, Fresh, Mark
  <2>4. Spent'
    <3>1. CASE pc' = "unrule" /\ pc = "unrule" /\ left' = left
      BY <2>1, <3>1 DEF Marked, Clean, Spent, Queue, Twice, Mark
    <3>2. CASE pc' = "unrule" /\ left' = Wanted(config)
      <4>1. \A i \in DOMAIN chain' : chain'[i] # MarkRule => chain'[i] \in left'
        BY <2>1, <3>2 DEF Known, Clean
      <4> QED
        BY <4>1 DEF Spent, Queue
    <3> QED
      BY <1>6, <3>1, <3>2, ElsewhereFacts DEF Spent
  <2> QED
    BY <2>2, <2>3, <2>4
<1>7. CASE UNCHANGED vars
  BY <1>7 DEF vars, Marked, Clean, Ahead, Between, Fresh, Spent, Queue, Mark, Twice
<1> QED
  BY NextCases, <1>1, <1>2, <1>3, <1>4, <1>5, <1>6, <1>7

(* What the daemon sends itself is never queued to it again, whatever ended*)
(* earlier processes, unless a command failed or the configuration changed *)
(* over rules left behind.                                                 *)
THEOREM OwnPacketsPassAlways == Spec => []OwnPacketsPass
<1>1. Init => Known /\ Marked
  BY DEF Init, Known, Marked, Ahead, Between, Fresh, Spent
<1>2. TypeOK /\ Known /\ Marked /\ [Next]_vars => Known' /\ Marked'
  BY KnownStep, MarkedStep
<1>3. TypeOK /\ Known /\ Marked => OwnPacketsPass
  <2> SUFFICES ASSUME TypeOK, Known, Marked, Clean, NEW port
               PROVE  Passes(port, TRUE)
    BY DEF OwnPacketsPass, Clean
  <2> SUFFICES ASSUME NEW i \in DOMAIN chain, chain[i].target = "NFQUEUE"
               PROVE  \E k \in Matching(port, TRUE) : k < i
    BY DEF Passes, Matching
  <2>1. PICK k \in DOMAIN chain : k < i /\ Mark(k)
    BY DEF Marked, Ahead, Queue, MarkRule
  <2>2. k \in Matching(port, TRUE)
    BY <2>1 DEF Matching, Mark, MarkRule
  <2> QED
    BY <2>1, <2>2
<1> QED
  BY <1>1, <1>2, <1>3, LifecycleTypes, PTL DEF Spec
=============================================================================
