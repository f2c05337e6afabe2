-------------------------- MODULE ClassifierStream --------------------------
(***************************************************************************)
(* The classifier chain over a stream that arrives in order: cb_loop asks  *)
(* it again about the whole payload after every segment.  The stream here  *)
(* goes on after an answer, to see what the answer is worth.               *)
(***************************************************************************)
EXTENDS Classifier, FiniteSets

CONSTANTS
  Names,        \* the profile's classifiers, in order
  Alphabet,     \* the bytes that may arrive
  MaxLength     \* bound: bytes in the stream

ASSUME NamesAssumption == \A i \in DOMAIN Names : Names[i] \in ClassifierNames
ASSUME AlphabetAssumption == Alphabet \subseteq 0 .. HTTP_TAG
ASSUME LengthAssumption == MaxLength \in Nat

VARIABLES payload, answer
vars == <<payload, answer>>

Init ==
  /\ payload = << >>
  /\ answer = [res |-> "REASSEMBLING", proto |-> "UNKNOWN"]

(* One more segment; a byte at a time reaches every cut of the stream.     *)
Feed(b) ==
  /\ Len(payload) < MaxLength
  /\ payload' = Append(payload, b)
  /\ answer' = Classify(Names, payload')

Next == \E b \in Alphabet : Feed(b)

Spec == Init /\ [][Next]_vars

-----------------------------------------------------------------------------
(* Once the chain asked for more of a payload, no continuation makes it    *)
(* fail: packets held for an in-order stream are never abandoned by the    *)
(* ERROR branch of cb_loop.                                                *)
HoldingNeverFails ==
  [][(payload # << >> /\ answer.res = "REASSEMBLING")
       => answer'.res # "ERROR"]_vars

(* A recognised payload stays recognised when more of it is seen, so it    *)
(* does not matter how the sender cut what follows.                        *)
DoneIsStable == [][answer.res = "DONE" => answer'.res = "DONE"]_vars
=============================================================================
