------------------------------ MODULE Handover -------------------------------
(***************************************************************************)
(* What the packet loop promises of the packets of a recognised payload    *)
(* once it hands them to the modifiers: however they are cut, joined by    *)
(* others or put in another order, each of them is answered, once, all in  *)
(* one go, and nothing else is; or the program ends and answers none.      *)
(* Dispatcher's Deliver relies on this.                                    *)
(***************************************************************************)
CONSTANT Ids      \* the packets that may be handed over

VARIABLES
  waiting,        \* the packets handed over and not yet answered
  out,            \* verdict messages, each with the id it is about
  ended           \* has the program ended?

vars == <<waiting, out, ended>>

Init == waiting \in SUBSET Ids /\ out = {} /\ ended = FALSE

(* The messages themselves are whatever the program sends. *)
Answer ==
  /\ ~ended
  /\ {m.id : m \in out'} = waiting
  /\ \A m, n \in out' : m.id = n.id => m = n
  /\ waiting' = {}
  /\ UNCHANGED ended

End == waiting # {} /\ ~ended /\ ended' = TRUE /\ UNCHANGED <<waiting, out>>

Next == Answer \/ End

Spec == Init /\ [][Next]_vars
=============================================================================
