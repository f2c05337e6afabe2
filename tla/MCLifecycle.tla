---------------------------- MODULE MCLifecycle ----------------------------
(* Small instances of Lifecycle: configurations. *)
EXTENDS LifecycleProperties

Good(port) == [port |-> port, valid |-> TRUE]
Wrong(port) == [port |-> port, valid |-> FALSE]
Config(profiles, num) == [profiles |-> profiles, num |-> num]

(* Two ports, one of them, one with a mistake in the other, one twice, none*)
(* and a queue whose number begins the other's.                            *)
SomeConfigs ==
  { Config(<<Good(443), Good(80)>>, 1489), Config(<<Good(443)>>, 1489),
    Config(<<Good(443), Wrong(80)>>, 1489), Config(<<Good(80), Good(80)>>, 1489),
    Config(<< >>, 1489), Config(<<Good(443), Good(80)>>, 14) }
=============================================================================
