---------------------------- MODULE MCDispatcher ----------------------------
(* Small instances of Dispatcher: the packets that may arrive, and profiles. *)
EXTENDS DispatcherProperties

CONSTANTS c1, c2

Data(t, s, bytes) ==
  [conn |-> t, seq |-> s, data |-> bytes, syn |-> FALSE, ack |-> TRUE,
   fin |-> FALSE, rst |-> FALSE, opts |-> << >>]

Control(t, s, syn, ack, fin, rst, opts) ==
  [conn |-> t, seq |-> s, data |-> << >>, syn |-> syn, ack |-> ack,
   fin |-> fin, rst |-> rst, opts |-> opts]

Mss(n) == [kind |-> "MSS", val |-> n]
Nop == [kind |-> "NOP", val |-> 0]

AllTcp == [t \in Tuples |-> "TCP"]
C2IsUdp == [t \in Tuples |-> IF t = c2 THEN "UDP" ELSE "TCP"]
TlsThenHttp ==
  [t \in Tuples |-> <<"tls_handshake_classifier", "http_classifier">>]
TlsOnly == [t \in Tuples |-> <<"tls_handshake_classifier">>]
TlsAndHttp ==
  [t \in Tuples |-> IF t = c1 THEN <<"tls_handshake_classifier">>
                              ELSE <<"http_classifier">>]

(* SeqSpace is 32 in every run.  A TLS record of 5 + 3 bytes, its header   *)
(* just before the wrap of the sequence space and its body just after.     *)
Record(t) ==
  { Data(t, 27, <<22, 3, 1, 0, 3>>),   \* 27 .. 31
    Data(t, 0, <<1>>),
    Data(t, 1, <<2>>),
    Data(t, 2, <<3>>),
    Data(t, 1, <<2, 3>>) }             \* the last two, resent as one segment

(* "G HTTP/ CR LF" (30 .. 1), "h CR LF" (2 .. 4), "CR LF" (5, 6), and a    *)
(* stray byte pair sent before the request.                                *)
Request(t) ==
  { Data(t, 30, <<71, 256, 13, 10>>),
    Data(t, 2, <<104, 13, 10>>),
    Data(t, 5, <<13, 10>>),
    Data(t, 28, <<13, 10>>) }

Ack(t, s) == Control(t, s, FALSE, TRUE, FALSE, FALSE, << >>)
Fin(t, s) == Control(t, s, FALSE, TRUE, TRUE, FALSE, << >>)
Rst(t, s) == Control(t, s, FALSE, FALSE, FALSE, TRUE, << >>)
Syn(t, s, opts) == Control(t, s, TRUE, FALSE, FALSE, FALSE, opts)
SynAck(t, s, opts) == Control(t, s, TRUE, TRUE, FALSE, FALSE, opts)

(* Reordering: every arrival order of one record, with retransmissions.    *)
ReorderPackets == Record(c1) \cup {Rst(c1, 3)}

(* Two connections on ports with different profiles. *)
PairPackets ==
  { Data(c1, 27, <<22, 3, 1, 0, 2>>), Data(c1, 0, <<1>>), Data(c1, 1, <<2>>) }
    \cup Request(c2)

(* Both at once: every arrival order of the record, retransmitted and      *)
(* reset, next to a connection with another profile.                       *)
MixedPackets == ReorderPackets \cup Request(c2)

(* A TCP connection whose control packets come in any order around the two *)
(* segments of a request, a UDP one, and verdicts that may fail.           *)
HostilePackets ==
  { Syn(c1, 29, <<Mss(1460)>>), Syn(c1, 29, <<Nop, Mss(1460)>>), Syn(c1, 31, <<Nop>>),
    SynAck(c1, 29, <<Mss(9)>>), Ack(c1, 30), Fin(c1, 4), Rst(c1, 4),
    Data(c1, 30, <<71, 256, 13, 10>>), Data(c1, 2, <<13, 10>>),
    Data(c1, 28, <<13, 10>>),
    Data(c2, 0, <<71, 256, 13, 10>>), Data(c2, 0, <<13, 10>>),
    Data(c2, 0, <<256, 13, 10, 13, 10>>) }

(* Liveness: c1 sends part of a record and may fall silent; c2 keeps       *)
(* sending packets without payload.                                        *)
QuietPackets ==
  { Data(c1, 27, <<22, 3, 1, 0, 2>>), Data(c1, 0, <<1>>), Data(c1, 1, <<2>>),
    Syn(c1, 26, <<Mss(9)>>), Ack(c2, 0) }
=============================================================================
