------------------------------ MODULE MCMarkers ------------------------------
(* Small instances of Markers: payloads built from what they mean, cut short*)
(* and run together, and positions.                                        *)
EXTENDS MarkersProperties

E(type, size) == [type |-> type, size |-> size]
Hello0 == [session |-> 2, suites |-> 2, methods |-> 1, before |-> <<E(10, 2)>>,
           name |-> <<<<97, 98, 99>>>>, after |-> <<E(43, 0)>>]

(* With and without a session id, extensions of any size around the name,  *)
(* names of even, odd and no length, and two compression methods.          *)
SomeHellos ==
  {[session |-> s, suites |-> 2, methods |-> m, before |-> b, name |-> n, after |-> a] :
     s \in {0, 2}, m \in {1, 2}, b \in {<< >>, <<E(10, 2)>>, <<E(10, 0), E(11, 1)>>},
     n \in {<< >>, <<<< >>>>, <<<<97, 98>>>>, <<<<97, 98, 99>>>>},
     a \in {<< >>, <<E(43, 1)>>}} \cup {Hello0}

SomeRequests ==
  {[line |-> l, headers |-> h, name |-> n, rest |-> t] :
     l \in {<<"g">>, <<"h">>, HOST_HEADER_NAME},
     h \in {<< >>, <<<<"x">>>>, <<HOST_HEADER_NAME>>, <<<<"x", "-">> \o HOST_HEADER_NAME>>},
     n \in {<< >>, <<"a">>, <<"a", ".", "b">>}, t \in {CRLF, <<"y">> \o CRLF \o CRLF}}

Tls(b) == [proto |-> "TLS", bytes |-> b]
Http(b) == [proto |-> "HTTP", bytes |-> b]
Cuts(b) == {SubSeq(b, 1, n) : n \in 1 .. Len(b)}

SomeCharacters ==
  {"h", "o", "s", "t", ":", "CR", "LF", " ", "g", "x", "-", "a", ".", "b", "y"}

(* The ClientHellos, alone and with a second record behind them; one of    *)
(* them cut short everywhere; a record that is only a header, ones that end*)
(* in the random or behind it, and one that is no ClientHello.             *)
SomeInputs ==
  {Tls(Encode(h)) : h \in SomeHellos}
    \cup {Tls(b) : b \in Cuts(Encode(Hello0))}
    \cup {Tls(b) : b \in {<<22, 3, 1, 0, 0>>, <<22, 3, 1, 0, 37, 1>> \o Zeros(36),
                          <<22, 3, 1, 0, 38, 1>> \o Zeros(37), <<22, 3, 1, 0, 1, 2>>}}
    \cup {Tls(Encode(h) \o <<22, 3, 3, 0, 1, 0>>) : h \in SomeHellos}
    \cup {Http(EncodeRequest(r)) : r \in SomeRequests}
    \cup {Http(b) : b \in Cuts(<<"g", "CR", "LF">> \o HOST_HEADER_NAME \o <<" ", "a">> \o CRLF)}

Means(t, m, n) == [text |-> t, marker |-> m, shift |-> n]
SomeMeanings ==
  { Means(<<Number(2)>>, "", 2),
    Means(<<Word("hoststart")>>, "hoststart", 0),
    Means(<<Word("hoststart"), Sign("+"), Number(1)>>, "hoststart", 1),
    Means(<<Word("hostend"), Sign("-"), Number(1)>>, "hostend", -1),
    Means(<<Word("hostmid"), Sign("-"), Number(2)>>, "hostmid", -2),
    Means(<<Word("hoststart"), Sign("-"), Number(40)>>, "hoststart", -40),
    Means(<<Word("sniext"), Sign("-"), Number(4)>>, "sniext", -4),
    Means(<<Word("sniext"), Sign("+"), Number(4)>>, "sniext", 4) }

(* Besides, positions that are refused, or read as something else.         *)
SomeTexts ==
  {m.text : m \in SomeMeanings}
    \cup { <<Sign("+"), Number(1)>>, <<Number(1), Word("hostend")>>, <<Sign("@")>>,
           <<Word("hoststart"), Sign("+"), Number(MaxInt + 1)>>,
           <<Number(1), Sign("-"), Word("hostend")>>, <<Word("host"), Number(3)>> }
=============================================================================
