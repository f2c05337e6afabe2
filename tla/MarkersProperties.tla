-------------------------- MODULE MarkersProperties --------------------------
(***************************************************************************)
(* What find_markers and the positions may do, stated over Markers against *)
(* payloads built from what they mean.                                     *)
(***************************************************************************)
EXTENDS Markers, Classifier

CONSTANTS
  Hellos,       \* ClientHellos that may be in Inputs
  Requests,     \* HTTP requests that may be in Inputs
  Meanings      \* [text, marker, shift]: positions and what they stand for,
                \* "" being the start of the payload

(* No extension but the one with the name is of type 0. *)
Extensions == [type : Nat \ {0}, size : Nat]
ASSUME HellosAssumption ==
  \A h \in Hellos :
    /\ h \in [session : Nat, suites : Nat, methods : Nat, before : Seq(Extensions),
              name : Seq(Seq(Nat)), after : Seq(Extensions)]
    /\ Len(h.name) <= 1

(* A line has no end of line in it, as far as the name goes.               *)
ASSUME RequestsAssumption ==
  /\ " " \in Characters
  /\ Requests \subseteq
       [line : Seq(Characters), headers : Seq(Seq(Characters)),
        name : Seq(Characters \ {"CR"}), rest : Seq(Characters)]

(* A number, a marker, or a marker and a number to add or take away.       *)
ASSUME MeaningsAssumption ==
  \A m \in Meanings : \E n \in 0 .. MaxInt :
    \/ m.text = <<Number(n)>> /\ m.marker = "" /\ m.shift = n
    \/ m.text = <<Word(m.marker)>> /\ m.marker # "" /\ m.shift = 0
    \/ m.text = <<Word(m.marker), Sign("+"), Number(n)>> /\ m.marker # "" /\ m.shift = n
    \/ m.text = <<Word(m.marker), Sign("-"), Number(n)>> /\ m.marker # "" /\ m.shift = -n

-----------------------------------------------------------------------------
(* A ClientHello is [session, suites, methods, before, name, after]: the   *)
(* sizes of the session id, the cipher suites and the compression methods; *)
(* the extensions before and after the server name, each [type, size]; and *)
(* the names of the server, none or one.                                   *)
Zeros(n) == [k \in 1 .. n |-> 0]
TwoBytes(n) == <<n \div 256, n % 256>>
Sized(s) == TwoBytes(Len(s)) \o s

Ext(e) == TwoBytes(e.type) \o Sized(Zeros(e.size))
Exts(es) == FlattenSeq([i \in DOMAIN es |-> Ext(es[i])])
SniExt(name) == TwoBytes(0) \o Sized(Sized(<<0>> \o Sized(name)))
NameExts(names) == FlattenSeq([i \in DOMAIN names |-> SniExt(names[i])])

Fixed(h) ==
  <<1>> \o Zeros(37) \o <<h.session>> \o Zeros(h.session) \o Sized(Zeros(h.suites))
    \o <<h.methods>> \o Zeros(h.methods)
Encode(h) ==
  LET body == Fixed(h) \o Sized(Exts(h.before) \o NameExts(h.name) \o Exts(h.after))
  IN  <<TLS_HANDSHAKE_TYPE, TLS_VERSION_MAJOR, 1>> \o Sized(body)

(* A request is [line, headers, name, rest]: the lines before Host. *)
Line(l) == l \o CRLF
EncodeRequest(r) ==
  Line(r.line) \o FlattenSeq([i \in DOMAIN r.headers |-> Line(r.headers[i])])
    \o Line(HOST_HEADER_NAME \o <<" ">> \o r.name) \o r.rest

(* Where the name is in them, by its size and what is before it.           *)
NameAt(h) ==
  LET sni == 5 + Len(Fixed(h)) + 2 + Len(Exts(h.before))
      size == Len(h.name[1])
  IN  [sniext |-> sni, hoststart |-> sni + 9,
       hostmid |-> sni + 9 + size \div 2, hostend |-> sni + 9 + size]
RequestNameAt(r) ==
  LET start == Len(EncodeRequest(r)) - Len(r.rest) - 2 - Len(r.name)
      size == Len(r.name)
  IN  [hoststart |-> start, hostmid |-> start + size \div 2, hostend |-> start + size]

(* Where the name of the input is, if it is a ClientHello with a name and  *)
(* one compression method, or a request without an earlier "Host:".        *)
Encoded == [h \in Hellos |-> Encode(h)]
HelloNames ==
  {NameAt(h) : h \in {g \in Hellos : g.methods = 1 /\ g.name # << >> /\ bytes = Encoded[g]}}
RequestNames ==
  {names \in {RequestNameAt(r) : r \in {q \in Requests : bytes = EncodeRequest(q)}} :
     \A k \in Occurs(HOST_HEADER_NAME) : k >= names.hoststart - 6}
TrueMarkers == IF input.proto = "TLS" THEN HelloNames ELSE RequestNames

-----------------------------------------------------------------------------
TypeOK ==
  /\ input \in Inputs
  /\ at \in 0 .. Len(bytes)
  /\ sniext \in 0 .. Len(bytes)
  /\ pc \in Fields \cup {"request", "found", "none", "undefined", "cut"}

(* The markers of a ClientHello are in order and inside the payload,       *)
(* wherever the payload stops and whatever its length fields say: the      *)
(* filter compares, and the splits cut, bytes that are there.              *)
TlsMarkersInside ==
  (input.proto = "TLS" /\ pc \in {"found", "cut"}) =>
    /\ markers.sniext + 9 = markers.hoststart
    /\ markers.hoststart <= markers.hostmid /\ markers.hostmid <= markers.hostend
    /\ markers.hostend <= Len(bytes)

(* So are those of a request, unless its Host line ends right after the    *)
(* colon: then they are not in order.                                      *)
BareHost == Occurs(HOST_HEADER_NAME \o CRLF) # {}
HttpMarkersInside ==
  (input.proto = "HTTP" /\ pc \in {"found", "cut"} /\ ~BareHost) =>
    /\ 6 <= markers.hoststart
    /\ markers.hoststart <= markers.hostmid /\ markers.hostmid <= markers.hostend
    /\ markers.hostend + 2 <= Len(bytes)

(* Nothing behind the end of the payload is read, unless the payload is    *)
(* shorter than the record that was recognised (there was a hole in it) or *)
(* the record ends exactly in front of a field read without a check.       *)
ReadsInside ==
  pc = "undefined" =>
    \/ TlsHandshakeClassify(bytes) # "DONE"
    \/ Len(bytes) \in {5, 43}

(* The name is found, and where it is.  In a ClientHello without one,      *)
(* nothing is found.                                                       *)
FindsTheName ==
  /\ pc \in {"found", "cut"} => TrueMarkers \subseteq {markers}
  /\ pc \in {"none", "undefined"} => TrueMarkers = {}
  /\ (input.proto = "TLS" /\ pc \in {"found", "cut"}) =>
       \A h \in Hellos : h.methods = 1 /\ h.name = << >> => bytes # Encoded[h]

(* A position cuts where it says, counted from where the name really is,   *)
(* in the arithmetic of size_t.  One relative to a marker that the payload *)
(* has not cuts that number of bytes from the start, whatever its sign.    *)
Distance(m) == IF m.shift < 0 THEN -m.shift ELSE m.shift
CutsWhereItSays ==
  pc = "cut" =>
    \A names \in TrueMarkers, m \in Meanings :
      text = m.text =>
        cut = IF m.marker \in DOMAIN names
              THEN (names[m.marker] + m.shift) % SizeSpace
              ELSE Distance(m)

(* The parser comes to an end, whatever the lengths in the payload say.    *)
Ends == <>(pc \in {"found", "none", "undefined", "cut"})
=============================================================================
