------------------------------- MODULE Markers -------------------------------
(***************************************************************************)
(* Where the host name is in a recognised payload (src/src/modify/         *)
(* markers.cpp), and where a position of the configuration cuts it.        *)
(*                                                                         *)
(* find_markers_tls reads a ClientHello field by field: here each field is *)
(* a step, `at' the number of bytes behind it.  The payload is what concat *)
(* made of the held segments, so it may stop anywhere.  A cell of a TLS    *)
(* payload is a byte; one of an HTTP payload is a character in lower case. *)
(*                                                                         *)
(* An operator named Bug... is the one below it with a plausible mistake:  *)
(* nothing uses it; the mutation runs put it in the other's place to see   *)
(* which property notices.                                                 *)
(***************************************************************************)
EXTENDS Positions

CONSTANTS
  Inputs,       \* [proto, bytes]: the payloads the modifiers may be given
  Characters,   \* what an HTTP payload is made of
  Texts         \* the positions a profile may name

ASSUME CharactersAssumption == {"h", "o", "s", "t", ":", "CR", "LF"} \subseteq Characters

ASSUME InputsAssumption ==
  \A input \in Inputs :
    /\ \/ input.proto = "TLS" /\ input.bytes \in Seq(0 .. 255)
       \/ input.proto = "HTTP" /\ input.bytes \in Seq(Characters)
    /\ Len(input.bytes) < SizeSpace

VARIABLES
  input,        \* the payload, and the protocol it was recognised as
  at,           \* bytes read so far
  sniext,       \* where the last extension looked at begins
  markers,      \* what was found: a function from marker names to offsets
  text,         \* a position that is being resolved
  cut,          \* the offset it stands for
  pc            \* the field that is next; "found", "none", "undefined", "cut"

vars == <<input, at, sniext, markers, text, cut, pc>>

Fields == {"header", "hello", "session", "suites", "length", "extension", "name"}

bytes == input.bytes
Left == Len(bytes) - at
Byte(k) == bytes[at + k + 1]
U16(k) == Byte(k) * 256 + Byte(k + 1)

Init ==
  /\ input \in Inputs
  /\ at = 0 /\ sniext = 0
  /\ markers = << >>
  /\ text = << >> /\ cut = 0
  /\ pc = IF input.proto = "TLS" THEN "header" ELSE "request"

NotFound == pc' = "none" /\ UNCHANGED at

(* An access behind the end of the payload. *)
Undefined == pc' = "undefined" /\ UNCHANGED at

(* safe_subspan: go on to a field n bytes on, if there are as many.        *)
BugSkip(n, field) == at' = at + n /\ pc' = field
Skip(n, field) ==
  \/ Left >= n /\ at' = at + n /\ pc' = field
  \/ Left < n /\ NotFound

-----------------------------------------------------------------------------
(* find_markers_tls *)

(* The record header, which is taken to be there. *)
Header ==
  /\ pc = "header"
  /\ \/ Left >= 5 /\ at' = 5 /\ pc' = "hello"
     \/ Left < 5 /\ Undefined
  /\ UNCHANGED <<input, sniext, markers, text, cut>>

(* Type, length, version and random; the first is read without a check.    *)
BugFixedSize == 3 + 2 + 32
FixedSize == 1 + 3 + 2 + 32
Hello ==
  /\ pc = "hello"
  /\ \/ Left = 0 /\ Undefined
     \/ Left > 0 /\ Byte(0) # 1 /\ NotFound
     \/ Left > 0 /\ Byte(0) = 1 /\ Skip(FixedSize, "session")
  /\ UNCHANGED <<input, sniext, markers, text, cut>>

(* The session id; its length is read without a check. *)
SessionId ==
  /\ pc = "session"
  /\ \/ Left = 0 /\ Undefined
     \/ Left > 0 /\ Skip(1 + Byte(0), "suites")
  /\ UNCHANGED <<input, sniext, markers, text, cut>>

(* The cipher suites, and two bytes for the compression methods.           *)
CipherSuites ==
  /\ pc = "suites"
  /\ \/ Left < 2 /\ NotFound
     \/ Left >= 2 /\ Skip(2 + U16(0) + 2, "length")
  /\ UNCHANGED <<input, sniext, markers, text, cut>>

(* The length of the extensions, which nothing looks at. *)
ExtensionsLength ==
  /\ pc = "length"
  /\ Skip(2, "extension")
  /\ UNCHANGED <<input, sniext, markers, text, cut>>

BugExtent == U16(2)
Extent == 4 + U16(2)

(* An extension: the server name is of type 0, others are passed over.     *)
Extension ==
  /\ pc = "extension"
  /\ sniext' = IF Left >= 2 THEN at ELSE sniext
  /\ \/ Left < 4 /\ NotFound
     \/ Left >= 4 /\ U16(0) # 0 /\ Skip(Extent, "extension")
     \/ Left >= 4 /\ U16(0) = 0 /\ at' = at + 4 /\ pc' = "name"
  /\ UNCHANGED <<input, markers, text, cut>>

BugServerName == Left >= 5 /\ Byte(2) = 0
ServerName == Left >= 5 /\ Byte(2) = 0 /\ Left >= 5 + U16(3)

(* The list of names is taken to have one element. *)
Name ==
  /\ pc = "name"
  /\ \/ /\ ServerName
        /\ markers' = [sniext |-> sniext, hoststart |-> at + 5,
                       hostmid |-> at + 5 + U16(3) \div 2, hostend |-> at + 5 + U16(3)]
        /\ pc' = "found" /\ UNCHANGED at
     \/ ~ServerName /\ NotFound /\ UNCHANGED markers
  /\ UNCHANGED <<input, sniext, text, cut>>

-----------------------------------------------------------------------------
(* find_markers_http *)

HOST_HEADER_NAME == <<"h", "o", "s", "t", ":">>
CRLF == <<"CR", "LF">>

(* The offsets at which a word begins. *)
Occurs(word) == {k \in 0 .. Len(bytes) - Len(word) :
                   SubSeq(bytes, k + 1, k + Len(word)) = word}

Least(S) == CHOOSE k \in S : \A j \in S : k <= j

(* The first "Host:" anywhere, and the first end of line behind it.        *)
HostPos == Least(Occurs(HOST_HEADER_NAME))
BugHostEnd == Least(Occurs(CRLF))
HostEnd == Least({k \in Occurs(CRLF) : k >= HostPos})

(* The name begins one character behind the colon.  (Its size wraps if the *)
(* line ends right there.)                                                 *)
BugHostStart == HostPos + 5
HostStart == HostPos + 5 + 1
HostSize == (HostEnd - HostStart) % SizeSpace

HasHost == /\ Occurs(HOST_HEADER_NAME) # {}
           /\ \E k \in Occurs(CRLF) : k >= HostPos

Request ==
  /\ pc = "request"
  /\ \/ /\ HasHost
        /\ markers' = [hoststart |-> HostStart,
                       hostmid |-> (HostStart + HostSize \div 2) % SizeSpace,
                       hostend |-> (HostStart + HostSize) % SizeSpace]
        /\ pc' = "found" /\ UNCHANGED at
     \/ ~HasHost /\ NotFound /\ UNCHANGED markers
  /\ UNCHANGED <<input, sniext, text, cut>>

-----------------------------------------------------------------------------
(* A position that start-up did not refuse is resolved. *)
Resolve ==
  /\ pc = "found"
  /\ text' \in {t \in Texts : ParsePosition(t) # Refused}
  /\ cut' = SplitPos(markers, ParsePosition(text'))
  /\ pc' = "cut"
  /\ UNCHANGED <<input, at, sniext, markers>>

Parse ==
  \/ Header \/ Hello \/ SessionId \/ CipherSuites \/ ExtensionsLength \/ Extension
  \/ Name \/ Request

Next == Parse \/ Resolve

Spec == Init /\ [][Next]_vars

(* The parser is one call: it goes on until it has an answer.              *)
FairSpec == Spec /\ WF_vars(Parse)
=============================================================================
