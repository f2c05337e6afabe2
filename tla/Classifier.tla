----------------------------- MODULE Classifier -----------------------------
(***************************************************************************)
(* The payload classifiers of a profile (src/src/classify): the TLS record *)
(* test, the HTTP request test, and the chain that combines them.          *)
(*                                                                         *)
(* A payload is a sequence of cells.  A cell is one byte, except that the  *)
(* five characters "HTTP/" are the single cell HTTP_TAG: nothing here      *)
(* depends on a segment boundary inside them.                              *)
(*                                                                         *)
(* An operator named Bug... is the one below it with a plausible mistake:  *)
(* nothing uses it; the mutation runs put it in the other's place to see   *)
(* which property notices.                                                 *)
(***************************************************************************)
EXTENDS Naturals, Sequences

CR == 13
LF == 10
HTTP_TAG == 256

TLS_HDR_LEN == 5
TLS_HANDSHAKE_TYPE == 22
TLS_VERSION_MAJOR == 3
TLS_VERSION_MINORS == {1, 3}

ClassifierNames == {"tls_handshake_classifier", "http_classifier"}
ClassifyResults == {"DONE", "REASSEMBLING", "ERROR"}
L7Protos == {"UNKNOWN", "TLS", "HTTP"}

-----------------------------------------------------------------------------
(* The length field of a TLS record header, in network order. *)
TlsLen(p) == p[4] * 256 + p[5]

BugFragmented(p) == Len(p) # TlsLen(p) + TLS_HDR_LEN
Fragmented(p) == Len(p) < TlsLen(p) + TLS_HDR_LEN

(* "unexpected" is the error a classifier returns through std::expected.   *)
TlsHandshakeClassify(p) ==
  IF \/ Len(p) < TLS_HDR_LEN
     \/ p[1] # TLS_HANDSHAKE_TYPE
     \/ p[2] # TLS_VERSION_MAJOR
     \/ p[3] \notin TLS_VERSION_MINORS
  THEN "unexpected"
  ELSE IF Fragmented(p) THEN "REASSEMBLING" ELSE "DONE"

(* The positions at which a CR LF starts. *)
BugLineEnds(p) ==
  {i \in 1 .. Len(p) - 1 : p[i] = CR /\ p[i + 1] = LF /\ i + 4 > Len(p)}
LineEnds(p) == {i \in 1 .. Len(p) - 1 : p[i] = CR /\ p[i + 1] = LF}

(* The request line must be complete and name HTTP; the empty line that    *)
(* ends the headers may still be missing.                                  *)
HttpClassify(p) ==
  LET ends == LineEnds(p)
  IN  IF \/ ends = {}
         \/ ~ \E i \in 1 .. Len(p) : p[i] = HTTP_TAG /\ \A e \in ends : i < e
      THEN "unexpected"
      ELSE IF \E e \in ends : e + 2 \in ends THEN "DONE" ELSE "REASSEMBLING"

PayloadClassify(name, p) ==
  IF name = "tls_handshake_classifier" THEN TlsHandshakeClassify(p)
                                       ELSE HttpClassify(p)

Protocol(name) == IF name = "tls_handshake_classifier" THEN "TLS" ELSE "HTTP"

(* The chain: the first classifier that is DONE names the protocol; failing*)
(* that, one that wants more payload keeps the connection reassembling; a  *)
(* chain in which every classifier failed is an ERROR.                     *)
Classify(names, p) ==
  LET answer(i) == PayloadClassify(names[i], p)
      done == {i \in DOMAIN names : answer(i) = "DONE"}
  IN  IF done # {}
      THEN [res |-> "DONE",
            proto |-> Protocol(names[CHOOSE i \in done : \A j \in done : i <= j])]
      ELSE [res |-> IF \E i \in DOMAIN names : answer(i) = "REASSEMBLING"
                    THEN "REASSEMBLING" ELSE "ERROR",
            proto |-> "UNKNOWN"]
=============================================================================
