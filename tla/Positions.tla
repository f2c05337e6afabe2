------------------------------ MODULE Positions ------------------------------
(***************************************************************************)
(* Where a modifier is told to cut.  A position is written in the          *)
(* configuration as an offset ("2") or relative to a marker                *)
(* ("hoststart+1"); parse_position (src/src/modify/args.cpp) reads it at   *)
(* start-up, split_http and split_tls (modify/algorithms/split.hpp) turn   *)
(* it into an offset in the payload.                                       *)
(*                                                                         *)
(* A text is a sequence of tokens: a run of letters is a word, a run of    *)
(* digits a number, any other character a sign.                            *)
(*                                                                         *)
(* An operator named Bug... is the one below it with a plausible mistake:  *)
(* nothing uses it; the mutation runs put it in the other's place to see   *)
(* which property notices.                                                 *)
(***************************************************************************)
EXTENDS Integers, Sequences, SequencesExt

CONSTANTS
  SizeSpace,    \* size of the range of size_t (2^64)
  MaxInt        \* the largest int, above which stoi throws

ASSUME SizesAssumption ==
  SizeSpace \in Nat /\ MaxInt \in Nat /\ SizeSpace > MaxInt

Word(w) == [kind |-> "word", val |-> w]
Number(n) == [kind |-> "number", val |-> n]
Sign(c) == [kind |-> "sign", val |-> c]

(* `last' is the kind of the last token, "refused" once a token has thrown.*)
NoPosition == [arg |-> << >>, op |-> "none", off |-> 0, last |-> "sign"]
Refused == [NoPosition EXCEPT !.last = "refused"]

(* Words add up to one name; the last number and the last sign count.  A   *)
(* number may follow a word directly, but only a sign may follow a number. *)
Scan(pos, token) ==
  CASE pos.last = "refused" -> Refused
    [] token.kind = "word" /\ pos.last = "sign" ->
         [pos EXCEPT !.arg = Append(@, token.val), !.last = "word"]
    [] token.kind = "number" /\ pos.last # "number" /\ token.val <= MaxInt ->
         [pos EXCEPT !.off = token.val, !.last = "number"]
    [] token.kind = "sign" /\ token.val \in {"+", "-"} ->
         [pos EXCEPT !.op = token.val, !.last = "sign"]
    [] OTHER -> Refused

(* An operation needs a marker. *)
ParsePosition(text) ==
  LET read[k \in 0 .. Len(text)] ==
        IF k = 0 THEN NoPosition ELSE Scan(read[k - 1], text[k])
      pos == read[Len(text)]
  IN  IF pos.op # "none" /\ pos.arg = << >> THEN Refused ELSE pos

BugDoOperation(start, pos) ==
  IF pos.op = "none" THEN start ELSE (start + pos.off) % SizeSpace
DoOperation(start, pos) ==
  CASE pos.op = "+"    -> (start + pos.off) % SizeSpace
    [] pos.op = "-"    -> (start - pos.off) % SizeSpace
    [] pos.op = "none" -> start

(* A word that names no marker of the protocol counts for nothing.         *)
SplitPos(markers, pos) ==
  IF \E m \in DOMAIN markers : pos.arg = <<m>>
  THEN DoOperation(markers[CHOOSE m \in DOMAIN markers : pos.arg = <<m>>], pos)
  ELSE pos.off
=============================================================================
