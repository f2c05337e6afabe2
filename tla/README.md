# waiwaiDPI in TLA+

waiwaiDPI is a daemon that reads outgoing packets from a netfilter queue, holds the first packets of a connection
until it has seen a whole TLS ClientHello or HTTP request, rewrites them (split, reordered, with fake packets in
front) and lets the rest of the connection through. This directory holds TLA+ modules of that program, the TLC
configurations that check them on small instances, and theorems about them checked by TLAPS.

Contents: [the system](#the-system) · [hazards](#what-is-hard-here) · [modules](#modules) ·
[composition](#how-the-modules-fit-together) · [runs](#runs) · [proofs](#proofs) · [findings](#findings) ·
[limits](#abstractions-and-limits) · [not modelled](#not-modelled) · [what is left](#what-is-left)

All source paths are relative to `src/src/`.

## The system

One thread runs everything. `main` (main.cpp:171-327) installs iptables rules, opens the queue, and loops: receive
one netlink message, run `cb_loop` on it, sweep dead connections if at least
`CHECK_DEAD_CONNECTIONS_INTERVAL_SECS` have passed since the last sweep. A signal ends the loop and the rules are
removed. The concurrency is between this loop, the kernel (which keeps every queued packet until it gets a verdict,
and has room for a limited number), the senders on both sides, and the clock.

| Component | Source | State | Operations | Correct when |
|---|---|---|---|---|
| Packet loop | main.cpp | `last_check_time`; stack | `cb_loop`, the sweep timer | each packet gets at most one verdict, only while the kernel keeps it; none is lost |
| Connection tracker | conntrack/ | `conns_`: key → TCP state, expected seq, MSS, age, `done`, L7 protocol | `get_conn`, `track`, `timeout_for_tcp_state`, `clear_dead_connections` | states move forward only; a decision is final; a silent connection is released |
| Reassembly | conntrack/, modify/algorithms/common.hpp | `reasm_.segs` | `reasm_insert`, `reasm_sort`, `reasm_reset`, `concat_sorted`, `concat` | held segments are in stream order; what is joined is the stream |
| Classifiers | classify/ | none | TLS record test, HTTP request test, the chain | answers are stable as the stream grows |
| Verdicts | sys/nfq.cpp | none | `send_verdict` | see packet loop |
| Modifier pipeline | modify/modifier.cpp | list of modifiers | `filter`, `modify` | every original packet is answered once; the receiver gets the same stream |
| Splitter, Disorder | modify/splitter.cpp, disorder.cpp | arguments | split, seqovl, fake blob, reversal, seq/ts/ttl offsets | as above, cut where the markers say |
| Split and segment | modify/algorithms/ | none | `find_packet_by_offset`, `split_and_insert_packets_tcp`, `segmentize` | the parts join to the whole |
| Markers | modify/markers.cpp | none | `find_markers_tls`, `find_markers_http` | offsets lie inside the payload |
| Positions | modify/args.cpp, modify/algorithms/split.cpp | none | `parse_position`, `do_operation` | a cut is where the configuration says |
| Profiles, configuration | config/profile.cpp | map (port, protocol) → profile | `build_profiles` | one rule per profile |
| iptables, start and end | sys/iptables.cpp, main.cpp | the host's rules, which outlive the process; `running` | `rule_exists`, `rule_add`, `rule_remove`; `sig_handler` | what was added is removed; the ports come to the queue; own packets do not |
| Packets, checksums, interfaces, utilities | net/, sys/iface.cpp, util/ | none | views, construction, arithmetic | - |

How they interact: `cb_loop` looks the connection up (creating it if need be) and tracks the packet; if the packet has
payload and the connection is not done, the packet is inserted into the connection's list and the profile's chain of
classifiers is asked about the whole list. `REASSEMBLING` sends nothing. `DONE` empties the list, hands its content to
the profile's `Modifier`, and turns each resulting packet into a verdict, a raw send, or both. `ERROR` gives the
connection up. Packets without payload, and everything after a decision, are accepted at once. The sweep accepts what
a dead connection still holds and erases it.

## What is hard here

`PROJECT.json` lists each hazard at its line with the properties that watch it. The main ones:

* Custody. A packet's id is in the kernel's queue, perhaps in one connection's list, and perhaps in a batch of
  verdicts; four exits of `cb_loop` and the sweep move it between these. An id answered but still held would be
  answered again, possibly after the kernel gave the number to another packet.
* Order. Segments arrive in any order, repeated, overlapping, and across the wrap of the 32-bit sequence space;
  `reasm_insert` appends without sorting in the common case, and two different joins read the list.
* Time. Every packet of a connection makes it young; the sweep runs only after a packet has arrived.
* Capacity. A packet nobody answers stays in the queue; when the queue is full nothing arrives and nothing wakes the
  loop.
* Failure. Verdicts may fail to be sent; exceptions leave through the C callback and end the process.
* Restarts. Rules outlive the process. A start that finds rules of a process that failed must neither miss them nor
  add to them, and a clean exit must clear them too; what is searched is text, one part of it in the wrong base.
* Parsing. Payloads stop anywhere (holes), and their length fields say anything.
* Rewriting. Modifiers run one after the other over one vector that holds originals and fakes; each splits, pads,
  segments or reverses what the one before left. Offsets are found anew every time, packet ids must stay on exactly
  one part, and the peer must end up with the same bytes.

## Modules

`PROJECT.json` maps each definition to its lines. Module by module:

* `Classifier` - the two payload tests and the chain, as operators on sequences of cells.
* `Connection` - operators on one connection record: TCP tracking (`Track`), timeouts, `InsertOutcomes` (the set of
  lists `reasm_insert` may leave), and the two joins `ConcatSorted` and `Concat`.
* `Dispatcher` - the state machine. `tracked` and `conn` are `ConnTracker::conns_`; `sinceCheck` is the time since
  `last_check_time`, saturating at the interval; `pending` is the kernel's queue; `out` the verdicts of the last step;
  `handed` what the modifiers were given in it; `pc` says whether the loop is at `recvfrom`, before the sweep test, or
  gone. `cb_loop` runs to completion on one packet, so each way through it is one action:

  | Action | Code |
  |---|---|
  | `AcceptNow` | no payload or done, main.cpp:158-162 |
  | `Hold` | `REASSEMBLING`, main.cpp:144-145 |
  | `Deliver` | `DONE`, main.cpp:97-143 |
  | `GiveUp` | `ERROR`, main.cpp:146-157 |
  | `Terminate` | an exception from `reasm_sort` or `concat` (UDP) that nobody catches |
  | `Sweep`, `SkipSweep` | main.cpp:294-300 and `clear_dead_connections` |
  | `Tick`, `SetBack` | the clock, which is the system's and may be set back; both may happen before either step of the loop |

* `DispatcherProperties` - invariants, action properties and liveness over `Dispatcher`, and the statements of code
  comments that the code does not keep.
* `NfqContract` - the abstract specification: what a netfilter queue needs of any program that reads it (a verdict
  only for a packet it keeps, never two for one packet in one step). `KeepsContract` says `Dispatcher` implements it;
  the refinement mapping is the identity on `pending` and `out`.
* `Handover` - the abstract specification of a delivery: each packet that was handed over is answered once, nothing else
  is, or the program ends. `AnswersEach` says `Modifier` implements it, where `waiting` is the original packets no
  verdict is for yet and `ended` is `pc = "fault"`; the cuts, joins and reversals in between are stutters.
* `Modifier` - `Modifier::modify` on one delivery: `packets` is the vector the modifiers share, `pipeline` the profile's
  modifiers, `next` whose turn it is, `original` the held segments that were handed over, `mss` the answer of
  `get_mss`. One action per modifier kind: `Splitter` (splitter.cpp:158-181) and `Disorder` (disorder.cpp:206-237), each
  with the whole of `process_fake` or `process_orig` in it; `Filter`, `Skip` and `Finished` are the rest of the loop in
  modifier.cpp. `Send` is the loop in `cb_loop` over what they leave (main.cpp:103-142): `out` is its verdicts, `lost` the
  packets whose `sendto` failed. `found` is what `find_markers` answered. `pc = "fault"` stands
  for an exception nobody catches or undefined behaviour. It takes `Concat` and the sequence order from `Connection`,
  and begins where `Dispatcher`'s `Deliver` hands packets over.
* `ModifierProperties` - what the wire and the peer see of `packets`: `Sent` has an accepted packet as the kernel has
  it, `OnWire` leaves out what could not be sent, `Received` is the peer's reassembly.
* `Reassembly` - a harness that cuts segments out of one known stream, inserts them in any order with
  `InsertOutcomes`, and compares both joins with the stream.
* `ClassifierStream` - a harness that feeds an in-order stream to the chain cell by cell.
* `Positions` - `parse_position` over tokens and what `split_http` and `split_tls` make of a position. `Modifier` and
  `Markers` both extend it.
* `Markers` - `find_markers`: `at` is the bytes read of the payload, `pc` the field whose turn it is; each field of the
  ClientHello is an action (`Header`, `Hello`, `SessionId`, `CipherSuites`, `ExtensionsLength`, `Extension`, `Name`), and
  `Request` is `find_markers_http`. `Resolve` turns a position into an offset. `pc = "undefined"` is a read behind the
  payload's end.
* `MarkersProperties` - payloads encoded from what they mean (a ClientHello as sizes and names, a request as lines), and
  the properties that compare the parser with that meaning.
* `Lifecycle` - `main` around the loop. `chain` is the host's `OUTPUT` chain; `pc` where `main` is, `"down"` between
  processes; `built` the profiles `build_profiles` has done; `left` the rules still to be removed; `running` the flag;
  `restarts` whether the uninitialised `sa_flags` happen to restart system calls; `stop` and `exit` remember a SIGINT and
  how a process ended; `mishaps` what went wrong since the first start.

  | Action | Code |
  |---|---|
  | `Start`, `GoodArguments`, `BadArguments` | main.cpp:167-197 |
  | `AddMark` | main.cpp:199-202 |
  | `BuildProfile`, `BadProfile`, `ProfilesBuilt` | config/profile.cpp:48-176, a profile a step, its rule the last thing |
  | `OpenSockets`, `OpenFails`, `EnterLoop` | main.cpp:209-278 |
  | `Test`, `Receive`, `LoopFails` | main.cpp:279-301; `Receive` is one turn of `Dispatcher` |
  | `Sigint`, `Die` | `sig_handler`; a signal nobody handles or an exception nobody catches, at any point |
  | `Unrule`, `Unmark` | main.cpp:303-326, a command a step |

* `LifecycleProperties` - what packets do when they meet the chain (`Passes`, `GoesTo`), and the properties.
* `DispatcherProofs`, `LifecycleProofs`, `ClassifierProofs`, `ReassemblyProofs`, `ModifierProofs`, `MarkersProofs` - the
  theorems, each about the module it is named after. `ConnectionLemmas` holds what `Dispatcher`'s, `Reassembly`'s and
  `Modifier`'s need of `Connection`'s operators, `DataInduction` the inductions over sequences they all rest on.
* `MCDispatcher`, `MCModifier`, `MCMarkers`, `MCLifecycle`, `MCClassifierStream` - packets, profiles, pipelines, payloads,
  configurations and alphabets for TLC.

An operator named `Bug...` is a plausible mistake in the operator below it (a missing reset, a dropped guard, a wrong
comparison). Nothing refers to it; the mutation runs substitute it and expect the property named in `PROJECT.json` to
fail, which shows that the property depends on that line of code.

## How the modules fit together

`Lifecycle` is around `Dispatcher`: its `Receive` stands for any one turn of the loop. `Dispatcher` hands a recognised
payload over in `Deliver`, where the modifiers are a choice of which packets they replace; `Modifier` is that hand-over in
detail, and `Handover` is what `Deliver` relies on and `Modifier` implements. `Modifier` takes what the parser finds
from the constant `Findings`; its markers are in order and inside the payload, which `Markers` is shown to guarantee
(`TlsMarkersInside`, `HttpMarkersInside`), and it turns positions into offsets with the same `Positions` that `Markers`
resolves. `Markers` in turn reads what the classifiers recognised: `ReadsInside` is stated with `Classifier`'s own test.
`Dispatcher`, `Modifier` and `Reassembly` take the joins and the sequence order from `Connection`.

## Runs

| Run | Question | Bound, and why it is enough |
|---|---|---|
| `mixed` | Is what a connection holds always unanswered, undecided, in order and in one place; when is a packet lost? | A TLS record of 8 bytes as segments and coalesced resends with its header just below the wrap, in every order, with an RST and sweeps; an HTTP connection beside it; 4 ids, so the queue can fill and ids are reused |
| `hostile` | Does the TCP state only move forward, is a decision final, and is the queue's contract kept when verdicts fail and UDP ends the process? | A TCP connection with SYN, SYN+ACK, ACK, FIN, RST and data in every order, a UDP one; any subset of the verdicts of a step may be lost; 3 ids |
| `quiet` | Is what is held let go in the end? (liveness) | One silent and one talking connection; the clock may be set back by one |
| `reassembly` | Is what the modifiers join the stream? | Every cut of a 5-byte stream across the wrap, every order, so every overlap and every hole |
| `classifier_stream` | Are the chain's answers stable as a stream grows? | Every stream of 7 cells over the cells the tests can tell apart |
| `modify` | Does the peer receive the same bytes, are cuts where they were asked for, is every packet answered once, and when can a modifier end the program? | Six bytes across the wrap as one, two or three segments, with an overlap, or with a hole; every modifier alone, pairs of cuts, overlap then cut, fake then cut, fake then cut and overlap; every combination of arguments, followed by nothing or a plain modifier; segments small enough that both modifiers segmentize, and an MSS that leaves no room or less than none; one packet may fail to be sent |
| `markers` | Are markers inside the payload and at the name, do positions cut where they say, does the parser end? | ClientHellos with and without session id and name, extensions of any size on either side, one or two compression methods, one cut short at every byte, a record behind; requests with every place "Host:" may be; positions that are right, refused, or read otherwise, that wrap below the start of the payload, or that name a marker the payload has not |
| `lifecycle` | What do starts, ends and failures leave on the host, and does SIGINT end the process? | Three starts with any of six configurations (two ports, one, a wrong profile, a repeated port, none, a queue number that begins another's); any command may fail; 5 rules fit the listing, so rules are missed |
| `error_releases`, `handed_is_tls`, `shipped_profile`, `fake_then_overlap` | Does a comment, a test or the shipped configuration hold? | Violated, see [findings](#findings) |

Bounds: `SeqSpace` is 32 instead of 2^32 (128 for the modifiers, who move packets and pad them), and all data lies within half of it around the wrap, as TCP's window
guarantees. Times are scaled: interval 1, SYN and FIN 2, default 3, ESTAB 4, CLOSED 0, which keeps the order of the
constants in net/consts.hpp and makes each of them expire between others. `MaxAge` saturates ages above every timeout
and loses nothing, as ages are only compared with timeouts. `Ids` is the length of the kernel's queue; an id is free
again once answered, which is less than the kernel promises (its ids increase) and so covers the wrap of the id too.

`MaxBack` (1 in `quiet`, 0 elsewhere, where nothing depends on age but what the sweep takes) is how far the clock is set back in all; `MaxAge` is
at least every timeout plus `MaxBack`, so that an age that was saturated is still beyond its timeout after a step back.

`MaxStarts` is 3: a process that fails, one that finds its rules, one that finds what both left. `Window` is 5 rules of
the listing, about what 1024 bytes hold. `SizeSpace` and `MaxInt` are 2^16 and 2^15-1 for 2^64 and 2^31-1: payloads are
shorter than either, and only the wrap below zero and the refusal of a large number happen at their edges. `MaxLost` is 1:
a second lost packet leaves the peer with no more than the first.

Fairness:

* `quiet`: weak fairness of the loop's own step after a packet (`Sweep` or `SkipSweep`: the loop never blocks there), of
  `Tick` (the clock runs), and of the arrival of some packet while the queue has room. The last is an assumption about
  traffic, not about the code, and it is needed: the code sweeps only after a packet. `QuietIsReleased` has two escapes,
  both real: a connection whose own packets keep coming never ages, and a full queue stops the loop.
* `lifecycle`: weak fairness of the process's own steps (`Step`), which never wait. `Receive` is not among them: nobody
  owes the daemon a packet. So `SignalEnds` has an escape: the process may wait in `recvfrom` for ever, since a signal that
  comes between the test and the call, or whose handler restarts calls, does not end it.
* `markers`: weak fairness of `Parse`, as one call runs to its end. `Ends` is what could fail: a loop that does not advance.

## Proofs

Each theorem holds for every value of the constants that satisfies the assumptions listed at the end: every set of
connections, packets and ids and every profile; every set of configurations and number of starts; streams, payloads and
requests of every content and length; pipelines of any number of modifiers. Every safety invariant of a passing run is a
theorem, every action property is, and both refinements are.

### DispatcherProofs

| Theorem | States |
|---|---|
| `TypeCorrect` | `Spec => []TypeOK` |
| `HeldArePendingAlways` | a held packet still waits for its verdict |
| `HeldOnceAlways` | no packet is held twice or by two connections |
| `HeldIsUndecidedAlways` | what is held is a payload the chain wants more of, on a connection that is not done |
| `Implements` | `Spec => KeepsContract`: the loop implements `NfqContract` |
| `StateOnlyAdvancesAlways` | a connection's TCP state never moves back while its record lives |
| `DoneIsFinalAlways` | a decided connection stays decided, keeps its protocol, holds nothing, and its packets are accepted on arrival |
| `HeldInSequenceAlways` | `Spec /\ []HeldInWindow => []HeldInSequence`: what is held is in rising sequence order |
| `WindowOfData` | `Spec => []HeldInSequence` when the constants satisfy `DataInWindow` |
| `LeaksAreKnown` | `Spec => LeaksOnlyOnDuplicateOrError` when `SendMayFail = FALSE` |

The inductive invariant is `IInv`: `TypeOK`, custody (`HeldArePending` and `HeldOnce`), and `HeldIsUndecided`. The two
halves of custody need each other. When a connection's list is answered its ids leave `pending`; that the others'
held ids stay in `pending` follows because no id is held twice. And a new packet is held nowhere else because its id was
free, so not in `pending`, so not held. `HeldIsUndecided` is needed to know that an action that finds a done connection
finds nothing held there. `ShuffleFacts` and `InsertFacts` carry the one fact about `reasm_insert` this rests on: it
leaves the list as it was, or the list and the new packet, each once. `Implements` maps each action to a step of the
contract with the arriving packet, `out'` and the verdicts that got through as witnesses; it uses `HeldArePending` for
"only packets the kernel keeps" and `HeldOnce` for "one verdict per packet".

The two action properties follow from the same invariant. `AdvancesStep` takes `Track` apart: each of `Handshake`,
`Finish` and `Reset` leaves the state or moves it on, in the order they are applied, and only `Track` writes it.
`FinalStep` uses `HeldIsUndecided` once more: a done connection holds nothing, so no step can hand over or drop packets
of it, and the only way `cb_loop` is left for it is `AcceptNow` (`DoneAccepts`).

`HeldInSequence` needs a hypothesis, as serial-number comparison is an order only within half the space. `HeldInWindow`
says there is, for each connection, a base from which all the bytes it holds lie within half the space; TCP's window sees
to that, the program does not. The proof measures each held segment by its distance from that base: within the window the
code's comparison is `<` on distances (`ConnectionLemmas`), so a sorted list without duplicates has strictly rising
distances, and that is also true where `reasm_insert` appends without sorting, whose test compares the *numbers*. `WindowOfData` discharges the hypothesis: the program holds nothing
but what its packets carried (`HeldAsSent`), so if for each connection `Packets` fits a window (`DataInWindow`, which the
packets of run `mixed` do), so does every list. In `LeaksAreKnown` the condition says that verdicts can be sent: a verdict
that fails is the third way to lose a packet, and the property is about the other two.

### LifecycleProofs

| Theorem | States |
|---|---|
| `LifecycleTypes` | `Spec => []TypeOK` |
| `NothingLeftBehindAlways` | a clean exit leaves no queue rule, whatever ended earlier processes, when no command failed, no rule was missed and no start had another configuration over rules left behind |
| `CapturesItsPortsAlways` | while the loop runs, every configured port's packets come to its queue, unless a command failed and the port has no rule or, after a start with another configuration over rules left behind, a rule of another queue is ahead or was taken for it |
| `OwnPacketsPassAlways` | a mark rule is ahead of every queue rule, when no command failed and no start had another configuration over rules left behind |

`NothingLeftBehind` needs two facts about the chain. It holds only rules of the current configuration and mark rules, as
long as no start found other rules (`Known`). And, if no rule was missed either, it holds no queue
rule twice, and while rules are removed only those still to be removed (`Distinct`), so that removing each wanted rule
once removes all. `ExitTells` keeps that true until the next start.

`CapturesItsPorts` exempts no history: it holds whatever failed, was missed or was configured before, and names for each port
what can be in the way. Its invariant is `AllRuled`: the port of each profile built so far has its rule in the chain, or a rule of
another queue was taken for it (`Taken`), or a command failed; rules are only appended until the loop ends, so it stays that way
(`RuledStays`). `FoundIsRuled` is what the text search gives: the rule itself, or one for the same port whose queue number begins with
the one asked for. With `Known`, either kind of rule of another queue is there only after a start with another configuration.

`OwnPacketsPass` is the hard one, as each start appends a mark rule and its queue rules, and each exit removes the
*first* of each queue rule and then the *first* mark rule. `Marked` states what holds of the order: a mark rule is ahead
of every queue rule (`Ahead`), and between two equal queue rules there is another (`Between`), since a start appends its
mark rule before any queue rule. While profiles are built, behind some mark rule there are only rules of profiles already
built (`Fresh`), which gives `Between` for the next one appended. While rules are removed, two mark rules are ahead of
each rule whose first copy is already gone (`Spent`, from `Between`), so removing the first mark rule leaves one ahead.

### ReassemblyProofs

| Theorem | States |
|---|---|
| `ReassemblyTypes` | `Spec => []TypeOK` |
| `ConcatIsStreamAlways` | what `concat` joins is the stream from the lowest byte held up to the first one missing |
| `ViewsAgreeAlways` | with no hole and no overlap, `concat_sorted` joins the same |

The invariant `RInv` is that the list consists of non-empty pieces of the stream in rising order; `RInvStep` rests on the
lemmas about `InsertOutcomes` that `HeldInSequence` uses too. The rest is about the two joins of such a list. `Reached(k,
R, v)` says of the first `k` pieces that `v` is the stream up to byte `R`, that each byte up to `R` is in one of them and
that each piece ends by `R` or begins behind a hole; `ReachedMore` shows that joining piece `k + 1` keeps it, with a case
each for a piece that extends `v`, one already covered and one behind the hole.

### ClassifierProofs

| Theorem | States |
|---|---|
| `HoldingNeverFailsAlways` | a chain that asks for more never answers `ERROR` when more arrives in order |
| `DoneIsStableAlways` | a recognised payload stays recognised when more arrives |

The invariant `Answered` ties the answer to the payload so far. `TlsGoesOn` and `HttpGoesOn` say what one more byte can
change of a classifier's answer (a TLS record header keeps what it says; an HTTP tag does not go away), `ChainGoesOn`
lifts it to a chain of any classifiers in any order.

### ModifierProofs

| Theorem | States |
|---|---|
| `Custody` | `Spec => []MInv`: until the verdicts are sent, each packet handed over is in the list once, under its id |
| `AnswersEachAlways` | `Spec => AnswersEach`: `Modifier` implements `Handover` |
| `CutUnlessShiftedAlways` | `Spec => []CutUnlessShifted` when the constants satisfy `ToldApart`: each cut is where it was asked for |
| `StreamPreservedAlways` | `Spec => [](~FakeInFront => StreamPreserved)` when they satisfy `OneStream` and `RoomToPad`: the peer receives what was handed over |
| `FaultsOnlyWhenAlways` | `Spec => FaultsOnlyWhen` when they satisfy `RoomToMove`: a modifier ends the program only without a fake and for one of the five reasons named there |

`Keeps(ps)` is the heart of `MInv`: among the packets of a list that get a verdict, each id handed over occurs exactly
once and no other occurs. One lemma per thing a modifier does shows that it survives: a split or segmentation puts the id
on one part (`ReplaceKeeps`), a fake or padding packet gets none (`InsertFakeKeeps`, `OverlapKeeps`), the reversal permutes
(`ReverseKeeps`), tricks change headers only (`MapKeeps`, `TricksKeep`). `SplitterKeeps` and `DisorderKeeps` put them
together in the order of the code, for any arguments. `AnswersEachAlways` maps `Send` to the one step of `Handover` that
answers everything, every fault to its end, and all other steps to stutters.

`CutUnlessShifted` is about where bytes are. `Placed(P, B, ps)` says that with sequence numbers counted from `B` each byte
of the payload is in exactly one packet of the list, at its place, and no packet is fake: `ConcatOfTiles` gives it for
segments that follow one another, and it survives splits (`SplitPlaces`), a sequence offset (`PlacedMoved`, with another
`B`) and the reversal (`PlacedReversed`). In such a list what comes before a packet is as long as its offset
(`SizeBeforeIs`), so `find_packet_by_offset` hits the packet that holds the byte (`HitOf`) and the split parts it from the
byte before (`SplitParts`). From then on the two stay apart: whatever a modifier makes, each packet of it draws its bytes
from one packet of before, from padding or from the fake payload (`Draws`; one lemma per thing a modifier does). The last
modifier may shift offsets, so the invariant `CInv` asks for `Placed` only while one is left to run. A packet the kernel
sends from its own copy has the same bytes (`AsHeld`).

The property compares bytes, so `ToldApart` says that they tell where they come from: the bytes of a payload of segments
that follow one another differ from each other, from padding and from the fake payload, and they are within half the
sequence space. The modifiers never look at the values.

`StreamPreserved` compares two runs of the peer, one over the list and one over the segments as they came. The first half
of its proof is about the peer alone. A list holds bytes of a stream (`Brings(base, p, x)`: packet `p` has the byte at place
`x`), perhaps with wrong ones in front: `Clear` says that none is wrong from byte `w + 1` on, that a packet with the first
byte of the stream is right throughout and that it goes on to `w`. From such a list a peer takes nothing wrong
(`TakenIs`, `Heard`): whichever packet it begins with brings it past `w`, whatever the order of arrival. It ends with all it
could take (`Settled`), that is with the stream up to the first byte nobody brings, which does not depend on the order. So
of two lists that bring bytes of one stream, the one that brings no byte the other has not gives a beginning of what the other
gives, and the same if it lacks none (`PeersAgree`); lost packets are the first case.

The second half is the invariant `SInv`: as long as the modifiers so far were sound and their padding in place, the list
holds the stream (`Holds`): every byte of the segments is in a packet that counts, no packet has a wrong byte from `w + 1` on,
every fake is `Muted`, all lie within half the sequence space, and what is still to be accepted is as it was. `w` is 0
until a disorder overlaps, then the length of what it padded over. What must be true for a later overlap to be harmless is
part of it: before the first reversal the first original starts no later than the stream (`FirstLow`), so the padding of a
splitter lies in front of the stream; over segments that follow one another, with nothing done but splits (`OnlySplit`), the
second original begins where the first ends (`InOrder`), so an overlap shorter than the first original lies over bytes that
come with it. One lemma per thing a modifier does, as for custody: `SplitReady`, padding over the first and over the second
original, segmentation of either (`Pieces`), the fake in front, header changes (`Dressed`) and the reversal, which only
permutes. `StreamOnWire` applies `PeersAgree` to what is sent.

`OneStream` is what TCP gives: segments of one connection agree where they overlap and lie within the window, and
`reasm_insert` hands over the first in front. `RoomToPad` bounds how far back a profile's overlaps reach in all; the program does
not check it, but 2^31 bytes of padding are no profile. `FakeInFront` is finding 4: there a disorder measures its overlap by the
fake packet. `modify` checks the invariant without that exemption, with pipelines where it is harmless.

`FaultsOnlyWhen` names five reasons for a fault. They are tests on the arguments, the payload and the number of
segments; that there is no other is a claim about lists. A split throws when `FindPacketByOffset` finds no packet, which
counts, in sequence order, the bytes before each packet of a list that earlier modifiers cut, padded, moved and
reversed. `OffsetFound` is the heart: in a list whose packets lie within half the sequence space, and that has at least
as many bytes as the payload, every offset of the payload lies in a packet. The bytes before a byte order the bytes of
the list (`EarlierOrders`), their number is what `FindPacketByOffset` counts (`EarlierCount`), and in a finite order
every rank below the number of elements is taken (`RanksTaken`).

So the invariant `FInv` is that the list lies between two bounds around its first packet (`Laid`), which each modifier
widens by twice its reach, and keeps as many bytes as the payload has. One lemma per thing a modifier does, each with an
injection from the bytes before to those after: a cut (`SplitLaid`), a move of sequence numbers (`MovedLaid`), the reversal
(`ReverseLaid`), a fake in front (`FakeLaid`), an overlap, segmented or not (`OverlapLaid`: of the first piece that has the
byte). That the payload has no more bytes than the segments it was joined from is `PayloadFits`. `SplitterLaid` and
`DisorderLaid` follow the order of the code; behind them is one question more, whether a disorder's second packet exists
(`SecondInside`: a list that was cut has two originals, unless all cuts hit a fake).

`RoomToMove(span, step)` says that what is handed over spans `span` bytes, that a modifier's offset, padding and fake have at
most `step`, and that `span` and four times all steps of a profile stay below half the sequence space. The program checks
none of these: it accepts a profile whose sequence offsets add up to 2^31, and then the order that the search relies on is
no order. The hypothesis is far from any profile in use: with segments that span TCP's largest window, 2^30 bytes, and
three modifiers, each may still move and pad by 2^26.

### MarkersProofs

| Theorem | States |
|---|---|
| `MarkersTypes` | `Spec => []TypeOK`: `at` never leaves the payload |
| `TlsMarkersInsideAlways`, `HttpMarkersInsideAlways` | markers are in order and inside the payload |
| `ReadsInsideAlways` | a read behind the end happens only for a payload that is no whole record, or ends in front of one of two fields |
| `FindsTheNameAlways` | in a well-formed payload the parser finds the name where the encoder put it, or none if there is none |
| `CutsWhereItSaysAlways` | every position resolves to the offset it means |

The invariant `Inside` adds to the first four `Places`: what each field relies on when its turn comes (the session id is
at 43, the name 4 bytes behind the extension). For HTTP the lemmas are about slices: if `Host:` occurs at one place and the
first end of line behind it at another, these cannot overlap, and unless the line ends behind the colon there is room for
the character that is skipped. `Least` exists because offsets are natural numbers (`WFMin`).

`FindsTheName` compares with an encoder, so its invariant says how far the parser has read of what was written.
`HelloRead`: if the payload encodes `h`, the walk over the extensions stands at one of the boundaries `Stops(h)` the encoder
made, in front of the name's extension or, if there is no name, anywhere; hence the walk meets extension type 0 exactly at
`NamePlace(h)`. `HelloHas` and `Laid` say which bytes of the encoding are where (`Has(s, k, w)`: `w` is in `s` behind
offset `k`), so that `Read16` of them gives back the encoder's number. `RequestRead` does the same for requests, where
`NameOfRequest` shows that the first `Host:` is the header's and the first end of line behind it ends the name.

`CutsWhereItSays` needs `FindsTheName` only for the markers: `CutRead` says that the cut is the position's, `MeaningRead`
takes `parse_position` through each form of position, token by token, and `NamesFit` bounds the markers so that the
arithmetic wraps exactly where the property says it does.

### Induction over data

Joins, folds and walks over lists have no bound, so these proofs need induction over the length of a list. The induction
theorems of the library take a predicate as parameter, which the backends here cannot instantiate. `DataInduction` avoids
that with sets: `LeastElement` is well-foundedness of the natural numbers, `Climb` says that a set that contains `m` and,
with each `k` below `n`, also `k + 1`, contains all of `m .. n`; a proof takes for the set the steps at which its claim
holds. For what a join gives at each step there must be a function to speak of: `Flattened` builds it for `FlattenSeq`
(one prefix after the other, again with `Climb`), `JoinExists` for `Concat`, and the modifiers' and `parse_position`'s
functions are built the same way from their recursive definitions.

### Assumptions, and what is not proved

Typing of what comes from outside: `PacketsAssumption`, `ProfileAssumption`, `ConfigsAssumption`, `NamesAssumption`,
`AlphabetAssumption`, `CharactersAssumption`, `InputsAssumption` (payloads are shorter than `SizeSpace`), `ModifierAssumption`
(an MSS is a natural number, a TCP header has at least 20 bytes, all markers of the protocol were found), `PipelinesAssumption`
(positions as `parse_position` returns them), `HellosAssumption` (at most one name, the only extension of type 0),
`RequestsAssumption` (no end of line inside a name), `MeaningsAssumption` (a number, a marker, or both with a sign). Sizes:
`SeqSpaceAssumption` (more than one sequence number), `TimeoutAssumption`, `ClockAssumption` (`MaxAge` at least `MaxBack` and
every timeout together), `SendAssumption`, `BoundsAssumption`, `LengthAssumption`, `SizesAssumption`. Two say what the
callers guarantee: `DeliveriesAssumption` (a delivery is not empty, and its ids differ: `Dispatcher`'s `HeldOnce`) and
`StreamAssumption` (the stream is shorter than half the sequence space, as TCP's window guarantees). TLC evaluates them in
every run of a module that has them. `HeldInSequenceAlways`, `WindowOfData`, `LeaksAreKnown`, `CutUnlessShiftedAlways`,
`StreamPreservedAlways` and `FaultsOnlyWhenAlways` have the further hypotheses given above; run `mixed` satisfies the first
three, and TLC evaluates `ToldApart`, `OneStream`, `RoomToPad` and `RoomToMove` in the runs of `MCModifier`.

Only model-checked: liveness (`QuietIsReleased`, `SignalEnds`, `Ends`), which is outside TLAPS.

## Findings

1. `error_releases`: main.cpp:147 empties the list before main.cpp:149-153 loops over it to accept the held packets.
   They never get a verdict. A code bug.
2. `handed_is_tls`: the classifier joins segments ignoring holes and overlaps, the modifiers do not, so the
   modifiers may get less than the record. markers.cpp:37 takes "a tls handshake" for guaranteed; the property asks for the whole
   record, and the run shows why: the parser gets the header alone, and its next read, `payload[0]` (markers.cpp:45), is
   unguarded.
3. `shipped_profile`: splits count and cut a fake packet that an earlier modifier put in front (splitter.cpp:56), so with
   config/config.toml the fake is cut and the original is not. `CutUnlessShifted` says that without a
   fake packet or an overlap before it, every cut is where it was asked for.
4. `fake_then_overlap`: disorder.cpp:61 compares the overlap with the first packet of the vector, fake or not; behind a
   fake, an overlap may cover the whole first segment, and the peer then reads padding. A code bug.

The models also show, without a run of its own:

* A disorder that splits and overlaps goes past the end of the list when its splits hit a fake packet and there is one
  original only (disorder.cpp:59 increments the iterator without a second test); `NoSecond` of `FaultsOnlyWhen`.
* A retransmission during reassembly is neither held nor answered (conn_tracker.cpp:68, main.cpp:144), though
  net/protocol.hpp:15 says packets are held while reassembling. `LeaksOnlyOnDuplicateOrError` says that this and
  finding 1 are the only ways a packet is lost when sending works.
* `return false` in a function returning `std::optional<int>` is an MSS of 0 (conn_tracker.cpp:140), not the default of
  conn_tracker.hpp:31 (`ParseMssOpt`; `modify` includes that MSS).
* A first segment shorter than a TLS record header is an error (tls_classifier.cpp:13), although the stream it begins
  would be classified; main.cpp:148 takes an error for final.
* Header changes on a packet that is accepted never leave the machine, as the kernel sends its own copy (`Sent`);
  test/splitter_general_tests.cpp:294 expects them on the packet.
* A mark rule is added at every start and found at none: the program asks for its mark in decimal, iptables lists it in
  hexadecimal (main.cpp:200, sys/iptables.cpp:23; `MatchesText`). Every start that does not end cleanly leaves one more.
  That the newest queue rules are nevertheless behind a mark rule is `OwnPacketsPass`.
* A queue rule of a process that failed stays, with nobody to read the queue (main.cpp:285, and every exception). A later
  process that finds it and ends cleanly removes it (`NothingLeftBehind`). One that misses it in the listing adds its own and
  removes one of the two; an iptables that lists a rule's options in another order than config/profile.cpp:157 asks for them
  makes every start such a one (`listed`). After a start with another configuration it stays for good (`mishaps`).
* SIGINT before `running.store(true)` (main.cpp:278) is forgotten; between the test and `recvfrom` it waits for a packet.
* `1-hostend` is read as `hostend-1`, `host3` as `host` and 3 (`Scan`); a word that names no marker counts for
  nothing, and the number alone is the offset (`SplitPos`).
* Several ways to combine modifiers end in padding that the peer takes for data, which is why `StreamPreserved` has
  the condition `PaddingInPlace`: a splitter's overlap after a disorder, which finds another packet than the first of the
  stream in front; a split of the first packet after a disorder padded over it, when its second part and with it the bytes under
  the padding come later than the padding; two overlaps of which a disorder's is the second and measures itself by a padded
  packet; a disorder's overlap over segments with a hole or an overlap, where the bytes under the padding may not have been
  handed over.
* `allowed_ips` is compared with the *source* address of the packets (modifier.cpp:16), which on their way out is the
  host's own.

## Abstractions and limits

* A payload is a sequence of cells; the five characters `HTTP/` are one cell, because no property depends on a cut
  inside them.
* TCP options are items `NOP`, `MSS`, `OTHER`, and `BAD` (cut short or of the wrong size). The end-of-options byte is
  not an item: the code reads the byte after it as a length.
* In `Dispatcher` the Modifier is a choice of which originals it replaces. `Modifier` checks (`AnswersEach`) what that
  choice presumes: each original is answered exactly once. Its faults are not in `Deliver`; they end the program, as
  `Die` does in `Lifecycle` and `Terminate` does in `Dispatcher`.
* `Modifier` assumes what holds when `cb_loop` calls it: TCP (UDP ends in an exception before), markers complete for the
  protocol (`find_markers` fails otherwise, which is the other answer of `Filter`), and a timestamp option when a
  modifier shifts timestamps. Markers are constants (`Findings`), the same for every way the payload is segmented, and in
  order; a request whose `Host:` line ends behind the colon is therefore excluded (there `filter` makes a string of
  negative size, modify/modifier.cpp:21). The overlap pattern
  is one padding value; an empty pattern (an endless loop) and a negative overlap are not modelled.
* The peer of `ModifierProperties` is external: a fake that carries a TTL, timestamp or checksum trick does not count
  there, and everything else is reassembled by sequence number. Without a trick a fake is data, and no property is
  claimed. `StreamPreserved` asks that padding is over bytes the peer has or cannot miss (`PaddingInPlace`). A fake with a bad checksum that is split afterwards gets a good one
  (split.hpp:84), so `Sound` does not count on it.
* `std::sort` returns some ordered permutation; if the held segments span half the sequence space, so that the
  comparison is no order, it may return any.
* One netlink message per `recvfrom`. A parse failure, an error of `recvfrom` or of the callback are `LoopFails` of
  `Lifecycle`.
* The list is at most as long as the queue; the rule's `connbytes 0:20` limit on packets per connection is not
  modelled. To the loop, a connection whose later packets are not queued is one that falls silent, which `QuietIsReleased`
  covers.
* In `Lifecycle` a profile's port stands for its port and protocol, and a chain holds the program's rules only; a listing
  shows the first `Window` rules. Starts do not overlap. iptables may fail (`CommandsMayFail`), and nobody notices;
  `CapturesItsPorts` says what each mishap can do to a port, and the other invariants exclude the mishaps that would break them, by name: `failed` (a command did nothing), `missed` (a rule that
  was there was not seen in the listing, `rule_exists` reads 1024 bytes of text) and `reconfigured` (a start over queue rules it was
  not configured for).
* In `Markers` a cell of a TLS payload is a byte and one of an HTTP payload a character in lower case. Words that follow
  one another in a position are kept as a sequence instead of one string.

## Not modelled

Pure functions or I/O on which no property of the system depends, or which end in a value the models take as given:
checksums (net/checksum.cpp), the MTU lookup (sys/iface.cpp, UDP only), `parse_blob` (file or hexadecimal digits), which
argument of a profile is wrong (config/profile.cpp:57-153 is one `valid`), TOML parsing and command line, the byte layout
of headers and of TCP options, timestamps that are absent, `split_other` (a recognised payload is TLS or HTTP), logging,
hashing, examples, tests and build files.

## What is left

Two incarnations of one tuple over one record (`PortReuse`), to state what the peer sees of the second one.
