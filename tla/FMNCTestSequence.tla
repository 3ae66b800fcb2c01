-------------------------- MODULE FMNCTestSequence --------------------------
(***************************************************************************)
(* fmnc/fmnc_test_sequence.cc with the part of fmnc_manager.cc that asks   *)
(* for a sequence and sends it: a page is cut into slices which are sent   *)
(* out of order, so that the client answers each one at once and the k-th  *)
(* answer can be paired with the k-th slice.                               *)
(*                                                                         *)
(* The slices of a window of five go out with the lowest one last: a TCP   *)
(* receiver repeats its acknowledgement for the others and raises it for   *)
(* the lowest.  One session runs after another; the manager keeps its      *)
(* slice size and spacing from session to session.  Lengths are in bytes,  *)
(* times in microseconds.                                                  *)
(***************************************************************************)
EXTENDS Integers, FiniteSets, SequencesExt

CONSTANTS
    Requests,     \* what clients ask for, and the test choices of the console
    PageStart,    \* length of webDemo-Start.html
    PageFrame,    \* length of the iframe that generate_iframe returns
    PageEnd,      \* length of webDemo-End.html
    IndexPage,    \* length of index-test.html
    Age,          \* a connection idle for so long is purged
    PurgeEvery,   \* at the next turn of the cleanup timer
    DelAck,       \* how long the client delays an acknowledgement
    MaxFlight,    \* bound on the slices, and on the answers, on the wire
    MaxSessions   \* bound on the sessions

ASSUME ParameterAssumption ==
    /\ {PageStart, PageFrame, PageEnd, IndexPage, Age, PurgeEvery, DelAck} \subseteq Nat
    /\ MaxFlight \in Nat \ {0} /\ MaxSessions \in Nat

\* What a request brings along is written in digits.
ASSUME RequestAssumption ==
    \A r \in Requests :
        CASE r.kind = "web" -> {r.fixed, r.loops, r.multi} \subseteq Nat
          [] r.kind = "custom" -> {r.fixed, r.loops, r.multi, r.size, r.spacing} \subseteq Nat
          [] r.kind = "train" -> {r.length, r.step, r.rmin, r.rmax, r.gap} \subseteq Nat
          [] r.kind = "cellular" -> {r.packets, r.gap} \subseteq Nat
          [] r.kind = "image" -> {r.fixed, r.loops, r.multi, r.header, r.bytes} \subseteq Nat
          [] r.kind = "results" -> r.bytes \in Nat
          [] r.kind = "choice" -> r.choice \in Nat
          [] OTHER -> FALSE

\* No request is for slices without a byte, of which the properties of what is
\* sent do not speak: the code would send them.
ASSUME SliceAssumption ==
    \A r \in Requests :
        /\ r.kind = "custom" => r.size > 0
        /\ r.kind = "train" => r.gap * r.rmin >= 8 /\ r.gap * r.rmax >= 8

VARIABLES
    size,       \* m_nSliceSize of the manager
    spacing,    \* m_nSliceSpace_MicroSec of the manager
    sessions,   \* how many there were
    request,    \* the one of this session
    state,      \* of its connection
    blocks,     \* m_TransmitBuffer
    seq,        \* m_Transmissions
    next,       \* m_nNextToSend
    wire,       \* slices on their way to the client
    client,     \* what the client has: all before seq, and what lies apart
    acks,       \* answers on their way back
    received    \* m_Received of the connection

vars == <<size, spacing, sessions, request, state, blocks, seq, next,
          wire, client, acks, received>>

Window == 5
DefaultSize == 100
DefaultSpacing == 1000
MTU == 1390
CellularMTU == 1350

\* A length of time that no connection survives; longer ones are cut off to it.
Forever == 2000000000
Times(sp, k) == IF sp > Forever \div k THEN Forever ELSE sp * k

Slice(start, len, group, out) ==
    [start |-> start, len |-> len, group |-> group, exp |-> 0, out |-> out]
EndOf(s) == s.start + s.len
Total(pieces) == FoldLeft(LAMBDA sum, p : sum + p.len, 0, pieces)

NoRequest == [kind |-> "none"]
NewClient == [seq |-> 0, apart |-> {}, delayed |-> FALSE]

Init ==
    /\ size = DefaultSize /\ spacing = DefaultSpacing
    /\ sessions = 0 /\ request = NoRequest /\ state = "none"
    /\ blocks = <<>> /\ seq = <<>> /\ next = 0
    /\ wire = <<>> /\ client = NewClient /\ acks = <<>> /\ received = <<>>

-----------------------------------------------------------------------------
(* The transmit buffer.                                                    *)

Block(part, len) == [part |-> part, len |-> len]

\* Slip: the filling takes the length of the page's last part for its own.
PageShort(need) ==
    LET page == <<Block("start", PageStart), Block("frame", PageFrame), Block("end", PageEnd)>>
    IN  IF Total(page) >= need THEN page
        ELSE InsertAt(page, 3, Block("comment", need - Total(page) - PageEnd))

\* The demo page, with a comment before its end that fills it up to need bytes.
Page(need) ==
    LET page == <<Block("start", PageStart), Block("frame", PageFrame), Block("end", PageEnd)>>
    IN  IF Total(page) >= need THEN page
        ELSE InsertAt(page, 3, Block("comment", need - Total(page)))

-----------------------------------------------------------------------------
(* Cutting and rearranging.                                                *)

Piece(len, group, out) == [len |-> len, group |-> group, out |-> out]

\* thePos: each slice starts where the one before it ends.
Cut(pieces) ==
    LET pos[k \in DOMAIN pieces] == IF k = 1 THEN 0 ELSE pos[k - 1] + pieces[k - 1].len
    IN  [k \in DOMAIN pieces |->
            Slice(pos[k], pieces[k].len, pieces[k].group, pieces[k].out)]

Opening(k, w) == k - ((k - 1) % w)
Closing(k, w) == Opening(k, w) + w - 1

\* The lowest slice of a window closes it: the client acknowledges all of it.
Lowest(s, end) == [s EXCEPT !.group = 3, !.exp = end]

\* Slip: the slices change places together with their times.
SwapEndsAndTimes(ss) ==
    [k \in DOMAIN ss |->
        LET first == Opening(k, Window)
            last == Closing(k, Window)
        IN  CASE last > Len(ss) -> ss[k]
              [] last <= Len(ss) /\ k = first -> ss[last]
              [] last <= Len(ss) /\ k = last -> Lowest(ss[first], EndOf(ss[last]))
              [] OTHER -> ss[k]]

\* Each whole window's first and last slices change places, and their times back.
SwapEnds(ss) ==
    [k \in DOMAIN ss |->
        LET first == Opening(k, Window)
            last == Closing(k, Window)
        IN  CASE last > Len(ss) -> ss[k]
              [] last <= Len(ss) /\ k = first -> [ss[last] EXCEPT !.out = ss[k].out]
              [] last <= Len(ss) /\ k = last ->
                     [Lowest(ss[first], EndOf(ss[last])) EXCEPT !.out = ss[k].out]
              [] OTHER -> ss[k]]

\* Each whole window's first slice is erased and pushed behind its last, with
\* its time.  Where nothing is measured it keeps its group.
FirstToEnd(ss, w, measured) ==
    [k \in DOMAIN ss |->
        LET first == Opening(k, w)
            last == Closing(k, w)
        IN  CASE last > Len(ss) -> ss[k]
              [] last <= Len(ss) /\ k < last -> ss[k + 1]
              [] OTHER -> IF measured THEN Lowest(ss[first], EndOf(ss[last])) ELSE ss[first]]

-----------------------------------------------------------------------------
(* The tests.  Each gives the buffer and the sequence; sz and sp are the   *)
(* slice size and spacing of the sequence.                                 *)

Test(bs, ss) == [blocks |-> bs, seq |-> ss]

\* nFixed slices of one size, then nStepSeq stairs of nStepMult sizes.
Stairs(nFixed, nStepSeq, nStepMult, sz) ==
    [k \in 1..nFixed + nStepSeq * nStepMult |->
        IF k <= nFixed THEN sz ELSE sz * (((k - nFixed - 1) % nStepMult) + 1)]

WebDemo(nFixed, nStepSeq, nStepMult, sz, sp) ==
    LET lens == Stairs(nFixed, nStepSeq, nStepMult, sz)
        pieces == [k \in DOMAIN lens |->
                      IF k <= nFixed THEN Piece(lens[k], 1, sp) ELSE Piece(lens[k], 2, Times(sp, k))]
        all == Cut(pieces)
    IN  Test(Page(Total(pieces)),
             SwapEnds(SubSeq(all, 1, nFixed))
                \o FirstToEnd(SubSeq(all, nFixed + 1, Len(all)), Window, TRUE))

\* One rate of a train: bursts of n packets of one size, then a marker.
Subtrain(r, k) ==
    LET rate == r.rmin + (k * (r.rmax - r.rmin)) \div (r.step - 1)
        n == (r.gap * rate) \div (MTU * 8) + 1
        len == (r.gap * rate) \div (8 * n)
        bursts == IF r.length > 20 \div n THEN r.length ELSE 20 \div n
    IN  [i \in 1..bursts * n + 1 |->
            IF i > bursts * n THEN Piece(64, 1, 2000)
            ELSE Piece(len, 1, IF i % n = 0 THEN r.gap ELSE 40)]

\* Slip: the train is sent as long as it is.
PadNot(pieces, p) == pieces

\* What is left of the last window is filled with packets like the given one.
PadTo(pieces, p) ==
    pieces \o [i \in 1..(Window - (Len(pieces) % Window)) % Window |-> p]

TrainPieces(r) ==
    LET train == FlattenSeq([k \in 1..r.step |-> Subtrain(r, k - 1)])
    IN  PadTo(train, Piece(train[Len(train) - 1].len, 1, 40))

\* The rates are floating point: packets says how many of them there are before
\* the highest one, or the million bytes, is reached, and gap stands for theirs.
CellularPieces(r) ==
    LET train == [k \in 1..r.packets + 1 |->
                     Piece(CellularMTU, 1,
                           IF k = 1 THEN 40000 ELSE IF k % 20 = 1 THEN 20000 ELSE r.gap)]
    IN  PadTo(train, Piece(CellularMTU, 1, r.gap))

Train(pieces) == Test(Page(Total(pieces)), SwapEnds(Cut(pieces)))

\* How many slices of sz bytes it takes.
SliceCount(bytes, sz) == (bytes + sz - 1) \div sz

\* wrapFile_PNG: fixed slices and stairs, then the rest of the image.  A file
\* that is not there leaves no slice.
Image(r, sz, sp) ==
    LET stairs == Stairs(r.fixed, r.loops, r.multi, sz)
        rest == r.bytes - FoldLeft(+, 0, stairs)
        lens == stairs \o [k \in 1..SliceCount(rest, sz) |->
                              IF k * sz <= rest THEN sz ELSE rest % sz]
        all == Cut([k \in DOMAIN lens |->
                       Piece(lens[k], IF k <= r.fixed THEN 1
                                      ELSE IF k <= Len(stairs) THEN 2 ELSE 3, Times(sp, k))])
    IN  IF r.bytes = 0 THEN Test(<<>>, <<>>)
        ELSE Test(<<Block("header", r.header), Block("image", r.bytes)>>,
                  FirstToEnd(all, Len(all), TRUE))

\* Slices of sz bytes and what is left, the k-th sent at out[k].
InSlices(bytes, sz, out) ==
    Cut([k \in 1..SliceCount(bytes, sz) |->
            Piece(IF k * sz <= bytes THEN sz ELSE bytes % sz, 0, out[k])])

\* constructFileWithParams and sliceFixed: pairs of slices change places.
Results(bytes, sz) ==
    LET mss == IF sz = 0 THEN 1400 ELSE sz
        out == [k \in 1..SliceCount(bytes, mss) |-> (k - 1) * 1000]
    IN  Test(<<Block("results", bytes)>>, FirstToEnd(InSlices(bytes, mss, out), 2, FALSE))

\* predefined_2: the index page, in choice 3 with the first slice sent last.
Index(flip, sz, sp) ==
    LET out == [k \in 1..SliceCount(IndexPage, sz) |-> Times(sp, k)]
        all == InSlices(IndexPage, sz, out)
    IN  Test(<<Block("index", IndexPage)>>,
             IF flip THEN FirstToEnd(all, Len(all), FALSE) ELSE all)

\* The data of choices 0 and 1.
Simple == <<Block("simple", 100), Block("simple", 200), Block("simple", 200),
            Block("simple", 200), Block("simple", 2000)>>

\* populatePredefined.  The first time of choice 1 is 1000 * -1 in 32 bits
\* without a sign, which is 71 minutes.  Any other choice leaves no slice.
Predefined(choice, sz, sp) ==
    CASE choice = 0 -> Test(Simple, [k \in 1..6 |-> Slice((k % 6) * 50, 50, 0, 1000 * (k - 1))])
      [] choice = 1 -> Test(Simple, [k \in 1..10 |-> Slice((k - 1) * 50, 50, 0,
                                         IF k = 1 THEN Forever ELSE 1000 * (k - 2))])
      [] choice = 2 -> Index(FALSE, sz, sp)
      [] choice = 3 -> Index(TRUE, sz, sp)
      [] choice = 4 -> WebDemo(75, 10, 3, sz, sp)
      [] OTHER -> Test(Simple, <<>>)

\* createTestSequence_PreDef with the sequence's size and spacing.
TestFor(r, sz, sp) ==
    CASE r.kind \in {"web", "custom"} -> WebDemo(r.fixed, r.loops, r.multi, sz, sp)
      [] r.kind = "train" -> IF r.step < 2 THEN Test(<<>>, <<>>) ELSE Train(TrainPieces(r))
      [] r.kind = "cellular" -> Train(CellularPieces(r))
      [] r.kind = "image" -> Image(r, sz, sp)
      [] r.kind = "results" -> Results(r.bytes, sz)
      [] r.kind = "choice" -> Predefined(r.choice, sz, sp)

-----------------------------------------------------------------------------
(* A session.                                                              *)

\* The sequence takes the manager's spacing before a request for a test sets
\* that back; a custom one sets both.
CreateTestSequence(r) ==
    LET custom == r.kind = "custom"
        test == TestFor(r, IF custom THEN r.size ELSE size, IF custom THEN r.spacing ELSE spacing)
    IN
    /\ state = "none"
    /\ sessions < MaxSessions
    /\ sessions' = sessions + 1
    /\ request' = r
    /\ size' = IF custom THEN r.size ELSE size
    /\ spacing' = CASE custom -> r.spacing
                    [] r.kind \in {"results", "choice"} -> spacing
                    [] OTHER -> DefaultSpacing
    /\ blocks' = test.blocks
    /\ seq' = test.seq
    /\ state' = "active"
    /\ UNCHANGED <<next, wire, client, acks, received>>

\* In a long gap, and before the FIN, all slices arrive and are acknowledged.
LongGap == spacing >= DelAck \/ state # "active"
Arrived == wire = <<>> /\ ~client.delayed

\* doTimer_Slicing.  The slice's time becomes the manager's spacing, and the
\* interval of the next one.
SendSlice ==
    /\ state = "active"
    /\ next < Len(seq)
    /\ next = 0 \/ spacing < Age + PurgeEvery
    /\ next > 0 /\ LongGap => Arrived
    /\ Len(wire) < MaxFlight
    /\ next' = next + 1
    /\ spacing' = seq[next + 1].out
    /\ wire' = Append(wire, [start |-> seq[next + 1].start, len |-> seq[next + 1].len,
                             fin |-> FALSE])
    /\ state' = IF next + 1 < Len(seq) THEN "active" ELSE "waiting"
    /\ UNCHANGED <<size, sessions, request, blocks, seq, client, acks, received>>

\* doTimer_SendFIN: the FIN is numbered by the test's length.
SendFIN ==
    /\ state = "waiting"
    /\ Arrived
    /\ state' = "waiting_fin_ack"
    /\ wire' = Append(wire, [start |-> Total(seq), len |-> 1, fin |-> TRUE])
    /\ UNCHANGED <<size, spacing, sessions, request, blocks, seq, next, client, acks, received>>

\* doTimer_Cleanup while the next slice is awaited: the sequence is deleted
\* with its connection, and its timer is left.
Purge ==
    /\ state = "active"
    /\ next > 0
    /\ spacing >= Age
    /\ Arrived /\ acks = <<>>
    /\ state' = "purged"
    /\ UNCHANGED <<size, spacing, sessions, request, blocks, seq, next,
                   wire, client, acks, received>>

\* handleTCP_Existing of an answer.
Receive ==
    /\ acks # <<>>
    /\ received' = Append(received, Head(acks))
    /\ acks' = Tail(acks)
    /\ UNCHANGED <<size, spacing, sessions, request, state, blocks, seq, next, wire, client>>

\* The session is over; its connection goes as FMNCManager has it.
Over ==
    /\ state = "waiting_fin_ack"
    /\ Arrived /\ acks = <<>>
    /\ state' = "none" /\ request' = NoRequest
    /\ blocks' = <<>> /\ seq' = <<>> /\ next' = 0
    /\ client' = NewClient /\ received' = <<>>
    /\ UNCHANGED <<size, spacing, sessions, wire, acks>>

-----------------------------------------------------------------------------
(* The client: a TCP receiver behind a wire that keeps order.              *)

\* The end of what is contiguous once p, which is next in order, has come.
Contiguous(p) ==
    Min({e \in {EndOf(x) : x \in client.apart \cup {p}} :
            \A x \in client.apart : x.start # e})

\* It answers at once what is out of order or closes a gap, and every second
\* segment that is neither; the first of two waits for the second.
Deliver ==
    LET p == Head(wire)
        ordered == p.start = client.seq
        ahead == p.start > client.seq
        delays == ordered /\ client.apart = {} /\ ~client.delayed /\ ~p.fin
        reached == IF ordered THEN Contiguous(p) ELSE client.seq
    IN
    /\ wire # <<>>
    /\ Len(acks) < MaxFlight
    /\ wire' = Tail(wire)
    /\ client' = [seq |-> reached,
                  apart |-> IF ahead THEN client.apart \cup {p}
                            ELSE {x \in client.apart : x.start >= reached},
                  delayed |-> delays]
    /\ acks' = IF delays THEN acks ELSE Append(acks, reached)
    /\ UNCHANGED <<size, spacing, sessions, request, state, blocks, seq, next, received>>

DelayedAck ==
    /\ client.delayed /\ LongGap
    /\ wire = <<>>
    /\ Len(acks) < MaxFlight
    /\ client' = [client EXCEPT !.delayed = FALSE]
    /\ acks' = Append(acks, client.seq)
    /\ UNCHANGED <<size, spacing, sessions, request, state, blocks, seq, next, wire, received>>

Next ==
    \/ \E r \in Requests : CreateTestSequence(r)
    \/ SendSlice \/ SendFIN \/ Purge \/ Receive \/ Over
    \/ Deliver \/ DelayedAck

Spec == Init /\ [][Next]_vars

-----------------------------------------------------------------------------
(* The analysis of what a session has so far.                              *)

NoAnswer == -1

\* doAnalysis goes by position alone; a slice with no answer yet has an empty pair.
Pairs ==
    [k \in 1..next |-> [sent |-> seq[k],
                        rcvd |-> IF k <= Len(received) THEN received[k] ELSE NoAnswer]]

-----------------------------------------------------------------------------
(* Properties.                                                             *)

\* The slices of a sequence, however they were rearranged, cover the test from
\* its first byte to its last without a gap or an overlap, the buffer has every
\* byte of them, and the FIN is the next in order after them.  An image is not
\* filled up: slices of a size that a custom test left behind go beyond it.
EveryByteOnce ==
    /\ next = 0 /\ seq # <<>> =>
          /\ {s.start : s \in ToSet(seq)} \cup {Total(seq)}
                = {EndOf(s) : s \in ToSet(seq)} \cup {0}
          /\ Cardinality({s.start : s \in ToSet(seq)}) = Len(seq)
          /\ request.kind # "image" => Total(seq) <= Total(blocks)
    /\ state = "waiting_fin_ack" /\ wire = <<>> =>
          client.seq = Total(seq) + 1 /\ client.apart = {}

\* Every slice lies in a whole window.
Measured(r) ==
    \/ r.kind \in {"train", "cellular"}
    \/ r.kind \in {"web", "custom"} /\ r.fixed % Window = 0 /\ (r.loops * r.multi) % Window = 0
    \/ r = [kind |-> "choice", choice |-> 4]

\* Each slice brings one answer, and the answer doAnalysis pairs it with says how
\* far the windows before it, and its own if it closes it, were complete.
PairsMatch ==
    Measured(request) =>
        /\ Len(received) + Len(acks) + Len(wire)
              = IF state = "waiting_fin_ack" THEN next + 1 ELSE next
        /\ \A k \in DOMAIN Pairs :
              Pairs[k].rcvd \in
                  {NoAnswer, CASE k % Window = 0 -> Pairs[k].sent.exp
                               [] k < Window -> 0
                               [] OTHER -> Pairs[Opening(k, Window) - 1].sent.exp}

\* A client that asks for a spacing, or for the gaps of a train, gets them,
\* whatever the sessions before it left in the manager and whichever slices
\* changed places.
GapsAsAsked ==
    state = "active" /\ next > 0 =>
        CASE request.kind = "custom" -> next <= request.fixed => spacing = request.spacing
          [] request.kind = "train" -> spacing = TrainPieces(request)[next].out
          [] OTHER -> TRUE
=============================================================================
