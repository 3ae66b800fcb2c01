---------------------------- MODULE RIPPSMonitor ----------------------------
(***************************************************************************)
(* RIPPS: the monitor slices a data packet from the WAN, reorders and       *)
(* shapes the slices so that the host answers with extra acknowledgements,  *)
(* measures the round trips of those, and swallows them before they reach   *)
(* the sender (RIPPS_Monitor, RIPPS_Host, RIPPS_Connection, RIPPS_PktPair). *)
(* Four threads: the WAN and the LAN adapter's reader, the timer thread,    *)
(* and outside of the program the two TCP end points.                       *)
(*                                                                         *)
(* Sequence numbers count slices and do not wrap.  Time is left out: a      *)
(* pending timer may fire, and a connection may have been idle long enough, *)
(* at any moment.                                                           *)
(***************************************************************************)
EXTENDS Integers, Sequences, FiniteSets, FiniteSetsExt

CONSTANTS
    Hosts,          \* the monitored hosts
    Conns,          \* the TCP connections
    HostOf,         \* the host of each connection
    Sizes,          \* the payloads each connection's sender uses, in slices
    Measure,        \* m_nMeasureTarget: round trips that resolve a host
    SliceDelay,     \* m_nSliceDelay
    StingModes,     \* the values of m_nStingSort: "simple", "pshend"
    Catchers,       \* dummies behind the slices (5 in the code)
    MaxSeq,         \* bound: slices a sender sends
    MaxBacklog,     \* bound: length of a shape queue when data is sent
    MaxExtras,      \* bound: packets lost, without data, and with data of a host
    None

ASSUME RIPPSAssumption ==
    /\ HostOf \in [Conns -> Hosts]
    /\ Sizes \in [Conns -> SUBSET (Nat \ {0})]
    /\ Measure \in Nat /\ SliceDelay \in Nat /\ Catchers \in Nat
    /\ StingModes \subseteq {"simple", "pshend"}
    /\ {MaxSeq, MaxBacklog, MaxExtras} \subseteq Nat

VARIABLES
    sting,          \* m_nStingSort, how slices are reordered
    validate,       \* [Hosts]: m_nValidateState, "none" before the host is on the list
    shapeQ,         \* [Hosts]: m_PktQueue, packets waiting for their slot
    shapeDue,       \* [Hosts]: pending SHAPE_QUEUE timers
    postDue,        \* [Hosts]: pending POST_SHAPE timers
    conn,           \* [Conns]: the open RIPPS_Connection, or None
    summaries,      \* [Hosts]: m_summaries, the packet count of each
    burst,          \* the WAN thread's loop over outQueue, or None
    timer,          \* the timer thread: its callback, the packet it popped, and
                    \* the matches of a connection it summarized and not yet removed
    lan,            \* the LAN thread: the ack it has matched, or None
    line,           \* [Hosts]: packets past the tap, on their way to the host
    sent, acked,    \* [Conns]: the sender's next number, and the last ack it saw
    dups,           \* [Conns]: duplicates of that ack it saw
    got, fin,       \* [Conns]: slices the host received, whether it sent a FIN
    ackQ,           \* packets captured on the LAN, not yet processed
    losses,         \* packets lost so far
    extras,         \* packets without data, and with data of the hosts, sent so far
    replied         \* [Conns]: whether its host sent data

hostVars == <<validate, shapeQ, shapeDue, postDue, summaries>>
others == <<sent, acked, dups, got, fin, losses, extras, replied, sting>>
vars == <<hostVars, conn, burst, timer, lan, line, ackQ, others>>

Packet == [c : Conns, kind : {"data", "flag"}, seq : Nat, len : Nat]
MonPkt == [seq : Nat, ack : Nat, gobble : BOOLEAN, real : BOOLEAN]
Conn == [highest : Nat, open : Seq(MonPkt), matched : Seq(MonPkt), rt : SUBSET Nat]
Burst == [base : Nat, n : Nat, shaped : BOOLEAN, todo : Seq(Packet)]
Ack == [c : Conns, ack : Nat, pure : BOOLEAN, fin : BOOLEAN, late : SUBSET Nat]
Timer == [job : {"idle", "shape", "post", "clean"}, h : Hosts \cup {None},
          pkt : Packet \cup {None}, n : Nat]
Lan == [ack : Ack, gobble : BOOLEAN, counted : BOOLEAN]

IdleTimer == [job |-> "idle", h |-> None, pkt |-> None, n |-> 0]
(* A connection, a packet, a burst and a matched ack are not the absence of *)
(* one.                                                                     *)
ASSUME NoneAssumption ==
    None \notin Conn /\ None \notin Packet /\ None \notin Burst /\ None \notin Lan

NewConn == [highest |-> 0, open |-> <<>>, matched |-> <<>>, rt |-> {}]

TypeOK ==
    /\ validate \in [Hosts -> {"none", "ripps", "resolved"}]
    /\ shapeQ \in [Hosts -> Seq(Packet)] /\ line \in [Hosts -> Seq(Packet)]
    /\ shapeDue \in [Hosts -> Nat] /\ postDue \in [Hosts -> Nat]
    /\ conn \in [Conns -> Conn \cup {None}]
    /\ summaries \in [Hosts -> Seq(Nat)]
    /\ burst \in Burst \cup {None} /\ timer \in Timer /\ lan \in Lan \cup {None}
    /\ sent \in [Conns -> Nat] /\ acked \in [Conns -> Nat] /\ dups \in [Conns -> Nat]
    /\ got \in [Conns -> SUBSET Nat] /\ fin \in [Conns -> BOOLEAN]
    /\ ackQ \in Seq(Ack) /\ losses \in Nat /\ extras \in Nat
    /\ replied \in [Conns -> BOOLEAN]
    /\ sting \in StingModes

Init ==
    /\ validate = [h \in Hosts |-> "none"]
    /\ shapeQ = [h \in Hosts |-> <<>>] /\ line = [h \in Hosts |-> <<>>]
    /\ shapeDue = [h \in Hosts |-> 0] /\ postDue = [h \in Hosts |-> 0]
    /\ conn = [c \in Conns |-> None]
    /\ summaries = [h \in Hosts |-> <<>>]
    /\ burst = None /\ timer = IdleTimer /\ lan = None
    /\ sent = [c \in Conns |-> 0] /\ acked = [c \in Conns |-> 0]
    /\ dups = [c \in Conns |-> 0]
    /\ got = [c \in Conns |-> {}] /\ fin = [c \in Conns |-> FALSE]
    /\ ackQ = <<>> /\ losses = 0 /\ extras = 0
    /\ replied = [c \in Conns |-> FALSE]
    /\ sting \in StingModes

-----------------------------------------------------------------------------
(* Slicing and reordering.                                                  *)

Slices(p) == [k \in 1..p.len |-> [p EXCEPT !.seq = p.seq + k - 1, !.len = 1]]

StingOrder(q) ==
    LET n == Len(q) IN
    CASE n > 2 /\ sting = "simple" -> Tail(q) \o <<Head(q)>>
      [] n > 2 /\ sting = "pshend" -> SubSeq(q, 2, n - 1) \o <<q[1], q[n]>>
      [] OTHER -> q

(* Slip: the ack of the byte before the block is expected.                  *)
ExpectedAckBefore(j, n, base, p) ==
    [ack |-> base - 1, gobble |-> j < n - 1, extra |-> 0]

(* The ack the j-th of n slices (from 0) waits for, whether that ack is to  *)
(* be swallowed, and how many dummies follow it.                            *)
ExpectedAck(j, n, base, p) ==
    IF sting = "simple"
    THEN [ack |-> base, gobble |-> j < n - 1,
          extra |-> IF j = n - 2 THEN Catchers ELSE 0]
    ELSE CASE j < n - 2 ->
                [ack |-> base, gobble |-> TRUE,
                 extra |-> IF j = n - 3 THEN Catchers ELSE 0]
           [] j = n - 2 ->
                [ack |-> base + n - 1, gobble |-> TRUE, extra |-> Min({2, Catchers})]
           [] OTHER -> [ack |-> p.seq + p.len, gobble |-> FALSE, extra |-> 0]

-----------------------------------------------------------------------------
(* The list of monitor packets of a connection.                             *)

AddOpen(r, m) ==
    IF r.matched = <<>> \/ r.matched[Len(r.matched)].ack <= m.ack
    THEN [r EXCEPT !.open = Append(@, m)]
    ELSE r

AddDummies(r, k, a) ==
    LET dummy == [seq |-> 0, ack |-> a, gobble |-> TRUE, real |-> FALSE]
        all == [i \in 1..k |-> dummy]
    IN IF AddOpen(r, dummy) = r THEN r ELSE [r EXCEPT !.open = @ \o all]

AddExpected(r, p, e) ==
    LET m == [seq |-> p.seq, ack |-> e.ack, gobble |-> e.gobble, real |-> TRUE]
    IN AddDummies(AddOpen([r EXCEPT !.highest = p.seq + p.len], m), e.extra, e.ack)

IsRetransmission(r, p) == r # None /\ p.seq < r.highest

NoteRetransmission(r, p) == [r EXCEPT !.rt = @ \cup {p.seq + p.len}]

Matches(r, a) == {i \in 1..Len(r.open) : r.open[i].ack = a}

WithoutIndex(s, i) == SubSeq(s, 1, i - 1) \o SubSeq(s, i + 1, Len(s))

PurgeOldAcks(open, a) ==
    LET keep == {i \in 1..Len(open) : \E j \in 1..i : open[j].ack >= a}
    IN IF keep = {} THEN <<>> ELSE SubSeq(open, Min(keep), Len(open))

(* applyMatchToPacket: a match of a retransmission moves to that list, one  *)
(* with no positive round trip and a dummy leave the open list, any other   *)
(* match is a measurement.  Only a real one that is not swallowed purges.   *)
ApplyMatch(r, i, late) ==
    LET m == r.open[i]
        rest == WithoutIndex(r.open, i)
    IN [r EXCEPT
          !.matched = IF m.real /\ m.ack \notin r.rt /\ m.seq \notin late
                      THEN Append(@, m) ELSE @,
          !.open = IF m.real /\ ~m.gobble THEN PurgeOldAcks(rest, m.ack) ELSE rest]

(* The round trips measured for a host: those its summaries count, and the  *)
(* matches of its open connections.                                         *)
Summarized(h, sums) ==
    UNION {{<<"summary", i, k>> : k \in 1..sums[h][i]} : i \in DOMAIN sums[h]}

Matched(h, cs) ==
    UNION {{<<"open", c, k>> : k \in 1..Len(cs[c].matched)} :
              c \in {d \in Conns : HostOf[d] = h /\ cs[d] # None}}

Measurements(h, cs, sums) == Summarized(h, sums) \cup Matched(h, cs)

MonitorCount(h, cs, sums) == Cardinality(Measurements(h, cs, sums))

(* The cleaner holds the host's mutex.                                      *)
Cleaning(h) == timer.job = "clean" /\ timer.h = h

(* getMonitorCount adds up without the mutex: summaries, then connections.  *)
(* While the cleaner works on the two lists a connection may be counted with*)
(* its summary and without, and others may be missed.                       *)
Counted(h) ==
    LET n == MonitorCount(h, conn, summaries)
    IN IF Cleaning(h) THEN 0..(n + timer.n) ELSE {n}

(* Data of the connection or its acknowledgement is still on its way.       *)
InFlight(c) ==
    LET Data(q) == \E i \in 1..Len(q) : q[i].c = c /\ q[i].len > 0 IN
    \/ burst # None /\ burst.todo[1].c = c
    \/ timer.pkt # None /\ timer.pkt.c = c /\ timer.pkt.len > 0
    \/ lan # None /\ lan.ack.c = c
    \/ Data(shapeQ[HostOf[c]]) \/ Data(line[HostOf[c]])
    \/ \E i \in 1..Len(ackQ) : ackQ[i].c = c

-----------------------------------------------------------------------------
(* The WAN thread.                                                          *)

(* Slip: a timer only for the packet that finds the queue empty.            *)
ShapeOneTimer(h, p, post) ==
    /\ shapeQ' = [shapeQ EXCEPT ![h] = Append(@, p)]
    /\ IF shapeQ[h] = <<>>
       THEN shapeDue' = [shapeDue EXCEPT ![h] = @ + 1] /\ UNCHANGED postDue
       ELSE UNCHANGED <<shapeDue, postDue>>

(* shapePacketHost: the timer is chosen first, then the packet is queued.   *)
Shape(h, p, post) ==
    /\ shapeQ' = [shapeQ EXCEPT ![h] = Append(@, p)]
    /\ IF SliceDelay > 0 /\ ~post
       THEN shapeDue' = [shapeDue EXCEPT ![h] = @ + 1] /\ UNCHANGED postDue
       ELSE postDue' = [postDue EXCEPT ![h] = @ + 1] /\ UNCHANGED shapeDue

(* Acks still unprocessed when these slices are stamped were captured       *)
(* before: a match of the two has no positive round trip.                   *)
StampedAfter(q, c, seqs) ==
    [i \in 1..Len(q) |-> IF q[i].c = c THEN [q[i] EXCEPT !.late = @ \cup seqs] ELSE q[i]]

SlicePacket(h, p) ==
    IF p.kind = "flag" THEN
        Shape(h, p, FALSE) /\ UNCHANGED <<conn, burst, ackQ>>
    ELSE IF IsRetransmission(conn[p.c], p) THEN
        /\ Shape(h, p, FALSE)
        /\ conn' = [conn EXCEPT ![p.c] = NoteRetransmission(@, p)]
        /\ UNCHANGED <<burst, ackQ>>
    ELSE IF p.len <= 1 THEN
        Shape(h, p, FALSE) /\ UNCHANGED <<conn, burst, ackQ>>
    ELSE
        /\ burst' = [base |-> p.seq, n |-> p.len, shaped |-> FALSE,
                     todo |-> StingOrder(Slices(p))]
        /\ ackQ' = StampedAfter(ackQ, p.c, p.seq..(p.seq + p.len - 1))
        /\ UNCHANGED <<shapeQ, shapeDue, postDue, conn>>

(* processPacketWAN: a host not seen before is put on the list; packets to  *)
(* a resolved host are only kept behind its backlog.                        *)
ProcessPacketWAN(p) ==
    LET h == HostOf[p.c] IN
    /\ burst = None
    /\ UNCHANGED <<summaries, timer, lan>>
    /\ IF validate[h] = "resolved" THEN
          /\ UNCHANGED <<validate, conn, burst, ackQ>>
          /\ IF shapeQ[h] # <<>>
             THEN Shape(h, p, TRUE) /\ UNCHANGED line
             ELSE /\ line' = [line EXCEPT ![h] = Append(@, p)]
                  /\ UNCHANGED <<shapeQ, shapeDue, postDue>>
       ELSE
          /\ ~Cleaning(h)
          /\ validate' = [validate EXCEPT ![h] = "ripps"]
          /\ SlicePacket(h, p)
          /\ UNCHANGED line

(* One turn of the loop over outQueue: the slice goes to the shaper, and    *)
(* only then is its ack expected.                                           *)
ShapeSlice ==
    /\ burst # None /\ ~burst.shaped
    /\ SliceDelay > 0 => ~Cleaning(HostOf[burst.todo[1].c])
    /\ Shape(HostOf[burst.todo[1].c], burst.todo[1], FALSE)
    /\ burst' = [burst EXCEPT !.shaped = TRUE]
    /\ UNCHANGED <<validate, summaries, conn, timer, lan, line, ackQ, others>>

ExpectAck ==
    /\ burst # None /\ burst.shaped
    /\ ~Cleaning(HostOf[burst.todo[1].c])
    /\ LET p == burst.todo[1]
           e == ExpectedAck(burst.n - Len(burst.todo), burst.n, burst.base, p)
           r == IF conn[p.c] = None THEN NewConn ELSE conn[p.c]
       IN conn' = IF validate[HostOf[p.c]] = "resolved" THEN conn
                  ELSE [conn EXCEPT ![p.c] = AddExpected(r, p, e)]
    /\ burst' = IF Len(burst.todo) = 1 THEN None
                ELSE [burst EXCEPT !.todo = Tail(@), !.shaped = FALSE]
    /\ UNCHANGED <<hostVars, timer, lan, line, ackQ, others>>

-----------------------------------------------------------------------------
(* The LAN thread.                                                          *)

(* What the sender makes of an ack that gets past the passthrough: a        *)
(* duplicate is one that carries neither data nor a FIN.                    *)
Forward(a) ==
    /\ acked' = [acked EXCEPT ![a.c] = Max({@, a.ack})]
    /\ dups' = [dups EXCEPT ![a.c] = IF a.ack > acked[a.c] THEN 0
                                     ELSE IF a.ack = acked[a.c] /\ a.pure /\ ~a.fin
                                          THEN @ + 1 ELSE @]

(* processPacketMonitor: a host that is not on the list has its acks        *)
(* forwarded; otherwise processAck looks for a match under its mutex.       *)
ProcessAck ==
    /\ lan = None /\ ackQ # <<>>
    /\ ackQ' = Tail(ackQ)
    /\ LET a == ackQ[1]
           r == conn[a.c]
           hit == r # None /\ Matches(r, a.ack) # {}
           i == Min(Matches(r, a.ack))
       IN IF validate[HostOf[a.c]] = "none" THEN
             Forward(a) /\ UNCHANGED <<conn, lan>>
          ELSE
             /\ ~Cleaning(HostOf[a.c])
             /\ conn' = IF hit THEN [conn EXCEPT ![a.c] = ApplyMatch(r, i, a.late)] ELSE conn
             /\ lan' = [ack |-> a, gobble |-> hit /\ r.open[i].gobble, counted |-> FALSE]
             /\ UNCHANGED <<acked, dups>>
    /\ UNCHANGED <<hostVars, burst, timer, line, sent, got, fin, losses, extras, replied, sting>>

(* matchAck, which needs no mutex, and the end of processPacketMonitor: an  *)
(* ack to swallow is swallowed unless it carries data.                      *)
MatchAck ==
    /\ lan # None /\ ~lan.counted
    /\ LET a == lan.ack
           h == HostOf[a.c]
       IN /\ \E k \in Counted(h) :
                validate' = IF k >= Measure THEN [validate EXCEPT ![h] = "resolved"] ELSE validate
          /\ lan' = IF a.fin THEN [lan EXCEPT !.counted = TRUE] ELSE None
          /\ IF a.fin \/ (lan.gobble /\ a.pure) THEN UNCHANGED <<acked, dups>> ELSE Forward(a)
    /\ UNCHANGED <<shapeQ, shapeDue, postDue, summaries, conn, burst, timer, line, ackQ,
                   sent, got, fin, losses, extras, replied, sting>>

(* Slip: the connection is dropped without a summary.                       *)
DropConnection(c) ==
    conn' = [conn EXCEPT ![c] = None] /\ UNCHANGED summaries

(* createSummary, or nothing when the connection is not on the list.        *)
CloseConnection(c) ==
    LET h == HostOf[c] IN
    IF conn[c] = None THEN UNCHANGED <<conn, summaries>>
    ELSE /\ conn' = [conn EXCEPT ![c] = None]
         /\ summaries' = IF conn[c].matched = <<>> THEN summaries
                         ELSE [summaries EXCEPT ![h] = Append(@, Len(conn[c].matched))]

(* closeConnectionMon; a FIN or RST is never swallowed.                     *)
TerminateConnection ==
    /\ lan # None /\ lan.counted
    /\ ~Cleaning(HostOf[lan.ack.c])
    /\ CloseConnection(lan.ack.c)
    /\ Forward(lan.ack)
    /\ lan' = None
    /\ UNCHANGED <<validate, shapeQ, shapeDue, postDue, burst, timer, line, ackQ,
                   sent, got, fin, losses, extras, replied, sting>>

LANThread == ProcessAck \/ MatchAck \/ TerminateConnection

-----------------------------------------------------------------------------
(* The timer thread.                                                        *)

(* SHAPE_QUEUE: one packet, whose monitor packet is stamped again.          *)
ShapeTimer(h) ==
    /\ timer.job = "idle" /\ shapeDue[h] > 0
    /\ shapeDue' = [shapeDue EXCEPT ![h] = @ - 1]
    /\ IF shapeQ[h] = <<>> THEN UNCHANGED <<shapeQ, timer, ackQ>>
       ELSE LET p == shapeQ[h][1]
                linked == conn[p.c] # None
                          /\ \E i \in 1..Len(conn[p.c].open) :
                                 conn[p.c].open[i].real /\ conn[p.c].open[i].seq = p.seq
            IN /\ shapeQ' = [shapeQ EXCEPT ![h] = Tail(@)]
               /\ timer' = [IdleTimer EXCEPT !.job = "shape", !.h = h, !.pkt = p]
               /\ ackQ' = IF linked THEN StampedAfter(ackQ, p.c, {p.seq}) ELSE ackQ
    /\ UNCHANGED <<validate, postDue, summaries, conn, burst, lan, line, others>>

(* Slip: every packet of a flush counts as a timer.                         *)
PostTimerEachPacket(h) ==
    /\ \/ timer.job = "idle" /\ postDue[h] > 0
       \/ timer.job = "post" /\ timer.h = h /\ timer.pkt = None
    /\ IF shapeQ[h] = <<>>
       THEN timer' = IdleTimer /\ UNCHANGED shapeQ
       ELSE /\ shapeQ' = [shapeQ EXCEPT ![h] = Tail(@)]
            /\ timer' = [IdleTimer EXCEPT !.job = "post", !.h = h, !.pkt = shapeQ[h][1]]
    /\ postDue' = [postDue EXCEPT ![h] = @ - 1]
    /\ UNCHANGED <<validate, shapeDue, summaries, conn, burst, lan, line, ackQ, others>>

(* POST_SHAPE: packets are popped and resumed until the queue is empty.     *)
PostTimer(h) ==
    /\ \/ timer.job = "idle" /\ postDue[h] > 0
       \/ timer.job = "post" /\ timer.h = h /\ timer.pkt = None
    /\ IF shapeQ[h] = <<>>
       THEN timer' = IdleTimer /\ UNCHANGED shapeQ
       ELSE /\ shapeQ' = [shapeQ EXCEPT ![h] = Tail(@)]
            /\ timer' = [IdleTimer EXCEPT !.job = "post", !.h = h, !.pkt = shapeQ[h][1]]
    /\ postDue' = IF timer.job = "idle" THEN [postDue EXCEPT ![h] = @ - 1] ELSE postDue
    /\ UNCHANGED <<validate, shapeDue, summaries, conn, burst, lan, line, ackQ, others>>

ResumePostTap ==
    /\ timer.pkt # None
    /\ line' = [line EXCEPT ![timer.h] = Append(@, timer.pkt)]
    /\ timer' = IF timer.job = "shape" THEN IdleTimer ELSE [timer EXCEPT !.pkt = None]
    /\ UNCHANGED <<hostVars, conn, burst, lan, ackQ, others>>

(* MOD_CLEANER picks a host, and its connections that have been idle for    *)
(* five seconds are summarized under the host's mutex; the timer arms itself*)
(* again.  Nothing is on its way for such a connection.  createSummary adds *)
(* the summary first: for those who look without the mutex the connection   *)
(* is still there.                                                          *)
CreateSummary(c) ==
    /\ timer.job = "idle" /\ conn[c] # None /\ ~InFlight(c)
    /\ CloseConnection(c)
    /\ timer' = [IdleTimer EXCEPT !.job = "clean", !.h = HostOf[c], !.n = Len(conn[c].matched)]
    /\ UNCHANGED <<validate, shapeQ, shapeDue, postDue, burst, lan, line, ackQ, others>>

(* Slip: the cleaner returns with the mutex locked.                         *)
KeepMutex == timer.job = "clean" /\ UNCHANGED vars

RemoveConnection ==
    /\ timer.job = "clean"
    /\ timer' = IdleTimer
    /\ UNCHANGED <<hostVars, conn, burst, lan, line, ackQ, others>>

-----------------------------------------------------------------------------
(* The TCP end points (outside of the program).                             *)

Send(c, n) ==
    /\ sent[c] + n <= MaxSeq /\ ~fin[c] /\ Len(shapeQ[HostOf[c]]) < MaxBacklog
    /\ sent' = [sent EXCEPT ![c] = @ + n]
    /\ ProcessPacketWAN([c |-> c, kind |-> "data", seq |-> sent[c], len |-> n])
    /\ UNCHANGED <<acked, dups, got, fin, losses, extras, replied, sting>>

(* A SYN, FIN or RST of the sender, or its acknowledgement of host data.    *)
SendControl(c, kind) ==
    /\ losses + extras < MaxExtras
    /\ extras' = extras + 1
    /\ ProcessPacketWAN([c |-> c, kind |-> kind, seq |-> sent[c], len |-> 0])
    /\ UNCHANGED <<sent, acked, dups, got, fin, losses, replied, sting>>

Retransmit(c) ==
    /\ acked[c] < sent[c] /\ ~InFlight(c)
    /\ ProcessPacketWAN([c |-> c, kind |-> "data", seq |-> acked[c],
                         len |-> sent[c] - acked[c]])
    /\ UNCHANGED others

NextMissing(s) == Min({i \in 0..MaxSeq : i \notin s})

HostReceives(h) ==
    /\ line[h] # <<>>
    /\ line' = [line EXCEPT ![h] = Tail(@)]
    /\ LET p == line[h][1]
           s == got[p.c] \cup p.seq..(p.seq + p.len - 1)
           a == [c |-> p.c, ack |-> NextMissing(s), pure |-> TRUE, fin |-> FALSE, late |-> {}]
       IN IF p.len = 0 THEN UNCHANGED <<got, ackQ>>
          ELSE got' = [got EXCEPT ![p.c] = s] /\ ackQ' = Append(ackQ, a)
    /\ UNCHANGED <<hostVars, conn, burst, timer, lan, sent, acked, dups, fin, losses, extras,
                   replied, sting>>

LosePacket(h) ==
    /\ line[h] # <<>> /\ losses + extras < MaxExtras
    /\ line' = [line EXCEPT ![h] = Tail(@)]
    /\ losses' = losses + 1
    /\ UNCHANGED <<hostVars, conn, burst, timer, lan, ackQ, sent, acked, dups, got, fin, extras,
                   replied, sting>>

(* A FIN or RST of the host, with the ack it carries.                       *)
HostFinishes(c) ==
    /\ ~fin[c] /\ sent[c] > 0
    /\ fin' = [fin EXCEPT ![c] = TRUE]
    /\ ackQ' = Append(ackQ, [c |-> c, ack |-> NextMissing(got[c]), pure |-> TRUE,
                             fin |-> TRUE, late |-> {}])
    /\ UNCHANGED <<hostVars, conn, burst, timer, lan, line, sent, acked, dups, got, losses,
                   extras, replied, sting>>

(* Data of the host, with the ack it carries.                               *)
HostSends(c) ==
    /\ ~fin[c] /\ losses + extras < MaxExtras
    /\ extras' = extras + 1
    /\ replied' = [replied EXCEPT ![c] = TRUE]
    /\ ackQ' = Append(ackQ, [c |-> c, ack |-> NextMissing(got[c]), pure |-> FALSE,
                             fin |-> FALSE, late |-> {}])
    /\ UNCHANGED <<hostVars, conn, burst, timer, lan, line, sent, acked, dups, got, fin, losses, sting>>

-----------------------------------------------------------------------------
Next ==
    \/ \E c \in Conns : \E n \in Sizes[c] : Send(c, n)
    \/ \E c \in Conns, kind \in {"data", "flag"} : SendControl(c, kind)
    \/ \E c \in Conns : Retransmit(c) \/ HostFinishes(c) \/ HostSends(c) \/ CreateSummary(c)
    \/ ShapeSlice \/ ExpectAck \/ LANThread \/ ResumePostTap \/ RemoveConnection
    \/ \E h \in Hosts : ShapeTimer(h) \/ PostTimer(h) \/ HostReceives(h) \/ LosePacket(h)

Spec == Init /\ [][Next]_vars

(* The program's threads keep running, and the end points keep to TCP: a    *)
(* packet that arrives is acknowledged, an unacknowledged one is sent again.*)
Fairness ==
    /\ WF_vars(ShapeSlice \/ ExpectAck)
    /\ WF_vars(LANThread)
    /\ WF_vars(RemoveConnection)
    /\ \A h \in Hosts : WF_vars(ShapeTimer(h) \/ PostTimer(h) \/ ResumePostTap)
    /\ \A h \in Hosts : WF_vars(HostReceives(h))
    /\ \A c \in Conns : WF_vars(Retransmit(c))

FairSpec == Spec /\ Fairness

-----------------------------------------------------------------------------
(* Every packet in a shape queue has a timer that will pop it: one of its   *)
(* own, a POST_SHAPE timer that empties the queue, or that timer's callback *)
(* still looping (shapePacketHost, processTimer).                           *)
QueueHasTimers ==
    \A h \in Hosts :
        \/ Len(shapeQ[h]) <= shapeDue[h]
        \/ postDue[h] > 0
        \/ timer.job = "post" /\ timer.h = h

(* The count that releases a host may see one connection twice, with its    *)
(* summary, but no more: a released host has half of the round trips asked  *)
(* for, and closing, cleaning up and summarizing its connections loses none *)
(* of them (matchAck, createSummary, getMonitorCount).                      *)
ResolvedIsMeasured ==
    \A h \in Hosts :
        validate[h] = "resolved" => 2 * MonitorCount(h, conn, summaries) >= Measure

(* Swallowing acknowledgements never starves the sender: time and again it  *)
(* has seen all it sent acknowledged (processPacketMonitor, addExpectedAck).*)
EveryByteAcked == \A c \in Conns : []<>(acked[c] = sent[c])

(* "By gobbling a packet, we prevent the sliced TCP fast retransmit packet  *)
(* from making its merry way out": as long as the host is monitored,        *)
(* nothing is lost and the host has neither closed nor sent data, the       *)
(* sender sees no run of duplicates, though the slices reach the host out   *)
(* of order.  (A host that is resolved in the middle of a burst does send   *)
(* such a run, and so does one whose own data used up expected acks: a      *)
(* packet with data is forwarded, and its match is gone.)                   *)
NoFastRetransmit ==
    \A c \in Conns :
        losses = 0 /\ ~fin[c] /\ ~replied[c] /\ validate[HostOf[c]] = "ripps" => dups[c] < 2
=============================================================================
