------------------------- MODULE RIPPSMonitorProofs -------------------------
(***************************************************************************)
(* Theorems about RIPPSMonitor, for any hosts, connections and bounds.      *)
(***************************************************************************)
EXTENDS RIPPSMonitor, SequencesExt, SequenceTheorems, FiniteSetTheorems,
        FunctionTheorems, WellFoundedInduction, TLAPS

-----------------------------------------------------------------------------
(* Sequences and sets of numbers.                                           *)

\* A set of naturals has a least member.  This also stands for induction, which
\* is used as: no least counterexample.
LEMMA LeastNat ==
    ASSUME NEW T \in SUBSET Nat, T # {} PROVE \E n \in T : \A m \in T : n <= m
<1>1. \E n \in T : \A m \in T : ~ (<<m, n>> \in OpToRel(<, Nat))
  BY NatLessThanWellFounded, WFMin
<1>2. \A m, n \in Nat : <<m, n>> \in OpToRel(<, Nat) <=> m < n
  BY DEF OpToRel
<1>3. \E n \in T : \A m \in T : ~ (m < n)
  <2>1. \A m \in T : m \in Nat
    OBVIOUS
  <2>. QED
    BY <1>1, <1>2, <2>1, Zenon
<1>. QED
  BY <1>3

\* Pushing adds exactly that element, and keeps the elements distinct if it is new.
LEMMA PushProperties ==
    ASSUME NEW S, NEW s \in Seq(S), NEW o \in S
    PROVE  /\ Append(s, o) \in Seq(S)
           /\ Append(s, o) # <<>>
           /\ ToSet(Append(s, o)) = ToSet(s) \cup {o}
           /\ IsInjective(s) /\ o \notin ToSet(s) => IsInjective(Append(s, o))
<1>1. /\ Append(s, o) \in Seq(S)
      /\ Append(s, o) # <<>>
      /\ Len(s) \in Nat
      /\ Len(Append(s, o)) = Len(s) + 1
      /\ \A i \in 1..Len(s) : Append(s, o)[i] = s[i]
      /\ Append(s, o)[Len(s) + 1] = o
  BY AppendProperties, LenProperties
<1>2. DOMAIN s = 1..Len(s) /\ DOMAIN Append(s, o) = 1..Len(s) + 1
  BY <1>1, LenProperties
<1>3. ToSet(Append(s, o)) = ToSet(s) \cup {o}
  <2>1. \A i \in 1..Len(s) + 1 : i \in 1..Len(s) \/ i = Len(s) + 1
    BY <1>1
  <2>. QED
    BY <1>1, <1>2, <2>1 DEF ToSet
<1>4. ASSUME IsInjective(s), o \notin ToSet(s) PROVE IsInjective(Append(s, o))
  BY <1>1, <1>2, <1>4 DEF IsInjective, ToSet
<1>. QED
  BY <1>1, <1>3, <1>4

\* The least member of a set of naturals, as Min finds it.
LEMMA MinProperties ==
    ASSUME NEW T \in SUBSET Nat, T # {}
    PROVE  Min(T) \in T /\ \A m \in T : Min(T) <= m
<1>1. \E n \in T : \A m \in T : n <= m
  BY LeastNat
<1>. QED
  BY <1>1 DEF Min

-----------------------------------------------------------------------------

\* A packet holds what its sender has sent.
Bounded == {p \in Packet : p.seq + p.len <= MaxSeq}

Records ==
    /\ validate \in [Hosts -> {"none", "ripps", "resolved"}]
    /\ conn \in [Conns -> Conn \cup {None}]
    /\ summaries \in [Hosts -> Seq(Nat)]

\* The packets that wait in the program or travel to a host, and a loop over the
\* slices of a packet that is never at its end.
Bursts == [base : Nat, n : Nat \ {0}, shaped : BOOLEAN, todo : Seq(Bounded) \ {<<>>}]
Timers ==
    {t \in [job : {"idle", "shape", "post", "clean"}, h : Hosts \cup {None},
            pkt : Bounded \cup {None}, n : Nat] :
        t.pkt # None => t.h \in Hosts}

Queues ==
    /\ shapeQ \in [Hosts -> Seq(Bounded)] /\ line \in [Hosts -> Seq(Bounded)]
    /\ shapeDue \in [Hosts -> Nat] /\ postDue \in [Hosts -> Nat]
    /\ burst \in Bursts \cup {None} /\ timer \in Timers

Ends ==
    /\ sent \in [Conns -> 0..MaxSeq] /\ acked \in [Conns -> Nat] /\ dups \in [Conns -> Nat]
    /\ got \in [Conns -> SUBSET (0..(MaxSeq - 1))] /\ fin \in [Conns -> BOOLEAN]
    /\ losses \in Nat /\ extras \in Nat /\ replied \in [Conns -> BOOLEAN]
    /\ lan \in Lan \cup {None} /\ sting \in StingModes

TypeInv == Records /\ Queues /\ Ends /\ ackQ \in Seq(Ack)

-----------------------------------------------------------------------------
(* Packets and slices.                                                     *)

LEMMA Numbers ==
    /\ HostOf \in [Conns -> Hosts]
    /\ Sizes \in [Conns -> SUBSET (Nat \ {0})] /\ Measure \in Nat /\ SliceDelay \in Nat /\ Catchers \in Nat
    /\ StingModes \subseteq {"simple", "pshend"}
    /\ MaxSeq \in Nat /\ MaxBacklog \in Nat /\ MaxExtras \in Nat
  BY RIPPSAssumption

LEMMA BoundedPacket ==
    ASSUME NEW p \in Bounded
    PROVE  /\ p \in Packet /\ p.c \in Conns /\ HostOf[p.c] \in Hosts
           /\ p.seq \in Nat /\ p.len \in Nat /\ p.seq + p.len <= MaxSeq
  BY Numbers DEF Bounded, Packet

LEMMA PacketMade ==
    ASSUME NEW c \in Conns, NEW kind \in {"data", "flag"}, NEW seq \in Nat, NEW len \in Nat,
           seq + len <= MaxSeq, NEW p, p = [c |-> c, kind |-> kind, seq |-> seq, len |-> len]
    PROVE  p \in Bounded
  BY DEF Bounded, Packet

\* A packet is cut into packets that lie within it.
LEMMA SlicesProperties ==
    ASSUME NEW p \in Bounded
    PROVE  Slices(p) \in Seq(Bounded) /\ Len(Slices(p)) = p.len
<1>1. p \in Packet /\ p.seq \in Nat /\ p.seq + p.len <= MaxSeq /\ MaxSeq \in Nat
  BY BoundedPacket, Numbers
<1>2. PICK n \in Nat : n = p.len
  BY BoundedPacket
<1>3. ASSUME NEW k \in 1..n PROVE [p EXCEPT !.seq = p.seq + k - 1, !.len = 1] \in Bounded
  <2>1. PICK m \in Nat : m = p.seq + k - 1 /\ m + 1 <= MaxSeq
    BY <1>1, <1>2
  <2>2. PICK q : q = [p EXCEPT !.seq = m, !.len = 1]
    OBVIOUS
  <2>3. q \in Packet /\ q.seq = m /\ q.len = 1
    BY <1>1, <2>2 DEF Packet
  <2>4. q \in Bounded
    BY <2>1, <2>3 DEF Bounded
  <2>. QED
    BY <2>1, <2>2, <2>4
<1>4. Slices(p) = [k \in 1..n |-> [p EXCEPT !.seq = p.seq + k - 1, !.len = 1]]
  BY <1>2 DEF Slices
<1>5. Slices(p) \in [1..n -> Bounded]
  BY <1>3, <1>4, Zenon
<1>. QED
  BY <1>2, <1>5

\* Reordering loses no slice.
LEMMA OrderProperties ==
    ASSUME NEW S, NEW q \in Seq(S), q # <<>>
    PROVE  StingOrder(q) \in Seq(S) /\ StingOrder(q) # <<>>
<1>1. PICK n \in Nat : n = Len(q) /\ n # 0
  BY LenProperties, EmptySeq
<1>2. \A i \in 1..n : q[i] \in S
  BY <1>1, ElementOfSeq
<1>3. CASE n > 2 /\ sting = "simple"
  <2>1. /\ Tail(q) \in Seq(S) /\ <<Head(q)>> \in Seq(S)
        /\ Len(<<Head(q)>>) = 1 /\ Len(Tail(q)) = n - 1
    BY <1>1, HeadTailProperties
  <2>2. PICK r : r = Tail(q) \o <<Head(q)>>
    OBVIOUS
  <2>3. r \in Seq(S) /\ Len(r) = n
    BY <1>1, <2>1, <2>2, ConcatProperties
  <2>4. StingOrder(q) = r
    BY <1>1, <1>3, <2>2 DEF StingOrder
  <2>. QED
    BY <1>1, <2>3, <2>4
<1>4. CASE n > 2 /\ sting = "pshend"
  <2>1. PICK m \in Nat : m = n - 1 /\ m >= 2
    BY <1>4
  <2>2. SubSeq(q, 2, m) \in Seq(S) /\ Len(SubSeq(q, 2, m)) \in Nat
    <3>1. \A i \in 2..m : q[i] \in S
      BY <1>2, <2>1
    <3>2. SubSeq(q, 2, m) \in Seq(S)
      BY <3>1, <2>1, SubSeqProperties
    <3>. QED
      BY <3>2, LenProperties
  <2>3. <<q[1], q[n]>> \in Seq(S) /\ Len(<<q[1], q[n]>>) = 2
    BY <1>1, <1>2
  <2>4. PICK r : r = SubSeq(q, 2, m) \o <<q[1], q[n]>>
    OBVIOUS
  <2>5. PICK l \in Nat \ {0} : r \in Seq(S) /\ Len(r) = l
    <3>1. r \in Seq(S) /\ Len(r) = Len(SubSeq(q, 2, m)) + 2
      BY <2>2, <2>3, <2>4, ConcatProperties
    <3>. QED
      BY <2>2, <3>1
  <2>6. StingOrder(q) = r
    BY <1>1, <1>4, <2>1, <2>4 DEF StingOrder
  <2>. QED
    BY <2>5, <2>6
<1>5. CASE ~ (n > 2 /\ sting = "simple") /\ ~ (n > 2 /\ sting = "pshend")
  BY <1>1, <1>5 DEF StingOrder
<1>. QED
  BY <1>3, <1>4, <1>5

LEMMA NotLess == \A a \in Int, b \in Nat : ~ (a < b - 1) => (a < b - 1) = FALSE
  BY SMT

\* The ack that a slice waits for.
LEMMA ExpectedProperties ==
    ASSUME NEW j \in Int, NEW n \in Nat \ {0}, NEW base \in Nat, NEW p \in Bounded,
           sting \in StingModes, NEW e, e = ExpectedAck(j, n, base, p)
    PROVE  e.ack \in Nat /\ e.gobble \in BOOLEAN /\ e.extra \in Nat
<1>1. sting = "simple" \/ sting = "pshend"
  BY Numbers
<1>2. Catchers \in Nat /\ p.seq + p.len \in Nat
  BY Numbers, BoundedPacket
<1>3. CASE sting = "simple"
  <2>1. PICK x \in Nat : x = IF j = n - 2 THEN Catchers ELSE 0
    BY <1>2
  <2>2. CASE j < n - 1
    <3>1. e = [ack |-> base, gobble |-> TRUE, extra |-> x]
      BY <1>3, <2>1, <2>2 DEF ExpectedAck
    <3>. QED
      BY <2>1, <3>1
  <2>3. CASE ~ (j < n - 1)
    <3>1. (j < n - 1) = FALSE
      BY <2>3, NotLess
    <3>2. e = [ack |-> base, gobble |-> FALSE,
               extra |-> IF j = n - 2 THEN Catchers ELSE 0]
      BY <1>3, <3>1, Zenon DEF ExpectedAck
    <3>. QED
      BY <2>1, <3>2
  <2>. QED
    BY <2>2, <2>3
<1>4. CASE sting = "pshend" /\ j < n - 2
  BY <1>2, <1>4 DEF ExpectedAck
<1>5. CASE sting = "pshend" /\ j = n - 2
  <2>1. {2, Catchers} \in SUBSET Nat /\ {2, Catchers} # {}
    BY <1>2
  <2>2. Min({2, Catchers}) \in Nat
    BY <2>1, MinProperties
  <2>3. e = [ack |-> base + n - 1, gobble |-> TRUE, extra |-> Min({2, Catchers})]
    BY <1>5 DEF ExpectedAck
  <2>. QED
    BY <2>2, <2>3
<1>6. CASE sting = "pshend" /\ ~ (j < n - 2) /\ j # n - 2
  BY <1>2, <1>6 DEF ExpectedAck
<1>. QED
  BY <1>1, <1>3, <1>4, <1>5, <1>6


-----------------------------------------------------------------------------
(* The list of monitor packets of a connection.                            *)

LEMMA ConnFields ==
    ASSUME NEW r \in Conn
    PROVE  /\ r.highest \in Nat /\ r.open \in Seq(MonPkt) /\ r.matched \in Seq(MonPkt)
           /\ r.rt \in SUBSET Nat
  BY DEF Conn

LEMMA OpenSet ==
    ASSUME NEW r \in Conn, NEW open \in Seq(MonPkt), NEW q, q = [r EXCEPT !.open = open]
    PROVE  q \in Conn
  BY DEF Conn

LEMMA NewConnTyped == NewConn \in Conn
<1>1. <<>> \in Seq(MonPkt)
  BY EmptySeq
<1>. QED
  BY <1>1 DEF NewConn, Conn

LEMMA AddOpenTyped ==
    ASSUME NEW r \in Conn, NEW m \in MonPkt PROVE AddOpen(r, m) \in Conn
<1>1. PICK open \in Seq(MonPkt) : open = Append(r.open, m)
  <2>1. PICK t \in Seq(MonPkt) : t = r.open
    BY ConnFields
  <2>2. Append(t, m) \in Seq(MonPkt)
    BY PushProperties
  <2>. QED
    BY <2>1, <2>2
<1>2. [r EXCEPT !.open = open] \in Conn
  BY OpenSet
<1>. QED
  BY <1>1, <1>2 DEF AddOpen

LEMMA AddDummiesTyped ==
    ASSUME NEW r \in Conn, NEW k \in Nat, NEW a \in Nat PROVE AddDummies(r, k, a) \in Conn
<1>1. PICK dummy \in MonPkt : dummy = [seq |-> 0, ack |-> a, gobble |-> TRUE, real |-> FALSE]
  BY DEF MonPkt
<1>2. PICK all : all = [i \in 1..k |-> dummy]
  OBVIOUS
<1>3. all \in Seq(MonPkt)
  BY <1>2
<1>4. r.open \o all \in Seq(MonPkt)
  BY <1>3, ConnFields, ConcatProperties
<1>5. PICK open \in Seq(MonPkt) : open = r.open \o all
  BY <1>4
<1>6. [r EXCEPT !.open = open] \in Conn
  BY OpenSet
<1>7. AddDummies(r, k, a) = IF AddOpen(r, dummy) = r THEN r ELSE [r EXCEPT !.open = open]
  BY <1>1, <1>2, <1>5 DEF AddDummies
<1>. QED
  BY <1>6, <1>7

LEMMA AddExpectedTyped ==
    ASSUME NEW r \in Conn, NEW p \in Bounded, NEW e,
           e.ack \in Nat, e.gobble \in BOOLEAN, e.extra \in Nat
    PROVE  AddExpected(r, p, e) \in Conn
<1>1. PICK m \in MonPkt : m = [seq |-> p.seq, ack |-> e.ack, gobble |-> e.gobble, real |-> TRUE]
  <2>1. p.seq \in Nat
    BY BoundedPacket
  <2>2. PICK s \in Nat, a \in Nat, g \in BOOLEAN, yes \in BOOLEAN :
            s = p.seq /\ a = e.ack /\ g = e.gobble /\ yes = TRUE
    BY <2>1
  <2>3. [seq |-> s, ack |-> a, gobble |-> g, real |-> yes] \in MonPkt
    BY DEF MonPkt
  <2>4. [seq |-> p.seq, ack |-> e.ack, gobble |-> e.gobble, real |-> TRUE]
            = [seq |-> s, ack |-> a, gobble |-> g, real |-> yes]
    BY <2>2, Zenon
  <2>. QED
    BY <2>3, <2>4
<1>2. PICK n \in Nat : n = p.seq + p.len
  BY BoundedPacket
<1>3. PICK q : q = [r EXCEPT !.highest = n]
  OBVIOUS
<1>4. q \in Conn
  BY <1>3 DEF Conn
<1>5. AddExpected(r, p, e) = AddDummies(AddOpen(q, m), e.extra, e.ack)
  BY <1>1, <1>2, <1>3 DEF AddExpected
<1>. QED
  BY <1>4, <1>5, AddOpenTyped, AddDummiesTyped

LEMMA WithoutIndexTyped ==
    ASSUME NEW S, NEW s \in Seq(S), NEW i \in 1..Len(s) PROVE WithoutIndex(s, i) \in Seq(S)
<1>1. PICK n \in Nat : n = Len(s) /\ i \in 1..n
  BY LenProperties
<1>2. \A k \in 1..n : s[k] \in S
  BY <1>1, ElementOfSeq
<1>3. PICK a \in Int, b \in Int : a = i - 1 /\ b = i + 1
  BY <1>1
<1>4. (\A k \in 1..a : s[k] \in S) /\ (\A k \in b..n : s[k] \in S)
  BY <1>1, <1>2, <1>3
<1>5. SubSeq(s, 1, a) \in Seq(S) /\ SubSeq(s, b, n) \in Seq(S)
  BY <1>1, <1>4, SubSeqProperties
<1>6. SubSeq(s, 1, a) \o SubSeq(s, b, n) \in Seq(S)
  BY <1>5, ConcatProperties
<1>. QED
  BY <1>1, <1>3, <1>6 DEF WithoutIndex

LEMMA PurgeTyped ==
    ASSUME NEW open \in Seq(MonPkt), NEW a \in Nat PROVE PurgeOldAcks(open, a) \in Seq(MonPkt)
<1>1. PICK n \in Nat : n = Len(open)
  BY LenProperties
<1>2. \A k \in 1..n : open[k] \in MonPkt
  BY <1>1, ElementOfSeq
<1>3. PICK keep : keep = {i \in 1..n : \E j \in 1..i : open[j].ack >= a}
  OBVIOUS
<1>4. CASE keep = {}
  BY <1>1, <1>3, <1>4, EmptySeq DEF PurgeOldAcks
<1>5. CASE keep # {}
  <2>1. keep \in SUBSET Nat
    BY <1>3
  <2>2. PICK m : m = Min(keep) /\ m \in keep
    BY <1>5, <2>1, MinProperties
  <2>3. m \in 1..n
    BY <1>3, <2>2
  <2>4. m \in Int /\ \A k \in m..n : open[k] \in MonPkt
    BY <1>1, <1>2, <2>3
  <2>5. SubSeq(open, m, n) \in Seq(MonPkt)
    BY <1>1, <2>4, SubSeqProperties
  <2>. QED
    BY <1>1, <1>3, <1>5, <2>2, <2>5 DEF PurgeOldAcks
<1>. QED
  BY <1>4, <1>5

LEMMA ApplyMatchTyped ==
    ASSUME NEW r \in Conn, NEW i \in 1..Len(r.open), NEW late PROVE ApplyMatch(r, i, late) \in Conn
<1>1. PICK m \in MonPkt : m = r.open[i]
  BY ConnFields, ElementOfSeq
<1>2. PICK rest \in Seq(MonPkt) : rest = WithoutIndex(r.open, i)
  BY ConnFields, WithoutIndexTyped
<1>3. m.ack \in Nat
  BY DEF MonPkt
<1>4. PICK matched \in Seq(MonPkt) :
          matched = IF m.real /\ m.ack \notin r.rt /\ m.seq \notin late
                    THEN Append(r.matched, m) ELSE r.matched
  <2>1. PICK t \in Seq(MonPkt) : t = r.matched
    BY ConnFields
  <2>2. Append(t, m) \in Seq(MonPkt)
    BY PushProperties
  <2>. QED
    BY <2>1, <2>2
<1>5. PICK open \in Seq(MonPkt) :
          open = IF m.real /\ ~m.gobble THEN PurgeOldAcks(rest, m.ack) ELSE rest
  BY <1>3, PurgeTyped
<1>6. ApplyMatch(r, i, late) = [r EXCEPT !.matched = matched, !.open = open]
  BY <1>1, <1>2, <1>4, <1>5 DEF ApplyMatch
<1>7. [r EXCEPT !.matched = matched, !.open = open] \in Conn
  BY DEF Conn
<1>. QED
  BY <1>6, <1>7

LEMMA FirstMatch ==
    ASSUME NEW r \in Conn, NEW a, Matches(r, a) # {}
    PROVE  Min(Matches(r, a)) \in 1..Len(r.open)
<1>1. PICK n \in Nat : n = Len(r.open)
  BY ConnFields, LenProperties
<1>2. Matches(r, a) \in SUBSET (1..n)
  BY <1>1 DEF Matches
<1>3. Matches(r, a) \in SUBSET Nat
  BY <1>2
<1>4. Min(Matches(r, a)) \in Matches(r, a)
  BY <1>3, MinProperties
<1>. QED
  BY <1>1, <1>2, <1>4

LEMMA StampedTyped ==
    ASSUME NEW q \in Seq(Ack), NEW c, NEW seqs \in SUBSET Nat
    PROVE  StampedAfter(q, c, seqs) \in Seq(Ack)
<1>1. PICK n \in Nat : n = Len(q)
  BY LenProperties
<1>2. ASSUME NEW i \in 1..n
      PROVE  (IF q[i].c = c THEN [q[i] EXCEPT !.late = @ \cup seqs] ELSE q[i]) \in Ack
  <2>1. PICK a \in Ack : a = q[i]
    BY <1>1, ElementOfSeq
  <2>2. PICK late \in SUBSET Nat : late = a.late \cup seqs
    BY DEF Ack
  <2>3. [a EXCEPT !.late = late] \in Ack
    BY DEF Ack
  <2>. QED
    BY <2>1, <2>2, <2>3
<1>3. PICK r : r = StampedAfter(q, c, seqs)
  OBVIOUS
<1>4. r = [i \in 1..n |-> IF q[i].c = c THEN [q[i] EXCEPT !.late = @ \cup seqs] ELSE q[i]]
  BY <1>1, <1>3 DEF StampedAfter
<1>5. r \in [1..n -> Ack]
  BY <1>2, <1>4
<1>. QED
  BY <1>3, <1>5

\* The host asks for the first slice it has not got.
LEMMA MissingTyped ==
    ASSUME NEW s \in SUBSET (0..(MaxSeq - 1)) PROVE NextMissing(s) \in 0..MaxSeq
<1>1. MaxSeq \in Nat
  BY Numbers
<1>2. PICK T : T = {i \in 0..MaxSeq : i \notin s}
  OBVIOUS
<1>3. T \in SUBSET Nat /\ MaxSeq \in T
  BY <1>1, <1>2
<1>4. Min(T) \in T
  BY <1>3, MinProperties
<1>. QED
  BY <1>2, <1>4 DEF NextMissing


-----------------------------------------------------------------------------
(* Queues of packets.                                                      *)

LEMMA TakeFront ==
    ASSUME NEW S, NEW s \in Seq(S), s # <<>>
    PROVE  s[1] \in S /\ Tail(s) \in Seq(S) /\ Len(s) \in Nat \ {0} /\ Len(Tail(s)) = Len(s) - 1
  BY HeadTailProperties, EmptySeq, LenProperties

LEMMA PutBack ==
    ASSUME NEW S, NEW s \in Seq(S), NEW o \in S
    PROVE  Append(s, o) \in Seq(S) /\ Len(s) \in Nat /\ Len(Append(s, o)) = Len(s) + 1
  BY AppendProperties, LenProperties

\* A queue of each host: a packet put at the end of one, or taken from its front.
LEMMA QueuePushed ==
    ASSUME NEW S, NEW Q \in [Hosts -> Seq(S)], NEW h \in Hosts, NEW o \in S,
           NEW R, R = [Q EXCEPT ![h] = Append(@, o)]
    PROVE  R \in [Hosts -> Seq(S)]
<1>1. PICK q \in Seq(S) : q = Q[h]
  OBVIOUS
<1>2. Append(q, o) \in Seq(S)
  BY PutBack
<1>. QED
  BY <1>1, <1>2

LEMMA QueuePopped ==
    ASSUME NEW S, NEW Q \in [Hosts -> Seq(S)], NEW h \in Hosts, Q[h] # <<>>,
           NEW R, R = [Q EXCEPT ![h] = Tail(@)]
    PROVE  R \in [Hosts -> Seq(S)]
<1>1. PICK q \in Seq(S) : q = Q[h] /\ q # <<>>
  OBVIOUS
<1>2. Tail(q) \in Seq(S)
<2>1. q \in Seq(S) /\ q # <<>>
  BY <1>1
<2>. QED
  BY <2>1, HeadTailProperties
<1>. QED
  BY <1>1, <1>2

LEMMA ShapeTyped ==
    ASSUME Queues, NEW h \in Hosts, NEW p \in Bounded, NEW post, Shape(h, p, post)
    PROVE  /\ shapeQ' \in [Hosts -> Seq(Bounded)]
           /\ shapeDue' \in [Hosts -> Nat] /\ postDue' \in [Hosts -> Nat]
<1>1. shapeQ' \in [Hosts -> Seq(Bounded)]
  BY QueuePushed, Zenon DEF Shape, Queues
<1>2. CASE SliceDelay > 0 /\ ~post
  <2>1. shapeDue' = [shapeDue EXCEPT ![h] = @ + 1] /\ postDue' = postDue
    BY <1>2 DEF Shape
  <2>. QED
    BY <1>1, <2>1 DEF Queues
<1>3. CASE ~ (SliceDelay > 0 /\ ~post)
  <2>1. postDue' = [postDue EXCEPT ![h] = @ + 1] /\ shapeDue' = shapeDue
    BY <1>3, Zenon DEF Shape
  <2>. QED
    BY <1>1, <2>1 DEF Queues
<1>. QED
  BY <1>2, <1>3

\* The part of the invariant that a shaped packet may disturb.
LEMMA ShapeServed ==
    ASSUME Queues, QueueHasTimers, NEW h \in Hosts, NEW p \in Bounded, NEW post,
           Shape(h, p, post), timer' = timer
    PROVE  QueueHasTimers'
<1>1. /\ shapeQ \in [Hosts -> Seq(Bounded)]
      /\ shapeDue \in [Hosts -> Nat] /\ postDue \in [Hosts -> Nat]
  BY DEF Queues
<1>2. shapeQ' = [shapeQ EXCEPT ![h] = Append(@, p)]
  BY DEF Shape
<1>3. PICK n \in Nat : Len(shapeQ[h]) = n /\ Len(shapeQ'[h]) = n + 1
  <2>1. shapeQ[h] \in Seq(Bounded)
    BY <1>1
  <2>2. shapeQ'[h] = Append(shapeQ[h], p)
    BY <1>1, <1>2
  <2>. QED
    BY <2>1, <2>2, PutBack
<1>4. CASE SliceDelay > 0 /\ ~post
  <2>1. shapeDue' = [shapeDue EXCEPT ![h] = @ + 1] /\ postDue' = postDue
    BY <1>4 DEF Shape
  <2>2. ASSUME NEW g \in Hosts, g # h
        PROVE  shapeQ'[g] = shapeQ[g] /\ shapeDue'[g] = shapeDue[g]
    BY <1>1, <1>2, <2>1, <2>2
  <2>3. shapeDue'[h] = shapeDue[h] + 1
    BY <1>1, <2>1
  <2>. QED
    BY <1>1, <1>3, <2>1, <2>2, <2>3 DEF QueueHasTimers
<1>5. CASE ~ (SliceDelay > 0 /\ ~post)
  <2>1. postDue' = [postDue EXCEPT ![h] = @ + 1] /\ shapeDue' = shapeDue
    BY <1>5, Zenon DEF Shape
  <2>2. ASSUME NEW g \in Hosts, g # h
        PROVE  shapeQ'[g] = shapeQ[g] /\ postDue'[g] = postDue[g]
    BY <1>1, <1>2, <2>1, <2>2
  <2>3. postDue'[h] > 0
    BY <1>1, <2>1
  <2>. QED
    BY <2>1, <2>2, <2>3 DEF QueueHasTimers
<1>. QED
  BY <1>4, <1>5


-----------------------------------------------------------------------------
(* What a packet of the sender does.                                       *)

LEMMA SlicePacketTyped ==
    ASSUME TypeInv, NEW h \in Hosts, NEW p \in Bounded, SlicePacket(h, p)
    PROVE  /\ shapeQ' \in [Hosts -> Seq(Bounded)]
           /\ shapeDue' \in [Hosts -> Nat] /\ postDue' \in [Hosts -> Nat]
           /\ conn' \in [Conns -> Conn \cup {None}]
           /\ burst' \in Bursts \cup {None} /\ ackQ' \in Seq(Ack)
<1>1. /\ shapeQ \in [Hosts -> Seq(Bounded)]
      /\ shapeDue \in [Hosts -> Nat] /\ postDue \in [Hosts -> Nat]
      /\ conn \in [Conns -> Conn \cup {None}]
      /\ burst \in Bursts \cup {None} /\ ackQ \in Seq(Ack)
  BY DEF TypeInv, Queues, Records
<1>2. p.c \in Conns /\ p.seq \in Nat /\ p.len \in Nat
  BY BoundedPacket
<1>3. CASE Shape(h, p, FALSE) /\ UNCHANGED <<conn, burst, ackQ>>
  <2>1. UNCHANGED <<conn, burst, ackQ>>
    BY <1>3
  <2>2. /\ shapeQ' \in [Hosts -> Seq(Bounded)]
        /\ shapeDue' \in [Hosts -> Nat] /\ postDue' \in [Hosts -> Nat]
    BY <1>3, ShapeTyped DEF TypeInv
  <2>. QED
    BY <1>1, <2>1, <2>2
<1>4. CASE /\ Shape(h, p, FALSE) /\ IsRetransmission(conn[p.c], p)
           /\ conn' = [conn EXCEPT ![p.c] = NoteRetransmission(@, p)]
           /\ UNCHANGED <<burst, ackQ>>
  <2>1. UNCHANGED <<burst, ackQ>>
    BY <1>4
  <2>2. /\ shapeQ' \in [Hosts -> Seq(Bounded)]
        /\ shapeDue' \in [Hosts -> Nat] /\ postDue' \in [Hosts -> Nat]
    BY <1>4, ShapeTyped DEF TypeInv
  <2>3. PICK r \in Conn : r = conn[p.c]
    BY <1>1, <1>2, <1>4 DEF IsRetransmission
  <2>4. PICK rt \in SUBSET Nat : rt = r.rt \cup {p.seq + p.len}
    <3>1. PICK t \in SUBSET Nat : t = r.rt
      BY ConnFields
    <3>2. PICK e \in Nat : e = p.seq + p.len
      BY <1>2
    <3>3. t \cup {e} \in SUBSET Nat
      OBVIOUS
    <3>. QED
      BY <3>1, <3>2, <3>3
  <2>5. [r EXCEPT !.rt = rt] \in Conn
    BY DEF Conn
  <2>6. NoteRetransmission(r, p) = [r EXCEPT !.rt = rt]
    BY <2>4 DEF NoteRetransmission
  <2>7. conn' \in [Conns -> Conn \cup {None}]
    BY <1>1, <1>4, <2>3, <2>5, <2>6
  <2>. QED
    BY <1>1, <2>1, <2>2, <2>7
<1>5. CASE /\ p.len > 1
           /\ burst' = [base |-> p.seq, n |-> p.len, shaped |-> FALSE,
                        todo |-> StingOrder(Slices(p))]
           /\ ackQ' = StampedAfter(ackQ, p.c, p.seq..(p.seq + p.len - 1))
           /\ UNCHANGED <<shapeQ, shapeDue, postDue, conn>>
  <2>1. UNCHANGED <<shapeQ, shapeDue, postDue, conn>>
    BY <1>5
  <2>2. PICK q \in Seq(Bounded) : q = Slices(p) /\ q # <<>>
    <3>1. Slices(p) \in Seq(Bounded) /\ Len(Slices(p)) > 1
      BY <1>5, SlicesProperties
    <3>2. Len(<<>>) = 0
      OBVIOUS
    <3>. QED
      BY <3>1, <3>2
  <2>3. PICK todo \in Seq(Bounded) \ {<<>>} : todo = StingOrder(q)
    BY <2>2, OrderProperties
  <2>4. burst' \in Bursts
    BY <1>2, <1>5, <2>2, <2>3 DEF Bursts
  <2>5. PICK seqs \in SUBSET Nat : seqs = p.seq..(p.seq + p.len - 1)
    BY <1>2
  <2>6. ackQ' \in Seq(Ack)
    BY <1>1, <1>5, <2>5, StampedTyped
  <2>. QED
    BY <1>1, <2>1, <2>4, <2>6
<1>6. p.len <= 1 \/ p.len > 1
  BY <1>2
<1>. QED
  BY <1>3, <1>4, <1>5, <1>6 DEF SlicePacket


LEMMA ProcessPacketTyped ==
    ASSUME TypeInv, NEW p \in Bounded, ProcessPacketWAN(p)
    PROVE  Records' /\ Queues' /\ ackQ' \in Seq(Ack)
<1>1. PICK h \in Hosts : h = HostOf[p.c]
  BY BoundedPacket
<1>2. UNCHANGED <<summaries, timer>>
  BY DEF ProcessPacketWAN
<1>3. /\ Records /\ Queues /\ ackQ \in Seq(Ack)
      /\ shapeQ \in [Hosts -> Seq(Bounded)] /\ line \in [Hosts -> Seq(Bounded)]
      /\ shapeDue \in [Hosts -> Nat] /\ postDue \in [Hosts -> Nat]
      /\ burst \in Bursts \cup {None} /\ timer \in Timers
      /\ validate \in [Hosts -> {"none", "ripps", "resolved"}]
      /\ conn \in [Conns -> Conn \cup {None}]
      /\ summaries \in [Hosts -> Seq(Nat)]
  BY DEF TypeInv, Queues, Records
<1>4. CASE Shape(h, p, TRUE) /\ UNCHANGED <<line, validate, conn, burst, ackQ>>
  <2>1. /\ shapeQ' \in [Hosts -> Seq(Bounded)]
        /\ shapeDue' \in [Hosts -> Nat] /\ postDue' \in [Hosts -> Nat]
    BY <1>3, <1>4, ShapeTyped
  <2>. QED
    BY <1>2, <1>3, <1>4, <2>1 DEF Queues, Records
<1>5. CASE /\ line' = [line EXCEPT ![h] = Append(@, p)]
           /\ UNCHANGED <<shapeQ, shapeDue, postDue, validate, conn, burst, ackQ>>
  <2>1. line' \in [Hosts -> Seq(Bounded)]
    BY <1>3, <1>5, QueuePushed
  <2>. QED
    BY <1>2, <1>3, <1>5, <2>1 DEF Queues, Records
<1>6. CASE /\ validate' = [validate EXCEPT ![h] = "ripps"]
           /\ SlicePacket(h, p) /\ UNCHANGED line
  <2>1. /\ shapeQ' \in [Hosts -> Seq(Bounded)]
        /\ shapeDue' \in [Hosts -> Nat] /\ postDue' \in [Hosts -> Nat]
        /\ conn' \in [Conns -> Conn \cup {None}]
        /\ burst' \in Bursts \cup {None} /\ ackQ' \in Seq(Ack)
    BY <1>6, SlicePacketTyped
  <2>2. validate' \in [Hosts -> {"none", "ripps", "resolved"}]
    BY <1>3, <1>6
  <2>. QED
    BY <1>2, <1>3, <1>6, <2>1, <2>2 DEF Queues, Records
<1>. QED
  BY <1>1, <1>4, <1>5, <1>6 DEF ProcessPacketWAN

LEMMA ProcessPacketServed ==
    ASSUME TypeInv, QueueHasTimers, NEW p \in Bounded, ProcessPacketWAN(p)
    PROVE  QueueHasTimers'
<1>1. PICK h \in Hosts : h = HostOf[p.c]
  BY BoundedPacket
<1>2. Queues /\ timer' = timer
  BY DEF TypeInv, ProcessPacketWAN
<1>3. CASE Shape(h, p, TRUE) \/ Shape(h, p, FALSE)
  BY <1>2, <1>3, ShapeServed
<1>4. CASE UNCHANGED <<shapeQ, shapeDue, postDue>>
  BY <1>2, <1>4 DEF QueueHasTimers
<1>. QED
  BY <1>1, <1>3, <1>4 DEF ProcessPacketWAN, SlicePacket

\* A packet that a sender may send or send again is within its numbers.
LEMMA SendersPacket ==
    ASSUME TypeInv, NEW c \in Conns
    PROVE  /\ \A n \in Sizes[c] : Send(c, n) =>
                 [c |-> c, kind |-> "data", seq |-> sent[c], len |-> n] \in Bounded
           /\ \A kind \in {"data", "flag"} :
                 [c |-> c, kind |-> kind, seq |-> sent[c], len |-> 0] \in Bounded
           /\ Retransmit(c) =>
                 [c |-> c, kind |-> "data", seq |-> acked[c], len |-> sent[c] - acked[c]] \in Bounded
<1>1. PICK s \in 0..MaxSeq : s = sent[c]
  BY DEF TypeInv, Ends
<1>2. PICK a \in Nat : a = acked[c]
  BY DEF TypeInv, Ends
<1>3. MaxSeq \in Nat /\ Sizes[c] \subseteq Nat \ {0}
  BY Numbers
<1>4. ASSUME NEW n \in Sizes[c], Send(c, n)
      PROVE  [c |-> c, kind |-> "data", seq |-> s, len |-> n] \in Bounded
  <2>1. s \in Nat /\ n \in Nat /\ s + n <= MaxSeq
    BY <1>1, <1>3, <1>4 DEF Send
  <2>. QED
    BY <2>1, PacketMade
<1>5. ASSUME NEW kind \in {"data", "flag"}
      PROVE  [c |-> c, kind |-> kind, seq |-> s, len |-> 0] \in Bounded
  <2>1. s \in Nat /\ 0 \in Nat /\ s + 0 <= MaxSeq
    BY <1>1, <1>3
  <2>. QED
    BY <2>1, PacketMade
<1>6. ASSUME Retransmit(c)
      PROVE  [c |-> c, kind |-> "data", seq |-> a, len |-> s - a] \in Bounded
  <2>1. PICK n \in Nat : n = s - a /\ a + n <= MaxSeq
    BY <1>1, <1>2, <1>3, <1>6 DEF Retransmit
  <2>2. [c |-> c, kind |-> "data", seq |-> a, len |-> n] \in Bounded
    BY <2>1, PacketMade
  <2>. QED
    BY <2>1, <2>2
<1>. QED
  BY <1>1, <1>2, <1>4, <1>5, <1>6


-----------------------------------------------------------------------------
(* Each action keeps the types.                                            *)

LEMMA SendTyped ==
    ASSUME TypeInv, NEW c \in Conns,
           \/ \E n \in Sizes[c] : Send(c, n)
           \/ \E kind \in {"data", "flag"} : SendControl(c, kind)
           \/ Retransmit(c)
    PROVE  TypeInv'
<1>1. MaxSeq \in Nat /\ Sizes[c] \subseteq Nat \ {0} /\ lan' = lan
  BY Numbers DEF Send, SendControl, Retransmit, ProcessPacketWAN
<1>2. CASE \E n \in Sizes[c] : Send(c, n)
  <2>1. PICK n \in Sizes[c] : Send(c, n)
    BY <1>2
  <2>2. PICK p \in Bounded : p = [c |-> c, kind |-> "data", seq |-> sent[c], len |-> n]
    BY <2>1, SendersPacket
  <2>3. ProcessPacketWAN(p)
    BY <2>1, <2>2 DEF Send
  <2>4. Records' /\ Queues' /\ ackQ' \in Seq(Ack)
    BY <2>3, ProcessPacketTyped
  <2>5. sent' \in [Conns -> 0..MaxSeq]
    <3>1. sent \in [Conns -> 0..MaxSeq] /\ sent' = [sent EXCEPT ![c] = @ + n]
      BY <2>1 DEF Send, TypeInv, Ends
    <3>2. sent[c] + n \in 0..MaxSeq
      BY <1>1, <2>1, <3>1 DEF Send
    <3>. QED
      BY <3>1, <3>2
  <2>6. UNCHANGED <<acked, dups, got, fin, losses, extras, replied, sting>>
    BY <2>1 DEF Send
  <2>. QED
    BY <1>1, <2>4, <2>5, <2>6 DEF TypeInv, Ends
<1>3. CASE \E kind \in {"data", "flag"} : SendControl(c, kind)
  <2>1. PICK kind \in {"data", "flag"} : SendControl(c, kind)
    BY <1>3
  <2>2. PICK p \in Bounded : p = [c |-> c, kind |-> kind, seq |-> sent[c], len |-> 0]
    BY SendersPacket
  <2>3. ProcessPacketWAN(p)
    BY <2>1, <2>2 DEF SendControl
  <2>4. Records' /\ Queues' /\ ackQ' \in Seq(Ack)
    BY <2>3, ProcessPacketTyped
  <2>5. /\ UNCHANGED <<sent, acked, dups, got, fin, losses, replied, sting>>
        /\ extras' = extras + 1
    BY <2>1 DEF SendControl
  <2>. QED
    BY <1>1, <2>4, <2>5 DEF TypeInv, Ends
<1>4. CASE Retransmit(c)
  <2>1. PICK p \in Bounded :
            p = [c |-> c, kind |-> "data", seq |-> acked[c], len |-> sent[c] - acked[c]]
    BY <1>4, SendersPacket
  <2>2. ProcessPacketWAN(p)
    BY <1>4, <2>1 DEF Retransmit
  <2>3. Records' /\ Queues' /\ ackQ' \in Seq(Ack)
    BY <2>2, ProcessPacketTyped
  <2>4. UNCHANGED others
    BY <1>4 DEF Retransmit
  <2>. QED
    BY <1>1, <2>3, <2>4 DEF TypeInv, Ends, others
<1>. QED
  BY <1>2, <1>3, <1>4

\* The front of the burst is a packet, and its host is monitored.
LEMMA BurstFields ==
    ASSUME Queues, burst # None
    PROVE  /\ burst \in Bursts /\ burst.base \in Nat /\ burst.n \in Nat \ {0}
           /\ burst.todo \in Seq(Bounded) /\ burst.todo # <<>>
           /\ burst.todo[1] \in Bounded /\ HostOf[burst.todo[1].c] \in Hosts
<1>1. burst \in Bursts /\ burst.base \in Nat /\ burst.n \in Nat \ {0}
      /\ burst.todo \in Seq(Bounded) /\ burst.todo # <<>>
  BY DEF Queues, Bursts
<1>2. burst.todo[1] \in Bounded
  <2>1. PICK todo : todo = burst.todo
    OBVIOUS
  <2>2. todo \in Seq(Bounded) /\ todo # <<>>
    BY <1>1, <2>1
  <2>3. todo[1] \in Bounded
    BY <2>2, TakeFront, Zenon
  <2>. QED
    BY <2>1, <2>3
<1>. QED
  BY <1>1, <1>2, BoundedPacket

LEMMA ShapeSliceTyped ==
    ASSUME TypeInv, ShapeSlice PROVE TypeInv'
<1>1. /\ Queues /\ burst # None
      /\ UNCHANGED <<validate, summaries, conn, timer, lan, line, ackQ, others>>
  BY DEF TypeInv, ShapeSlice
<1>2. PICK p \in Bounded, h \in Hosts : Shape(h, p, FALSE)
  BY <1>1, BurstFields DEF ShapeSlice
<1>3. /\ shapeQ' \in [Hosts -> Seq(Bounded)]
      /\ shapeDue' \in [Hosts -> Nat] /\ postDue' \in [Hosts -> Nat]
  BY <1>1, <1>2, ShapeTyped
<1>4. burst' \in Bursts
  <2>1. burst' = [burst EXCEPT !.shaped = TRUE]
    BY DEF ShapeSlice
  <2>. QED
    BY <1>1, <2>1, BurstFields DEF Bursts
<1>5. Queues'
  BY <1>1, <1>3, <1>4 DEF Queues
<1>. QED
  BY <1>1, <1>5 DEF TypeInv, Records, Ends, others

LEMMA BurstAck ==
    ASSUME Queues, Ends, burst # None, NEW p \in Bounded, NEW e,
           e = ExpectedAck(burst.n - Len(burst.todo), burst.n, burst.base, p)
    PROVE  e.ack \in Nat /\ e.gobble \in BOOLEAN /\ e.extra \in Nat
<1>1. PICK n \in Nat \ {0}, base \in Nat, todo \in Seq(Bounded) :
          n = burst.n /\ base = burst.base /\ todo = burst.todo
  BY BurstFields
<1>2. PICK l \in Nat : l = Len(todo)
  BY LenProperties
<1>3. PICK j \in Int : j = n - l
  OBVIOUS
<1>4. sting \in StingModes
  BY DEF Ends
<1>5. e = ExpectedAck(j, n, base, p)
  BY <1>1, <1>2, <1>3
<1>. QED
  BY <1>4, <1>5, ExpectedProperties

LEMMA ExpectAckTyped ==
    ASSUME TypeInv, ExpectAck PROVE TypeInv'
<1>1. /\ Queues /\ Records /\ Ends /\ burst # None /\ ackQ \in Seq(Ack)
      /\ UNCHANGED <<hostVars, timer, lan, line, ackQ, others>>
  BY DEF TypeInv, ExpectAck
<1>2. PICK p \in Bounded : p = burst.todo[1]
  BY <1>1, BurstFields
<1>3. PICK e : e = ExpectedAck(burst.n - Len(burst.todo), burst.n, burst.base, p)
  OBVIOUS
<1>4. e.ack \in Nat /\ e.gobble \in BOOLEAN /\ e.extra \in Nat
  BY <1>1, <1>3, BurstAck
<1>5. PICK r \in Conn : r = IF conn[p.c] = None THEN NewConn ELSE conn[p.c]
  <2>1. conn[p.c] \in Conn \cup {None}
    BY <1>1, BoundedPacket DEF Records
  <2>. QED
    BY <2>1, NewConnTyped
<1>6. PICK q \in Conn : q = AddExpected(r, p, e)
  BY <1>4, AddExpectedTyped
<1>7. conn' \in [Conns -> Conn \cup {None}]
  <2>1. conn' = IF validate[HostOf[p.c]] = "resolved" THEN conn ELSE [conn EXCEPT ![p.c] = q]
    BY <1>2, <1>3, <1>5, <1>6 DEF ExpectAck
  <2>2. conn \in [Conns -> Conn \cup {None}]
    BY <1>1 DEF Records
  <2>. QED
    BY <2>1, <2>2
<1>8. burst' \in Bursts \cup {None}
  <2>1. CASE Len(burst.todo) = 1
    BY <2>1 DEF ExpectAck
  <2>2. CASE Len(burst.todo) # 1
    <3>1. PICK todo \in Seq(Bounded) : todo = Tail(burst.todo) /\ todo # <<>>
      <4>1. PICK u : u = burst.todo
        OBVIOUS
      <4>2. u \in Seq(Bounded) /\ u # <<>> /\ Len(u) # 1
        BY <1>1, <2>2, <4>1, BurstFields
      <4>3. Tail(u) \in Seq(Bounded) /\ Len(u) \in Nat \ {0} /\ Len(Tail(u)) = Len(u) - 1
        BY <4>2, TakeFront, Zenon
      <4>4. Len(Tail(u)) # 0
        BY <4>2, <4>3
      <4>5. Len(<<>>) = 0
        OBVIOUS
      <4>6. Tail(u) # <<>>
        BY <4>4, <4>5, Zenon
      <4>. QED
        BY <4>1, <4>3, <4>6
    <3>2. burst' = [burst EXCEPT !.todo = todo, !.shaped = FALSE]
      BY <2>2, <3>1 DEF ExpectAck
    <3>. QED
      BY <1>1, <3>1, <3>2, BurstFields DEF Bursts
  <2>. QED
    BY <2>1, <2>2
<1>9. Queues'
  BY <1>1, <1>8 DEF Queues, hostVars
<1>10. Records'
  BY <1>1, <1>7 DEF Records, hostVars
<1>. QED
  BY <1>1, <1>9, <1>10 DEF TypeInv, Ends, others


LEMMA CloseTyped ==
    ASSUME Records, NEW c \in Conns, CloseConnection(c)
    PROVE  conn' \in [Conns -> Conn \cup {None}] /\ summaries' \in [Hosts -> Seq(Nat)]
<1>1. summaries \in [Hosts -> Seq(Nat)] /\ conn \in [Conns -> Conn \cup {None}]
  BY DEF Records
<1>2. CASE conn[c] = None
  BY <1>1, <1>2 DEF CloseConnection
<1>3. CASE conn[c] # None
  <2>1. PICK r \in Conn : r = conn[c]
    BY <1>1, <1>3
  <2>2. PICK n \in Nat : n = Len(r.matched)
    BY ConnFields, LenProperties
  <2>3. PICK h \in Hosts : h = HostOf[c]
    BY Numbers
  <2>4. /\ conn' = [conn EXCEPT ![c] = None]
        /\ summaries' = IF r.matched = <<>> THEN summaries
                        ELSE [summaries EXCEPT ![h] = Append(@, n)]
    BY <1>3, <2>1, <2>2, <2>3 DEF CloseConnection
  <2>5. [summaries EXCEPT ![h] = Append(@, n)] \in [Hosts -> Seq(Nat)]
    BY <1>1, QueuePushed
  <2>. QED
    BY <1>1, <2>4, <2>5
<1>. QED
  BY <1>2, <1>3

LEMMA ForwardTyped ==
    ASSUME Ends, NEW a \in Ack, Forward(a)
    PROVE  acked' \in [Conns -> Nat] /\ dups' \in [Conns -> Nat]
<1>1. acked \in [Conns -> Nat] /\ dups \in [Conns -> Nat]
  BY DEF Ends
<1>2. a.c \in Conns /\ a.ack \in Nat
  BY DEF Ack
<1>3. PICK x \in Nat : x = acked[a.c]
  BY <1>1, <1>2
<1>4. Max({x, a.ack}) \in Nat
  <2>1. PICK y \in Nat : y = a.ack
    BY <1>2
  <2>2. \E m \in {x, y} : \A k \in {x, y} : m >= k
    OBVIOUS
  <2>3. Max({x, y}) \in {x, y}
    BY <2>2 DEF Max
  <2>. QED
    BY <2>1, <2>3
<1>5. acked' \in [Conns -> Nat]
  <2>1. acked' = [acked EXCEPT ![a.c] = Max({x, a.ack})]
    BY <1>3 DEF Forward
  <2>. QED
    BY <1>1, <1>4, <2>1
<1>6. dups' \in [Conns -> Nat]
  <2>1. PICK b \in Nat : b = dups[a.c]
    BY <1>1, <1>2
  <2>2. PICK n \in Nat : n = IF a.ack > x THEN 0
                                  ELSE IF a.ack = x /\ a.pure /\ ~a.fin THEN b + 1 ELSE b
    OBVIOUS
  <2>3. dups' = [dups EXCEPT ![a.c] = n]
    BY <1>3, <2>1, <2>2 DEF Forward
  <2>. QED
    BY <1>1, <2>3
<1>. QED
  BY <1>5, <1>6

\* The record that is made of an ack on its way through the LAN thread.
LEMMA LanFields ==
    ASSUME Ends, lan # None
    PROVE  /\ lan \in Lan /\ lan.ack \in Ack /\ lan.gobble \in BOOLEAN /\ lan.counted \in BOOLEAN
           /\ lan.ack.c \in Conns /\ HostOf[lan.ack.c] \in Hosts
  BY Numbers DEF Ends, Lan, Ack

LEMMA ProcessAckTyped ==
    ASSUME TypeInv, ProcessAck PROVE TypeInv'
<1>1. /\ Queues /\ Records /\ Ends /\ ackQ \in Seq(Ack) /\ ackQ # <<>> /\ ackQ' = Tail(ackQ)
      /\ UNCHANGED <<hostVars, burst, timer, line, sent, got, fin, losses, extras, replied, sting>>
  BY DEF TypeInv, ProcessAck
<1>2. PICK a \in Ack : a = ackQ[1]
  BY <1>1, TakeFront, Zenon
<1>3. ackQ' \in Seq(Ack)
  BY <1>1, TakeFront, Zenon
<1>4. PICK c \in Conns, h \in Hosts : c = a.c /\ h = HostOf[c]
  BY Numbers DEF Ack
<1>5. /\ conn \in [Conns -> Conn \cup {None}]
      /\ acked \in [Conns -> Nat] /\ dups \in [Conns -> Nat]
  BY <1>1 DEF Records, Ends
<1>6. PICK hit \in BOOLEAN : hit = (conn[c] # None /\ Matches(conn[c], a.ack) # {})
  OBVIOUS
<1>7. PICK cs : cs = IF hit THEN [conn EXCEPT ![c] = ApplyMatch(conn[c], Min(Matches(conn[c], a.ack)), a.late)]
                     ELSE conn
  OBVIOUS
<1>8. PICK g : g = (hit /\ conn[c].open[Min(Matches(conn[c], a.ack))].gobble)
  OBVIOUS
<1>9. cs \in [Conns -> Conn \cup {None}] /\ g \in BOOLEAN
  <2>1. CASE ~ hit
    BY <1>5, <1>7, <1>8, <2>1
  <2>2. CASE hit
    <3>1. PICK r \in Conn : r = conn[c]
      BY <1>5, <1>6, <2>2
    <3>2. PICK i \in 1..Len(r.open) : i = Min(Matches(r, a.ack))
      <4>1. Matches(r, a.ack) # {}
        BY <1>6, <2>2, <3>1
      <4>. QED
        BY <4>1, FirstMatch
    <3>3. ApplyMatch(r, i, a.late) \in Conn
      BY ApplyMatchTyped
    <3>4. cs = [conn EXCEPT ![c] = ApplyMatch(r, i, a.late)]
      BY <1>7, <2>2, <3>1, <3>2
    <3>5. r.open[i].gobble \in BOOLEAN
      <4>1. PICK open \in Seq(MonPkt) : open = r.open
        BY ConnFields
      <4>2. open[i] \in MonPkt
        BY <4>1, ElementOfSeq
      <4>. QED
        BY <4>1, <4>2 DEF MonPkt
    <3>6. g = r.open[i].gobble
      BY <1>8, <2>2, <3>1, <3>2, <3>5
    <3>. QED
      BY <1>5, <3>3, <3>4, <3>5, <3>6
  <2>. QED
    BY <2>1, <2>2
<1>10. CASE validate[h] = "none"
  <2>1. Forward(a) /\ UNCHANGED <<conn, lan>>
    BY <1>2, <1>4, <1>10, Zenon DEF ProcessAck
  <2>2. acked' \in [Conns -> Nat] /\ dups' \in [Conns -> Nat]
    BY <1>1, <2>1, ForwardTyped
  <2>. QED
    BY <1>1, <1>3, <2>1, <2>2 DEF TypeInv, Records, Queues, Ends, hostVars
<1>11. CASE validate[h] # "none"
  <2>1. /\ conn' = cs
        /\ lan' = [ack |-> a, gobble |-> g, counted |-> FALSE]
        /\ UNCHANGED <<acked, dups>>
    BY <1>2, <1>4, <1>6, <1>7, <1>8, <1>11, Zenon DEF ProcessAck
  <2>2. lan' \in Lan
    BY <1>9, <2>1 DEF Lan
  <2>. QED
    BY <1>1, <1>3, <1>9, <2>1, <2>2 DEF TypeInv, Records, Queues, Ends, hostVars
<1>. QED
  BY <1>10, <1>11

LEMMA MatchAckTyped ==
    ASSUME TypeInv, MatchAck PROVE TypeInv'
<1>1. /\ Queues /\ Records /\ Ends /\ ackQ \in Seq(Ack) /\ lan # None
      /\ UNCHANGED <<shapeQ, shapeDue, postDue, summaries, conn, burst, timer, line, ackQ,
                     sent, got, fin, losses, extras, replied, sting>>
  BY DEF TypeInv, MatchAck
<1>2. PICK a \in Ack : a = lan.ack
  BY <1>1, LanFields
<1>3. PICK h \in Hosts : h = HostOf[a.c]
  BY <1>1, <1>2, LanFields
<1>4. validate' \in [Hosts -> {"none", "ripps", "resolved"}]
  <2>1. validate' = validate \/ validate' = [validate EXCEPT ![h] = "resolved"]
    BY <1>2, <1>3 DEF MatchAck
  <2>. QED
    BY <1>1, <2>1 DEF Records
<1>5. lan' \in Lan \cup {None}
  <2>1. [lan EXCEPT !.counted = TRUE] \in Lan
    BY <1>1, LanFields DEF Lan
  <2>. QED
    BY <2>1 DEF MatchAck
<1>6. acked' \in [Conns -> Nat] /\ dups' \in [Conns -> Nat]
  <2>1. CASE UNCHANGED <<acked, dups>>
    BY <1>1, <2>1 DEF Ends
  <2>2. CASE Forward(a)
    BY <1>1, <2>2, ForwardTyped
  <2>. QED
    BY <1>2, <2>1, <2>2 DEF MatchAck
<1>. QED
  BY <1>1, <1>4, <1>5, <1>6 DEF TypeInv, Records, Queues, Ends

LEMMA TerminateTyped ==
    ASSUME TypeInv, TerminateConnection PROVE TypeInv'
<1>1. /\ Queues /\ Records /\ Ends /\ ackQ \in Seq(Ack) /\ lan # None /\ lan' = None
      /\ UNCHANGED <<validate, shapeQ, shapeDue, postDue, burst, timer, line, ackQ,
                     sent, got, fin, losses, extras, replied, sting>>
  BY DEF TypeInv, TerminateConnection
<1>2. PICK a \in Ack : a = lan.ack /\ a.c \in Conns
  BY <1>1, LanFields
<1>3. CloseConnection(a.c) /\ Forward(a)
  BY <1>2 DEF TerminateConnection
<1>4. conn' \in [Conns -> Conn \cup {None}] /\ summaries' \in [Hosts -> Seq(Nat)]
  BY <1>1, <1>2, <1>3, CloseTyped
<1>5. acked' \in [Conns -> Nat] /\ dups' \in [Conns -> Nat]
  BY <1>1, <1>3, ForwardTyped
<1>. QED
  BY <1>1, <1>4, <1>5 DEF TypeInv, Records, Queues, Ends

\* A packet leaves a queue and is in the hands of the timer thread.
LEMMA TakenFromQueue ==
    ASSUME Queues, NEW h \in Hosts, shapeQ[h] # <<>>, NEW job \in {"shape", "post"}
    PROVE  /\ shapeQ[h][1] \in Bounded
           /\ [shapeQ EXCEPT ![h] = Tail(@)] \in [Hosts -> Seq(Bounded)]
           /\ [IdleTimer EXCEPT !.job = job, !.h = h, !.pkt = shapeQ[h][1]] \in Timers
<1>1. shapeQ \in [Hosts -> Seq(Bounded)]
  BY DEF Queues
<1>2. PICK q \in Seq(Bounded) : q = shapeQ[h] /\ q # <<>>
  BY <1>1
<1>3. PICK p \in Bounded : p = q[1]
  BY <1>2, TakeFront
<1>4. [IdleTimer EXCEPT !.job = job, !.h = h, !.pkt = p] \in Timers
  BY DEF Timers, IdleTimer
<1>5. [shapeQ EXCEPT ![h] = Tail(@)] \in [Hosts -> Seq(Bounded)]
  BY <1>1, QueuePopped
<1>. QED
  BY <1>2, <1>3, <1>4, <1>5

LEMMA Decremented ==
    ASSUME NEW due \in [Hosts -> Nat], NEW h \in Hosts, due[h] > 0
    PROVE  [due EXCEPT ![h] = @ - 1] \in [Hosts -> Nat]
<1>1. PICK n \in Nat : due[h] = n + 1
  <2>1. PICK m \in Nat : m = due[h] /\ m > 0
    OBVIOUS
  <2>2. m - 1 \in Nat /\ m = (m - 1) + 1
    BY <2>1
  <2>. QED
    BY <2>1, <2>2
<1>. QED
  BY <1>1

LEMMA IdleTyped == IdleTimer \in Timers
  BY DEF IdleTimer, Timers

LEMMA ShapeTimerTyped ==
    ASSUME TypeInv, NEW h \in Hosts, ShapeTimer(h) PROVE TypeInv'
<1>1. /\ Queues /\ Records /\ Ends /\ ackQ \in Seq(Ack) /\ shapeDue[h] > 0
      /\ shapeDue' = [shapeDue EXCEPT ![h] = @ - 1]
      /\ UNCHANGED <<validate, postDue, summaries, conn, burst, lan, line, others>>
  BY DEF TypeInv, ShapeTimer
<1>2. /\ shapeQ \in [Hosts -> Seq(Bounded)] /\ shapeDue \in [Hosts -> Nat]
      /\ timer \in Timers
  BY <1>1 DEF Queues
<1>3. shapeDue' \in [Hosts -> Nat]
  BY <1>1, <1>2, Decremented
<1>4. CASE shapeQ[h] = <<>>
  <2>1. UNCHANGED <<shapeQ, timer, ackQ>>
    BY <1>4 DEF ShapeTimer
  <2>. QED
    BY <1>1, <1>3, <2>1 DEF TypeInv, Queues, Records, Ends, others
<1>5. CASE shapeQ[h] # <<>>
  <2>1. PICK p \in Bounded : p = shapeQ[h][1]
    BY <1>1, <1>5, TakenFromQueue
  <2>2. shapeQ' = [shapeQ EXCEPT ![h] = Tail(@)] /\ timer' = [IdleTimer EXCEPT !.job = "shape", !.h = h, !.pkt = p]
    BY <1>5, <2>1 DEF ShapeTimer
  <2>3. shapeQ' \in [Hosts -> Seq(Bounded)] /\ timer' \in Timers
    BY <1>1, <1>5, <2>1, <2>2, TakenFromQueue
  <2>4. ackQ' = StampedAfter(ackQ, p.c, {p.seq}) \/ ackQ' = ackQ
    BY <1>5, <2>1 DEF ShapeTimer
  <2>5. PICK seqs \in SUBSET Nat : seqs = {p.seq}
    BY BoundedPacket
  <2>6. StampedAfter(ackQ, p.c, seqs) \in Seq(Ack)
    BY <1>1, StampedTyped
  <2>7. ackQ' \in Seq(Ack)
    BY <1>1, <2>4, <2>5, <2>6
  <2>. QED
    BY <1>1, <1>3, <2>3, <2>7 DEF TypeInv, Queues, Records, Ends, others
<1>. QED
  BY <1>4, <1>5

LEMMA PostTimerTyped ==
    ASSUME TypeInv, NEW h \in Hosts, PostTimer(h) PROVE TypeInv'
<1>1. /\ Queues /\ Records /\ Ends /\ ackQ \in Seq(Ack)
      /\ UNCHANGED <<validate, shapeDue, summaries, conn, burst, lan, line, ackQ, others>>
  BY DEF TypeInv, PostTimer
<1>2. shapeQ \in [Hosts -> Seq(Bounded)] /\ postDue \in [Hosts -> Nat]
  BY <1>1 DEF Queues
<1>3. shapeQ' \in [Hosts -> Seq(Bounded)] /\ timer' \in Timers
  <2>1. CASE shapeQ[h] = <<>>
    BY <1>2, <2>1, IdleTyped DEF PostTimer
  <2>2. CASE shapeQ[h] # <<>>
    <3>1. /\ shapeQ' = [shapeQ EXCEPT ![h] = Tail(@)]
          /\ timer' = [IdleTimer EXCEPT !.job = "post", !.h = h, !.pkt = shapeQ[h][1]]
      BY <2>2 DEF PostTimer
    <3>. QED
      BY <1>1, <2>2, <3>1, TakenFromQueue
  <2>. QED
    BY <2>1, <2>2
<1>4. postDue' \in [Hosts -> Nat]
  <2>1. CASE timer.job = "idle"
    <3>1. postDue[h] > 0 /\ postDue' = [postDue EXCEPT ![h] = @ - 1]
      BY <2>1 DEF PostTimer
    <3>. QED
      BY <1>2, <3>1, Decremented
  <2>2. CASE timer.job # "idle"
    BY <1>2, <2>2 DEF PostTimer
  <2>. QED
    BY <2>1, <2>2
<1>. QED
  BY <1>1, <1>3, <1>4 DEF TypeInv, Queues, Records, Ends, others

\* Only a packet popped for a host is resumed, and towards that host.
LEMMA ResumeTyped ==
    ASSUME TypeInv, ResumePostTap PROVE TypeInv'
<1>1. /\ Queues /\ Records /\ Ends /\ ackQ \in Seq(Ack)
      /\ UNCHANGED <<hostVars, conn, burst, lan, ackQ, others>>
  BY DEF TypeInv, ResumePostTap
<1>2. line \in [Hosts -> Seq(Bounded)] /\ timer \in Timers
  BY <1>1 DEF Queues
<1>3. PICK h \in Hosts, p \in Bounded : h = timer.h /\ p = timer.pkt
  BY <1>2 DEF ResumePostTap, Timers
<1>4. line' \in [Hosts -> Seq(Bounded)]
  <2>1. line' = [line EXCEPT ![h] = Append(@, p)]
    BY <1>3 DEF ResumePostTap
  <2>. QED
    BY <1>2, <2>1, QueuePushed
<1>5. timer' \in Timers
  <2>1. [timer EXCEPT !.pkt = None] \in Timers
    BY <1>2 DEF Timers
  <2>. QED
    BY <2>1, IdleTyped DEF ResumePostTap
<1>. QED
  BY <1>1, <1>4, <1>5 DEF TypeInv, Queues, Records, Ends, others, hostVars


LEMMA SummaryTyped ==
    ASSUME TypeInv, NEW c \in Conns, CreateSummary(c) PROVE TypeInv'
<1>1. /\ Queues /\ Records /\ Ends /\ ackQ \in Seq(Ack) /\ conn[c] # None
      /\ UNCHANGED <<validate, shapeQ, shapeDue, postDue, burst, lan, line, ackQ, others>>
      /\ CloseConnection(c)
  BY DEF TypeInv, CreateSummary
<1>2. PICK r \in Conn : r = conn[c]
  BY <1>1 DEF Records
<1>3. PICK n \in Nat : n = Len(r.matched)
  BY ConnFields, LenProperties
<1>4. conn' \in [Conns -> Conn \cup {None}] /\ summaries' \in [Hosts -> Seq(Nat)]
  BY <1>1, CloseTyped
<1>5. timer' \in Timers
  <2>1. timer' = [IdleTimer EXCEPT !.job = "clean", !.h = HostOf[c], !.n = n]
    BY <1>2, <1>3 DEF CreateSummary
  <2>. QED
    BY <2>1, Numbers DEF IdleTimer, Timers
<1>. QED
  BY <1>1, <1>4, <1>5 DEF TypeInv, Queues, Records, Ends, others

LEMMA RemoveTyped ==
    ASSUME TypeInv, RemoveConnection PROVE TypeInv'
  BY IdleTyped DEF RemoveConnection, TypeInv, Queues, Records, Ends, others, hostVars

\* The ack that a host sends.
LEMMA AckMade ==
    ASSUME ackQ \in Seq(Ack), NEW c \in Conns, NEW s \in SUBSET (0..(MaxSeq - 1)),
           NEW pure \in BOOLEAN, NEW end \in BOOLEAN, NEW q,
           q = Append(ackQ, [c |-> c, ack |-> NextMissing(s), pure |-> pure,
                             fin |-> end, late |-> {}])
    PROVE  q \in Seq(Ack)
<1>1. PICK n \in Nat : n = NextMissing(s)
  BY MissingTyped, Numbers
<1>2. PICK a : a = [c |-> c, ack |-> n, pure |-> pure, fin |-> end, late |-> {}]
  OBVIOUS
<1>3. a \in Ack
  BY <1>2 DEF Ack
<1>4. q = Append(ackQ, a)
  BY <1>1, <1>2
<1>. QED
  BY <1>3, <1>4, PutBack

LEMMA ReceivesTyped ==
    ASSUME TypeInv, NEW h \in Hosts, HostReceives(h) PROVE TypeInv'
<1>1. /\ Queues /\ Records /\ Ends /\ ackQ \in Seq(Ack) /\ line[h] # <<>>
      /\ line' = [line EXCEPT ![h] = Tail(@)]
      /\ UNCHANGED <<hostVars, conn, burst, timer, lan, sent, acked, dups, fin, losses, extras,
                     replied, sting>>
  BY DEF TypeInv, HostReceives
<1>2. /\ line \in [Hosts -> Seq(Bounded)]
      /\ got \in [Conns -> SUBSET (0..(MaxSeq - 1))]
  BY <1>1 DEF Queues, Ends
<1>3. line' \in [Hosts -> Seq(Bounded)]
  BY <1>1, <1>2, QueuePopped
<1>4. PICK p \in Bounded : p = line[h][1]
  <2>1. PICK q \in Seq(Bounded) : q = line[h] /\ q # <<>>
    BY <1>1, <1>2
  <2>. QED
    BY <2>1, TakeFront
<1>5. p.c \in Conns /\ p.seq \in Nat /\ p.len \in Nat /\ p.seq + p.len <= MaxSeq
  BY BoundedPacket
<1>6. PICK s : s = got[p.c] \cup p.seq..(p.seq + p.len - 1)
  OBVIOUS
<1>7. s \in SUBSET (0..(MaxSeq - 1))
  <2>1. p.seq..(p.seq + p.len - 1) \in SUBSET (0..(MaxSeq - 1))
    BY <1>5, Numbers
  <2>2. got[p.c] \in SUBSET (0..(MaxSeq - 1))
    BY <1>2, <1>5
  <2>. QED
    BY <1>6, <2>1, <2>2
<1>8. CASE p.len = 0
  <2>1. UNCHANGED <<got, ackQ>>
    BY <1>4, <1>8 DEF HostReceives
  <2>. QED
    BY <1>1, <1>3, <2>1 DEF TypeInv, Queues, Records, Ends, hostVars
<1>9. CASE p.len # 0
  <2>1. /\ got' = [got EXCEPT ![p.c] = s]
        /\ ackQ' = Append(ackQ, [c |-> p.c, ack |-> NextMissing(s), pure |-> TRUE,
                                 fin |-> FALSE, late |-> {}])
    BY <1>4, <1>6, <1>9 DEF HostReceives
  <2>2. got' \in [Conns -> SUBSET (0..(MaxSeq - 1))]
    BY <1>2, <1>5, <1>7, <2>1
  <2>3. ackQ' \in Seq(Ack)
    BY <1>1, <1>5, <1>7, <2>1, AckMade
  <2>. QED
    BY <1>1, <1>3, <2>2, <2>3 DEF TypeInv, Queues, Records, Ends, hostVars
<1>. QED
  BY <1>8, <1>9

LEMMA LoseTyped ==
    ASSUME TypeInv, NEW h \in Hosts, LosePacket(h) PROVE TypeInv'
<1>1. /\ Queues /\ Records /\ Ends /\ ackQ \in Seq(Ack) /\ line[h] # <<>>
      /\ line' = [line EXCEPT ![h] = Tail(@)] /\ losses' = losses + 1
      /\ UNCHANGED <<hostVars, conn, burst, timer, lan, ackQ, sent, acked, dups, got, fin,
                     extras, replied, sting>>
  BY DEF TypeInv, LosePacket
<1>2. line' \in [Hosts -> Seq(Bounded)]
  BY <1>1, QueuePopped DEF Queues
<1>. QED
  BY <1>1, <1>2 DEF TypeInv, Queues, Records, Ends, hostVars

LEMMA FinishesTyped ==
    ASSUME TypeInv, NEW c \in Conns, HostFinishes(c) PROVE TypeInv'
<1>1. /\ Queues /\ Records /\ Ends /\ ackQ \in Seq(Ack)
      /\ fin' = [fin EXCEPT ![c] = TRUE]
      /\ UNCHANGED <<hostVars, conn, burst, timer, lan, line, sent, acked, dups, got, losses,
                     extras, replied, sting>>
  BY DEF TypeInv, HostFinishes
<1>2. PICK s \in SUBSET (0..(MaxSeq - 1)) : s = got[c]
  BY <1>1 DEF Ends
<1>3. ackQ' = Append(ackQ, [c |-> c, ack |-> NextMissing(s), pure |-> TRUE,
                            fin |-> TRUE, late |-> {}])
  BY <1>2 DEF HostFinishes
<1>4. ackQ' \in Seq(Ack)
  BY <1>1, <1>3, AckMade
<1>. QED
  BY <1>1, <1>4 DEF TypeInv, Queues, Records, Ends, hostVars

LEMMA SendsTyped ==
    ASSUME TypeInv, NEW c \in Conns, HostSends(c) PROVE TypeInv'
<1>1. /\ Queues /\ Records /\ Ends /\ ackQ \in Seq(Ack)
      /\ extras' = extras + 1 /\ replied' = [replied EXCEPT ![c] = TRUE]
      /\ UNCHANGED <<hostVars, conn, burst, timer, lan, line, sent, acked, dups, got, fin,
                     losses, sting>>
  BY DEF TypeInv, HostSends
<1>2. PICK s \in SUBSET (0..(MaxSeq - 1)) : s = got[c]
  BY <1>1 DEF Ends
<1>3. ackQ' = Append(ackQ, [c |-> c, ack |-> NextMissing(s), pure |-> FALSE,
                            fin |-> FALSE, late |-> {}])
  BY <1>2 DEF HostSends
<1>4. ackQ' \in Seq(Ack)
  BY <1>1, <1>3, AckMade
<1>. QED
  BY <1>1, <1>4 DEF TypeInv, Queues, Records, Ends, hostVars


-----------------------------------------------------------------------------
(* The theorems.                                                           *)

LEMMA InitTyped == Init => TypeInv
<1>. SUFFICES ASSUME Init PROVE TypeInv
  OBVIOUS
<1>1. <<>> \in Seq(Bounded) /\ <<>> \in Seq(Nat) /\ <<>> \in Seq(Ack)
  BY EmptySeq
<1>2. MaxSeq \in Nat
  BY Numbers
<1>3. Records
  BY <1>1 DEF Init, Records
<1>4. Queues
  BY <1>1, IdleTyped DEF Init, Queues
<1>5. Ends
  BY <1>2 DEF Init, Ends
<1>. QED
  BY <1>1, <1>3, <1>4, <1>5 DEF Init, TypeInv

LEMMA StepTyped == TypeInv /\ [Next]_vars => TypeInv'
<1>. SUFFICES ASSUME TypeInv, [Next]_vars PROVE TypeInv'
  OBVIOUS
<1>1. CASE \/ \E c \in Conns : \E n \in Sizes[c] : Send(c, n)
           \/ \E c \in Conns, kind \in {"data", "flag"} : SendControl(c, kind)
           \/ \E c \in Conns : Retransmit(c)
  BY <1>1, SendTyped
<1>2. CASE \E c \in Conns : HostFinishes(c) \/ HostSends(c) \/ CreateSummary(c)
  BY <1>2, FinishesTyped, SendsTyped, SummaryTyped
<1>3. CASE ShapeSlice \/ ExpectAck
  BY <1>3, ShapeSliceTyped, ExpectAckTyped
<1>4. CASE LANThread \/ ResumePostTap \/ RemoveConnection
  BY <1>4, ProcessAckTyped, MatchAckTyped, TerminateTyped, ResumeTyped, RemoveTyped DEF LANThread
<1>5. CASE \E h \in Hosts : ShapeTimer(h) \/ PostTimer(h) \/ HostReceives(h) \/ LosePacket(h)
  BY <1>5, ShapeTimerTyped, PostTimerTyped, ReceivesTyped, LoseTyped
<1>6. CASE UNCHANGED vars
  BY <1>6 DEF vars, hostVars, others, TypeInv, Records, Queues, Ends
<1>. QED
  BY <1>1, <1>2, <1>3, <1>4, <1>5, <1>6 DEF Next

\* Packets never leave the numbers their senders sent, a burst is never at its
\* end, and a packet in the timer thread's hands has a host to go to.
THEOREM TypeInvariant == Spec => []TypeInv
  BY InitTyped, StepTyped, PTL DEF Spec

LEMMA BoundedPackets == Seq(Bounded) \subseteq Seq(Packet)
<1>1. Bounded \subseteq Packet
  BY DEF Bounded
<1>. QED
  BY <1>1, SeqMonotonic

LEMMA TypeInvImpliesTypeOK == TypeInv => TypeOK
<1>. SUFFICES ASSUME TypeInv PROVE TypeOK
  OBVIOUS
<1>1. Records /\ Queues /\ Ends /\ ackQ \in Seq(Ack)
  BY DEF TypeInv
<1>2. shapeQ \in [Hosts -> Seq(Packet)] /\ line \in [Hosts -> Seq(Packet)]
  BY <1>1, BoundedPackets DEF Queues
<1>3. burst \in Burst \cup {None}
  <2>1. CASE burst = None
    BY <2>1
  <2>2. CASE burst # None
    <3>1. PICK todo \in Seq(Packet) : todo = burst.todo
      BY <1>1, <2>2, BurstFields, BoundedPackets
    <3>2. burst = [base |-> burst.base, n |-> burst.n, shaped |-> burst.shaped, todo |-> todo]
          /\ burst.base \in Nat /\ burst.n \in Nat /\ burst.shaped \in BOOLEAN
      BY <1>1, <2>2, <3>1, BurstFields DEF Bursts
    <3>. QED
      BY <3>1, <3>2 DEF Burst
  <2>. QED
    BY <2>1, <2>2
<1>4. timer \in Timer
  BY <1>1 DEF Queues, Timers, Timer, Bounded
<1>5. MaxSeq \in Nat
  BY Numbers
<1>6. /\ sent \in [Conns -> Nat] /\ got \in [Conns -> SUBSET Nat]
  BY <1>1, <1>5 DEF Ends
<1>. QED
  BY <1>1, <1>2, <1>3, <1>4, <1>6 DEF TypeOK, Records, Queues, Ends

\* Every variable keeps its type: no expected ack, round trip or queued packet of
\* RIPPS_Monitor, RIPPS_Host and RIPPS_Connection has a number below zero.
THEOREM TypeCorrect == Spec => []TypeOK
  BY TypeInvariant, TypeInvImpliesTypeOK, PTL

-----------------------------------------------------------------------------
(* No packet stays in a shape queue.                                       *)

LEMMA ShapeTimerServed ==
    ASSUME TypeInv, QueueHasTimers, NEW h \in Hosts, ShapeTimer(h) PROVE QueueHasTimers'
<1>1. /\ shapeQ \in [Hosts -> Seq(Bounded)] /\ shapeDue \in [Hosts -> Nat]
      /\ postDue' = postDue /\ timer.job = "idle"
      /\ shapeDue' = [shapeDue EXCEPT ![h] = @ - 1] /\ shapeDue[h] > 0
  BY DEF TypeInv, Queues, ShapeTimer
<1>2. \A g \in Hosts : Len(shapeQ[g]) <= shapeDue[g] \/ postDue[g] > 0
  BY <1>1 DEF QueueHasTimers
<1>3. PICK n \in Nat : shapeDue[h] = n /\ shapeDue'[h] = n - 1 /\ n > 0
  BY <1>1
<1>4. Len(shapeQ'[h]) <= shapeDue'[h] \/ postDue'[h] > 0
  <2>1. CASE shapeQ[h] = <<>>
    <3>1. shapeQ'[h] = <<>>
      BY <2>1 DEF ShapeTimer
    <3>. QED
      BY <1>3, <3>1
  <2>2. CASE shapeQ[h] # <<>>
    <3>1. PICK q \in Seq(Bounded) : q = shapeQ[h] /\ q # <<>>
      BY <1>1, <2>2
    <3>2. shapeQ'[h] = Tail(q)
      BY <1>1, <2>2, <3>1 DEF ShapeTimer
    <3>3. PICK l \in Nat : Len(q) = l /\ Len(Tail(q)) = l - 1
      BY <3>1, TakeFront
    <3>. QED
      BY <1>1, <1>2, <1>3, <3>1, <3>2, <3>3
  <2>. QED
    BY <2>1, <2>2
<1>5. ASSUME NEW g \in Hosts, g # h
      PROVE  shapeQ'[g] = shapeQ[g] /\ shapeDue'[g] = shapeDue[g]
  BY <1>1, <1>5 DEF ShapeTimer
<1>. QED
  BY <1>1, <1>2, <1>4, <1>5 DEF QueueHasTimers

LEMMA PostTimerServed ==
    ASSUME TypeInv, QueueHasTimers, NEW h \in Hosts, PostTimer(h) PROVE QueueHasTimers'
<1>1. /\ shapeQ \in [Hosts -> Seq(Bounded)] /\ shapeDue \in [Hosts -> Nat]
      /\ postDue \in [Hosts -> Nat] /\ shapeDue' = shapeDue
  BY DEF TypeInv, Queues, PostTimer
<1>2. ASSUME NEW g \in Hosts, g # h
      PROVE  /\ shapeQ'[g] = shapeQ[g] /\ postDue'[g] = postDue[g]
             /\ Len(shapeQ[g]) <= shapeDue[g] \/ postDue[g] > 0
  <2>1. shapeQ'[g] = shapeQ[g] /\ postDue'[g] = postDue[g]
    BY <1>1, <1>2 DEF PostTimer
  <2>2. ~ (timer.job = "post" /\ timer.h = g)
    BY <1>2 DEF PostTimer
  <2>. QED
    BY <2>1, <2>2 DEF QueueHasTimers
<1>3. CASE shapeQ[h] = <<>>
  <2>1. shapeQ'[h] = <<>>
    BY <1>3 DEF PostTimer
  <2>2. shapeDue'[h] \in Nat
    BY <1>1
  <2>3. Len(shapeQ'[h]) <= shapeDue'[h]
    BY <2>1, <2>2
  <2>. QED
    BY <1>1, <1>2, <2>3 DEF QueueHasTimers
<1>4. CASE shapeQ[h] # <<>>
  <2>1. timer'.job = "post" /\ timer'.h = h
    BY <1>4 DEF PostTimer, IdleTimer
  <2>. QED
    BY <1>1, <1>2, <2>1 DEF QueueHasTimers
<1>. QED
  BY <1>3, <1>4

LEMMA StepServed == TypeInv /\ QueueHasTimers /\ [Next]_vars => QueueHasTimers'
<1>. SUFFICES ASSUME TypeInv, QueueHasTimers, [Next]_vars PROVE QueueHasTimers'
  OBVIOUS
<1>1. CASE \E c \in Conns : \E n \in Sizes[c] : Send(c, n)
  BY <1>1, SendersPacket, ProcessPacketServed DEF Send
<1>2. CASE \E c \in Conns, kind \in {"data", "flag"} : SendControl(c, kind)
  BY <1>2, SendersPacket, ProcessPacketServed DEF SendControl
<1>3. CASE \E c \in Conns : Retransmit(c)
  BY <1>3, SendersPacket, ProcessPacketServed DEF Retransmit
<1>4. CASE ShapeSlice
  <2>1. Queues /\ burst # None /\ timer' = timer
    BY <1>4 DEF TypeInv, ShapeSlice
  <2>2. PICK p \in Bounded, h \in Hosts : Shape(h, p, FALSE)
    BY <1>4, <2>1, BurstFields DEF ShapeSlice
  <2>. QED
    BY <2>1, <2>2, ShapeServed
<1>5. CASE ResumePostTap
  <2>1. /\ UNCHANGED <<shapeQ, shapeDue, postDue>>
        /\ timer.job = "post" => timer'.job = "post" /\ timer'.h = timer.h
    BY <1>5 DEF ResumePostTap, hostVars, TypeInv, Queues, Timers
  <2>. QED
    BY <2>1 DEF QueueHasTimers
<1>6. CASE \E h \in Hosts : ShapeTimer(h) \/ PostTimer(h)
  BY <1>6, ShapeTimerServed, PostTimerServed
<1>7. CASE UNCHANGED <<shapeQ, shapeDue, postDue, timer>>
  BY <1>7, Zenon DEF QueueHasTimers
<1>8. ASSUME \/ \E c \in Conns : HostFinishes(c) \/ HostSends(c)
             \/ ExpectAck \/ LANThread
             \/ \E h \in Hosts : HostReceives(h) \/ LosePacket(h)
             \/ UNCHANGED vars
      PROVE  UNCHANGED <<shapeQ, shapeDue, postDue, timer>>
  BY <1>8, Zenon DEF HostFinishes, HostSends, ExpectAck, LANThread, ProcessAck, MatchAck,
              TerminateConnection, HostReceives, LosePacket, vars, hostVars
<1>9. CASE RemoveConnection \/ \E c \in Conns : CreateSummary(c)
  <2>1. UNCHANGED <<shapeQ, shapeDue, postDue>> /\ timer.job # "post"
    BY <1>9 DEF RemoveConnection, CreateSummary, hostVars
  <2>. QED
    BY <2>1 DEF QueueHasTimers
<1>. QED
  BY <1>1, <1>2, <1>3, <1>4, <1>5, <1>6, <1>7, <1>8, <1>9 DEF Next

\* Every packet in a shape queue has a timer that will pop it, or the loop of one
\* that empties the queue, for any number of hosts, slices and timers and either
\* delay (shapePacketHost, processTimer).
THEOREM QueuesServed == Spec => []QueueHasTimers
<1>1. Init => QueueHasTimers
  BY DEF Init, QueueHasTimers
<1>. QED
  BY <1>1, InitTyped, StepTyped, StepServed, PTL DEF Spec

-----------------------------------------------------------------------------
(* Measurements are kept.                                                  *)

InSummary(h, sums, m) ==
    \E i \in DOMAIN sums[h] : \E k \in 1..sums[h][i] : m = <<"summary", i, k>>

InOpen(h, cs, m) ==
    \E c \in Conns : \E k \in 1..Len(cs[c].matched) :
        HostOf[c] = h /\ cs[c] # None /\ m = <<"open", c, k>>

LEMMA MeasurementsAre ==
    ASSUME NEW h, NEW cs, NEW sums, NEW m
    PROVE  m \in Measurements(h, cs, sums) <=> (InSummary(h, sums, m) \/ InOpen(h, cs, m))
<1>1. m \in Summarized(h, sums) <=> InSummary(h, sums, m)
  BY DEF Summarized, InSummary
<1>2. m \in Matched(h, cs) <=> InOpen(h, cs, m)
  BY DEF Matched, InOpen
<1>. QED
  BY <1>1, <1>2 DEF Measurements

\* A host has a finite number of measurements, half of what it needs if it is resolved,
\* and among them those of a connection that the cleaner is removing.
CountInv ==
    \A h \in Hosts :
        /\ IsFiniteSet(Measurements(h, conn, summaries))
        /\ validate[h] = "resolved" => 2 * MonitorCount(h, conn, summaries) >= Measure
        /\ Cleaning(h) => timer.n <= MonitorCount(h, conn, summaries)

\* From one set of measurements to a larger one.
Kept(M, N) == IsFiniteSet(M) => IsFiniteSet(N) /\ Cardinality(M) <= Cardinality(N)

LEMMA KeptSame == \A M : Kept(M, M)
  BY FS_CardinalityType DEF Kept

LEMMA KeptOneMore ==
    ASSUME NEW M, NEW N, NEW m, M \subseteq N, N \subseteq M \cup {m}
    PROVE  Kept(M, N)
<1>. SUFFICES ASSUME IsFiniteSet(M) PROVE IsFiniteSet(N) /\ Cardinality(M) <= Cardinality(N)
  BY DEF Kept
<1>1. IsFiniteSet(M \cup {m})
  BY FS_AddElement
<1>2. IsFiniteSet(N)
  BY <1>1, FS_Subset
<1>. QED
  BY <1>2, FS_Subset

LEMMA KeptRenamed ==
    ASSUME NEW M, NEW N, NEW f, f \in Injection(M, N), f \in Surjection(M, N)
    PROVE  Kept(M, N)
<1>1. f \in Injection(M, N) /\ f \in Surjection(M, N)
  OBVIOUS
<1>2. ASSUME IsFiniteSet(M) PROVE IsFiniteSet(N)
  BY <1>1, <1>2, FS_Surjection
<1>3. ASSUME IsFiniteSet(N) PROVE Cardinality(M) <= Cardinality(N)
  BY <1>1, <1>3, FS_Injection
<1>. QED
  BY <1>2, <1>3 DEF Kept

\* Connections change, but each keeps its matches: at most one has one more.
LEMMA MatchesKept ==
    ASSUME NEW h, NEW cs, NEW ds, NEW sums, NEW c \in Conns,
           \A d \in Conns : d # c => ds[d] = cs[d],
           cs[c] = None => ds[c] = None \/ ds[c].matched = <<>>,
           cs[c] # None =>
               /\ ds[c] # None /\ Len(cs[c].matched) \in Nat
               /\ \/ Len(ds[c].matched) = Len(cs[c].matched)
                  \/ Len(ds[c].matched) = Len(cs[c].matched) + 1
    PROVE  Kept(Measurements(h, cs, sums), Measurements(h, ds, sums))
<1>1. PICK n : n = Len(cs[c].matched)
  OBVIOUS
<1>2. PICK M, N : M = Measurements(h, cs, sums) /\ N = Measurements(h, ds, sums)
  OBVIOUS
<1>3. \A m : InOpen(h, cs, m) => InOpen(h, ds, m)
  <2>1. ASSUME NEW m, NEW d \in Conns, NEW k \in 1..Len(cs[d].matched),
               HostOf[d] = h, cs[d] # None, m = <<"open", d, k>>
        PROVE  k \in 1..Len(ds[d].matched) /\ ds[d] # None
    <3>1. CASE d # c
      BY <2>1, <3>1
    <3>2. CASE d = c
      BY <2>1, <3>2
    <3>. QED
      BY <3>1, <3>2
  <2>. QED
    BY <2>1, Zenon DEF InOpen
<1>4. \A m : InOpen(h, ds, m) => InOpen(h, cs, m) \/ m = <<"open", c, n + 1>>
  <2>1. ASSUME NEW m, NEW d \in Conns, NEW k \in 1..Len(ds[d].matched),
               HostOf[d] = h, ds[d] # None, m = <<"open", d, k>>
        PROVE  (k \in 1..Len(cs[d].matched) /\ cs[d] # None) \/ m = <<"open", c, n + 1>>
    <3>1. CASE d # c
      BY <2>1, <3>1
    <3>2. CASE d = c /\ cs[c] = None
      BY <2>1, <3>2
    <3>3. CASE d = c /\ cs[c] # None
      <4>1. (n \in Nat /\ k \in 1..n) \/ k = n + 1
        BY <1>1, <2>1, <3>3
      <4>. QED
        BY <1>1, <2>1, <3>3, <4>1
    <3>. QED
      BY <3>1, <3>2, <3>3
  <2>. QED
    BY <2>1, Zenon DEF InOpen
<1>5. M \subseteq N /\ N \subseteq M \cup {<<"open", c, n + 1>>}
  <2>1. \A m : m \in M <=> InSummary(h, sums, m) \/ InOpen(h, cs, m)
    BY <1>2, MeasurementsAre, Zenon
  <2>2. \A m : m \in N <=> InSummary(h, sums, m) \/ InOpen(h, ds, m)
    BY <1>2, MeasurementsAre, Zenon
  <2>. QED
    BY <1>3, <1>4, <2>1, <2>2, Zenon
<1>. QED
  BY <1>2, <1>5, KeptOneMore


\* Expecting acks and noting retransmissions leaves the matches alone.
LEMMA AddOpenMatches ==
    ASSUME NEW r \in Conn, NEW m PROVE AddOpen(r, m).matched = r.matched
<1>1. [r EXCEPT !.open = Append(@, m)].matched = r.matched
  BY DEF Conn
<1>. QED
  BY <1>1 DEF AddOpen

LEMMA AddExpectedMatches ==
    ASSUME NEW r \in Conn, NEW p \in Bounded, NEW e, e.ack \in Nat, e.gobble \in BOOLEAN
    PROVE  AddExpected(r, p, e).matched = r.matched
<1>1. PICK m : m = [seq |-> p.seq, ack |-> e.ack, gobble |-> e.gobble, real |-> TRUE]
  OBVIOUS
<1>2. PICK q : q = [r EXCEPT !.highest = p.seq + p.len]
  OBVIOUS
<1>3. q \in Conn /\ q.matched = r.matched
  <2>1. PICK n \in Nat : n = p.seq + p.len
    BY BoundedPacket
  <2>. QED
    BY <1>2, <2>1 DEF Conn
<1>4. m \in MonPkt
  <2>1. PICK s \in Nat, a \in Nat, g \in BOOLEAN, yes \in BOOLEAN :
            s = p.seq /\ a = e.ack /\ g = e.gobble /\ yes = TRUE
    BY BoundedPacket
  <2>2. [seq |-> s, ack |-> a, gobble |-> g, real |-> yes] \in MonPkt
    BY DEF MonPkt
  <2>3. m = [seq |-> s, ack |-> a, gobble |-> g, real |-> yes]
    BY <1>1, <2>1, Zenon
  <2>. QED
    BY <2>2, <2>3
<1>5. PICK t : t = AddOpen(q, m)
  OBVIOUS
<1>6. t \in Conn /\ t.matched = r.matched
  BY <1>3, <1>4, <1>5, AddOpenTyped, AddOpenMatches
<1>7. AddExpected(r, p, e) = AddDummies(t, e.extra, e.ack)
  BY <1>1, <1>2, <1>5 DEF AddExpected
<1>8. PICK dummy, all :
          AddDummies(t, e.extra, e.ack) =
              IF AddOpen(t, dummy) = t THEN t ELSE [t EXCEPT !.open = @ \o all]
  BY DEF AddDummies
<1>9. [t EXCEPT !.open = @ \o all].matched = t.matched
  BY <1>6 DEF Conn
<1>. QED
  BY <1>6, <1>7, <1>8, <1>9

LEMMA ApplyMatchMatches ==
    ASSUME NEW r \in Conn, NEW i \in 1..Len(r.open), NEW late, NEW q, q = ApplyMatch(r, i, late)
    PROVE  \/ Len(q.matched) = Len(r.matched)
           \/ Len(q.matched) = Len(r.matched) + 1
<1>1. PICK m \in MonPkt : m = r.open[i]
  BY ConnFields, ElementOfSeq
<1>2. PICK t \in Seq(MonPkt) : t = r.matched
  BY ConnFields
<1>3. q.matched = IF m.real /\ m.ack \notin r.rt /\ m.seq \notin late THEN Append(t, m) ELSE t
  <2>1. PICK open : q = [r EXCEPT !.matched = IF m.real /\ m.ack \notin r.rt /\ m.seq \notin late
                                              THEN Append(@, m) ELSE @,
                                  !.open = open]
    BY <1>1 DEF ApplyMatch
  <2>. QED
    BY <1>2, <2>1 DEF Conn
<1>4. Len(Append(t, m)) = Len(t) + 1
  BY PutBack
<1>. QED
  BY <1>2, <1>3, <1>4

\* A connection that is closed hands its matches to a summary.
LEMMA CloseKept ==
    ASSUME NEW h \in Hosts, NEW c \in Conns, NEW g \in Hosts, h = HostOf[c],
           conn \in [Conns -> Conn \cup {None}], summaries \in [Hosts -> Seq(Nat)],
           CloseConnection(c)
    PROVE  Kept(Measurements(g, conn, summaries), Measurements(g, conn', summaries'))
<1>1. PICK M, N : M = Measurements(g, conn, summaries) /\ N = Measurements(g, conn', summaries')
  OBVIOUS
<1>2. CASE conn[c] = None
  <2>1. conn' = conn /\ summaries' = summaries
    BY <1>2 DEF CloseConnection
  <2>. QED
    BY <2>1, KeptSame, Zenon
<1>3. CASE conn[c] # None /\ (g # h \/ conn[c].matched = <<>>)
  <2>1. conn' = [conn EXCEPT ![c] = None] /\ summaries'[g] = summaries[g]
    BY <1>3 DEF CloseConnection
  <2>2. \A m : InSummary(g, summaries, m) <=> InSummary(g, summaries', m)
    BY <2>1, Zenon DEF InSummary
  <2>3. \A m : InOpen(g, conn, m) <=> InOpen(g, conn', m)
    <3>1. ASSUME NEW d \in Conns, HostOf[d] = g, conn[d] # None, 1..Len(conn[d].matched) # {}
          PROVE  d # c
      <4>1. 1..Len(<<>>) = {}
        OBVIOUS
      <4>. QED
        BY <1>3, <3>1, <4>1
    <3>2. \A d \in Conns : d # c => conn'[d] = conn[d]
      BY <2>1
    <3>3. conn'[c] = None
      BY <2>1
    <3>. QED
      BY <3>1, <3>2, <3>3, Zenon DEF InOpen
  <2>4. M = N
    <3>1. \A m : m \in M <=> InSummary(g, summaries, m) \/ InOpen(g, conn, m)
      BY <1>1, MeasurementsAre, Zenon
    <3>2. \A m : m \in N <=> InSummary(g, summaries', m) \/ InOpen(g, conn', m)
      BY <1>1, MeasurementsAre, Zenon
    <3>3. \A m : m \in M <=> m \in N
      BY <2>2, <2>3, <3>1, <3>2, Zenon
    <3>. QED
      BY <3>3
  <2>. QED
    BY <1>1, <2>4, KeptSame, Zenon
<1>4. CASE conn[c] # None /\ g = h /\ conn[c].matched # <<>>
  <2>1. PICK r \in Conn : r = conn[c]
    BY <1>4
  <2>2. PICK n \in Nat : n = Len(r.matched)
    BY ConnFields, LenProperties
  <2>3. PICK s \in Seq(Nat), l \in Nat : s = summaries[h] /\ l = Len(s)
    BY LenProperties
  <2>4. /\ conn' = [conn EXCEPT ![c] = None]
        /\ summaries'[h] = Append(s, n)
    BY <1>4, <2>1, <2>2, <2>3 DEF CloseConnection
  <2>5. /\ DOMAIN s = 1..l /\ DOMAIN Append(s, n) = 1..(l + 1)
        /\ \A i \in 1..l : Append(s, n)[i] = s[i]
        /\ Append(s, n)[l + 1] = n
    BY <2>3, AppendProperties, LenProperties
  <2>6. \A d \in Conns : d # c => conn'[d] = conn[d]
    BY <2>4
  <2>7. conn'[c] = None /\ HostOf[c] = g
    BY <1>4, <2>4
  <2>8. PICK f : f = [m \in M |-> IF m[1] = "open" /\ m[2] = c
                                  THEN <<"summary", l + 1, m[3]>> ELSE m]
    OBVIOUS
  <2>9. \A m : m \in M <=>
            \/ \E i \in 1..l : \E k \in 1..s[i] : m = <<"summary", i, k>>
            \/ \E d \in Conns : \E k \in 1..Len(conn[d].matched) :
                  HostOf[d] = g /\ conn[d] # None /\ d # c /\ m = <<"open", d, k>>
            \/ \E k \in 1..n : m = <<"open", c, k>>
    <3>1. \A m : m \in M <=> InSummary(g, summaries, m) \/ InOpen(g, conn, m)
      BY <1>1, MeasurementsAre, Zenon
    <3>2. \A m : InSummary(g, summaries, m) <=>
                     \E i \in 1..l : \E k \in 1..s[i] : m = <<"summary", i, k>>
      BY <1>4, <2>3, <2>5, Zenon DEF InSummary
    <3>3. \A m : InOpen(g, conn, m) <=>
                     \/ \E d \in Conns : \E k \in 1..Len(conn[d].matched) :
                           HostOf[d] = g /\ conn[d] # None /\ d # c /\ m = <<"open", d, k>>
                     \/ \E k \in 1..n : m = <<"open", c, k>>
      BY <1>4, <2>1, <2>2, <2>7, Zenon DEF InOpen
    <3>. QED
      BY <3>1, <3>2, <3>3, Zenon
  <2>10. \A m : m \in N <=>
            \/ \E i \in 1..l : \E k \in 1..s[i] : m = <<"summary", i, k>>
            \/ \E d \in Conns : \E k \in 1..Len(conn[d].matched) :
                  HostOf[d] = g /\ conn[d] # None /\ d # c /\ m = <<"open", d, k>>
            \/ \E k \in 1..n : m = <<"summary", l + 1, k>>
    <3>1. \A m : m \in N <=> InSummary(g, summaries', m) \/ InOpen(g, conn', m)
      BY <1>1, MeasurementsAre, Zenon
    <3>2. \A m : InSummary(g, summaries', m) <=>
                     \/ \E i \in 1..l : \E k \in 1..s[i] : m = <<"summary", i, k>>
                     \/ \E k \in 1..n : m = <<"summary", l + 1, k>>
      <4>1. PICK z : z = Append(s, n)
        OBVIOUS
      <4>2. \A m : InSummary(g, summaries', m) <=>
                       \E i \in DOMAIN z : \E k \in 1..z[i] : m = <<"summary", i, k>>
        BY <1>4, <2>4, <4>1, Zenon DEF InSummary
      <4>3. \A i : i \in DOMAIN z <=> i \in 1..l \/ i = l + 1
        BY <2>5, <4>1
      <4>4. (\A i \in 1..l : z[i] = s[i]) /\ z[l + 1] = n
        BY <2>5, <4>1, Zenon
      <4>. QED
        BY <4>2, <4>3, <4>4, Zenon
    <3>3. \A m : InOpen(g, conn', m) <=>
                     \E d \in Conns : \E k \in 1..Len(conn[d].matched) :
                           HostOf[d] = g /\ conn[d] # None /\ d # c /\ m = <<"open", d, k>>
      BY <2>6, <2>7, Zenon DEF InOpen
    <3>. QED
      BY <3>1, <3>2, <3>3, Zenon
  <2>11. \A m \in M : /\ \E a, b, k : m = <<a, b, k>>
                      /\ m[1] = "summary" => m[2] \in 1..l
                      /\ m[1] = "summary" \/ m[1] = "open"
    <3>1. ASSUME NEW m, NEW i \in 1..l, NEW k, m = <<"summary", i, k>>
          PROVE  (\E a, b, j : m = <<a, b, j>>) /\ m[1] = "summary" /\ m[2] \in 1..l
      BY <3>1
    <3>2. ASSUME NEW m, NEW d, NEW k, m = <<"open", d, k>>
          PROVE  (\E a, b, j : m = <<a, b, j>>) /\ m[1] = "open" /\ m[1] # "summary"
      BY <3>2
    <3>3. \A m \in M : \/ \E i \in 1..l : \E k : m = <<"summary", i, k>>
                      \/ \E d, k : m = <<"open", d, k>>
      BY <2>9, Zenon
    <3>4. TAKE m \in M
    <3>5. CASE \E i \in 1..l : \E k : m = <<"summary", i, k>>
      BY <3>1, <3>5, Zenon
    <3>6. CASE \E d, k : m = <<"open", d, k>>
      BY <3>2, <3>6, Zenon
    <3>. QED
      BY <3>3, <3>5, <3>6, Zenon
  <2>12. f \in [M -> N]
    <3>1. ASSUME NEW m \in M, m[1] = "open", m[2] = c PROVE <<"summary", l + 1, m[3]>> \in N
      <4>1. PICK k \in 1..n : m = <<"open", c, k>>
        <5>1. ASSUME NEW i, NEW k, m = <<"summary", i, k>> PROVE FALSE
          BY <3>1, <5>1
        <5>2. ASSUME NEW d, NEW k, m = <<"open", d, k>> PROVE d = c
          BY <3>1, <5>2
        <5>. QED
          BY <2>9, <5>1, <5>2, Zenon
      <4>2. m[3] = k
        BY <4>1
      <4>. QED
        BY <2>10, <4>2, Zenon
    <3>2. ASSUME NEW m \in M, ~ (m[1] = "open" /\ m[2] = c) PROVE m \in N
      <4>1. ASSUME NEW k, m = <<"open", c, k>> PROVE FALSE
        BY <3>2, <4>1
      <4>. QED
        BY <2>9, <2>10, <4>1, Zenon
    <3>. QED
      BY <2>8, <3>1, <3>2
  <2>13. \A a, b \in M : f[a] = f[b] => a = b
    <3>. SUFFICES ASSUME NEW a \in M, NEW b \in M, f[a] = f[b] PROVE a = b
      OBVIOUS
    <3>0. (\E x, y, z : a = <<x, y, z>>) /\ (\E x, y, z : b = <<x, y, z>>)
      BY <2>11, Zenon
    <3>1. PICK a1, a2, a3, b1, b2, b3 : a = <<a1, a2, a3>> /\ b = <<b1, b2, b3>>
      BY <3>0, Zenon
    <3>2. /\ a[1] = a1 /\ a[2] = a2 /\ a[3] = a3 /\ b[1] = b1 /\ b[2] = b2 /\ b[3] = b3
      BY <3>1
    <3>3. /\ a1 = "summary" => a2 \in 1..l
          /\ b1 = "summary" => b2 \in 1..l
      BY <2>11, <3>2, Zenon
    <3>4. /\ f[a] = IF a1 = "open" /\ a2 = c THEN <<"summary", l + 1, a3>> ELSE <<a1, a2, a3>>
          /\ f[b] = IF b1 = "open" /\ b2 = c THEN <<"summary", l + 1, b3>> ELSE <<b1, b2, b3>>
      BY <2>8, <3>1, <3>2
    <3>5. l + 1 \notin 1..l
      OBVIOUS
    <3>. QED
      BY <3>1, <3>3, <3>4, <3>5
  <2>14. ASSUME NEW m \in N PROVE \E w \in M : f[w] = m
    <3>1. CASE \E k \in 1..n : m = <<"summary", l + 1, k>>
      <4>1. PICK k \in 1..n : m = <<"summary", l + 1, k>>
        BY <3>1
      <4>2. PICK w : w = <<"open", c, k>>
        OBVIOUS
      <4>3. w \in M
        BY <2>9, <4>2, Zenon
      <4>4. w[1] = "open" /\ w[2] = c /\ w[3] = k
        BY <4>2
      <4>5. f[w] = <<"summary", l + 1, k>>
        BY <2>8, <4>3, <4>4
      <4>. QED
        BY <4>1, <4>3, <4>5
    <3>2. CASE ~ \E k \in 1..n : m = <<"summary", l + 1, k>>
      <4>1. m \in M
        BY <2>9, <2>10, <3>2, Zenon
      <4>2. ~ (m[1] = "open" /\ m[2] = c)
        <5>1. ASSUME NEW i, NEW k, m = <<"summary", i, k>> PROVE m[1] # "open"
          BY <5>1
        <5>2. ASSUME NEW d, NEW k, d # c, m = <<"open", d, k>> PROVE m[2] # c
          BY <5>2
        <5>. QED
          BY <2>10, <3>2, <5>1, <5>2, Zenon
      <4>3. f[m] = m
        BY <2>8, <4>1, <4>2
      <4>. QED
        BY <4>1, <4>3
    <3>. QED
      BY <3>1, <3>2
  <2>15. \A m \in N : \E w \in M : f[w] = m
    BY <2>14, Zenon
  <2>16. f \in Injection(M, N) /\ f \in Surjection(M, N)
    BY <2>12, <2>13, <2>15 DEF Injection, Surjection, IsInjective
  <2>17. Kept(M, N)
    BY <2>16, KeptRenamed, Zenon
  <2>. QED
    BY <1>1, <2>17, Zenon
<1>. QED
  BY <1>2, <1>3, <1>4


\* The matches of an open connection count for its host.
LEMMA OpenCounted ==
    ASSUME NEW c \in Conns, NEW cs, NEW sums, cs[c] # None, Len(cs[c].matched) \in Nat,
           IsFiniteSet(Measurements(HostOf[c], cs, sums))
    PROVE  Len(cs[c].matched) <= MonitorCount(HostOf[c], cs, sums)
<1>1. PICK n, M : n = Len(cs[c].matched) /\ n \in Nat /\ M = Measurements(HostOf[c], cs, sums)
  OBVIOUS
<1>2. PICK f : f = [k \in 1..n |-> <<"open", c, k>>]
  OBVIOUS
<1>3. ASSUME NEW k \in 1..n PROVE f[k] \in M
  <2>1. InOpen(HostOf[c], cs, f[k])
    BY <1>1, <1>2 DEF InOpen
  <2>. QED
    BY <1>1, <2>1, MeasurementsAre, Zenon
<1>4. \A j, k \in 1..n : f[j] = f[k] => j = k
  BY <1>2
<1>5. f \in [1..n -> M]
  BY <1>2, <1>3
<1>6. f \in Injection(1..n, M)
  BY <1>4, <1>5 DEF Injection, IsInjective
<1>7. 1 \in Int /\ n \in Int /\ 1 <= n + 1
  BY <1>1
<1>8. IsFiniteSet(1..n) /\ Cardinality(1..n) = n
  <2>1. IsFiniteSet(1..n) /\ Cardinality(1..n) = IF 1 > n THEN 0 ELSE n - 1 + 1
    BY <1>7, FS_Interval
  <2>. QED
    BY <1>1, <2>1
<1>9. IsFiniteSet(M)
  BY <1>1, Zenon
<1>10. Cardinality(1..n) <= Cardinality(M)
  BY <1>6, <1>9, FS_Injection
<1>. QED
  BY <1>1, <1>8, <1>10 DEF MonitorCount

\* The cleaner's callback stays as it is, or ends.
SameCleaning == \A h \in Hosts : timer'.job = "clean" /\ timer'.h = h => Cleaning(h) /\ timer'.n = timer.n

\* A step that loses no measurement, and resolves no host before it has half of what
\* it needs.
LEMMA CountKept ==
    ASSUME CountInv, TypeInv,
           \A h \in Hosts : Kept(Measurements(h, conn, summaries), Measurements(h, conn', summaries')),
           \A h \in Hosts : validate'[h] = "resolved" =>
               validate[h] = "resolved" \/ 2 * MonitorCount(h, conn', summaries') >= Measure,
           \A h \in Hosts : timer'.job = "clean" /\ timer'.h = h =>
               \/ Cleaning(h) /\ timer'.n = timer.n
               \/ timer'.n <= MonitorCount(h, conn', summaries')
    PROVE  CountInv'
<1>. SUFFICES ASSUME NEW h \in Hosts
              PROVE  /\ IsFiniteSet(Measurements(h, conn', summaries'))
                     /\ validate'[h] = "resolved" => 2 * MonitorCount(h, conn', summaries') >= Measure
                     /\ timer'.job = "clean" /\ timer'.h = h =>
                            timer'.n <= MonitorCount(h, conn', summaries')
  BY Zenon DEF CountInv, Cleaning, MonitorCount, Measurements, Summarized, Matched
<1>1. PICK M, N : M = Measurements(h, conn, summaries) /\ N = Measurements(h, conn', summaries')
  OBVIOUS
<1>2. /\ IsFiniteSet(M) /\ (validate[h] = "resolved" => 2 * Cardinality(M) >= Measure)
      /\ Cleaning(h) => timer.n <= Cardinality(M)
  BY <1>1, Zenon DEF CountInv, MonitorCount
<1>3. Kept(M, N)
  BY <1>1, Zenon
<1>4. IsFiniteSet(N) /\ Cardinality(M) <= Cardinality(N)
  BY <1>2, <1>3 DEF Kept
<1>5. Cardinality(M) \in Nat /\ Cardinality(N) \in Nat /\ timer.n \in Nat
  BY <1>2, <1>4, FS_CardinalityType DEF TypeInv, Queues, Timers
<1>6. ASSUME validate'[h] = "resolved" PROVE 2 * Cardinality(N) >= Measure
  <2>1. CASE validate[h] = "resolved"
    BY <1>2, <1>4, <1>5, <2>1, Numbers
  <2>2. CASE 2 * MonitorCount(h, conn', summaries') >= Measure
    BY <1>1, <2>2 DEF MonitorCount
  <2>. QED
    BY <1>6, <2>1, <2>2
<1>7. ASSUME timer'.job = "clean" /\ timer'.h = h PROVE timer'.n <= Cardinality(N)
  <2>1. CASE Cleaning(h) /\ timer'.n = timer.n
    BY <1>2, <1>4, <1>5, <2>1
  <2>2. CASE timer'.n <= MonitorCount(h, conn', summaries')
    BY <1>1, <2>2 DEF MonitorCount
  <2>. QED
    BY <1>7, <2>1, <2>2
<1>. QED
  BY <1>1, <1>4, <1>6, <1>7 DEF MonitorCount

LEMMA SameCount ==
    ASSUME CountInv, TypeInv, UNCHANGED <<conn, summaries>>, SameCleaning,
           \A h \in Hosts : validate'[h] = "resolved" => validate[h] = "resolved"
    PROVE  CountInv'
<1>1. \A h \in Hosts : Kept(Measurements(h, conn, summaries), Measurements(h, conn', summaries'))
  BY KeptSame, Zenon
<1>. QED
  BY <1>1, CountKept, Zenon DEF SameCleaning

LEMMA TimerLeft == timer' = timer => SameCleaning
  BY DEF SameCleaning, Cleaning

LEMMA ProcessPacketCounts ==
    ASSUME TypeInv, CountInv, NEW p \in Bounded, ProcessPacketWAN(p) PROVE CountInv'
<1>1. PICK h \in Hosts, c \in Conns : h = HostOf[p.c] /\ c = p.c
  BY BoundedPacket
<1>2. summaries' = summaries /\ timer' = timer /\ conn \in [Conns -> Conn \cup {None}]
      /\ validate \in [Hosts -> {"none", "ripps", "resolved"}]
  BY DEF ProcessPacketWAN, TypeInv, Records
<1>3. \A g \in Hosts : validate'[g] = "resolved" => validate[g] = "resolved"
  <2>1. validate' = validate \/ validate' = [validate EXCEPT ![h] = "ripps"]
    BY <1>1 DEF ProcessPacketWAN
  <2>. QED
    BY <1>2, <2>1
<1>4. CASE conn' = conn
  BY <1>2, <1>3, <1>4, SameCount, TimerLeft
<1>5. CASE IsRetransmission(conn[c], p) /\ conn' = [conn EXCEPT ![c] = NoteRetransmission(@, p)]
  <2>1. PICK r \in Conn : r = conn[c]
    BY <1>2, <1>5 DEF IsRetransmission
  <2>2. PICK q : q = NoteRetransmission(r, p)
    OBVIOUS
  <2>3. q \in Conn /\ q.matched = r.matched
    <3>1. PICK rt \in SUBSET Nat : rt = r.rt \cup {p.seq + p.len}
      <4>1. PICK t \in SUBSET Nat : t = r.rt
        BY ConnFields
      <4>2. PICK e \in Nat : e = p.seq + p.len
        BY BoundedPacket
      <4>3. t \cup {e} \in SUBSET Nat
        OBVIOUS
      <4>. QED
        BY <4>1, <4>2, <4>3
    <3>2. q = [r EXCEPT !.rt = rt]
      BY <2>2, <3>1 DEF NoteRetransmission
    <3>. QED
      BY <3>2 DEF Conn
  <2>4. \A d \in Conns : d # c => conn'[d] = conn[d]
    BY <1>2, <1>5
  <2>5. conn'[c] = q /\ conn[c] = r /\ q # None /\ r # None
    BY <1>2, <1>5, <2>1, <2>2, <2>3, NoneAssumption
  <2>6. Len(r.matched) \in Nat /\ Len(q.matched) = Len(r.matched)
    BY <2>3, ConnFields, LenProperties
  <2>7. \A g \in Hosts : Kept(Measurements(g, conn, summaries), Measurements(g, conn', summaries))
    BY <2>4, <2>5, <2>6, MatchesKept
  <2>. QED
    BY <1>2, <1>3, <2>7, CountKept, TimerLeft, Zenon DEF SameCleaning
<1>. QED
  BY <1>1, <1>4, <1>5 DEF ProcessPacketWAN, SlicePacket

LEMMA ExpectAckCounts ==
    ASSUME TypeInv, CountInv, ExpectAck PROVE CountInv'
<1>1. /\ Queues /\ Records /\ Ends /\ burst # None /\ summaries' = summaries /\ timer' = timer
      /\ validate' = validate /\ conn \in [Conns -> Conn \cup {None}]
  BY DEF TypeInv, ExpectAck, hostVars, Records
<1>2. PICK p \in Bounded : p = burst.todo[1]
  BY <1>1, BurstFields
<1>3. PICK c \in Conns : c = p.c
  BY BoundedPacket
<1>4. CASE conn' = conn
  BY <1>1, <1>4, SameCount, TimerLeft
<1>5. CASE conn' # conn
  <2>1. PICK e : e = ExpectedAck(burst.n - Len(burst.todo), burst.n, burst.base, p)
    OBVIOUS
  <2>2. e.ack \in Nat /\ e.gobble \in BOOLEAN /\ e.extra \in Nat
    BY <1>1, <1>2, <2>1, BurstAck
  <2>3. PICK r \in Conn : r = IF conn[c] = None THEN NewConn ELSE conn[c]
    <3>1. conn[c] \in Conn \cup {None}
      BY <1>1
    <3>. QED
      BY <3>1, NewConnTyped
  <2>4. PICK q \in Conn : q = AddExpected(r, p, e)
    BY <2>2, AddExpectedTyped
  <2>5. q.matched = r.matched
    BY <2>2, <2>4, AddExpectedMatches, Zenon
  <2>6. conn' = [conn EXCEPT ![c] = q]
    BY <1>2, <1>3, <1>5, <2>1, <2>3, <2>4 DEF ExpectAck
  <2>7. \A d \in Conns : d # c => conn'[d] = conn[d]
    BY <1>1, <2>6
  <2>8. conn'[c] = q /\ q # None
    BY <1>1, <2>6, NoneAssumption
  <2>9. Len(r.matched) \in Nat /\ Len(q.matched) = Len(r.matched)
    BY <2>5, ConnFields, LenProperties
  <2>10. conn[c] = None => conn'[c].matched = <<>>
    BY <2>3, <2>5, <2>8 DEF NewConn
  <2>11. \A g \in Hosts : Kept(Measurements(g, conn, summaries), Measurements(g, conn', summaries))
    BY <2>3, <2>7, <2>8, <2>9, <2>10, MatchesKept
  <2>. QED
    BY <1>1, <2>11, CountKept, TimerLeft, Zenon DEF SameCleaning
<1>. QED
  BY <1>4, <1>5

\* The cleaner counts a connection with its summary from here on.
LEMMA SummaryCounts ==
    ASSUME TypeInv, CountInv, NEW c \in Conns, CreateSummary(c) PROVE CountInv'
<1>1. /\ CloseConnection(c) /\ validate' = validate /\ conn[c] # None
      /\ conn \in [Conns -> Conn \cup {None}] /\ summaries \in [Hosts -> Seq(Nat)]
      /\ timer'.job = "clean" /\ timer'.h = HostOf[c] /\ timer'.n = Len(conn[c].matched)
  BY DEF CreateSummary, IdleTimer, TypeInv, Records
<1>2. PICK h \in Hosts : h = HostOf[c]
  BY Numbers
<1>3. \A g \in Hosts : Kept(Measurements(g, conn, summaries), Measurements(g, conn', summaries'))
  BY <1>1, <1>2, CloseKept
<1>4. PICK n \in Nat : n = Len(conn[c].matched)
  BY <1>1, ConnFields, LenProperties
<1>5. PICK M, N : M = Measurements(h, conn, summaries) /\ N = Measurements(h, conn', summaries')
  OBVIOUS
<1>6. IsFiniteSet(M)
  BY <1>5, Zenon DEF CountInv
<1>7. n <= Cardinality(M)
  BY <1>1, <1>2, <1>4, <1>5, <1>6, OpenCounted DEF MonitorCount
<1>8. IsFiniteSet(N) /\ Cardinality(M) <= Cardinality(N)
  BY <1>3, <1>5, <1>6, Zenon DEF Kept
<1>9. Cardinality(M) \in Nat /\ Cardinality(N) \in Nat
  BY <1>6, <1>8, FS_CardinalityType
<1>10. n <= Cardinality(N)
  BY <1>7, <1>8, <1>9
<1>11. timer'.n <= MonitorCount(h, conn', summaries')
  BY <1>1, <1>4, <1>5, <1>10, Zenon DEF MonitorCount
<1>. QED
  BY <1>1, <1>2, <1>3, <1>11, CountKept, Zenon

\* A match adds to the round trips of its host, and takes none away.
LEMMA ProcessAckCounts ==
    ASSUME TypeInv, CountInv, ProcessAck PROVE CountInv'
<1>1. /\ ackQ \in Seq(Ack) /\ ackQ # <<>>
      /\ UNCHANGED <<validate, summaries, timer>>
      /\ conn \in [Conns -> Conn \cup {None}]
  BY DEF TypeInv, Records, ProcessAck, hostVars
<1>2. PICK a \in Ack : a = ackQ[1]
  BY <1>1, TakeFront, Zenon
<1>3. PICK c \in Conns : c = a.c
  BY DEF Ack
<1>4. CASE conn' = conn
  BY <1>1, <1>4, SameCount, TimerLeft
<1>5. CASE /\ conn[c] # None /\ Matches(conn[c], a.ack) # {}
           /\ conn' = [conn EXCEPT ![c] = ApplyMatch(conn[c], Min(Matches(conn[c], a.ack)), a.late)]
  <2>1. PICK r \in Conn : r = conn[c]
    BY <1>1, <1>5
  <2>2. PICK i \in 1..Len(r.open) : i = Min(Matches(r, a.ack))
    BY <1>5, <2>1, FirstMatch
  <2>3. PICK q : q = ApplyMatch(r, i, a.late)
    OBVIOUS
  <2>4. q \in Conn
    BY <2>3, ApplyMatchTyped
  <2>5. \/ Len(q.matched) = Len(r.matched)
        \/ Len(q.matched) = Len(r.matched) + 1
    BY <2>3, ApplyMatchMatches
  <2>6. conn' = [conn EXCEPT ![c] = q]
    BY <1>5, <2>1, <2>2, <2>3
  <2>7. Len(r.matched) \in Nat
    BY ConnFields, LenProperties
  <2>8. \A d \in Conns : d # c => conn'[d] = conn[d]
    BY <1>1, <2>6
  <2>9. conn'[c] = q /\ q # None /\ conn[c] = r /\ r # None
    BY <1>1, <2>1, <2>4, <2>6, NoneAssumption
  <2>10. \A g \in Hosts : Kept(Measurements(g, conn, summaries), Measurements(g, conn', summaries))
    BY <2>5, <2>7, <2>8, <2>9, MatchesKept
  <2>11. SameCleaning
    BY <1>1, TimerLeft
  <2>. QED
    BY <1>1, <2>10, <2>11, CountKept, Zenon DEF SameCleaning
<1>. QED
  BY <1>2, <1>3, <1>4, <1>5, Zenon DEF ProcessAck

\* The count sees a connection twice at most, so a host it releases has half of it.
LEMMA MatchAckCounts ==
    ASSUME TypeInv, CountInv, MatchAck PROVE CountInv'
<1>1. PICK a : a = lan.ack
  OBVIOUS
<1>2. /\ UNCHANGED <<conn, summaries, timer>> /\ lan # None
      /\ validate \in [Hosts -> {"none", "ripps", "resolved"}]
  BY DEF TypeInv, Records, MatchAck
<1>3. PICK h \in Hosts : h = HostOf[a.c]
  BY <1>1, <1>2, LanFields, Numbers DEF TypeInv, Ends, Ack
<1>4. PICK k : k \in Counted(h)
               /\ validate' = IF k >= Measure THEN [validate EXCEPT ![h] = "resolved"] ELSE validate
  BY <1>1, <1>3, Zenon DEF MatchAck
<1>5. PICK M : M = Measurements(h, conn, summaries)
  OBVIOUS
<1>6. IsFiniteSet(M) /\ (Cleaning(h) => timer.n <= Cardinality(M))
  BY <1>5, Zenon DEF CountInv, MonitorCount
<1>7. Cardinality(M) \in Nat /\ timer.n \in Nat
  BY <1>6, FS_CardinalityType DEF TypeInv, Queues, Timers
<1>8. k \in Nat /\ k <= 2 * Cardinality(M)
  BY <1>4, <1>5, <1>6, <1>7 DEF Counted, MonitorCount
<1>9. k >= Measure => 2 * MonitorCount(h, conn', summaries') >= Measure
  <2>1. MonitorCount(h, conn', summaries') = Cardinality(M)
    BY <1>2, <1>5, Zenon DEF MonitorCount
  <2>. QED
    BY <1>7, <1>8, <2>1, Numbers
<1>10. \A g \in Hosts : validate'[g] = "resolved" =>
           validate[g] = "resolved" \/ 2 * MonitorCount(g, conn', summaries') >= Measure
  <2>1. CASE k >= Measure
    <3>1. \A g \in Hosts : g # h => validate'[g] = validate[g]
      BY <1>2, <1>4, <2>1
    <3>. QED
      BY <1>9, <2>1, <3>1, Zenon
  <2>2. CASE ~ (k >= Measure)
    BY <1>4, <2>2, Zenon
  <2>. QED
    BY <2>1, <2>2
<1>11. \A g \in Hosts : Kept(Measurements(g, conn, summaries), Measurements(g, conn', summaries'))
  BY <1>2, KeptSame, Zenon
<1>12. SameCleaning
  BY <1>2, TimerLeft
<1>. QED
  BY <1>10, <1>11, <1>12, CountKept, Zenon DEF SameCleaning

LEMMA TerminateCounts ==
    ASSUME TypeInv, CountInv, TerminateConnection PROVE CountInv'
<1>1. PICK c : c = lan.ack.c
  OBVIOUS
<1>2. /\ CloseConnection(c) /\ UNCHANGED <<validate, timer>> /\ lan # None
      /\ conn \in [Conns -> Conn \cup {None}] /\ summaries \in [Hosts -> Seq(Nat)]
  BY <1>1 DEF TerminateConnection, TypeInv, Records
<1>3. c \in Conns
  BY <1>1, <1>2, LanFields DEF TypeInv, Ends, Ack
<1>4. PICK h \in Hosts : h = HostOf[c]
  BY <1>3, Numbers
<1>5. \A g \in Hosts : Kept(Measurements(g, conn, summaries), Measurements(g, conn', summaries'))
  BY <1>2, <1>3, <1>4, CloseKept
<1>6. SameCleaning
  BY <1>2, TimerLeft
<1>. QED
  BY <1>2, <1>5, <1>6, CountKept, Zenon DEF SameCleaning

LEMMA StepCounts == TypeInv /\ CountInv /\ [Next]_vars => CountInv'
<1>. SUFFICES ASSUME TypeInv, CountInv, [Next]_vars PROVE CountInv'
  OBVIOUS
<1>1. CASE \E c \in Conns : \E n \in Sizes[c] : Send(c, n)
  BY <1>1, SendersPacket, ProcessPacketCounts DEF Send
<1>2. CASE \E c \in Conns, kind \in {"data", "flag"} : SendControl(c, kind)
  BY <1>2, SendersPacket, ProcessPacketCounts DEF SendControl
<1>3. CASE \E c \in Conns : Retransmit(c)
  BY <1>3, SendersPacket, ProcessPacketCounts DEF Retransmit
<1>4. CASE ExpectAck \/ LANThread
  BY <1>4, ExpectAckCounts, ProcessAckCounts, MatchAckCounts, TerminateCounts DEF LANThread
<1>5. CASE \E c \in Conns : CreateSummary(c)
  BY <1>5, SummaryCounts
<1>6. CASE UNCHANGED <<validate, conn, summaries, timer>>
  BY <1>6, SameCount, TimerLeft
<1>7. ASSUME \/ \E c \in Conns : HostFinishes(c) \/ HostSends(c)
             \/ ShapeSlice
             \/ \E h \in Hosts : HostReceives(h) \/ LosePacket(h)
             \/ UNCHANGED vars
      PROVE  UNCHANGED <<validate, conn, summaries, timer>>
  BY <1>7, Zenon DEF HostFinishes, HostSends, ShapeSlice, HostReceives, LosePacket, vars, hostVars
<1>8. CASE ResumePostTap \/ RemoveConnection \/ \E h \in Hosts : ShapeTimer(h) \/ PostTimer(h)
  <2>1. UNCHANGED <<validate, conn, summaries>>
    BY <1>8, Zenon DEF ResumePostTap, RemoveConnection, ShapeTimer, PostTimer, hostVars
  <2>2. SameCleaning
    <3>1. timer \in Timers
      BY DEF TypeInv, Queues
    <3>2. CASE ResumePostTap \/ RemoveConnection
      BY <3>1, <3>2 DEF ResumePostTap, RemoveConnection, SameCleaning, Cleaning, IdleTimer, Timers
    <3>3. CASE \E h \in Hosts : ShapeTimer(h) \/ PostTimer(h)
      <4>1. ASSUME NEW h \in Hosts, ShapeTimer(h) PROVE timer' = timer \/ timer'.job # "clean"
        BY <4>1 DEF ShapeTimer, IdleTimer
      <4>2. ASSUME NEW h \in Hosts, PostTimer(h) PROVE timer'.job # "clean"
        <5>1. CASE shapeQ[h] = <<>>
          <6>1. timer' = IdleTimer
            BY <4>2, <5>1 DEF PostTimer
          <6>. QED
            BY <6>1 DEF IdleTimer
        <5>2. CASE shapeQ[h] # <<>>
          <6>1. timer'.job = "post"
            BY <4>2, <5>2 DEF PostTimer, IdleTimer
          <6>. QED
            BY <6>1
        <5>. QED
          BY <5>1, <5>2
      <4>. QED
        BY <3>3, <4>1, <4>2 DEF SameCleaning, Cleaning
    <3>. QED
      BY <1>8, <3>2, <3>3
  <2>. QED
    BY <2>1, <2>2, SameCount
<1>. QED
  BY <1>1, <1>2, <1>3, <1>4, <1>5, <1>6, <1>7, <1>8 DEF Next

LEMMA InitCounts == Init => CountInv
<1>. SUFFICES ASSUME Init, NEW h \in Hosts
              PROVE  /\ IsFiniteSet(Measurements(h, conn, summaries))
                     /\ validate[h] # "resolved" /\ ~ Cleaning(h)
  BY DEF CountInv
<1>1. \A m : ~ InSummary(h, summaries, m) /\ ~ InOpen(h, conn, m)
  BY DEF Init, InSummary, InOpen
<1>2. Measurements(h, conn, summaries) = {}
  BY <1>1, MeasurementsAre
<1>. QED
  BY <1>2, FS_EmptySet DEF Init, IdleTimer, Cleaning

\* A host is released on at least half of the round trips asked for: the count sees
\* a connection twice at most, with the summary the cleaner made of it, and no FIN,
\* clean-up or match takes a round trip away (matchAck, createSummary,
\* removeConnection, getMonitorCount).
THEOREM ReleaseIsMeasured == Spec => []ResolvedIsMeasured
<1>1. CountInv => ResolvedIsMeasured
  BY DEF CountInv, ResolvedIsMeasured
<1>. QED
  BY <1>1, InitTyped, StepTyped, InitCounts, StepCounts, PTL DEF Spec

-----------------------------------------------------------------------------
(* How often a value is in a sequence.                                     *)

Where(s, a) == {i \in DOMAIN s : s[i] = a}
Count(s, a) == Cardinality(Where(s, a))

LEMMA CountProperties ==
    ASSUME NEW n \in Nat, NEW s, DOMAIN s = 1..n, NEW a
    PROVE  /\ Count(s, a) \in Nat
           /\ Count(s, a) = 0 <=> \A i \in 1..n : s[i] # a
           /\ IsFiniteSet(Where(s, a))
<1>1. PICK T : T = Where(s, a)
  OBVIOUS
<1>2. T \in SUBSET (1..n)
  BY <1>1 DEF Where
<1>3. IsFiniteSet(1..n)
  BY FS_Interval
<1>4. IsFiniteSet(T)
  BY <1>2, <1>3, FS_Subset
<1>5. Cardinality(T) \in Nat /\ (Cardinality(T) = 0 <=> T = {})
  BY <1>4, FS_CardinalityType, FS_EmptySet
<1>6. T = {} <=> \A i \in 1..n : s[i] # a
  BY <1>1 DEF Where
<1>. QED
  BY <1>1, <1>4, <1>5, <1>6 DEF Count

\* A value taken out of a sequence, or put into it.
Without(s, i, n, t) ==
    /\ n \in Nat /\ i \in 1..(n + 1) /\ DOMAIN s = 1..(n + 1) /\ DOMAIN t = 1..n
    /\ \A k \in 1..n : (k < i => t[k] = s[k]) /\ (~ (k < i) => t[k] = s[k + 1])

LEMMA CountRemoved ==
    ASSUME NEW s, NEW i, NEW n, NEW t, Without(s, i, n, t), NEW a
    PROVE  /\ s[i] = a => Count(s, a) = Count(t, a) + 1
           /\ s[i] # a => Count(s, a) = Count(t, a)
<1>. /\ n \in Nat /\ i \in 1..(n + 1) /\ DOMAIN s = 1..(n + 1) /\ DOMAIN t = 1..n
     /\ \A k \in 1..n : (k < i => t[k] = s[k]) /\ (~ (k < i) => t[k] = s[k + 1])
  BY DEF Without
<1>1. PICK S, T : S = Where(s, a) /\ T = Where(t, a)
  OBVIOUS
<1>2. IsFiniteSet(S) /\ IsFiniteSet(T) /\ Count(s, a) = Cardinality(S) /\ Count(t, a) = Cardinality(T)
  <2>1. IsFiniteSet(Where(t, a))
    BY CountProperties, Zenon
  <2>2. PICK m \in Nat : m = n + 1
    OBVIOUS
  <2>3. DOMAIN s = 1..m
    BY <2>2
  <2>4. IsFiniteSet(Where(s, a))
    BY <2>3, CountProperties, Zenon
  <2>. QED
    BY <1>1, <2>1, <2>4 DEF Count
<1>3. PICK f : f = [k \in T |-> IF k < i THEN k ELSE k + 1]
  OBVIOUS
<1>4. T = {k \in 1..n : t[k] = a}
  BY <1>1 DEF Where
<1>5. S = {k \in 1..(n + 1) : s[k] = a}
  BY <1>1 DEF Where
<1>6. \A k \in T : f[k] \in S \ {i}
  <2>. SUFFICES ASSUME NEW k \in T PROVE f[k] \in S \ {i}
    OBVIOUS
  <2>1. k \in 1..n /\ t[k] = a
    BY <1>4
  <2>2. CASE k < i
    <3>1. k \in 1..(n + 1) /\ s[k] = a /\ f[k] = k /\ k # i
      BY <1>3, <2>1, <2>2
    <3>. QED
      BY <1>5, <3>1
  <2>3. CASE ~ (k < i)
    <3>1. k + 1 \in 1..(n + 1) /\ s[k + 1] = a /\ f[k] = k + 1 /\ k + 1 # i
      BY <1>3, <2>1, <2>3
    <3>. QED
      BY <1>5, <3>1
  <2>. QED
    BY <2>2, <2>3
<1>7. f \in [T -> S \ {i}]
  BY <1>3, <1>6
<1>8. \A j, k \in T : f[j] = f[k] => j = k
  BY <1>3, <1>4
<1>9. ASSUME NEW j \in S \ {i} PROVE \E k \in T : f[k] = j
  <2>1. j \in 1..(n + 1) /\ s[j] = a /\ j # i
    BY <1>5
  <2>2. CASE j < i
    <3>1. j \in 1..n /\ t[j] = a
      BY <2>1, <2>2
    <3>2. j \in T
      BY <1>4, <3>1
    <3>. QED
      BY <1>3, <2>2, <3>2
  <2>3. CASE ~ (j < i)
    <3>1. PICK k \in 1..n : k + 1 = j /\ ~ (k < i)
      <4>1. j - 1 \in 1..n /\ (j - 1) + 1 = j /\ ~ (j - 1 < i)
        BY <2>1, <2>3
      <4>. QED
        BY <4>1
    <3>2. t[k] = a
      BY <2>1, <3>1
    <3>3. k \in T
      BY <1>4, <3>2
    <3>. QED
      BY <1>3, <3>1, <3>3
  <2>. QED
    BY <2>2, <2>3
<1>10. f \in Bijection(T, S \ {i})
  <2>1. f \in Injection(T, S \ {i})
    BY <1>7, <1>8 DEF Injection, IsInjective
  <2>2. f \in Surjection(T, S \ {i})
    BY <1>7, <1>9 DEF Surjection
  <2>. QED
    BY <2>1, <2>2 DEF Bijection
<1>11. Cardinality(S \ {i}) = Cardinality(T)
  BY <1>2, <1>10, FS_Bijection DEF ExistsBijection
<1>12. Cardinality(S \ {i}) = IF i \in S THEN Cardinality(S) - 1 ELSE Cardinality(S)
  BY <1>2, FS_RemoveElement
<1>13. Cardinality(S) \in Nat /\ Cardinality(T) \in Nat
  BY <1>2, FS_CardinalityType
<1>. QED
  BY <1>2, <1>5, <1>11, <1>12, <1>13

\* A sequence that goes on has no value less often.
LEMMA CountLonger ==
    ASSUME NEW n \in Nat, NEW m \in Nat, m <= n, NEW s, DOMAIN s = 1..n, NEW t, DOMAIN t = 1..m,
           \A k \in 1..m : t[k] = s[k], NEW a
    PROVE  Count(t, a) <= Count(s, a)
<1>1. Where(t, a) \in SUBSET Where(s, a)
  BY DEF Where
<1>2. IsFiniteSet(Where(s, a))
  BY CountProperties, Zenon
<1>. QED
  BY <1>1, <1>2, FS_Subset, Zenon DEF Count

\* What is dropped in front of a sequence without the value does not count.
Behind(s, m, n, t) ==
    /\ n \in Nat /\ m \in 0..n /\ DOMAIN s = 1..n /\ DOMAIN t = 1..(n - m)
    /\ \A k \in 1..(n - m) : t[k] = s[k + m]

LEMMA CountDropped ==
    ASSUME NEW s, NEW m, NEW n, NEW t, Behind(s, m, n, t), NEW a, \A k \in 1..m : s[k] # a
    PROVE  Count(t, a) = Count(s, a)
<1>. /\ n \in Nat /\ m \in 0..n /\ DOMAIN s = 1..n /\ DOMAIN t = 1..(n - m)
     /\ \A k \in 1..(n - m) : t[k] = s[k + m]
  BY DEF Behind
<1>1. PICK S, T : S = Where(s, a) /\ T = Where(t, a)
  OBVIOUS
<1>2. IsFiniteSet(T) /\ Count(s, a) = Cardinality(S) /\ Count(t, a) = Cardinality(T)
  <2>1. PICK l \in Nat : l = n - m
    OBVIOUS
  <2>2. DOMAIN t = 1..l
    BY <2>1
  <2>3. IsFiniteSet(Where(t, a))
    BY <2>2, CountProperties, Zenon
  <2>. QED
    BY <1>1, <2>3 DEF Count
<1>3. PICK f : f = [k \in T |-> k + m]
  OBVIOUS
<1>4. T = {k \in 1..(n - m) : t[k] = a}
  BY <1>1 DEF Where
<1>5. S = {k \in 1..n : s[k] = a}
  BY <1>1 DEF Where
<1>6. f \in [T -> S]
  <2>1. ASSUME NEW k \in T PROVE k + m \in S
    <3>1. k + m \in 1..n /\ s[k + m] = a
      BY <1>4
    <3>. QED
      BY <1>5, <3>1
  <2>. QED
    BY <1>3, <2>1
<1>7. \A j, k \in T : f[j] = f[k] => j = k
  BY <1>3, <1>4
<1>8. ASSUME NEW j \in S PROVE \E k \in T : f[k] = j
  <2>1. j \in 1..n /\ s[j] = a
    BY <1>5
  <2>2. ~ (j <= m)
    BY <2>1
  <2>3. PICK k \in 1..(n - m) : k + m = j
    <3>1. j - m \in 1..(n - m) /\ (j - m) + m = j
      BY <2>1, <2>2
    <3>. QED
      BY <3>1
  <2>4. k \in T
    BY <1>4, <2>1, <2>3
  <2>. QED
    BY <1>3, <2>3, <2>4
<1>9. f \in Bijection(T, S)
  <2>1. f \in Injection(T, S)
    BY <1>6, <1>7 DEF Injection, IsInjective
  <2>2. f \in Surjection(T, S)
    BY <1>6, <1>8 DEF Surjection
  <2>. QED
    BY <2>1, <2>2 DEF Bijection
<1>. QED
  BY <1>2, <1>9, FS_Bijection DEF ExistsBijection

-----------------------------------------------------------------------------
(* The answers a host will give.                                           *)

Slots(p) == p.seq..(p.seq + p.len - 1)

\* The slices of c that a host with g has when the first i packets of w came.
Seen(g, c, w, i) == g \cup {k \in Nat : \E j \in 1..i : w[j].c = c /\ k \in Slots(w[j])}

\* What the host will ask for at each packet of w, or -1.
AskedOf(g, c, w) ==
    [i \in 1..Len(w) |->
        IF w[i].c = c /\ w[i].len > 0 THEN NextMissing(Seen(g, c, w, i)) ELSE -1]

\* What the acks of c in q ask for.
GivenOf(q, c) == [i \in 1..Len(q) |-> IF q[i].c = c THEN q[i].ack ELSE -1]

LEMMA MissingOf ==
    ASSUME NEW s, MaxSeq \notin s
    PROVE  /\ NextMissing(s) \in 0..MaxSeq /\ NextMissing(s) \notin s
           /\ \A k \in 0..MaxSeq : k < NextMissing(s) => k \in s
<1>1. MaxSeq \in Nat
  BY Numbers
<1>2. PICK T : T = {i \in 0..MaxSeq : i \notin s}
  OBVIOUS
<1>3. T \in SUBSET Nat /\ MaxSeq \in T
  BY <1>1, <1>2
<1>4. Min(T) \in T /\ \A m \in T : Min(T) <= m
  BY <1>3, MinProperties
<1>5. PICK n : n = Min(T)
  OBVIOUS
<1>6. n \in 0..MaxSeq /\ n \notin s
  BY <1>2, <1>4, <1>5
<1>7. \A k \in 0..MaxSeq : k < n => k \in s
  BY <1>1, <1>2, <1>4, <1>5, <1>6
<1>8. NextMissing(s) = n
  BY <1>2, <1>5 DEF NextMissing
<1>. QED
  BY <1>6, <1>7, <1>8

LEMMA MissingIs ==
    ASSUME NEW s, NEW m \in 0..MaxSeq, m \notin s, \A k \in 0..(m - 1) : k \in s
    PROVE  NextMissing(s) = m
<1>1. MaxSeq \in Nat
  BY Numbers
<1>2. PICK T : T = {i \in 0..MaxSeq : i \notin s}
  OBVIOUS
<1>3. T \in SUBSET Nat /\ m \in T
  BY <1>1, <1>2
<1>4. Min(T) \in T /\ Min(T) <= m
  BY <1>3, MinProperties
<1>5. PICK n : n = Min(T)
  OBVIOUS
<1>6. n \in 0..MaxSeq /\ n \notin s /\ n <= m
  BY <1>2, <1>4, <1>5
<1>7. ~ (n < m)
  BY <1>1, <1>6
<1>. QED
  BY <1>1, <1>2, <1>5, <1>6, <1>7 DEF NextMissing

LEMMA MissingGrows ==
    ASSUME NEW s, NEW t, s \subseteq t, MaxSeq \notin t
    PROVE  NextMissing(s) <= NextMissing(t)
<1>1. MaxSeq \in Nat
  BY Numbers
<1>2. PICK m \in 0..MaxSeq : m = NextMissing(s) /\ \A k \in 0..MaxSeq : k < m => k \in s
  BY MissingOf
<1>3. PICK n \in 0..MaxSeq : n = NextMissing(t) /\ n \notin t
  BY MissingOf
<1>4. ~ (n < m)
  BY <1>2, <1>3
<1>. QED
  BY <1>1, <1>2, <1>3, <1>4

Within == SUBSET (0..(MaxSeq - 1))

LEMMA NotLast == \A s \in Within : MaxSeq \notin s
  BY Numbers DEF Within

LEMMA SeenTyped ==
    ASSUME NEW g \in Within, NEW c, NEW w \in Seq(Bounded), NEW i \in 0..Len(w)
    PROVE  Seen(g, c, w, i) \in Within
<1>1. MaxSeq \in Nat
  BY Numbers
<1>2. PICK n \in Nat : n = Len(w) /\ i \in 0..n
  BY LenProperties
<1>3. ASSUME NEW j \in 1..i, NEW k \in Nat, k \in Slots(w[j]) PROVE k \in 0..(MaxSeq - 1)
  <2>1. w[j] \in Bounded
    BY <1>2, ElementOfSeq
  <2>2. PICK a \in Nat, l \in Nat : a = w[j].seq /\ l = w[j].len /\ a + l <= MaxSeq
    BY <2>1, BoundedPacket
  <2>3. k \in a..(a + l - 1)
    BY <1>3, <2>2 DEF Slots
  <2>. QED
    BY <1>1, <2>2, <2>3
<1>. QED
  BY <1>3 DEF Seen, Within

LEMMA SeenGrows ==
    ASSUME NEW g, NEW c, NEW w, NEW i \in Nat, NEW j \in Nat, i <= j
    PROVE  Seen(g, c, w, i) \subseteq Seen(g, c, w, j)
<1>1. 1..i \subseteq 1..j
  OBVIOUS
<1>. QED
  BY <1>1 DEF Seen

LEMMA SeenNone == \A g, c, w : Seen(g, c, w, 0) = g
<1>1. 1..0 = {}
  OBVIOUS
<1>. QED
  BY <1>1 DEF Seen

Pushed(w, x, v) == v = Append(w, x)
OneMore(s, t, a, cond, b) ==
    /\ cond /\ b = a => Count(t, a) = Count(s, a) + 1
    /\ ~ (cond /\ b = a) => Count(t, a) = Count(s, a)

\* A packet more, at the end or from the front.
LEMMA SeenPushed ==
    ASSUME NEW g, NEW c, NEW w \in Seq(Bounded), NEW x \in Bounded
    PROVE  /\ \A i \in 0..Len(w) : Seen(g, c, Append(w, x), i) = Seen(g, c, w, i)
           /\ x.c = c => Seen(g, c, Append(w, x), Len(w) + 1) = Seen(g, c, w, Len(w)) \cup Slots(x)
           /\ x.c # c => Seen(g, c, Append(w, x), Len(w) + 1) = Seen(g, c, w, Len(w))
<1>. PICK v : v = Append(w, x)
  OBVIOUS
<1>. PICK n \in Nat : n = Len(w)
  BY LenProperties
<1>1. v[n + 1] = x /\ \A j \in 1..n : v[j] = w[j]
  BY AppendProperties
<1>2. ASSUME NEW i \in 0..n PROVE Seen(g, c, v, i) = Seen(g, c, w, i)
  <2>1. \A j \in 1..i : v[j] = w[j]
    BY <1>1
  <2>. QED
    BY <2>1 DEF Seen
<1>3. Slots(x) \subseteq Nat
  <2>1. PICK a \in Nat, l \in Nat : a = x.seq /\ l = x.len
    BY BoundedPacket
  <2>2. a..(a + l - 1) \subseteq Nat
    OBVIOUS
  <2>. QED
    BY <2>1, <2>2 DEF Slots
<1>4. \A j : j \in 1..(n + 1) <=> j \in 1..n \/ j = n + 1
  OBVIOUS
<1>5. ASSUME NEW k
      PROVE  k \in Seen(g, c, v, n + 1)
                <=> k \in Seen(g, c, w, n) \/ (x.c = c /\ k \in Slots(x))
  <2>1. k \in Seen(g, c, v, n + 1)
           <=> k \in g \/ (k \in Nat /\ \E j \in 1..(n + 1) : v[j].c = c /\ k \in Slots(v[j]))
    BY DEF Seen
  <2>2. k \in Seen(g, c, w, n)
           <=> k \in g \/ (k \in Nat /\ \E j \in 1..n : w[j].c = c /\ k \in Slots(w[j]))
    BY DEF Seen
  <2>3. (\E j \in 1..(n + 1) : v[j].c = c /\ k \in Slots(v[j]))
           <=> (\E j \in 1..n : w[j].c = c /\ k \in Slots(w[j])) \/ (x.c = c /\ k \in Slots(x))
    BY <1>1, <1>4, Zenon
  <2>. QED
    BY <1>3, <2>1, <2>2, <2>3
<1>. QED
  BY <1>2, <1>5

LEMMA SeenPopped ==
    ASSUME NEW g, NEW c, NEW w \in Seq(Bounded), w # <<>>, NEW e,
           w[1].c = c => e = g \cup Slots(w[1]), w[1].c # c => e = g
    PROVE  \A i \in 0..Len(Tail(w)) : Seen(e, c, Tail(w), i) = Seen(g, c, w, i + 1)
<1>. PICK n \in Nat, v \in Seq(Bounded) : n + 1 = Len(w) /\ n = Len(v) /\ v = Tail(w)
  <2>1. Len(w) \in Nat \ {0} /\ Tail(w) \in Seq(Bounded)
    BY TakeFront, HeadTailProperties
  <2>2. Len(Tail(w)) \in Nat /\ Len(Tail(w)) + 1 = Len(w)
    BY <2>1, HeadTailProperties
  <2>. QED
    BY <2>1, <2>2, Zenon
<1>1. w[1] \in Bounded /\ \A j \in 1..n : v[j] = w[j + 1]
  BY HeadTailProperties, TakeFront
<1>2. Slots(w[1]) \subseteq Nat
  <2>1. PICK a \in Nat, l \in Nat : a = w[1].seq /\ l = w[1].len
    BY <1>1, BoundedPacket
  <2>2. a..(a + l - 1) \subseteq Nat
    OBVIOUS
  <2>. QED
    BY <2>1, <2>2 DEF Slots
<1>. SUFFICES ASSUME NEW i \in 0..n, NEW k
              PROVE  k \in Seen(e, c, v, i) <=> k \in Seen(g, c, w, i + 1)
  OBVIOUS
<1>3. k \in Seen(e, c, v, i)
         <=> k \in e \/ (k \in Nat /\ \E j \in 1..i : v[j].c = c /\ k \in Slots(v[j]))
  BY DEF Seen
<1>4. k \in Seen(g, c, w, i + 1)
         <=> k \in g \/ (k \in Nat /\ \E j \in 1..(i + 1) : w[j].c = c /\ k \in Slots(w[j]))
  BY DEF Seen
<1>5. (\E j \in 1..(i + 1) : w[j].c = c /\ k \in Slots(w[j]))
         <=> (w[1].c = c /\ k \in Slots(w[1]))
                \/ \E j \in 1..i : w[j + 1].c = c /\ k \in Slots(w[j + 1])
  <2>1. \A j \in 1..(i + 1) : j = 1 \/ \E l \in 1..i : j = l + 1
    <3>. SUFFICES ASSUME NEW j \in 1..(i + 1), j # 1 PROVE \E l \in 1..i : j = l + 1
      OBVIOUS
    <3>1. j - 1 \in 1..i /\ j = (j - 1) + 1
      OBVIOUS
    <3>. QED
      BY <3>1
  <2>2. 1 \in 1..(i + 1) /\ \A j \in 1..i : j + 1 \in 1..(i + 1)
    OBVIOUS
  <2>. QED
    BY <2>1, <2>2, Zenon
<1>6. \A j \in 1..i : v[j] = w[j + 1]
  BY <1>1
<1>7. (\E j \in 1..i : v[j].c = c /\ k \in Slots(v[j]))
         <=> \E j \in 1..i : w[j + 1].c = c /\ k \in Slots(w[j + 1])
  BY <1>6, Zenon
<1>8. k \in e <=> k \in g \/ (w[1].c = c /\ k \in Slots(w[1]))
  OBVIOUS
<1>. QED
  BY <1>2, <1>3, <1>4, <1>5, <1>7, <1>8, Zenon

\* How often an answer is asked for, when a packet more is on its way or one has come.
LEMMA AskedPushed ==
    ASSUME NEW g \in Within, NEW c, NEW w \in Seq(Bounded), NEW x \in Bounded,
           NEW v, Pushed(w, x, v), NEW a \in Nat
    PROVE  OneMore(AskedOf(g, c, w), AskedOf(g, c, v), a,
                   x.c = c /\ x.len > 0, NextMissing(Seen(g, c, w, Len(w)) \cup Slots(x)))
<1>. PICK n \in Nat : n = Len(w)
  BY LenProperties
<1>1. v = Append(w, x)
  BY DEF Pushed
<1>2. v \in Seq(Bounded) /\ Len(v) = n + 1 /\ v[n + 1] = x /\ \A j \in 1..n : v[j] = w[j]
  BY <1>1, AppendProperties
<1>3. /\ \A i \in 0..n : Seen(g, c, v, i) = Seen(g, c, w, i)
      /\ x.c = c => Seen(g, c, v, n + 1) = Seen(g, c, w, n) \cup Slots(x)
      /\ x.c # c => Seen(g, c, v, n + 1) = Seen(g, c, w, n)
  <2>1. /\ \A i \in 0..Len(w) : Seen(g, c, Append(w, x), i) = Seen(g, c, w, i)
        /\ x.c = c => Seen(g, c, Append(w, x), Len(w) + 1) = Seen(g, c, w, Len(w)) \cup Slots(x)
        /\ x.c # c => Seen(g, c, Append(w, x), Len(w) + 1) = Seen(g, c, w, Len(w))
    BY SeenPushed
  <2>. QED
    BY <1>1, <2>1
<1>4. PICK s, t : s = AskedOf(g, c, v) /\ t = AskedOf(g, c, w)
  OBVIOUS
<1>5. /\ DOMAIN s = 1..(n + 1) /\ DOMAIN t = 1..n
      /\ \A i \in 1..(n + 1) : s[i] = IF v[i].c = c /\ v[i].len > 0
                                       THEN NextMissing(Seen(g, c, v, i)) ELSE -1
      /\ \A i \in 1..n : t[i] = IF w[i].c = c /\ w[i].len > 0
                                 THEN NextMissing(Seen(g, c, w, i)) ELSE -1
  BY <1>2, <1>4 DEF AskedOf
<1>6. \A k \in 1..n : t[k] = s[k]
  <2>. SUFFICES ASSUME NEW k \in 1..n PROVE t[k] = s[k]
    OBVIOUS
  <2>1. k \in 1..(n + 1) /\ k \in 0..n
    OBVIOUS
  <2>2. v[k] = w[k] /\ Seen(g, c, v, k) = Seen(g, c, w, k)
    BY <1>2, <1>3, <2>1
  <2>. QED
    BY <1>5, <2>1, <2>2
<1>7. n + 1 \in 1..(n + 1) /\ DOMAIN s = 1..(n + 1) /\ DOMAIN t = 1..n
  BY <1>5
<1>8. /\ s[n + 1] = a => Count(s, a) = Count(t, a) + 1
      /\ s[n + 1] # a => Count(s, a) = Count(t, a)
  <2>1. Without(s, n + 1, n, t)
    BY <1>6, <1>7 DEF Without
  <2>. QED
    BY <2>1, CountRemoved
<1>9. s[n + 1] = IF x.c = c /\ x.len > 0
                 THEN NextMissing(Seen(g, c, w, n) \cup Slots(x)) ELSE -1
  <2>1. s[n + 1] = IF x.c = c /\ x.len > 0 THEN NextMissing(Seen(g, c, v, n + 1)) ELSE -1
    BY <1>2, <1>5, <1>7
  <2>2. x.c = c => Seen(g, c, v, n + 1) = Seen(g, c, w, n) \cup Slots(x)
    BY <1>3
  <2>. QED
    BY <2>1, <2>2
<1>10. -1 # a
  OBVIOUS
<1>. QED
  BY <1>4, <1>8, <1>9, <1>10 DEF OneMore

LEMMA AskedPopped ==
    ASSUME NEW g \in Within, NEW c, NEW w \in Seq(Bounded), w # <<>>, NEW a \in Nat,
           NEW e, w[1].c = c => e = g \cup Slots(w[1]), w[1].c # c => e = g
    PROVE  Count(AskedOf(g, c, w), a) =
              IF w[1].c = c /\ w[1].len > 0 /\ NextMissing(e) = a
              THEN Count(AskedOf(e, c, Tail(w)), a) + 1 ELSE Count(AskedOf(e, c, Tail(w)), a)
<1>1. PICK v : v = Tail(w)
  BY Zenon
<1>2. PICK n \in Nat : n + 1 = Len(w)
  <2>1. Len(w) \in Nat \ {0}
    BY TakeFront
  <2>2. Len(w) - 1 \in Nat /\ (Len(w) - 1) + 1 = Len(w)
    BY <2>1
  <2>. QED
    BY <2>2, Zenon
<1>3. v \in Seq(Bounded) /\ Len(v) = n /\ \A j \in 1..n : v[j] = w[j + 1]
  BY <1>1, <1>2, HeadTailProperties
<1>4. \A i \in 0..n : Seen(e, c, v, i) = Seen(g, c, w, i + 1)
  <2>1. \A i \in 0..Len(Tail(w)) : Seen(e, c, Tail(w), i) = Seen(g, c, w, i + 1)
    BY SeenPopped
  <2>. QED
    BY <1>1, <1>3, <2>1
<1>5. PICK s, t : s = AskedOf(g, c, w) /\ t = AskedOf(e, c, v)
  OBVIOUS
<1>6. /\ DOMAIN s = 1..(n + 1) /\ DOMAIN t = 1..n
      /\ \A i \in 1..(n + 1) : s[i] = IF w[i].c = c /\ w[i].len > 0
                                       THEN NextMissing(Seen(g, c, w, i)) ELSE -1
      /\ \A i \in 1..n : t[i] = IF v[i].c = c /\ v[i].len > 0
                                 THEN NextMissing(Seen(e, c, v, i)) ELSE -1
  BY <1>2, <1>3, <1>5 DEF AskedOf
<1>7. \A k \in 1..n : t[k] = s[k + 1]
  <2>. SUFFICES ASSUME NEW k \in 1..n PROVE t[k] = s[k + 1]
    OBVIOUS
  <2>1. k + 1 \in 1..(n + 1) /\ k \in 0..n
    OBVIOUS
  <2>2. v[k] = w[k + 1] /\ Seen(e, c, v, k) = Seen(g, c, w, k + 1)
    BY <1>3, <1>4, <2>1
  <2>. QED
    BY <1>6, <2>1, <2>2
<1>8. 1 \in 1..(n + 1) /\ 0 \in 0..n /\ 0 + 1 = 1 /\ DOMAIN s = 1..(n + 1) /\ DOMAIN t = 1..n
  BY <1>6
<1>9. /\ s[1] = a => Count(s, a) = Count(t, a) + 1
      /\ s[1] # a => Count(s, a) = Count(t, a)
  <2>1. Without(s, 1, n, t)
    BY <1>7, <1>8 DEF Without
  <2>. QED
    BY <2>1, CountRemoved
<1>10. Seen(g, c, w, 1) = Seen(e, c, v, 0)
  BY <1>4, <1>8, Zenon
<1>11. Seen(g, c, w, 1) = e
  BY <1>10, SeenNone
<1>12. s[1] = IF w[1].c = c /\ w[1].len > 0 THEN NextMissing(e) ELSE -1
  BY <1>6, <1>8, <1>11
<1>13. -1 # a
  OBVIOUS
<1>. QED
  BY <1>1, <1>5, <1>9, <1>12, <1>13

\* An ack more, at the end or from the front.
LEMMA GivenPushed ==
    ASSUME NEW c, NEW q \in Seq(Ack), NEW x \in Ack, NEW a \in Nat
    PROVE  Count(GivenOf(Append(q, x), c), a) =
              IF x.c = c /\ x.ack = a THEN Count(GivenOf(q, c), a) + 1 ELSE Count(GivenOf(q, c), a)
<1>1. PICK n \in Nat : n = Len(q)
  BY LenProperties
<1>2. PICK v : v = Append(q, x)
  OBVIOUS
<1>3. Len(v) = n + 1 /\ v[n + 1] = x /\ \A j \in 1..n : v[j] = q[j]
  BY <1>1, <1>2, AppendProperties
<1>4. PICK s, t : s = GivenOf(v, c) /\ t = GivenOf(q, c)
  OBVIOUS
<1>5. /\ DOMAIN s = 1..(n + 1) /\ DOMAIN t = 1..n
      /\ \A i \in 1..(n + 1) : s[i] = IF v[i].c = c THEN v[i].ack ELSE -1
      /\ \A i \in 1..n : t[i] = IF q[i].c = c THEN q[i].ack ELSE -1
  BY <1>1, <1>3, <1>4 DEF GivenOf
<1>6. /\ n + 1 \in 1..(n + 1) /\ DOMAIN s = 1..(n + 1) /\ DOMAIN t = 1..n
      /\ \A k \in 1..n : t[k] = s[k]
  BY <1>3, <1>5
<1>7. /\ s[n + 1] = a => Count(s, a) = Count(t, a) + 1
      /\ s[n + 1] # a => Count(s, a) = Count(t, a)
  <2>1. Without(s, n + 1, n, t)
    BY <1>6 DEF Without
  <2>. QED
    BY <2>1, CountRemoved
<1>8. s[n + 1] = IF x.c = c THEN x.ack ELSE -1
  BY <1>3, <1>5, <1>6
<1>9. -1 # a
  OBVIOUS
<1>. QED
  BY <1>2, <1>4, <1>7, <1>8, <1>9

LEMMA GivenPopped ==
    ASSUME NEW c, NEW q \in Seq(Ack), q # <<>>, NEW a \in Nat
    PROVE  Count(GivenOf(q, c), a) =
              IF q[1].c = c /\ q[1].ack = a
              THEN Count(GivenOf(Tail(q), c), a) + 1 ELSE Count(GivenOf(Tail(q), c), a)
<1>1. PICK n \in Nat : n + 1 = Len(q)
  <2>1. Len(q) \in Nat \ {0}
    BY TakeFront
  <2>2. Len(q) - 1 \in Nat /\ (Len(q) - 1) + 1 = Len(q)
    BY <2>1
  <2>. QED
    BY <2>2, Zenon
<1>2. PICK v : v = Tail(q)
  OBVIOUS
<1>3. Len(v) = n /\ \A j \in 1..n : v[j] = q[j + 1]
  BY <1>1, <1>2, HeadTailProperties
<1>4. PICK s, t : s = GivenOf(q, c) /\ t = GivenOf(v, c)
  OBVIOUS
<1>5. /\ DOMAIN s = 1..(n + 1) /\ DOMAIN t = 1..n
      /\ \A i \in 1..(n + 1) : s[i] = IF q[i].c = c THEN q[i].ack ELSE -1
      /\ \A i \in 1..n : t[i] = IF v[i].c = c THEN v[i].ack ELSE -1
  BY <1>1, <1>3, <1>4 DEF GivenOf
<1>6. 1 \in 1..(n + 1) /\ DOMAIN s = 1..(n + 1) /\ DOMAIN t = 1..n
  BY <1>5
<1>7. \A k \in 1..n : t[k] = s[k + 1]
  <2>. SUFFICES ASSUME NEW k \in 1..n PROVE t[k] = s[k + 1]
    OBVIOUS
  <2>1. k + 1 \in 1..(n + 1)
    OBVIOUS
  <2>2. v[k] = q[k + 1]
    BY <1>3
  <2>. QED
    BY <1>5, <2>1, <2>2
<1>8. /\ s[1] = a => Count(s, a) = Count(t, a) + 1
      /\ s[1] # a => Count(s, a) = Count(t, a)
  <2>1. Without(s, 1, n, t)
    BY <1>6, <1>7 DEF Without
  <2>. QED
    BY <2>1, CountRemoved
<1>9. s[1] = IF q[1].c = c THEN q[1].ack ELSE -1
  BY <1>5, <1>6
<1>10. -1 # a
  OBVIOUS
<1>. QED
  BY <1>2, <1>4, <1>8, <1>9, <1>10, Zenon

\* A stamp does not change what is asked for.
LEMMA GivenStamped ==
    ASSUME NEW c, NEW d, NEW seqs, NEW q \in Seq(Ack)
    PROVE  /\ Len(StampedAfter(q, d, seqs)) = Len(q)
           /\ \A i \in 1..Len(q) :
                 LET x == StampedAfter(q, d, seqs)[i]
                 IN  x.c = q[i].c /\ x.ack = q[i].ack /\ x.pure = q[i].pure /\ x.fin = q[i].fin
           /\ GivenOf(StampedAfter(q, d, seqs), c) = GivenOf(q, c)
<1>1. PICK n \in Nat : n = Len(q)
  BY LenProperties
<1>2. PICK r : r = StampedAfter(q, d, seqs)
  OBVIOUS
<1>3. r = [i \in 1..n |-> IF q[i].c = d THEN [q[i] EXCEPT !.late = @ \cup seqs] ELSE q[i]]
  BY <1>1, <1>2 DEF StampedAfter
<1>4. Len(r) = n
  BY <1>3
<1>5. ASSUME NEW i \in 1..n
      PROVE  /\ r[i].c = q[i].c /\ r[i].ack = q[i].ack
             /\ r[i].pure = q[i].pure /\ r[i].fin = q[i].fin
  <2>1. PICK o \in Ack : o = q[i]
    BY <1>1, ElementOfSeq
  <2>2. PICK x : x = [o EXCEPT !.late = @ \cup seqs]
    OBVIOUS
  <2>3. x.c = o.c /\ x.ack = o.ack /\ x.pure = o.pure /\ x.fin = o.fin
    BY <2>2 DEF Ack
  <2>4. r[i] = x \/ r[i] = o
    BY <1>3, <2>1, <2>2
  <2>. QED
    BY <2>1, <2>3, <2>4
<1>6. GivenOf(r, c) = GivenOf(q, c)
  BY <1>1, <1>4, <1>5 DEF GivenOf
<1>. QED
  BY <1>1, <1>2, <1>4, <1>5, <1>6

-----------------------------------------------------------------------------
(* What a match leaves of the open list.                                   *)

\* The acks that will be swallowed, or -1.
SwallowsOf(open) == [i \in 1..Len(open) |-> IF open[i].gobble THEN open[i].ack ELSE -1]

\* What is left, in its order, of a sequence whose i-th entry is taken out.
Part(t, s, i) ==
    /\ \A k \in 1..Len(t) : \E j \in 1..Len(s) : j # i /\ t[k] = s[j]
    /\ \A k, l \in 1..Len(t) : k < l =>
           \E j, m \in 1..Len(s) : j < m /\ t[k] = s[j] /\ t[l] = s[m]

LEMMA WithoutIs ==
    ASSUME NEW S, NEW s \in Seq(S), NEW i \in 1..Len(s), NEW n \in Nat, n + 1 = Len(s)
    PROVE  /\ WithoutIndex(s, i) \in Seq(S) /\ Len(WithoutIndex(s, i)) = n
           /\ Without(s, i, n, WithoutIndex(s, i))
<1>1. i \in 1..(n + 1) /\ \A k \in 1..(n + 1) : s[k] \in S
  BY ElementOfSeq
<1>2. PICK a \in Int, b \in Int : a = i - 1 /\ b = i + 1
  BY <1>1
<1>3. (\A k \in 1..a : s[k] \in S) /\ (\A k \in b..(n + 1) : s[k] \in S)
  BY <1>1, <1>2
<1>4. PICK u, v : u = SubSeq(s, 1, a) /\ v = SubSeq(s, b, n + 1)
  OBVIOUS
<1>5. /\ u \in Seq(S) /\ Len(u) = i - 1 /\ \A k \in 1..(i - 1) : u[k] = s[k]
      /\ v \in Seq(S) /\ Len(v) = n + 1 - i /\ \A k \in 1..(n + 1 - i) : v[k] = s[i + k]
  <2>1. /\ u \in Seq(S) /\ Len(u) = IF 1 <= a THEN a - 1 + 1 ELSE 0
        /\ \A k \in 1..(a - 1 + 1) : u[k] = s[1 + k - 1]
    BY <1>2, <1>3, <1>4, SubSeqProperties
  <2>2. n + 1 \in Int
    OBVIOUS
  <2>3. /\ v \in Seq(S) /\ Len(v) = IF b <= n + 1 THEN n + 1 - b + 1 ELSE 0
        /\ \A k \in 1..(n + 1 - b + 1) : v[k] = s[b + k - 1]
    BY <1>2, <1>3, <1>4, <2>2, SubSeqProperties
  <2>4. Len(u) = i - 1 /\ \A k \in 1..(i - 1) : u[k] = s[k]
    BY <1>1, <1>2, <2>1
  <2>5. Len(v) = n + 1 - i /\ \A k \in 1..(n + 1 - i) : v[k] = s[i + k]
    BY <1>1, <1>2, <2>3
  <2>. QED
    BY <2>1, <2>3, <2>4, <2>5
<1>6. PICK t : t = u \o v
  OBVIOUS
<1>7. /\ t \in Seq(S) /\ Len(t) = (i - 1) + (n + 1 - i)
      /\ \A k \in 1..((i - 1) + (n + 1 - i)) :
             t[k] = IF k <= i - 1 THEN u[k] ELSE v[k - (i - 1)]
  <2>1. /\ t \in Seq(S) /\ Len(t) = Len(u) + Len(v)
        /\ \A k \in 1..(Len(u) + Len(v)) :
               t[k] = IF k <= Len(u) THEN u[k] ELSE v[k - Len(u)]
    <3>1. u \in Seq(S) /\ v \in Seq(S)
      BY <1>5
    <3>. QED
      BY <1>6, <3>1, ConcatProperties
  <2>. QED
    BY <1>5, <2>1
<1>8. t \in Seq(S) /\ Len(t) = n /\ DOMAIN t = 1..n
  <2>1. t \in Seq(S) /\ Len(t) = n
    BY <1>1, <1>7
  <2>. QED
    BY <2>1, LenProperties
<1>9. \A k \in 1..n : (k < i => t[k] = s[k]) /\ (~ (k < i) => t[k] = s[k + 1])
  <2>. SUFFICES ASSUME NEW k \in 1..n
                PROVE  (k < i => t[k] = s[k]) /\ (~ (k < i) => t[k] = s[k + 1])
    OBVIOUS
  <2>1. t[k] = IF k <= i - 1 THEN u[k] ELSE v[k - (i - 1)]
    <3>1. k \in 1..((i - 1) + (n + 1 - i))
      BY <1>1
    <3>. QED
      BY <1>7, <3>1
  <2>2. CASE k < i
    BY <1>1, <1>5, <2>1, <2>2
  <2>3. CASE ~ (k < i)
    <3>1. PICK l \in 1..(n + 1 - i) : l = k - (i - 1) /\ i + l = k + 1
      BY <1>1, <2>3
    <3>2. t[k] = v[l]
      BY <1>1, <2>1, <2>3, <3>1
    <3>. QED
      BY <1>5, <2>3, <3>1, <3>2
  <2>. QED
    BY <2>2, <2>3
<1>10. WithoutIndex(s, i) = t
  BY <1>2, <1>4, <1>6 DEF WithoutIndex
<1>11. DOMAIN s = 1..(n + 1)
  BY LenProperties
<1>. QED
  BY <1>1, <1>8, <1>9, <1>10, <1>11 DEF Without

LEMMA PurgeIs ==
    ASSUME NEW s \in Seq(MonPkt), NEW n \in Nat, n = Len(s), NEW a \in Nat
    PROVE  \E m \in 0..n : /\ Behind(s, m, n, PurgeOldAcks(s, a))
                           /\ Len(PurgeOldAcks(s, a)) = n - m
                           /\ \A k \in 1..m : s[k].ack < a
<1>1. DOMAIN s = 1..n /\ \A k \in 1..n : s[k] \in MonPkt
  BY LenProperties, ElementOfSeq
<1>2. \A k \in 1..n : s[k].ack \in Nat
  BY <1>1 DEF MonPkt
<1>3. PICK keep : keep = {i \in 1..n : \E j \in 1..i : s[j].ack >= a}
  OBVIOUS
<1>4. PICK t : t = PurgeOldAcks(s, a)
  OBVIOUS
<1>5. CASE keep = {}
  <2>1. t = <<>>
    BY <1>3, <1>4, <1>5 DEF PurgeOldAcks
  <2>2. n \in 0..n /\ n - n = 0 /\ 1..0 = {}
    OBVIOUS
  <2>3. DOMAIN t = 1..(n - n) /\ Len(t) = n - n /\ \A k \in 1..(n - n) : t[k] = s[k + n]
    BY <2>1, <2>2
  <2>4. \A k \in 1..n : s[k].ack < a
    <3>. SUFFICES ASSUME NEW k \in 1..n, ~ (s[k].ack < a) PROVE FALSE
      OBVIOUS
    <3>1. s[k].ack >= a /\ k \in 1..k
      BY <1>2
    <3>2. k \in keep
      BY <1>3, <3>1
    <3>. QED
      BY <1>5, <3>2
  <2>. QED
    BY <1>1, <1>4, <2>2, <2>3, <2>4 DEF Behind
<1>6. CASE keep # {}
  <2>1. keep \in SUBSET Nat
    BY <1>3
  <2>2. PICK f : f = Min(keep) /\ f \in keep /\ \A k \in keep : f <= k
    BY <1>6, <2>1, MinProperties
  <2>3. f \in 1..n
    BY <1>3, <2>2
  <2>4. PICK m \in 0..n : m = f - 1
    BY <2>3
  <2>5. f \in Int /\ n \in Int /\ \A k \in f..n : s[k] \in MonPkt
    BY <1>1, <2>3
  <2>6. t = SubSeq(s, f, n)
    BY <1>3, <1>4, <1>6, <2>2 DEF PurgeOldAcks
  <2>7. /\ t \in Seq(MonPkt) /\ Len(t) = IF f <= n THEN n - f + 1 ELSE 0
        /\ \A k \in 1..(n - f + 1) : t[k] = s[f + k - 1]
    BY <2>5, <2>6, SubSeqProperties
  <2>8. Len(t) = n - m
    BY <2>3, <2>4, <2>7
  <2>9. \A k \in 1..(n - m) : t[k] = s[k + m]
    BY <2>3, <2>4, <2>7
  <2>10. \A k \in 1..m : s[k].ack < a
    <3>. SUFFICES ASSUME NEW k \in 1..m, ~ (s[k].ack < a) PROVE FALSE
      OBVIOUS
    <3>1. k \in 1..n /\ k < f /\ k \in 1..k
      BY <2>3, <2>4
    <3>2. s[k].ack >= a
      BY <1>2, <3>1
    <3>3. k \in keep
      BY <1>3, <3>1, <3>2
    <3>. QED
      BY <2>2, <2>3, <3>1, <3>3
  <2>11. DOMAIN t = 1..(n - m)
    BY <2>7, <2>8, LenProperties
  <2>. QED
    BY <1>1, <1>4, <2>8, <2>9, <2>10, <2>11 DEF Behind
<1>. QED
  BY <1>5, <1>6

LEMMA PartWithout ==
    ASSUME NEW s, NEW i, NEW n, NEW t, Without(s, i, n, t), Len(s) = n + 1, Len(t) = n
    PROVE  Part(t, s, i)
<1>. /\ n \in Nat /\ i \in 1..(n + 1)
     /\ \A k \in 1..n : (k < i => t[k] = s[k]) /\ (~ (k < i) => t[k] = s[k + 1])
  BY DEF Without
<1>1. PICK f : f = [k \in 1..n |-> IF k < i THEN k ELSE k + 1]
  OBVIOUS
<1>2. \A k \in 1..n : f[k] \in 1..(n + 1) /\ f[k] # i /\ t[k] = s[f[k]]
  BY <1>1
<1>3. \A k, l \in 1..n : k < l => f[k] < f[l]
  BY <1>1
<1>4. ASSUME NEW k \in 1..Len(t) PROVE \E j \in 1..Len(s) : j # i /\ t[k] = s[j]
  <2>1. f[k] \in 1..Len(s) /\ f[k] # i /\ t[k] = s[f[k]]
    BY <1>2
  <2>. QED
    BY <2>1
<1>5. ASSUME NEW k \in 1..Len(t), NEW l \in 1..Len(t), k < l
      PROVE  \E j, m \in 1..Len(s) : j < m /\ t[k] = s[j] /\ t[l] = s[m]
  <2>1. f[k] \in 1..Len(s) /\ f[l] \in 1..Len(s) /\ f[k] < f[l] /\ t[k] = s[f[k]] /\ t[l] = s[f[l]]
    BY <1>2, <1>3, <1>5
  <2>. QED
    BY <2>1, Zenon
<1>. QED
  BY <1>4, <1>5 DEF Part

LEMMA PartBehind ==
    ASSUME NEW s, NEW i, NEW t, Part(t, s, i), NEW m, NEW n, NEW u, Behind(t, m, n, u),
           Len(t) = n, Len(u) = n - m
    PROVE  Part(u, s, i)
<1>. n \in Nat /\ m \in 0..n /\ \A k \in 1..(n - m) : u[k] = t[k + m]
  BY DEF Behind
<1>1. \A k \in 1..(n - m) : k + m \in 1..n /\ u[k] = t[k + m]
  OBVIOUS
<1>2. \A k, l \in 1..(n - m) : k < l => k + m < l + m
  OBVIOUS
<1>3. /\ \A k \in 1..n : \E j \in 1..Len(s) : j # i /\ t[k] = s[j]
      /\ \A k, l \in 1..n : k < l =>
             \E j, h \in 1..Len(s) : j < h /\ t[k] = s[j] /\ t[l] = s[h]
  BY DEF Part
<1>4. ASSUME NEW k \in 1..(n - m) PROVE \E j \in 1..Len(s) : j # i /\ u[k] = s[j]
  <2>1. PICK a \in 1..n : u[k] = t[a]
    BY <1>1
  <2>2. PICK j \in 1..Len(s) : j # i /\ t[a] = s[j]
    BY <1>3
  <2>. QED
    BY <2>1, <2>2
<1>5. ASSUME NEW k \in 1..(n - m), NEW l \in 1..(n - m), k < l
      PROVE  \E j, h \in 1..Len(s) : j < h /\ u[k] = s[j] /\ u[l] = s[h]
  <2>1. PICK a \in 1..n, b \in 1..n : a = k + m /\ b = l + m /\ a < b
    BY <1>1, <1>2, <1>5
  <2>2. u[k] = t[a] /\ u[l] = t[b]
    BY <1>1, <2>1
  <2>3. PICK j \in 1..Len(s), h \in 1..Len(s) : j < h /\ t[a] = s[j] /\ t[b] = s[h]
    BY <1>3, <2>1
  <2>. QED
    BY <2>2, <2>3
<1>6. 1..Len(u) = 1..(n - m)
  OBVIOUS
<1>7. \A k \in 1..Len(u) : \E j \in 1..Len(s) : j # i /\ u[k] = s[j]
  BY <1>4, <1>6, Zenon
<1>8. \A k, l \in 1..Len(u) : k < l =>
         \E j, h \in 1..Len(s) : j < h /\ u[k] = s[j] /\ u[l] = s[h]
  <2>. SUFFICES ASSUME NEW k \in 1..Len(u), NEW l \in 1..Len(u), k < l
                PROVE  \E j, h \in 1..Len(s) : j < h /\ u[k] = s[j] /\ u[l] = s[h]
    OBVIOUS
  <2>1. k \in 1..(n - m) /\ l \in 1..(n - m)
    BY <1>6
  <2>. QED
    BY <1>5, <2>1
<1>. QED
  BY <1>7, <1>8 DEF Part

LEMMA SwallowsWithout ==
    ASSUME NEW s, NEW i, NEW n, NEW t, Without(s, i, n, t), Len(s) = n + 1, Len(t) = n
    PROVE  Without(SwallowsOf(s), i, n, SwallowsOf(t))
<1>. /\ n \in Nat /\ i \in 1..(n + 1)
     /\ \A k \in 1..n : (k < i => t[k] = s[k]) /\ (~ (k < i) => t[k] = s[k + 1])
  BY DEF Without
<1>1. PICK a, b : a = SwallowsOf(s) /\ b = SwallowsOf(t)
  OBVIOUS
<1>2. /\ a = [k \in 1..(n + 1) |-> IF s[k].gobble THEN s[k].ack ELSE -1]
      /\ b = [k \in 1..n |-> IF t[k].gobble THEN t[k].ack ELSE -1]
  BY <1>1 DEF SwallowsOf
<1>3. ASSUME NEW k \in 1..n PROVE (k < i => b[k] = a[k]) /\ (~ (k < i) => b[k] = a[k + 1])
  <2>1. k \in 1..(n + 1) /\ k + 1 \in 1..(n + 1)
    OBVIOUS
  <2>2. CASE k < i
    <3>1. t[k] = s[k]
      BY <2>2
    <3>. QED
      BY <1>2, <2>1, <2>2, <3>1
  <2>3. CASE ~ (k < i)
    <3>1. t[k] = s[k + 1]
      BY <2>3
    <3>. QED
      BY <1>2, <2>1, <2>3, <3>1
  <2>. QED
    BY <2>2, <2>3
<1>. QED
  BY <1>1, <1>2, <1>3 DEF Without

LEMMA SwallowsBehind ==
    ASSUME NEW s, NEW m, NEW n, NEW t, Behind(s, m, n, t), Len(s) = n, Len(t) = n - m
    PROVE  Behind(SwallowsOf(s), m, n, SwallowsOf(t))
<1>. n \in Nat /\ m \in 0..n /\ \A k \in 1..(n - m) : t[k] = s[k + m]
  BY DEF Behind
<1>1. PICK a, b : a = SwallowsOf(s) /\ b = SwallowsOf(t)
  OBVIOUS
<1>2. /\ a = [k \in 1..n |-> IF s[k].gobble THEN s[k].ack ELSE -1]
      /\ b = [k \in 1..(n - m) |-> IF t[k].gobble THEN t[k].ack ELSE -1]
  BY <1>1 DEF SwallowsOf
<1>3. ASSUME NEW k \in 1..(n - m) PROVE b[k] = a[k + m]
  <2>1. k + m \in 1..n /\ t[k] = s[k + m]
    OBVIOUS
  <2>. QED
    BY <1>2, <2>1
<1>. QED
  BY <1>1, <1>2, <1>3 DEF Behind

\* An ack that matches is taken by the first entry that waits for it.
LEMMA MatchIs ==
    ASSUME NEW r \in Conn, NEW b, Matches(r, b) # {}, NEW i, i = Min(Matches(r, b))
    PROVE  /\ i \in 1..Len(r.open) /\ r.open[i].ack = b
           /\ \A k \in 1..Len(r.open) : k < i => r.open[k].ack # b
<1>1. PICK n \in Nat : n = Len(r.open)
  BY ConnFields, LenProperties
<1>2. PICK T : T = Matches(r, b)
  OBVIOUS
<1>3. T = {k \in 1..n : r.open[k].ack = b}
  BY <1>1, <1>2 DEF Matches
<1>4. T \in SUBSET Nat /\ T # {}
  BY <1>2, <1>3
<1>5. i \in T /\ \A k \in T : i <= k
  BY <1>2, <1>4, MinProperties
<1>6. i \in 1..n /\ r.open[i].ack = b
  BY <1>3, <1>5
<1>7. ASSUME NEW k \in 1..n, k < i PROVE r.open[k].ack # b
  <2>1. ~ (i <= k)
    BY <1>6, <1>7
  <2>. QED
    BY <1>3, <1>5, <2>1
<1>. QED
  BY <1>1, <1>6, <1>7

LEMMA MatchTakes ==
    ASSUME NEW r \in Conn, NEW i \in 1..Len(r.open), NEW late, NEW b \in Nat, r.open[i].ack = b,
           NEW q, q = ApplyMatch(r, i, late)
    PROVE  /\ q \in Conn /\ Part(q.open, r.open, i)
           /\ \A k \in 1..Len(q.matched) :
                 q.matched[k] = r.open[i] \/ \E j \in 1..Len(r.matched) : q.matched[k] = r.matched[j]
           /\ r.open[i].gobble =>
                 /\ Count(SwallowsOf(r.open), b) = Count(SwallowsOf(q.open), b) + 1
                 /\ \A a \in Nat \ {b} : Count(SwallowsOf(r.open), a) = Count(SwallowsOf(q.open), a)
           /\ ~ r.open[i].gobble =>
                 \A a \in Nat : a >= b => Count(SwallowsOf(r.open), a) = Count(SwallowsOf(q.open), a)
<1>1. PICK s \in Seq(MonPkt) : s = r.open
  BY ConnFields, Zenon
<1>2. PICK n \in Nat : n + 1 = Len(s)
  <2>1. Len(s) \in Nat /\ i \in 1..Len(s)
    BY <1>1, LenProperties
  <2>2. Len(s) - 1 \in Nat /\ (Len(s) - 1) + 1 = Len(s)
    BY <2>1
  <2>. QED
    BY <2>2
<1>3. PICK m \in MonPkt : m = s[i]
  BY <1>1, ElementOfSeq
<1>4. PICK t : t = WithoutIndex(s, i)
  OBVIOUS
<1>5. t \in Seq(MonPkt) /\ Len(t) = n /\ Without(s, i, n, t)
  BY <1>1, <1>2, <1>4, WithoutIs
<1>6. m.ack = b /\ m.gobble \in BOOLEAN /\ b \in Nat
  BY <1>1, <1>3 DEF MonPkt
<1>7. q.open = IF m.real /\ ~m.gobble THEN PurgeOldAcks(t, b) ELSE t
  BY <1>1, <1>3, <1>4, <1>6 DEF ApplyMatch, Conn
<1>8. q.matched = IF m.real /\ m.ack \notin r.rt /\ m.seq \notin late
                  THEN Append(r.matched, m) ELSE r.matched
  BY <1>1, <1>3 DEF ApplyMatch, Conn
<1>9. q \in Conn
  BY ApplyMatchTyped
<1>10. \A k \in 1..Len(q.matched) :
          q.matched[k] = r.open[i] \/ \E j \in 1..Len(r.matched) : q.matched[k] = r.matched[j]
  <2>1. PICK u \in Seq(MonPkt) : u = r.matched
    BY ConnFields
  <2>2. PICK l \in Nat : l = Len(u)
    BY LenProperties
  <2>3. CASE q.matched = u
    BY <2>1, <2>3
  <2>4. CASE q.matched = Append(u, m)
    <3>1. /\ Len(Append(u, m)) = l + 1 /\ Append(u, m)[l + 1] = m
          /\ \A k \in 1..l : Append(u, m)[k] = u[k]
      BY <2>2, AppendProperties
    <3>2. \A k \in 1..(l + 1) : k = l + 1 \/ k \in 1..l
      OBVIOUS
    <3>. QED
      BY <1>1, <1>3, <2>1, <2>2, <2>4, <3>1, <3>2, Zenon
  <2>. QED
    BY <1>8, <2>1, <2>3, <2>4
<1>11. Part(t, s, i)
  BY <1>2, <1>5, PartWithout
<1>12. Without(SwallowsOf(s), i, n, SwallowsOf(t))
  BY <1>2, <1>5, SwallowsWithout
<1>13. SwallowsOf(s)[i] = IF m.gobble THEN b ELSE -1
  BY <1>1, <1>3, <1>6 DEF SwallowsOf
<1>14. \A a \in Nat :
          /\ m.gobble /\ a = b => Count(SwallowsOf(s), a) = Count(SwallowsOf(t), a) + 1
          /\ ~ (m.gobble /\ a = b) => Count(SwallowsOf(s), a) = Count(SwallowsOf(t), a)
  <2>. SUFFICES ASSUME NEW a \in Nat
                PROVE  /\ m.gobble /\ a = b => Count(SwallowsOf(s), a) = Count(SwallowsOf(t), a) + 1
                       /\ ~ (m.gobble /\ a = b) => Count(SwallowsOf(s), a) = Count(SwallowsOf(t), a)
    OBVIOUS
  <2>1. PICK x : x = SwallowsOf(s)[i]
    OBVIOUS
  <2>2. /\ x = a => Count(SwallowsOf(s), a) = Count(SwallowsOf(t), a) + 1
        /\ x # a => Count(SwallowsOf(s), a) = Count(SwallowsOf(t), a)
    BY <1>12, <2>1, CountRemoved
  <2>3. x = a <=> m.gobble /\ a = b
    BY <1>6, <1>13, <2>1
  <2>. QED
    BY <2>2, <2>3
<1>15. CASE q.open = t /\ (m.gobble \/ q.open = t)
  BY <1>1, <1>3, <1>9, <1>10, <1>11, <1>14, <1>15
<1>16. CASE ~ m.gobble /\ q.open = PurgeOldAcks(t, b)
  <2>0. PICK d \in 0..n : /\ Behind(t, d, n, PurgeOldAcks(t, b)) /\ Len(PurgeOldAcks(t, b)) = n - d
                          /\ \A k \in 1..d : t[k].ack < b
    BY <1>5, PurgeIs
  <2>1. /\ Behind(t, d, n, q.open) /\ Len(q.open) = n - d
        /\ \A k \in 1..d : t[k].ack < b
    BY <1>16, <2>0
  <2>2. Part(q.open, s, i)
    BY <1>5, <1>11, <2>1, PartBehind
  <2>3. Behind(SwallowsOf(t), d, n, SwallowsOf(q.open))
    BY <1>5, <2>1, SwallowsBehind
  <2>4. ASSUME NEW a \in Nat, a >= b
        PROVE  Count(SwallowsOf(s), a) = Count(SwallowsOf(q.open), a)
    <3>1. \A k \in 1..d : SwallowsOf(t)[k] # a
      <4>. SUFFICES ASSUME NEW k \in 1..d PROVE SwallowsOf(t)[k] # a
        OBVIOUS
      <4>1. k \in 1..n /\ t[k].ack < b
        BY <2>1
      <4>2. PICK o \in MonPkt : o = t[k]
        BY <1>5, <4>1, ElementOfSeq
      <4>3. o.ack \in Nat /\ o.ack < b
        BY <4>1, <4>2 DEF MonPkt
      <4>4. SwallowsOf(t)[k] = IF o.gobble THEN o.ack ELSE -1
        BY <1>5, <4>1, <4>2 DEF SwallowsOf
      <4>. QED
        BY <2>4, <4>3, <4>4
    <3>2. Count(SwallowsOf(q.open), a) = Count(SwallowsOf(t), a)
      BY <2>3, <3>1, CountDropped
    <3>. QED
      BY <1>14, <1>16, <3>2
  <2>. QED
    BY <1>1, <1>3, <1>9, <1>10, <1>16, <2>2, <2>4
<1>. QED
  BY <1>7, <1>15, <1>16

LEMMA SwallowsPushed ==
    ASSUME NEW s \in Seq(MonPkt), NEW m \in MonPkt, NEW a \in Nat
    PROVE  /\ m.gobble /\ m.ack = a =>
                 Count(SwallowsOf(Append(s, m)), a) = Count(SwallowsOf(s), a) + 1
           /\ ~ (m.gobble /\ m.ack = a) =>
                 Count(SwallowsOf(Append(s, m)), a) = Count(SwallowsOf(s), a)
<1>1. PICK n \in Nat : n = Len(s)
  BY LenProperties
<1>2. PICK t : t = Append(s, m)
  OBVIOUS
<1>3. Len(t) = n + 1 /\ t[n + 1] = m /\ \A k \in 1..n : t[k] = s[k]
  BY <1>1, <1>2, AppendProperties
<1>4. PICK x, y : x = SwallowsOf(t) /\ y = SwallowsOf(s)
  OBVIOUS
<1>5. /\ x = [k \in 1..(n + 1) |-> IF t[k].gobble THEN t[k].ack ELSE -1]
      /\ y = [k \in 1..n |-> IF s[k].gobble THEN s[k].ack ELSE -1]
  BY <1>1, <1>3, <1>4 DEF SwallowsOf
<1>6. n + 1 \in 1..(n + 1) /\ \A k \in 1..n : k \in 1..(n + 1)
  OBVIOUS
<1>7. Without(x, n + 1, n, y)
  BY <1>3, <1>5, <1>6 DEF Without
<1>8. x[n + 1] = IF m.gobble THEN m.ack ELSE -1
  BY <1>3, <1>5, <1>6
<1>9. PICK z : z = x[n + 1]
  OBVIOUS
<1>10. (z = a => Count(x, a) = Count(y, a) + 1) /\ (z # a => Count(x, a) = Count(y, a))
  BY <1>7, <1>9, CountRemoved
<1>11. z = a <=> m.gobble /\ m.ack = a
  <2>1. -1 # a
    OBVIOUS
  <2>2. CASE m.gobble
    BY <1>8, <1>9, <2>2
  <2>3. CASE ~ m.gobble
    BY <1>8, <1>9, <2>1, <2>3
  <2>. QED
    BY <2>2, <2>3
<1>. QED
  BY <1>2, <1>4, <1>10, <1>11

LEMMA IndexBehind ==
    \A i, n, k \in Nat : i > n + 1 /\ i <= (n + 1) + k => i - (n + 1) \in 1..k
  OBVIOUS

\* t is s with an expected ack behind all others, and the dummies of one that is
\* swallowed.
Longer(s, t, m, l, ack, gobble) ==
    /\ m < l /\ Len(t) = l
    /\ \A k \in 1..m : t[k] = s[k]
    /\ t[m + 1].ack = ack /\ t[m + 1].gobble = gobble
    /\ \A k \in 1..l : k > m + 1 => t[k].ack = ack /\ t[k].gobble
    /\ ~ gobble => l = m + 1

SwallowsMore(s, t, ack, gobble) ==
    \A a \in Nat :
        /\ Count(SwallowsOf(s), a) <= Count(SwallowsOf(t), a)
        /\ gobble /\ ack = a => Count(SwallowsOf(s), a) + 1 <= Count(SwallowsOf(t), a)

Lengthened(r, q, ack, gobble) ==
    /\ q \in Conn /\ q.matched = r.matched
    /\ \E m, l \in Nat : m = Len(r.open) /\ Longer(r.open, q.open, m, l, ack, gobble)
    /\ SwallowsMore(r.open, q.open, ack, gobble)

MatchedBelow(r, a) == \A i \in 1..Len(r.matched) : r.matched[i].ack <= a

LEMMA AddIs ==
    ASSUME NEW r \in Conn, NEW p \in Bounded, NEW e,
           e.ack \in Nat, e.gobble \in BOOLEAN, e.extra \in Nat, ~ e.gobble => e.extra = 0,
           MatchedBelow(r, e.ack), NEW q, q = AddExpected(r, p, e)
    PROVE  Lengthened(r, q, e.ack, e.gobble)
<1>0. PICK n \in Nat : n = Len(r.open)
  BY ConnFields, LenProperties
<1>. USE <1>0
<1>1. PICK m \in MonPkt : m = [seq |-> p.seq, ack |-> e.ack, gobble |-> e.gobble, real |-> TRUE]
  <2>1. PICK s \in Nat, a \in Nat, g \in BOOLEAN, yes \in BOOLEAN :
            s = p.seq /\ a = e.ack /\ g = e.gobble /\ yes = TRUE
    BY BoundedPacket
  <2>2. [seq |-> s, ack |-> a, gobble |-> g, real |-> yes] \in MonPkt
    BY DEF MonPkt
  <2>3. [seq |-> p.seq, ack |-> e.ack, gobble |-> e.gobble, real |-> TRUE]
            = [seq |-> s, ack |-> a, gobble |-> g, real |-> yes]
    BY <2>1, Zenon
  <2>. QED
    BY <2>2, <2>3
<1>2. m.ack = e.ack /\ m.gobble = e.gobble
  BY <1>1
<1>3. PICK s \in Seq(MonPkt), u \in Seq(MonPkt) : s = r.open /\ u = r.matched
  BY ConnFields
<1>4. Len(s) = n
  BY <1>0, <1>3
<1>5. PICK w \in Conn : w = [r EXCEPT !.highest = p.seq + p.len]
  <2>1. PICK x \in Nat : x = p.seq + p.len
    BY BoundedPacket
  <2>. QED
    BY <2>1 DEF Conn
<1>6. w.open = s /\ w.matched = u
  BY <1>3, <1>5 DEF Conn
<1>7. u = <<>> \/ u[Len(u)].ack <= m.ack
  <2>1. CASE u # <<>>
    <3>1. PICK l \in Nat \ {0} : l = Len(u)
      BY <2>1, EmptySeq
    <3>2. l \in 1..l
      OBVIOUS
    <3>. QED
      BY <1>2, <1>3, <3>1, <3>2 DEF MatchedBelow
  <2>. QED
    BY <2>1
<1>8. PICK t \in Seq(MonPkt) : t = Append(s, m)
  BY PutBack
<1>9. PICK v \in Conn : v = [w EXCEPT !.open = t]
  BY OpenSet
<1>10. v.open = t /\ v.matched = u /\ v = AddOpen(w, m)
  <2>1. v.open = t /\ v.matched = u
    BY <1>6, <1>9 DEF Conn
  <2>2. AddOpen(w, m) = [w EXCEPT !.open = Append(s, m)]
    BY <1>6, <1>7 DEF AddOpen
  <2>. QED
    BY <1>8, <1>9, <2>1, <2>2
<1>11. PICK k \in Nat, dummy \in MonPkt :
           k = e.extra /\ dummy = [seq |-> 0, ack |-> e.ack, gobble |-> TRUE, real |-> FALSE]
  BY DEF MonPkt
<1>12. PICK all : all = [i \in 1..k |-> dummy]
  OBVIOUS
<1>13. all \in Seq(MonPkt) /\ Len(all) = k /\ \A i \in 1..k : all[i] = dummy
  <2>1. all \in Seq(MonPkt)
    <3>1. k \in Nat /\ \A i \in 1..k : all[i] \in MonPkt
      BY <1>12
    <3>2. all \in [1..k -> MonPkt]
      BY <1>12, <3>1
    <3>. QED
      BY <3>1, <3>2, SeqDef
  <2>2. \A i \in 1..k : all[i] = dummy
    BY <1>12
  <2>3. DOMAIN all = 1..k
    BY <1>12
  <2>4. Len(all) = k
    BY <2>1, <2>3, LenProperties
  <2>. QED
    BY <2>1, <2>2, <2>4
<1>14. q = IF AddOpen(v, dummy) = v THEN v ELSE [v EXCEPT !.open = t \o all]
  BY <1>1, <1>5, <1>10, <1>11, <1>12 DEF AddExpected, AddDummies
<1>15. q \in Conn
  BY AddExpectedTyped
<1>16. q.matched = r.matched
  <2>1. q = v \/ q = [v EXCEPT !.open = t \o all]
    BY <1>14
  <2>. QED
    BY <1>3, <1>10, <2>1 DEF Conn
<1>17. q.open = t \/ q.open = t \o all
  <2>1. q = v \/ q = [v EXCEPT !.open = t \o all]
    BY <1>14
  <2>. QED
    BY <1>10, <2>1 DEF Conn
<1>18. Len(t) = n + 1 /\ t[n + 1] = m /\ \A i \in 1..n : t[i] = s[i]
  BY <1>4, <1>8, AppendProperties
<1>19. PICK l \in Nat :
          /\ n < l /\ Len(q.open) = l
          /\ \A i \in 1..(n + 1) : q.open[i] = t[i]
          /\ \A i \in 1..l : i > n + 1 => q.open[i] = dummy
          /\ k = 0 => l = n + 1
  <2>1. CASE q.open = t
    <3>1. n + 1 \in Nat /\ n < n + 1 /\ \A i \in 1..(n + 1) : ~ (i > n + 1)
      OBVIOUS
    <3>. QED
      BY <1>18, <2>1, <3>1
  <2>2. CASE q.open = t \o all
    <3>1. /\ Len(t \o all) = Len(t) + Len(all)
          /\ \A i \in 1..(Len(t) + Len(all)) :
                 (t \o all)[i] = IF i <= Len(t) THEN t[i] ELSE all[i - Len(t)]
      BY <1>13, ConcatProperties
    <3>2. PICK l \in Nat : l = (n + 1) + k
      OBVIOUS
    <3>3. Len(q.open) = l /\ \A i \in 1..l : q.open[i] = IF i <= n + 1 THEN t[i] ELSE all[i - (n + 1)]
      BY <1>13, <1>18, <2>2, <3>1, <3>2
    <3>4. ASSUME NEW i \in 1..l, i > n + 1 PROVE i - (n + 1) \in 1..k
      <4>1. i \in Nat /\ i <= (n + 1) + k
        BY <3>2
      <4>. QED
        BY <3>4, <4>1, IndexBehind, Zenon
    <3>5. ASSUME NEW i \in 1..l, i > n + 1 PROVE q.open[i] = dummy
      <4>1. ~ (i <= n + 1)
        BY <3>5
      <4>2. q.open[i] = all[i - (n + 1)]
        BY <3>3, <4>1, Zenon
      <4>3. i - (n + 1) \in 1..k
        BY <3>4, <3>5, Zenon
      <4>. QED
        BY <1>13, <4>2, <4>3, Zenon
    <3>6. ASSUME NEW i \in 1..(n + 1) PROVE q.open[i] = t[i]
      <4>1. i \in 1..l /\ i <= n + 1
        BY <3>2
      <4>. QED
        BY <3>3, <4>1, Zenon
    <3>7. n < l /\ (k = 0 => l = n + 1)
      BY <3>2
    <3>. QED
      BY <3>3, <3>5, <3>6, <3>7
  <2>. QED
    BY <1>17, <2>1, <2>2
<1>20. dummy.ack = e.ack /\ dummy.gobble
  BY <1>11
<1>21. /\ \A i \in 1..n : q.open[i] = r.open[i]
       /\ q.open[n + 1] = m
  <2>1. n + 1 \in 1..(n + 1) /\ \A i \in 1..n : i \in 1..(n + 1)
    OBVIOUS
  <2>. QED
    BY <1>3, <1>18, <1>19, <2>1
<1>22. ASSUME NEW a \in Nat
       PROVE  /\ Count(SwallowsOf(s), a) <= Count(SwallowsOf(q.open), a)
              /\ e.gobble /\ e.ack = a =>
                    Count(SwallowsOf(s), a) + 1 <= Count(SwallowsOf(q.open), a)
  <2>1. PICK x, y, z : x = SwallowsOf(q.open) /\ y = SwallowsOf(t) /\ z = SwallowsOf(s)
    OBVIOUS
  <2>2. /\ x = [i \in 1..l |-> IF q.open[i].gobble THEN q.open[i].ack ELSE -1]
        /\ y = [i \in 1..(n + 1) |-> IF t[i].gobble THEN t[i].ack ELSE -1]
        /\ z = [i \in 1..n |-> IF s[i].gobble THEN s[i].ack ELSE -1]
    BY <1>4, <1>18, <1>19, <2>1 DEF SwallowsOf
  <2>3. PICK o \in Nat : o = n + 1 /\ o <= l
    BY <1>19
  <2>4. DOMAIN x = 1..l /\ DOMAIN y = 1..o /\ \A i \in 1..o : y[i] = x[i]
    <3>1. \A i \in 1..o : i \in 1..l
      BY <2>3
    <3>. QED
      BY <1>19, <2>2, <2>3, <3>1
  <2>5. Count(y, a) <= Count(x, a)
    BY <2>3, <2>4, CountLonger
  <2>6. Count(x, a) \in Nat /\ Count(y, a) \in Nat /\ Count(z, a) \in Nat
    <3>1. DOMAIN z = 1..n
      BY <2>2
    <3>. QED
      BY <2>4, <3>1, CountProperties
  <2>7. /\ m.gobble /\ m.ack = a => Count(y, a) = Count(z, a) + 1
        /\ ~ (m.gobble /\ m.ack = a) => Count(y, a) = Count(z, a)
    BY <1>8, <2>1, SwallowsPushed
  <2>. QED
    BY <1>2, <2>1, <2>5, <2>6, <2>7
<1>23. /\ n < l /\ Len(q.open) = l
       /\ \A i \in 1..n : q.open[i] = r.open[i]
       /\ q.open[n + 1].ack = e.ack /\ q.open[n + 1].gobble = e.gobble
       /\ \A i \in 1..l : i > n + 1 => q.open[i].ack = e.ack /\ q.open[i].gobble
       /\ ~ e.gobble => l = n + 1
  BY <1>2, <1>11, <1>19, <1>20, <1>21
<1>24. \A a \in Nat :
          /\ Count(SwallowsOf(r.open), a) <= Count(SwallowsOf(q.open), a)
          /\ e.gobble /\ e.ack = a =>
                Count(SwallowsOf(r.open), a) + 1 <= Count(SwallowsOf(q.open), a)
  BY <1>3, <1>22
<1>25. /\ Longer(r.open, q.open, n, l, e.ack, e.gobble)
       /\ SwallowsMore(r.open, q.open, e.ack, e.gobble)
  BY <1>23, <1>24 DEF Longer, SwallowsMore
<1>. QED
  BY <1>0, <1>15, <1>16, <1>19, <1>25 DEF Lengthened

-----------------------------------------------------------------------------
(* What the acks of one connection keep to.                                *)

\* Of a connection: A the slices that are with the host or on their way, K how many of
\* the acks that will answer them or are not processed yet ask for each number, S how
\* many of these will be swallowed, X the one that the WAN thread is about to expect, k
\* and d the last ack its sender saw and its duplicates, n what the sender has sent.

\* No ack asks for more than is on its way, or for less than the sender will get.
LevelOK(A, K, k) ==
    /\ k <= NextMissing(A)
    /\ \A a \in Nat : K[a] > 0 => a <= NextMissing(A)

LastOK(A, K, k, n) == A = 0..(n - 1) => k = n \/ K[n] > 0

\* Of the acks that repeat the last one all but one are swallowed.
DupOK(K, S, X, k, d) ==
    /\ d <= 1
    /\ \A a \in Nat : /\ k < a => K[a] <= S[a] + X[a] + 1
                      /\ a = k => d + K[a] <= S[a] + X[a]

AcksOK(r, n, limit) ==
    /\ \A i \in 1..Len(r.open) : /\ r.open[i].ack <= limit
                                 /\ r.open[i].gobble => r.open[i].ack < n
    /\ \A i \in 1..Len(r.matched) : r.matched[i].ack <= limit

\* An expected ack that is not swallowed is behind all the acks for its number.
SimpleOK(open, under) ==
    /\ \A i, j \in 1..Len(open) : i < j /\ ~ open[i].gobble => open[i].ack < open[j].ack
    /\ \A i \in 1..Len(open) : ~ open[i].gobble => open[i].ack < under

PshendOK(open, k, d) ==
    /\ \A i, j \in 1..Len(open) :
          i < j /\ ~ open[i].gobble /\ ~ open[j].gobble => open[i].ack # open[j].ack
    /\ \A i \in 1..Len(open) : ~ open[i].gobble /\ open[i].ack = k => d = 0

EntryOK(mode, r, k, d, n, limit, under) ==
    /\ AcksOK(r, n, limit)
    /\ mode = "simple" => SimpleOK(r.open, under)
    /\ mode = "pshend" => PshendOK(r.open, k, d)

Counts == [Nat -> Nat]

OneLess(K, L, b) == \A a \in Nat : L[a] = IF a = b THEN K[a] - 1 ELSE K[a]
AddsOne(K, L, b) == \A a \in Nat : L[a] = IF a = b THEN K[a] + 1 ELSE K[a]
SameFrom(S, T, b) == \A a \in Nat : a >= b => T[a] = S[a]
LastAck(b, k) == IF b > k THEN b ELSE k
Repeats(b, k, d) == IF b > k THEN 0 ELSE IF b = k THEN d + 1 ELSE d

\* An ack reaches the sender: b is the last one now, or a duplicate of it.
LEMMA DupPassed ==
    ASSUME NEW K \in Counts, NEW S \in Counts, NEW X \in Counts, NEW k \in Nat, NEW d \in Nat,
           DupOK(K, S, X, k, d), NEW b \in Nat, K[b] > 0, b = k => d = 0,
           NEW L \in Counts, OneLess(K, L, b), NEW T \in Counts, SameFrom(S, T, b),
           NEW x \in Nat, x = LastAck(b, k), NEW y \in Nat, y = Repeats(b, k, d)
    PROVE  DupOK(L, T, X, x, y)
<1>1. \A a \in Nat : K[a] \in Nat /\ S[a] \in Nat /\ X[a] \in Nat /\ L[a] \in Nat /\ T[a] \in Nat
  BY DEF Counts
<1>2. /\ d <= 1
      /\ \A a \in Nat : (k < a => K[a] <= S[a] + X[a] + 1) /\ (a = k => d + K[a] <= S[a] + X[a])
  BY DEF DupOK
<1>5. /\ \A a \in Nat : L[a] = IF a = b THEN K[a] - 1 ELSE K[a]
      /\ \A a \in Nat : a >= b => T[a] = S[a]
      /\ x = (IF b > k THEN b ELSE k) /\ y = (IF b > k THEN 0 ELSE IF b = k THEN d + 1 ELSE d)
  BY DEF OneLess, SameFrom, LastAck, Repeats
<1>3. y <= 1
  BY <1>2, <1>5
<1>4. ASSUME NEW a \in Nat
      PROVE  (x < a => L[a] <= T[a] + X[a] + 1) /\ (a = x => y + L[a] <= T[a] + X[a])
  <2>1. PICK Ka \in Nat, Sa \in Nat, Xa \in Nat, La \in Nat, Ta \in Nat :
            Ka = K[a] /\ Sa = S[a] /\ Xa = X[a] /\ La = L[a] /\ Ta = T[a]
    BY <1>1
  <2>2. /\ k < a => Ka <= Sa + Xa + 1
        /\ a = k => d + Ka <= Sa + Xa
        /\ La = IF a = b THEN Ka - 1 ELSE Ka
        /\ a >= b => Ta = Sa
        /\ a = b => Ka > 0
    BY <1>2, <1>5, <2>1
  <2>3. (x < a => La <= Ta + Xa + 1) /\ (a = x => y + La <= Ta + Xa)
    <3>1. CASE b > k
      BY <1>5, <2>2, <3>1
    <3>2. CASE b = k
      BY <1>5, <2>2, <3>2
    <3>3. CASE b < k
      BY <1>5, <2>2, <3>3
    <3>. QED
      BY <3>1, <3>2, <3>3
  <2>. QED
    BY <2>1, <2>3
<1>. QED
  BY <1>3, <1>4 DEF DupOK

\* An ack is swallowed.
LEMMA DupSwallowed ==
    ASSUME NEW K \in Counts, NEW S \in Counts, NEW X \in Counts, NEW k \in Nat, NEW d \in Nat,
           DupOK(K, S, X, k, d), NEW b \in Nat,
           NEW L \in Counts, OneLess(K, L, b), NEW T \in Counts, AddsOne(T, S, b)
    PROVE  DupOK(L, T, X, k, d)
<1>1. \A a \in Nat : K[a] \in Nat /\ S[a] \in Nat /\ X[a] \in Nat /\ L[a] \in Nat /\ T[a] \in Nat
  BY DEF Counts
<1>2. /\ d <= 1
      /\ \A a \in Nat : (k < a => K[a] <= S[a] + X[a] + 1) /\ (a = k => d + K[a] <= S[a] + X[a])
  BY DEF DupOK
<1>3. ASSUME NEW a \in Nat
      PROVE  (k < a => L[a] <= T[a] + X[a] + 1) /\ (a = k => d + L[a] <= T[a] + X[a])
  BY <1>1, <1>2 DEF OneLess, AddsOne
<1>. QED
  BY <1>2, <1>3 DEF DupOK

LEMMA LevelPopped ==
    ASSUME NEW A \in Within, NEW K \in Counts, NEW k \in Nat, LevelOK(A, K, k),
           NEW b \in Nat, K[b] > 0,
           NEW L \in Counts, \A a \in Nat : L[a] = IF a = b THEN K[a] - 1 ELSE K[a],
           NEW x \in Nat, x = k \/ x = b
    PROVE  LevelOK(A, L, x)
<1>1. PICK m \in Nat : m = NextMissing(A)
  BY MissingTyped, Numbers DEF Within
<1>2. k <= m /\ \A a \in Nat : K[a] > 0 => a <= m
  BY <1>1 DEF LevelOK
<1>3. \A a \in Nat : L[a] > 0 => a <= m
  <2>. SUFFICES ASSUME NEW a \in Nat, L[a] > 0 PROVE a <= m
    OBVIOUS
  <2>1. K[a] \in Nat
    BY DEF Counts
  <2>2. K[a] > 0
    BY <2>1
  <2>. QED
    BY <1>2, <2>2
<1>4. x <= m
  BY <1>2
<1>. QED
  BY <1>1, <1>3, <1>4 DEF LevelOK

LEMMA MissingFull ==
    ASSUME NEW n \in 0..MaxSeq PROVE NextMissing(0..(n - 1)) = n
<1>1. n \notin 0..(n - 1)
  BY Numbers
<1>. QED
  BY <1>1, MissingIs

LEMMA LastPopped ==
    ASSUME NEW A \in Within, NEW K \in Counts, NEW k \in Nat, LevelOK(A, K, k),
           NEW n \in 0..MaxSeq, LastOK(A, K, k, n), NEW b \in Nat, K[b] > 0,
           NEW L \in Counts, \A a \in Nat : L[a] = IF a = b THEN K[a] - 1 ELSE K[a],
           NEW x \in Nat, (x = k /\ b < n) \/ x = IF b > k THEN b ELSE k
    PROVE  LastOK(A, L, x, n)
<1>. SUFFICES ASSUME A = 0..(n - 1) PROVE x = n \/ L[n] > 0
  BY DEF LastOK
<1>1. n \in Nat /\ NextMissing(A) = n
  BY MissingFull, Numbers
<1>2. k <= n /\ b <= n /\ (k = n \/ K[n] > 0)
  BY <1>1 DEF LevelOK, LastOK
<1>3. K[n] \in Nat /\ K[b] \in Nat
  BY <1>1 DEF Counts
<1>4. CASE b = n
  BY <1>1, <1>2, <1>4
<1>5. CASE b # n
  <2>1. L[n] = K[n]
    BY <1>1, <1>5
  <2>2. CASE k = n
    BY <1>1, <1>2, <2>2
  <2>. QED
    BY <1>2, <2>1, <2>2
<1>. QED
  BY <1>4, <1>5

\* The expected acks when the sender has seen no more than before, or its last ack and
\* duplicates have changed but no ack of that number is expected to pass.
LEMMA EntryPassed ==
    ASSUME NEW mode, NEW r \in Conn, NEW k \in Nat, NEW d \in Nat, NEW n, NEW limit, NEW under,
           EntryOK(mode, r, k, d, n, limit, under),
           NEW x \in Nat, NEW y \in Nat,
           \/ x = k /\ y = d
           \/ y = 0
           \/ \A i \in 1..Len(r.open) : ~ r.open[i].gobble => r.open[i].ack # x
    PROVE  EntryOK(mode, r, x, y, n, limit, under)
  BY DEF EntryOK, PshendOK

\* What is left of the expected acks when one is matched.
LEMMA EntryTaken ==
    ASSUME NEW mode, NEW r \in Conn, NEW k \in Nat, NEW d \in Nat, NEW n \in Nat,
           NEW limit \in Nat, NEW under \in Nat,
           EntryOK(mode, r, k, d, n, limit, under),
           NEW i \in 1..Len(r.open), NEW q \in Conn, Part(q.open, r.open, i),
           \A l \in 1..Len(q.matched) :
               q.matched[l] = r.open[i] \/ \E j \in 1..Len(r.matched) : q.matched[l] = r.matched[j]
    PROVE  EntryOK(mode, q, k, d, n, limit, under)
<1>1. /\ \A l \in 1..Len(q.open) : \E j \in 1..Len(r.open) : j # i /\ q.open[l] = r.open[j]
      /\ \A a, b \in 1..Len(q.open) : a < b =>
             \E j, h \in 1..Len(r.open) : j < h /\ q.open[a] = r.open[j] /\ q.open[b] = r.open[h]
  BY DEF Part
<1>2. AcksOK(q, n, limit)
  <2>1. /\ \A j \in 1..Len(r.open) : /\ r.open[j].ack <= limit
                                     /\ r.open[j].gobble => r.open[j].ack < n
        /\ \A j \in 1..Len(r.matched) : r.matched[j].ack <= limit
    BY DEF EntryOK, AcksOK
  <2>2. ASSUME NEW l \in 1..Len(q.open)
        PROVE  q.open[l].ack <= limit /\ (q.open[l].gobble => q.open[l].ack < n)
    <3>1. PICK j \in 1..Len(r.open) : q.open[l] = r.open[j]
      BY <1>1
    <3>. QED
      BY <2>1, <3>1
  <2>3. ASSUME NEW l \in 1..Len(q.matched) PROVE q.matched[l].ack <= limit
    <3>1. CASE q.matched[l] = r.open[i]
      BY <2>1, <3>1
    <3>2. CASE \E j \in 1..Len(r.matched) : q.matched[l] = r.matched[j]
      BY <2>1, <3>2
    <3>. QED
      BY <3>1, <3>2
  <2>. QED
    BY <2>2, <2>3 DEF AcksOK
<1>3. ASSUME mode = "simple" PROVE SimpleOK(q.open, under)
  <2>1. /\ \A j, h \in 1..Len(r.open) : j < h /\ ~ r.open[j].gobble => r.open[j].ack < r.open[h].ack
        /\ \A j \in 1..Len(r.open) : ~ r.open[j].gobble => r.open[j].ack < under
    BY <1>3 DEF EntryOK, SimpleOK
  <2>2. ASSUME NEW a \in 1..Len(q.open), NEW b \in 1..Len(q.open), a < b, ~ q.open[a].gobble
        PROVE  q.open[a].ack < q.open[b].ack
    <3>1. PICK j \in 1..Len(r.open), h \in 1..Len(r.open) :
              j < h /\ q.open[a] = r.open[j] /\ q.open[b] = r.open[h]
      BY <1>1, <2>2
    <3>. QED
      BY <2>1, <2>2, <3>1
  <2>3. ASSUME NEW l \in 1..Len(q.open), ~ q.open[l].gobble PROVE q.open[l].ack < under
    <3>1. PICK j \in 1..Len(r.open) : q.open[l] = r.open[j]
      BY <1>1
    <3>. QED
      BY <2>1, <2>3, <3>1
  <2>. QED
    BY <2>2, <2>3 DEF SimpleOK
<1>4. ASSUME mode = "pshend" PROVE PshendOK(q.open, k, d)
  <2>1. /\ \A j, h \in 1..Len(r.open) :
               j < h /\ ~ r.open[j].gobble /\ ~ r.open[h].gobble => r.open[j].ack # r.open[h].ack
        /\ \A j \in 1..Len(r.open) : ~ r.open[j].gobble /\ r.open[j].ack = k => d = 0
    BY <1>4 DEF EntryOK, PshendOK
  <2>2. ASSUME NEW a \in 1..Len(q.open), NEW b \in 1..Len(q.open), a < b,
               ~ q.open[a].gobble, ~ q.open[b].gobble
        PROVE  q.open[a].ack # q.open[b].ack
    <3>1. PICK j \in 1..Len(r.open), h \in 1..Len(r.open) :
              j < h /\ q.open[a] = r.open[j] /\ q.open[b] = r.open[h]
      BY <1>1, <2>2
    <3>. QED
      BY <2>1, <2>2, <3>1
  <2>3. ASSUME NEW l \in 1..Len(q.open), ~ q.open[l].gobble, q.open[l].ack = k PROVE d = 0
    <3>1. PICK j \in 1..Len(r.open) : q.open[l] = r.open[j]
      BY <1>1
    <3>. QED
      BY <2>1, <2>3, <3>1
  <2>. QED
    BY <2>2, <2>3 DEF PshendOK
<1>. QED
  BY <1>2, <1>3, <1>4 DEF EntryOK

\* No other ack of its number is expected to pass when one was matched that does.
NonePasses(open, b) == \A l \in 1..Len(open) : ~ open[l].gobble => open[l].ack # b

LEMMA NoneLeft ==
    ASSUME NEW r \in Conn, NEW k, NEW d, PshendOK(r.open, k, d),
           NEW i \in 1..Len(r.open), ~ r.open[i].gobble, NEW q, Part(q.open, r.open, i)
    PROVE  NonePasses(q.open, r.open[i].ack)
<1>. SUFFICES ASSUME NEW l \in 1..Len(q.open), ~ q.open[l].gobble
              PROVE  q.open[l].ack # r.open[i].ack
  BY DEF NonePasses
<1>1. PICK j \in 1..Len(r.open) : j # i /\ q.open[l] = r.open[j]
  BY DEF Part
<1>2. PICK m \in Nat : m = Len(r.open)
  BY ConnFields, LenProperties
<1>3. j < i \/ i < j
  BY <1>1, <1>2
<1>. QED
  BY <1>1, <1>3 DEF PshendOK

\* The expected acks with the one of a slice that was shaped.
Follows(mode, ack, gobble, n, limit, under, limit2, under2) ==
    /\ limit <= ack /\ ack <= limit2 /\ under <= under2 /\ (gobble => ack < n)
    /\ mode = "simple" => under <= ack /\ (~ gobble => ack < under2)
    /\ mode = "pshend" /\ ~ gobble => limit < ack /\ n <= ack

Unseen(mode, ack, gobble, k, d) == mode = "pshend" /\ ~ gobble /\ ack = k => d = 0

LEMMA EntryExpected ==
    ASSUME NEW mode, NEW r \in Conn, NEW k \in Nat, NEW d \in Nat, NEW n \in Nat,
           NEW limit \in Nat, NEW under \in Nat, EntryOK(mode, r, k, d, n, limit, under),
           NEW ack \in Nat, NEW gobble \in BOOLEAN, NEW q, Lengthened(r, q, ack, gobble),
           NEW limit2 \in Nat, NEW under2 \in Nat,
           Follows(mode, ack, gobble, n, limit, under, limit2, under2),
           Unseen(mode, ack, gobble, k, d)
    PROVE  EntryOK(mode, q, k, d, n, limit2, under2)
<1>1. q \in Conn /\ q.matched = r.matched
  BY DEF Lengthened
<1>2. PICK m \in Nat, l \in Nat : m = Len(r.open) /\ Longer(r.open, q.open, m, l, ack, gobble)
  BY Zenon DEF Lengthened
<1>3. /\ m < l /\ Len(q.open) = l
      /\ q.open[m + 1].ack = ack /\ q.open[m + 1].gobble = gobble
      /\ \A i \in 1..l : i > m + 1 => q.open[i].ack = ack /\ q.open[i].gobble
      /\ ~ gobble => l = m + 1
  BY <1>2 DEF Longer
<1>4. \A i \in 1..m : q.open[i] = r.open[i]
  BY <1>2 DEF Longer
<1>5. limit <= ack /\ ack <= limit2 /\ under <= under2 /\ (gobble => ack < n)
  BY DEF Follows
<1>6. \A i \in 1..l : i \in 1..m \/ i = m + 1 \/ i > m + 1
  OBVIOUS
<1>7. \A i \in 1..m : r.open[i].ack \in Nat /\ r.open[i].ack <= limit
                      /\ (r.open[i].gobble => r.open[i].ack < n)
  <2>. SUFFICES ASSUME NEW i \in 1..m
                PROVE  /\ r.open[i].ack \in Nat /\ r.open[i].ack <= limit
                       /\ r.open[i].gobble => r.open[i].ack < n
    OBVIOUS
  <2>1. i \in 1..Len(r.open)
    BY <1>2
  <2>2. r.open[i] \in MonPkt
    <3>1. PICK s \in Seq(MonPkt) : s = r.open
      BY ConnFields
    <3>2. s[i] \in MonPkt
      BY <2>1, <3>1, ElementOfSeq
    <3>. QED
      BY <3>1, <3>2
  <2>. QED
    BY <2>1, <2>2 DEF EntryOK, AcksOK, MonPkt
<1>8. \A i \in 1..l : i > m => q.open[i].ack = ack
  BY <1>3, <1>6
<1>9. \A i \in 1..l : i > m /\ ~ q.open[i].gobble => i = m + 1 /\ ~ gobble
  BY <1>3, <1>6
<1>10. AcksOK(q, n, limit2)
  <2>1. ASSUME NEW i \in 1..l
        PROVE  q.open[i].ack <= limit2 /\ (q.open[i].gobble => q.open[i].ack < n)
    <3>1. CASE i \in 1..m
      <4>1. q.open[i] = r.open[i]
        BY <1>4, <3>1
      <4>2. PICK x \in Nat : x = r.open[i].ack /\ x <= limit /\ (r.open[i].gobble => x < n)
        BY <1>7, <3>1
      <4>3. x <= limit2
        BY <1>5, <4>2
      <4>. QED
        BY <4>1, <4>2, <4>3
    <3>2. CASE i = m + 1
      BY <1>3, <1>5, <3>2
    <3>3. CASE i > m + 1
      <4>1. q.open[i].ack = ack
        BY <1>3, <3>3
      <4>2. l # m + 1
        BY <3>3
      <4>3. ack < n
        BY <1>3, <1>5, <4>2
      <4>. QED
        BY <1>5, <4>1, <4>3
    <3>. QED
      BY <1>6, <3>1, <3>2, <3>3
  <2>2. \A i \in 1..Len(q.matched) : q.matched[i].ack <= limit2
    <3>. SUFFICES ASSUME NEW i \in 1..Len(r.matched) PROVE r.matched[i].ack <= limit2
      BY <1>1
    <3>1. r.matched[i].ack <= limit
      BY DEF EntryOK, AcksOK
    <3>2. r.matched[i].ack \in Nat
      <4>1. PICK s \in Seq(MonPkt) : s = r.matched
        BY ConnFields
      <4>2. s[i] \in MonPkt
        BY <4>1, ElementOfSeq
      <4>. QED
        BY <4>1, <4>2 DEF MonPkt
    <3>. QED
      BY <1>5, <3>1, <3>2
  <2>. QED
    BY <1>3, <2>1, <2>2 DEF AcksOK
<1>11. ASSUME mode = "simple" PROVE SimpleOK(q.open, under2)
  <2>1. /\ \A i, j \in 1..m : i < j /\ ~ r.open[i].gobble => r.open[i].ack < r.open[j].ack
        /\ \A i \in 1..m : ~ r.open[i].gobble => r.open[i].ack < under
    BY <1>2, <1>11 DEF EntryOK, SimpleOK
  <2>2. under <= ack /\ (~ gobble => ack < under2)
    BY <1>11 DEF Follows
  <2>3. ASSUME NEW i \in 1..l, NEW j \in 1..l, i < j, ~ q.open[i].gobble
        PROVE  q.open[i].ack < q.open[j].ack
    <3>1. CASE j \in 1..m
      <4>1. i \in 1..m
        BY <2>3, <3>1
      <4>2. q.open[i] = r.open[i] /\ q.open[j] = r.open[j]
        BY <1>4, <3>1, <4>1
      <4>. QED
        BY <2>1, <2>3, <3>1, <4>1, <4>2
    <3>2. CASE j \notin 1..m /\ i \in 1..m
      <4>1. q.open[i] = r.open[i]
        BY <1>4, <3>2
      <4>2. j > m
        BY <3>2
      <4>3. q.open[j].ack = ack
        BY <1>8, <4>2
      <4>4. PICK x \in Nat : x = r.open[i].ack /\ x < under
        BY <1>7, <2>1, <2>3, <3>2, <4>1
      <4>5. x < ack
        BY <2>2, <4>4
      <4>. QED
        BY <4>1, <4>3, <4>4, <4>5
    <3>3. CASE j \notin 1..m /\ i \notin 1..m
      <4>1. i > m
        BY <3>3
      <4>2. i = m + 1 /\ ~ gobble
        BY <1>9, <2>3, <4>1
      <4>3. l = m + 1
        BY <1>3, <4>2
      <4>. QED
        BY <2>3, <4>2, <4>3
    <3>. QED
      BY <3>1, <3>2, <3>3
  <2>4. ASSUME NEW i \in 1..l, ~ q.open[i].gobble PROVE q.open[i].ack < under2
    <3>1. CASE i \in 1..m
      <4>1. q.open[i] = r.open[i]
        BY <1>4, <3>1
      <4>2. PICK x \in Nat : x = r.open[i].ack /\ x < under
        BY <1>7, <2>1, <2>4, <3>1, <4>1
      <4>3. x < under2
        BY <1>5, <4>2
      <4>. QED
        BY <4>1, <4>2, <4>3
    <3>2. CASE i \notin 1..m
      <4>1. i > m
        BY <3>2
      <4>. QED
        BY <1>8, <1>9, <2>2, <2>4, <4>1
    <3>. QED
      BY <3>1, <3>2
  <2>. QED
    BY <1>3, <2>3, <2>4 DEF SimpleOK
<1>12. ASSUME mode = "pshend" PROVE PshendOK(q.open, k, d)
  <2>1. /\ \A i, j \in 1..m : i < j /\ ~ r.open[i].gobble /\ ~ r.open[j].gobble
                                => r.open[i].ack # r.open[j].ack
        /\ \A i \in 1..m : ~ r.open[i].gobble /\ r.open[i].ack = k => d = 0
    BY <1>2, <1>12 DEF EntryOK, PshendOK
  <2>2. ~ gobble => limit < ack /\ (ack = k => d = 0)
    BY <1>12 DEF Follows, Unseen
  <2>3. ASSUME NEW i \in 1..l, NEW j \in 1..l, i < j, ~ q.open[i].gobble, ~ q.open[j].gobble
        PROVE  q.open[i].ack # q.open[j].ack
    <3>1. CASE j \in 1..m
      <4>1. i \in 1..m
        BY <2>3, <3>1
      <4>2. q.open[i] = r.open[i] /\ q.open[j] = r.open[j]
        BY <1>4, <3>1, <4>1
      <4>. QED
        BY <2>1, <2>3, <3>1, <4>1, <4>2
    <3>2. CASE j \notin 1..m
      <4>1. j > m
        BY <3>2
      <4>2. j = m + 1 /\ ~ gobble /\ q.open[j].ack = ack
        BY <1>8, <1>9, <2>3, <4>1
      <4>3. i \in 1..m
        BY <2>3, <4>2
      <4>4. q.open[i] = r.open[i] /\ r.open[i].ack \in Nat /\ r.open[i].ack <= limit
        BY <1>4, <1>7, <4>3
      <4>. QED
        BY <2>2, <4>2, <4>4
    <3>. QED
      BY <3>1, <3>2
  <2>4. ASSUME NEW i \in 1..l, ~ q.open[i].gobble, q.open[i].ack = k PROVE d = 0
    <3>1. CASE i \in 1..m
      <4>1. q.open[i] = r.open[i]
        BY <1>4, <3>1
      <4>. QED
        BY <2>1, <2>4, <3>1, <4>1
    <3>2. CASE i \notin 1..m
      <4>1. i > m
        BY <3>2
      <4>2. ~ gobble /\ q.open[i].ack = ack
        BY <1>8, <1>9, <2>4, <4>1
      <4>. QED
        BY <2>2, <2>4, <4>2
    <3>. QED
      BY <3>1, <3>2
  <2>. QED
    BY <1>3, <2>3, <2>4 DEF PshendOK
<1>. QED
  BY <1>10, <1>11, <1>12 DEF EntryOK

\* The ack that was about to be expected is expected now.
LEMMA DupExpected ==
    ASSUME NEW K \in Counts, NEW S \in Counts, NEW X \in Counts, NEW k \in Nat, NEW d \in Nat,
           DupOK(K, S, X, k, d),
           NEW T \in Counts, NEW Y \in Counts, \A a \in Nat : S[a] + X[a] <= T[a] + Y[a]
    PROVE  DupOK(K, T, Y, k, d)
<1>1. \A a \in Nat : K[a] \in Nat /\ S[a] \in Nat /\ X[a] \in Nat /\ T[a] \in Nat /\ Y[a] \in Nat
  BY DEF Counts
<1>. QED
  BY <1>1 DEF DupOK

\* A slice or a packet is on its way: its answer is fresh, or is about to be expected.
Grown(X, Y) == \A a \in Nat : X[a] <= Y[a]
Room(A, X, Y, v) == v > NextMissing(A) \/ X[v] + 1 <= Y[v]

LEMMA DupAsked ==
    ASSUME NEW A, NEW K \in Counts, NEW S \in Counts, NEW X \in Counts, NEW k \in Nat, NEW d \in Nat,
           DupOK(K, S, X, k, d), LevelOK(A, K, k), NextMissing(A) \in Nat,
           NEW v \in Nat, NEW L \in Counts, AddsOne(K, L, v),
           NEW Y \in Counts, Grown(X, Y), Room(A, X, Y, v)
    PROVE  DupOK(L, S, Y, k, d)
<1>6. /\ \A a \in Nat : L[a] = IF a = v THEN K[a] + 1 ELSE K[a]
      /\ \A a \in Nat : X[a] <= Y[a]
      /\ v > NextMissing(A) \/ X[v] + 1 <= Y[v]
  BY DEF AddsOne, Grown, Room
<1>1. \A a \in Nat : K[a] \in Nat /\ S[a] \in Nat /\ X[a] \in Nat /\ L[a] \in Nat /\ Y[a] \in Nat
  BY DEF Counts
<1>2. PICK m \in Nat : m = NextMissing(A)
  OBVIOUS
<1>3. k <= m /\ \A a \in Nat : K[a] > 0 => a <= m
  BY <1>2 DEF LevelOK
<1>4. /\ d <= 1
      /\ \A a \in Nat : (k < a => K[a] <= S[a] + X[a] + 1) /\ (a = k => d + K[a] <= S[a] + X[a])
  BY DEF DupOK
<1>5. ASSUME NEW a \in Nat
      PROVE  (k < a => L[a] <= S[a] + Y[a] + 1) /\ (a = k => d + L[a] <= S[a] + Y[a])
  <2>1. CASE a # v
    BY <1>1, <1>4, <1>6, <2>1
  <2>2. CASE a = v /\ v > m
    <3>1. ~ (K[a] > 0) /\ k < a
      BY <1>3, <2>2
    <3>2. K[a] = 0
      BY <1>1, <3>1
    <3>. QED
      BY <1>1, <1>6, <2>2, <3>1, <3>2
  <2>3. CASE a = v /\ X[v] + 1 <= Y[v]
    BY <1>1, <1>4, <1>6, <2>3
  <2>. QED
    BY <1>2, <1>6, <2>1, <2>2, <2>3
<1>. QED
  BY <1>4, <1>5 DEF DupOK

LEMMA LevelAsked ==
    ASSUME NEW A \in Within, NEW B \in Within, A \subseteq B, NEW K \in Counts, NEW k \in Nat,
           LevelOK(A, K, k), NEW v, v = NextMissing(B),
           NEW L \in Counts, AddsOne(K, L, v)
    PROVE  LevelOK(B, L, k)
<1>1. PICK m \in Nat, w \in Nat : m = NextMissing(A) /\ w = NextMissing(B)
  BY MissingTyped, Numbers DEF Within
<1>2. m <= w
  BY <1>1, NotLast, MissingGrows
<1>3. k <= m /\ \A a \in Nat : K[a] > 0 => a <= m
  BY <1>1 DEF LevelOK
<1>4. \A a \in Nat : L[a] > 0 => a <= w
  <2>. SUFFICES ASSUME NEW a \in Nat, L[a] > 0, a # w PROVE a <= w
    OBVIOUS
  <2>1. K[a] > 0
    BY <1>1 DEF AddsOne
  <2>. QED
    BY <1>2, <1>3, <2>1
<1>5. k <= w
  BY <1>2, <1>3
<1>. QED
  BY <1>1, <1>4, <1>5 DEF LevelOK

LEMMA LastAsked ==
    ASSUME NEW B \in Within, NEW n \in 0..MaxSeq, NEW v, v = NextMissing(B),
           NEW K \in Counts, NEW L \in Counts,
           AddsOne(K, L, v), NEW k
    PROVE  LastOK(B, L, k, n)
<1>. SUFFICES ASSUME B = 0..(n - 1) PROVE L[n] > 0
  BY DEF LastOK
<1>1. n \in Nat /\ v = n
  BY MissingFull, Numbers
<1>2. K[n] \in Nat
  BY <1>1 DEF Counts
<1>. QED
  BY <1>1, <1>2 DEF AddsOne

-----------------------------------------------------------------------------
(* The order of the slices, and the acks they wait for.                    *)

\* The number of the k-th slice of n in the order they are shaped.
Place(mode, k, n, base) ==
    IF n <= 2 THEN base + k - 1
    ELSE IF mode = "simple" THEN IF k < n THEN base + k ELSE base
    ELSE IF k <= n - 2 THEN base + k ELSE IF k = n - 1 THEN base ELSE base + n - 1

SliceAt(p, x) == [p EXCEPT !.seq = x, !.len = 1]

LEMMA SlicesPlaced ==
    ASSUME NEW p \in Bounded, NEW n \in Nat, n = p.len, n >= 2, NEW base \in Nat, base = p.seq,
           sting \in StingModes, NEW q, q = StingOrder(Slices(p))
    PROVE  Len(q) = n /\ \A i \in 1..n : q[i] = SliceAt(p, Place(sting, i, n, base))
<1>1. PICK u \in Seq(Bounded) : u = Slices(p) /\ Len(u) = n /\ u # <<>>
  <2>1. Slices(p) \in Seq(Bounded) /\ Len(Slices(p)) = n
    BY SlicesProperties
  <2>2. Len(<<>>) = 0
    OBVIOUS
  <2>. QED
    BY <2>1, <2>2
<1>2. \A k \in 1..n : u[k] = SliceAt(p, base + k - 1)
  BY <1>1 DEF Slices, SliceAt
<1>3. sting = "simple" \/ sting = "pshend"
  BY Numbers
<1>4. CASE n <= 2
  <2>1. q = u
    BY <1>1, <1>4 DEF StingOrder
  <2>2. \A i \in 1..n : Place(sting, i, n, base) = base + i - 1
    BY <1>4 DEF Place
  <2>. QED
    BY <1>1, <1>2, <2>1, <2>2
<1>5. CASE n > 2 /\ sting = "simple"
  <2>1. /\ Tail(u) \in Seq(Bounded) /\ Len(Tail(u)) = n - 1 /\ Head(u) = u[1] /\ Head(u) \in Bounded
        /\ \A i \in 1..(n - 1) : Tail(u)[i] = u[i + 1]
    BY <1>1, HeadTailProperties
  <2>2. PICK t \in Seq(Bounded), h \in Bounded : t = Tail(u) /\ h = Head(u)
    BY <2>1
  <2>3. q = t \o <<h>>
    BY <1>1, <1>5, <2>2 DEF StingOrder
  <2>4. <<h>> \in Seq(Bounded) /\ Len(<<h>>) = 1 /\ <<h>>[1] = h
    OBVIOUS
  <2>5. /\ Len(t \o <<h>>) = Len(t) + Len(<<h>>)
        /\ \A i \in 1..(Len(t) + Len(<<h>>)) :
               (t \o <<h>>)[i] = IF i <= Len(t) THEN t[i] ELSE <<h>>[i - Len(t)]
    BY <2>4, ConcatProperties
  <2>6. Len(q) = n /\ \A i \in 1..n : q[i] = IF i <= n - 1 THEN t[i] ELSE <<h>>[i - (n - 1)]
    <3>1. Len(t) = n - 1 /\ (n - 1) + 1 = n
      BY <2>1, <2>2
    <3>. QED
      BY <2>3, <2>4, <2>5, <3>1
  <2>7. ASSUME NEW i \in 1..n PROVE q[i] = SliceAt(p, Place(sting, i, n, base))
    <3>1. CASE i < n
      <4>1. i \in 1..(n - 1) /\ i + 1 \in 1..n /\ base + (i + 1) - 1 = base + i
        BY <3>1
      <4>2. q[i] = u[i + 1]
        BY <2>1, <2>2, <2>6, <4>1
      <4>3. u[i + 1] = SliceAt(p, base + i)
        BY <1>2, <4>1
      <4>4. Place(sting, i, n, base) = base + i
        BY <1>5, <3>1 DEF Place
      <4>. QED
        BY <4>2, <4>3, <4>4
    <3>2. CASE i = n
      <4>1. 1 \in 1..n /\ base + 1 - 1 = base /\ n - (n - 1) = 1 /\ ~ (n <= n - 1)
        OBVIOUS
      <4>2. q[n] = <<h>>[1]
        <5>1. q[n] = IF n <= n - 1 THEN t[n] ELSE <<h>>[n - (n - 1)]
          BY <2>6, <3>2
        <5>. QED
          BY <4>1, <5>1
      <4>3. h = SliceAt(p, base)
        BY <1>2, <2>1, <2>2, <4>1
      <4>4. Place(sting, n, n, base) = base
        BY <1>5 DEF Place
      <4>. QED
        BY <2>4, <3>2, <4>2, <4>3, <4>4
    <3>. QED
      BY <3>1, <3>2
  <2>. QED
    BY <2>6, <2>7
<1>6. CASE n > 2 /\ sting = "pshend"
  <2>1. PICK m \in Nat : m = n - 2
    BY <1>6
  <2>2. n - 1 \in Int /\ \A i \in 2..(n - 1) : u[i] \in Bounded
    <3>1. \A i \in 1..n : u[i] \in Bounded
      BY <1>1, ElementOfSeq
    <3>. QED
      BY <3>1
  <2>3. /\ SubSeq(u, 2, n - 1) \in Seq(Bounded)
        /\ Len(SubSeq(u, 2, n - 1)) = IF 2 <= n - 1 THEN (n - 1) - 2 + 1 ELSE 0
        /\ \A i \in 1..((n - 1) - 2 + 1) : SubSeq(u, 2, n - 1)[i] = u[2 + i - 1]
    BY <2>2, SubSeqProperties
  <2>4. PICK t \in Seq(Bounded) : /\ t = SubSeq(u, 2, n - 1) /\ Len(t) = m
                                  /\ \A i \in 1..m : t[i] = u[i + 1]
    <3>1. Len(SubSeq(u, 2, n - 1)) = m
      BY <1>6, <2>1, <2>3
    <3>2. \A i \in 1..m : SubSeq(u, 2, n - 1)[i] = u[i + 1]
      <4>. SUFFICES ASSUME NEW i \in 1..m PROVE SubSeq(u, 2, n - 1)[i] = u[i + 1]
        OBVIOUS
      <4>1. i \in 1..((n - 1) - 2 + 1) /\ 2 + i - 1 = i + 1
        BY <2>1
      <4>. QED
        BY <2>3, <4>1
    <3>. QED
      BY <2>3, <3>1, <3>2
  <2>5. PICK f \in Bounded, l \in Bounded : f = u[1] /\ l = u[n]
    <3>1. 1 \in 1..n /\ n \in 1..n
      OBVIOUS
    <3>. QED
      BY <1>1, <3>1, ElementOfSeq
  <2>6. q = t \o <<f, l>>
    BY <1>1, <1>6, <2>4, <2>5 DEF StingOrder
  <2>7. <<f, l>> \in Seq(Bounded) /\ Len(<<f, l>>) = 2 /\ <<f, l>>[1] = f /\ <<f, l>>[2] = l
    OBVIOUS
  <2>8. /\ Len(t \o <<f, l>>) = Len(t) + Len(<<f, l>>)
        /\ \A i \in 1..(Len(t) + Len(<<f, l>>)) :
               (t \o <<f, l>>)[i] = IF i <= Len(t) THEN t[i] ELSE <<f, l>>[i - Len(t)]
    BY <2>7, ConcatProperties
  <2>9. Len(q) = n /\ \A i \in 1..n : q[i] = IF i <= m THEN t[i] ELSE <<f, l>>[i - m]
    <3>1. m + 2 = n
      BY <2>1
    <3>. QED
      BY <2>4, <2>6, <2>7, <2>8, <3>1, Zenon
  <2>10. ASSUME NEW i \in 1..n PROVE q[i] = SliceAt(p, Place(sting, i, n, base))
    <3>1. CASE i <= m
      <4>1. i \in 1..m /\ i + 1 \in 1..n /\ base + (i + 1) - 1 = base + i
        BY <2>1, <3>1
      <4>2. q[i] = u[i + 1]
        <5>1. q[i] = t[i]
          BY <2>9, <3>1
        <5>. QED
          BY <2>4, <4>1, <5>1
      <4>3. u[i + 1] = SliceAt(p, base + i)
        BY <1>2, <4>1
      <4>4. Place(sting, i, n, base) = base + i
        BY <1>6, <2>1, <3>1 DEF Place
      <4>. QED
        BY <4>2, <4>3, <4>4
    <3>2. CASE i = n - 1
      <4>1. 1 \in 1..n /\ base + 1 - 1 = base /\ i - m = 1 /\ ~ (i <= m)
        BY <2>1, <3>2
      <4>2. q[i] = <<f, l>>[1]
        BY <2>9, <4>1
      <4>3. f = SliceAt(p, base)
        BY <1>2, <2>5, <4>1
      <4>4. Place(sting, i, n, base) = base
        BY <1>6, <3>2 DEF Place
      <4>. QED
        BY <2>7, <4>2, <4>3, <4>4
    <3>3. CASE i = n
      <4>1. n \in 1..n /\ i - m = 2 /\ ~ (i <= m)
        BY <2>1, <3>3
      <4>2. q[i] = <<f, l>>[2]
        BY <2>9, <4>1
      <4>3. l = SliceAt(p, base + n - 1)
        BY <1>2, <2>5, <4>1
      <4>4. Place(sting, i, n, base) = base + n - 1
        BY <1>6, <3>3 DEF Place
      <4>. QED
        BY <2>7, <4>2, <4>3, <4>4
    <3>. QED
      BY <2>1, <3>1, <3>2, <3>3
  <2>. QED
    BY <2>9, <2>10
<1>. QED
  BY <1>3, <1>4, <1>5, <1>6

\* The limits of the acks that are expected before and after the j-th slice (from 0).
LimitAt(mode, j, n, base) == IF mode = "simple" \/ j <= n - 2 THEN base ELSE base + n - 1

\* What has been shaped, all in all.
Placed(mode, m, n, base) == 0..(base - 1) \cup {Place(mode, k, n, base) : k \in 1..m}

LEMMA PlaceRange ==
    ASSUME NEW n \in Nat, n >= 2, NEW base \in Nat, NEW k \in 1..n, sting \in StingModes
    PROVE  Place(sting, k, n, base) \in base..(base + n - 1)
<1>1. sting = "simple" \/ sting = "pshend"
  BY Numbers
<1>. QED
  BY <1>1 DEF Place

LEMMA PlacedAll ==
    ASSUME NEW n \in Nat, n >= 2, NEW base \in Nat, base + n <= MaxSeq, sting \in StingModes
    PROVE  /\ Placed(sting, 0, n, base) = 0..(base - 1)
           /\ Placed(sting, n, n, base) = 0..(base + n - 1)
           /\ \A m \in 0..n : Placed(sting, m, n, base) \in Within
           /\ \A m \in 0..(n - 1) : /\ Placed(sting, m + 1, n, base) = Placed(sting, m, n, base) \cup {Place(sting, m + 1, n, base)}
                                    /\ Placed(sting, m, n, base) # 0..(base + n - 1)
<1>1. sting = "simple" \/ sting = "pshend"
  BY Numbers
<1>2. \A k \in 1..n : Place(sting, k, n, base) \in base..(base + n - 1)
  BY PlaceRange
<1>3. Placed(sting, 0, n, base) = 0..(base - 1)
  BY DEF Placed
<1>4. ASSUME NEW x \in base..(base + n - 1) PROVE \E k \in 1..n : Place(sting, k, n, base) = x
  <2>1. CASE n <= 2
    <3>1. x - base + 1 \in 1..n /\ base + (x - base + 1) - 1 = x
      OBVIOUS
    <3>2. Place(sting, x - base + 1, n, base) = x
      BY <2>1, <3>1 DEF Place
    <3>. QED
      BY <3>1, <3>2
  <2>2. CASE n > 2 /\ sting = "simple" /\ x = base
    <3>1. n \in 1..n /\ Place(sting, n, n, base) = base
      BY <2>2 DEF Place
    <3>. QED
      BY <2>2, <3>1
  <2>3. CASE n > 2 /\ sting = "simple" /\ x # base
    <3>1. x - base \in 1..n /\ x - base < n /\ base + (x - base) = x
      BY <2>3
    <3>2. Place(sting, x - base, n, base) = x
      BY <2>3, <3>1 DEF Place
    <3>. QED
      BY <3>1, <3>2
  <2>4. CASE n > 2 /\ sting = "pshend" /\ x = base
    <3>1. n - 1 \in 1..n /\ Place(sting, n - 1, n, base) = base
      BY <2>4 DEF Place
    <3>. QED
      BY <2>4, <3>1
  <2>5. CASE n > 2 /\ sting = "pshend" /\ x = base + n - 1
    <3>1. n \in 1..n /\ Place(sting, n, n, base) = base + n - 1
      BY <2>5 DEF Place
    <3>. QED
      BY <2>5, <3>1
  <2>6. CASE n > 2 /\ sting = "pshend" /\ x # base /\ x # base + n - 1
    <3>1. x - base \in 1..n /\ x - base <= n - 2 /\ base + (x - base) = x
      BY <2>6
    <3>2. Place(sting, x - base, n, base) = x
      BY <2>6, <3>1 DEF Place
    <3>. QED
      BY <3>1, <3>2
  <2>. QED
    BY <1>1, <2>1, <2>2, <2>3, <2>4, <2>5, <2>6
<1>5. Placed(sting, n, n, base) = 0..(base + n - 1)
  <2>1. \A x : x \in 0..(base + n - 1) <=> (x \in 0..(base - 1) \/ x \in base..(base + n - 1))
    OBVIOUS
  <2>2. \A x : x \in base..(base + n - 1) <=> \E k \in 1..n : x = Place(sting, k, n, base)
    BY <1>2, <1>4, Zenon
  <2>. QED
    BY <2>1, <2>2 DEF Placed
<1>6. ASSUME NEW m \in 0..n PROVE Placed(sting, m, n, base) \in Within
  <2>1. \A k \in 1..m : Place(sting, k, n, base) \in 0..(MaxSeq - 1)
    BY <1>2, Numbers
  <2>2. 0..(base - 1) \subseteq 0..(MaxSeq - 1)
    BY Numbers
  <2>. QED
    BY <2>1, <2>2 DEF Placed, Within
<1>7. ASSUME NEW m \in 0..(n - 1)
      PROVE  Placed(sting, m + 1, n, base) = Placed(sting, m, n, base) \cup {Place(sting, m + 1, n, base)}
  <2>1. \A k : k \in 1..(m + 1) <=> (k \in 1..m \/ k = m + 1)
    OBVIOUS
  <2>. QED
    BY <2>1 DEF Placed
<1>8. ASSUME NEW m \in 0..(n - 1) PROVE Placed(sting, m, n, base) # 0..(base + n - 1)
  <2>1. n \in 1..n /\ m + 1 \in 1..n
    OBVIOUS
  <2>2. \A k \in 1..m : Place(sting, k, n, base) # Place(sting, m + 1, n, base)
    BY <1>1 DEF Place
  <2>3. Place(sting, m + 1, n, base) \in base..(base + n - 1)
    BY <1>2, <2>1
  <2>4. Place(sting, m + 1, n, base) \notin 0..(base - 1) /\ Place(sting, m + 1, n, base) \in 0..(base + n - 1)
    BY <2>3
  <2>5. Place(sting, m + 1, n, base) \notin Placed(sting, m, n, base)
    BY <2>2, <2>4, Zenon DEF Placed
  <2>. QED
    BY <2>4, <2>5
<1>. QED
  BY <1>3, <1>5, <1>6, <1>7, <1>8

\* The host answers a slice that is out of its turn with the number the next ack to be
\* swallowed has, and one that fills a gap with a number it did not ask for before.
LEMMA PlaceAnswer ==
    ASSUME NEW n \in Nat, n >= 2, NEW base \in Nat, base + n <= MaxSeq, sting \in StingModes,
           NEW j \in 0..(n - 1), NEW A, A = Placed(sting, j, n, base), NEW B, B = Placed(sting, j + 1, n, base)
    PROVE  \/ NextMissing(B) = base /\ j < n - 1 /\ (sting = "pshend" => j < n - 2)
           \/ NextMissing(B) > NextMissing(A)
<1>1. sting = "simple" \/ sting = "pshend"
  BY Numbers
<1>2. ASSUME NEW m \in 0..n, base \notin {Place(sting, k, n, base) : k \in 1..m}
      PROVE  NextMissing(Placed(sting, m, n, base)) = base
  <2>1. base \notin Placed(sting, m, n, base)
    BY <1>2 DEF Placed
  <2>2. \A k \in 0..(base - 1) : k \in Placed(sting, m, n, base)
    BY DEF Placed
  <2>3. base \in 0..MaxSeq
    BY Numbers
  <2>. QED
    BY <2>1, <2>2, <2>3, MissingIs
<1>3. NextMissing(Placed(sting, n, n, base)) = base + n
  <2>1. Placed(sting, n, n, base) = 0..(base + n - 1) /\ base + n \in 0..MaxSeq
    BY PlacedAll, Numbers
  <2>2. PICK m \in 0..MaxSeq, s \in SUBSET Nat : m = base + n /\ s = 0..(m - 1)
    BY <2>1
  <2>3. m \notin s /\ \A k \in 0..(m - 1) : k \in s
    BY <2>2
  <2>4. NextMissing(s) = m
    BY <2>3, MissingIs
  <2>. QED
    BY <2>1, <2>2, <2>4
<1>4. CASE n = 2
  <2>1. Place(sting, 1, n, base) = base /\ Place(sting, 2, n, base) = base + 1
    BY <1>4 DEF Place
  <2>2. NextMissing(Placed(sting, 0, n, base)) = base
    BY <1>2
  <2>3. NextMissing(Placed(sting, 1, n, base)) = base + 1
    <3>1. Placed(sting, 1, n, base) = 0..base
      <4>1. Placed(sting, 0 + 1, n, base) = Placed(sting, 0, n, base) \cup {Place(sting, 0 + 1, n, base)}
            /\ Placed(sting, 0, n, base) = 0..(base - 1)
        BY PlacedAll, <1>4
      <4>2. 0 + 1 = 1 /\ 0..(base - 1) \cup {base} = 0..base
        OBVIOUS
      <4>. QED
        BY <2>1, <4>1, <4>2
    <3>2. base + 1 \in 0..MaxSeq /\ base + 1 \notin 0..base /\ \A k \in 0..((base + 1) - 1) : k \in 0..base
      BY <1>4, Numbers
    <3>. QED
      BY <3>1, <3>2, MissingIs
  <2>4. (j = 0 /\ j + 1 = 1) \/ (j = 1 /\ j + 1 = n)
    BY <1>4
  <2>. QED
    BY <1>3, <1>4, <2>2, <2>3, <2>4
<1>5. CASE n > 2 /\ sting = "simple"
  <2>1. \A m \in 0..(n - 1) : base \notin {Place(sting, k, n, base) : k \in 1..m}
    BY <1>5 DEF Place
  <2>2. NextMissing(A) = base
    BY <1>2, <2>1
  <2>3. CASE j < n - 1
    <3>1. j + 1 \in 0..(n - 1) /\ j + 1 \in 0..n
      BY <2>3
    <3>2. NextMissing(B) = base
      BY <1>2, <2>1, <3>1
    <3>. QED
      BY <1>5, <2>3, <3>2
  <2>4. CASE j = n - 1
    <3>1. NextMissing(B) = base + n
      BY <1>3, <2>4
    <3>. QED
      BY <2>2, <3>1
  <2>. QED
    BY <2>3, <2>4
<1>6. CASE n > 2 /\ sting = "pshend"
  <2>1. \A m \in 0..(n - 2) : base \notin {Place(sting, k, n, base) : k \in 1..m}
    BY <1>6 DEF Place
  <2>2. CASE j < n - 2
    <3>1. j + 1 \in 0..(n - 2) /\ j + 1 \in 0..n
      BY <2>2
    <3>2. NextMissing(B) = base
      BY <1>2, <2>1, <3>1
    <3>. QED
      BY <2>2, <3>2
  <2>3. NextMissing(Placed(sting, n - 1, n, base)) = base + n - 1
    <3>1. base + n - 1 \notin Placed(sting, n - 1, n, base)
      <4>1. \A k \in 1..(n - 1) : Place(sting, k, n, base) # base + n - 1
        BY <1>6 DEF Place
      <4>. QED
        BY <4>1 DEF Placed
    <3>2. ASSUME NEW x \in 0..((base + n - 1) - 1) PROVE x \in Placed(sting, n - 1, n, base)
      <4>1. CASE x < base
        BY <4>1 DEF Placed
      <4>2. CASE x = base
        <5>1. n - 1 \in 1..(n - 1) /\ Place(sting, n - 1, n, base) = base
          BY <1>6 DEF Place
        <5>. QED
          BY <4>2, <5>1 DEF Placed
      <4>3. CASE x > base
        <5>1. x - base \in 1..(n - 1) /\ x - base <= n - 2 /\ base + (x - base) = x
          BY <4>3
        <5>2. Place(sting, x - base, n, base) = x
          BY <1>6, <5>1 DEF Place
        <5>. QED
          BY <5>1, <5>2 DEF Placed
      <4>. QED
        BY <4>1, <4>2, <4>3
    <3>3. base + n - 1 \in 0..MaxSeq
      BY Numbers
    <3>. QED
      BY <3>1, <3>2, <3>3, MissingIs
  <2>4. CASE j = n - 2
    <3>1. NextMissing(A) = base
      BY <1>2, <2>1, <2>4
    <3>2. NextMissing(B) = base + n - 1
      <4>1. j + 1 = n - 1
        BY <2>4
      <4>. QED
        BY <2>3, <4>1
    <3>. QED
      BY <1>6, <3>1, <3>2
  <2>5. CASE j = n - 1
    <3>1. NextMissing(A) = base + n - 1 /\ NextMissing(B) = base + n
      BY <1>3, <2>3, <2>5
    <3>. QED
      BY <3>1
  <2>. QED
    BY <2>2, <2>4, <2>5
<1>. QED
  BY <1>1, <1>4, <1>5, <1>6

LEMMA ExpectedIs ==
    ASSUME NEW n \in Nat, n >= 2, NEW base \in Nat, NEW j \in 0..(n - 1), sting \in StingModes,
           NEW p \in Bounded, p.seq = Place(sting, j + 1, n, base), p.len = 1,
           NEW e, e = ExpectedAck(j, n, base, p)
    PROVE  /\ e.ack \in Nat /\ e.gobble \in BOOLEAN /\ e.extra \in Nat
           /\ e.gobble <=> j < n - 1
           /\ ~ e.gobble => e.extra = 0
           /\ e.gobble => e.ack < base + n
           /\ j < n - 1 /\ (sting = "pshend" => j < n - 2) => e.ack = base
           /\ LimitAt(sting, j, n, base) <= e.ack
           /\ j < n - 1 => e.ack <= LimitAt(sting, j + 1, n, base)
           /\ e.ack <= base + n
           /\ sting = "simple" => e.ack = base
           /\ sting = "pshend" /\ ~ e.gobble => LimitAt(sting, j, n, base) < e.ack
<1>1. e.ack \in Nat /\ e.gobble \in BOOLEAN /\ e.extra \in Nat
  <2>1. j \in Int /\ n \in Nat \ {0}
    OBVIOUS
  <2>. QED
    BY <2>1, ExpectedProperties, Zenon
<1>2. sting = "simple" \/ sting = "pshend"
  BY Numbers
<1>3. CASE sting = "simple"
  <2>1. e = [ack |-> base, gobble |-> j < n - 1, extra |-> IF j = n - 2 THEN Catchers ELSE 0]
    BY <1>3 DEF ExpectedAck
  <2>2. e.ack = base /\ (e.gobble <=> j < n - 1)
    <3>1. e.ack = base
      BY <2>1
    <3>2. ASSUME NEW g, NEW x, e = [ack |-> base, gobble |-> g, extra |-> x] PROVE e.gobble = g
      BY <3>2
    <3>3. e.gobble = (j < n - 1)
      BY <2>1, <3>2, Zenon
    <3>. QED
      BY <3>1, <3>3
  <2>3. ~ e.gobble => e.extra = 0
    <3>1. j # n - 2 => e.extra = 0
      BY <2>1
    <3>. QED
      BY <2>2, <3>1
  <2>4. LimitAt(sting, j, n, base) = base /\ LimitAt(sting, j + 1, n, base) = base
    BY <1>3 DEF LimitAt
  <2>. QED
    BY <1>1, <1>3, <2>2, <2>3, <2>4
<1>4. CASE sting = "pshend"
  <2>1. CASE j < n - 2
    <3>1. e.ack = base /\ e.gobble = TRUE
      BY <1>4, <2>1 DEF ExpectedAck
    <3>. QED
      BY <1>1, <1>4, <2>1, <3>1 DEF LimitAt
  <2>2. CASE j = n - 2
    <3>1. e.ack = base + n - 1 /\ e.gobble = TRUE
      BY <1>4, <2>2 DEF ExpectedAck
    <3>. QED
      BY <1>1, <1>4, <2>2, <3>1 DEF LimitAt
  <2>3. CASE j = n - 1
    <3>1. e = [ack |-> p.seq + p.len, gobble |-> FALSE, extra |-> 0]
      BY <1>4, <2>3 DEF ExpectedAck
    <3>2. e.ack = p.seq + p.len /\ e.gobble = FALSE /\ e.extra = 0
      BY <3>1
    <3>3. Place(sting, j + 1, n, base) = base + n - 1
      BY <1>4, <2>3 DEF Place
    <3>4. e.ack = base + n
      BY <3>2, <3>3
    <3>. QED
      BY <1>1, <1>4, <2>3, <3>2, <3>4 DEF LimitAt
  <2>. QED
    BY <2>1, <2>2, <2>3
<1>. QED
  BY <1>2, <1>3, <1>4

-----------------------------------------------------------------------------
(* What one connection's slices and acks come to.                          *)

\* The slices of c that its host has or will get from the packets of w.
ArrivedOf(g, c, w) == Seen(g, c, w, Len(w))

\* How many acks ask for each number, those of q and those that will answer w.
ComingOf(g, q, c, w) ==
    [a \in Nat |-> Count(GivenOf(q, c), a) + Count(AskedOf(g, c, w), a)]

SwallowsAt(open) == [a \in Nat |-> Count(SwallowsOf(open), a)]

LEMMA GivenTyped ==
    ASSUME NEW q \in Seq(Ack), NEW c, NEW a PROVE Count(GivenOf(q, c), a) \in Nat
<1>1. PICK m \in Nat : m = Len(q)
  BY LenProperties
<1>2. DOMAIN GivenOf(q, c) = 1..m
  BY <1>1 DEF GivenOf
<1>. QED
  BY <1>2, CountProperties

LEMMA AskedTyped ==
    ASSUME NEW g, NEW c, NEW w \in Seq(Bounded), NEW a PROVE Count(AskedOf(g, c, w), a) \in Nat
<1>1. PICK m \in Nat : m = Len(w)
  BY LenProperties
<1>2. DOMAIN AskedOf(g, c, w) = 1..m
  BY <1>1 DEF AskedOf
<1>. QED
  BY <1>2, CountProperties

LEMMA ComingIs ==
    ASSUME NEW g, NEW c, NEW q \in Seq(Ack), NEW w \in Seq(Bounded)
    PROVE  ComingOf(g, q, c, w) \in Counts
<1>1. ASSUME NEW a \in Nat PROVE Count(GivenOf(q, c), a) + Count(AskedOf(g, c, w), a) \in Nat
  <2>1. PICK k \in Nat, t \in Nat : k = Count(GivenOf(q, c), a) /\ t = Count(AskedOf(g, c, w), a)
    BY GivenTyped, AskedTyped, Zenon
  <2>2. k + t \in Nat
    OBVIOUS
  <2>. QED
    BY <2>1, <2>2, Zenon
<1>. QED
  BY <1>1, Zenon DEF ComingOf, Counts

LEMMA SwallowsIs ==
    ASSUME NEW r \in Conn
    PROVE  SwallowsAt(r.open) \in Counts /\ \A a \in Nat : SwallowsAt(r.open)[a] = Count(SwallowsOf(r.open), a)
<1>1. ASSUME NEW a \in Nat PROVE Count(SwallowsOf(r.open), a) \in Nat
  <2>1. PICK n \in Nat : n = Len(r.open)
    BY ConnFields, LenProperties
  <2>2. DOMAIN SwallowsOf(r.open) = 1..n
    BY <2>1 DEF SwallowsOf
  <2>. QED
    BY <2>2, CountProperties
<1>. QED
  BY <1>1 DEF SwallowsAt, Counts

LEMMA ArrivedTyped ==
    ASSUME NEW g \in Within, NEW c, NEW w \in Seq(Bounded) PROVE ArrivedOf(g, c, w) \in Within
<1>1. Len(w) \in 0..Len(w)
  BY LenProperties
<1>. QED
  BY <1>1, SeenTyped DEF ArrivedOf

\* A packet at the end of the way.
WayGrows(A, B, K, L, x, c) ==
    IF x.c = c
    THEN B = A \cup Slots(x) /\ IF x.len > 0 THEN AddsOne(K, L, NextMissing(B)) ELSE L = K
    ELSE B = A /\ L = K

LEMMA WayPushed ==
    ASSUME NEW g \in Within, NEW q \in Seq(Ack), NEW c, NEW w \in Seq(Bounded), NEW x \in Bounded,
           NEW v \in Seq(Bounded), v = Append(w, x),
           NEW A, A = ArrivedOf(g, c, w), NEW B, B = ArrivedOf(g, c, v),
           NEW K, K = ComingOf(g, q, c, w), NEW L, L = ComingOf(g, q, c, v)
    PROVE  WayGrows(A, B, K, L, x, c)
<1>1. PICK n \in Nat : n = Len(w) /\ Len(v) = n + 1
  BY PutBack
<1>2. x.c = c => B = A \cup Slots(x)
  BY <1>1, SeenPushed DEF ArrivedOf
<1>3. x.c # c => B = A
  BY <1>1, SeenPushed DEF ArrivedOf
<1>4. K \in Counts /\ L \in Counts
  BY ComingIs
<1>5. ASSUME NEW a \in Nat
      PROVE  /\ x.c = c /\ x.len > 0 => L[a] = IF a = NextMissing(B) THEN K[a] + 1 ELSE K[a]
             /\ ~ (x.c = c /\ x.len > 0) => L[a] = K[a]
  <2>6. PICK k \in Nat, t \in Nat, u \in Nat :
           /\ k = Count(GivenOf(q, c), a)
           /\ t = Count(AskedOf(g, c, w), a) /\ u = Count(AskedOf(g, c, v), a)
    BY GivenTyped, AskedTyped
  <2>1. K[a] = k + t /\ L[a] = k + u
    <3>1. K[a] = Count(GivenOf(q, c), a) + Count(AskedOf(g, c, w), a)
      BY Zenon DEF ComingOf
    <3>2. L[a] = Count(GivenOf(q, c), a) + Count(AskedOf(g, c, v), a)
      BY Zenon DEF ComingOf
    <3>. QED
      BY <2>6, <3>1, <3>2
  <2>3. u = IF x.c = c /\ x.len > 0 /\ NextMissing(A \cup Slots(x)) = a THEN t + 1 ELSE t
    <3>1. OneMore(AskedOf(g, c, w), AskedOf(g, c, v), a,
                  x.c = c /\ x.len > 0, NextMissing(Seen(g, c, w, Len(w)) \cup Slots(x)))
      <4>1. Pushed(w, x, v)
        BY DEF Pushed
      <4>. QED
        BY <4>1, AskedPushed
    <3>2. A = Seen(g, c, w, Len(w))
      BY DEF ArrivedOf
    <3>. QED
      BY <2>6, <3>1, <3>2 DEF OneMore
  <2>4. ASSUME x.c = c, x.len > 0 PROVE L[a] = IF a = NextMissing(B) THEN K[a] + 1 ELSE K[a]
    <3>1. B = A \cup Slots(x)
      BY <1>2, <2>4
    <3>. QED
      BY <2>1, <2>3, <2>4, <3>1
  <2>5. ASSUME ~ (x.c = c /\ x.len > 0) PROVE L[a] = K[a]
    BY <2>1, <2>3, <2>5
  <2>. QED
    BY <2>4, <2>5
<1>6. ASSUME ~ (x.c = c /\ x.len > 0) PROVE L = K
  BY <1>4, <1>5, <1>6 DEF Counts
<1>7. ASSUME x.c = c, x.len > 0 PROVE AddsOne(K, L, NextMissing(B))
  BY <1>5, <1>7 DEF AddsOne
<1>. QED
  BY <1>2, <1>3, <1>6, <1>7 DEF WayGrows

\* Two queues of acks that hold the same of one connection.
SameGiven(q, r, c) == \A a \in Nat : Count(GivenOf(r, c), a) = Count(GivenOf(q, c), a)

LEMMA OthersAck ==
    ASSUME NEW c, NEW q \in Seq(Ack), NEW x \in Ack, x.c # c, NEW r, r = Append(q, x)
    PROVE  SameGiven(q, r, c)
<1>1. ASSUME NEW a \in Nat PROVE Count(GivenOf(r, c), a) = Count(GivenOf(q, c), a)
  <2>1. Count(GivenOf(Append(q, x), c), a) =
           IF x.c = c /\ x.ack = a THEN Count(GivenOf(q, c), a) + 1 ELSE Count(GivenOf(q, c), a)
    BY GivenPushed
  <2>. QED
    BY <2>1
<1>. QED
  BY <1>1 DEF SameGiven

\* The host answers the first packet of the way.
Answered(q, r, c, b) == \E x \in Ack : x.c = c /\ x.ack = b /\ r = Append(q, x)

Received(g, e, c, p) == IF p.c = c THEN e = g \cup Slots(p) ELSE e = g
Replied(q, r, c, p, b) == IF p.c = c /\ p.len > 0 THEN Answered(q, r, c, b) ELSE SameGiven(q, r, c)
SameView(g, q, w, e, r, v, c) ==
    ArrivedOf(e, c, v) = ArrivedOf(g, c, w) /\ ComingOf(e, r, c, v) = ComingOf(g, q, c, w)

LEMMA WayPopped ==
    ASSUME NEW g \in Within, NEW c, NEW q \in Seq(Ack), NEW w \in Seq(Bounded), w # <<>>,
           NEW v \in Seq(Bounded), v = Tail(w), NEW p, p = w[1],
           NEW e \in Within, Received(g, e, c, p),
           NEW r \in Seq(Ack), Replied(q, r, c, p, NextMissing(e))
    PROVE  SameView(g, q, w, e, r, v, c)
<1>5. /\ w[1].c = c => e = g \cup Slots(w[1])
      /\ w[1].c # c => e = g
  BY DEF Received
<1>6. /\ ~ (w[1].c = c /\ w[1].len > 0) => SameGiven(q, r, c)
      /\ w[1].c = c /\ w[1].len > 0 => Answered(q, r, c, NextMissing(e))
  BY DEF Replied
<1>1. PICK n \in Nat : n = Len(w) /\ n > 0 /\ Len(v) = n - 1
  BY TakeFront
<1>2. ArrivedOf(e, c, v) = ArrivedOf(g, c, w)
  <2>1. n - 1 \in 0..(n - 1) /\ (n - 1) + 1 = n
    BY <1>1
  <2>2. \A i \in 0..Len(v) : Seen(e, c, v, i) = Seen(g, c, w, i + 1)
    BY <1>5, SeenPopped
  <2>3. Seen(e, c, v, n - 1) = Seen(g, c, w, (n - 1) + 1)
    BY <1>1, <2>1, <2>2
  <2>. QED
    BY <1>1, <2>1, <2>3 DEF ArrivedOf
<1>3. ASSUME NEW a \in Nat PROVE ComingOf(e, r, c, v)[a] = ComingOf(g, q, c, w)[a]
  <2>1. PICK k \in Nat, t \in Nat, l \in Nat, u \in Nat :
           /\ k = Count(GivenOf(q, c), a) /\ t = Count(AskedOf(g, c, w), a)
           /\ l = Count(GivenOf(r, c), a) /\ u = Count(AskedOf(e, c, v), a)
    BY GivenTyped, AskedTyped
  <2>5. ComingOf(g, q, c, w)[a] = k + t /\ ComingOf(e, r, c, v)[a] = l + u
    <3>1. ComingOf(g, q, c, w)[a] = Count(GivenOf(q, c), a) + Count(AskedOf(g, c, w), a)
      BY Zenon DEF ComingOf
    <3>2. ComingOf(e, r, c, v)[a] = Count(GivenOf(r, c), a) + Count(AskedOf(e, c, v), a)
      BY Zenon DEF ComingOf
    <3>. QED
      BY <2>1, <3>1, <3>2
  <2>2. t = IF w[1].c = c /\ w[1].len > 0 /\ NextMissing(e) = a THEN u + 1 ELSE u
    BY <1>5, <2>1, AskedPopped
  <2>3. CASE w[1].c = c /\ w[1].len > 0
    <3>1. PICK x \in Ack : x.c = c /\ x.ack = NextMissing(e) /\ r = Append(q, x)
      BY <1>6, <2>3 DEF Answered
    <3>2. Count(GivenOf(Append(q, x), c), a) =
              IF x.c = c /\ x.ack = a THEN Count(GivenOf(q, c), a) + 1 ELSE Count(GivenOf(q, c), a)
      BY GivenPushed
    <3>3. l = IF x.c = c /\ x.ack = a THEN k + 1 ELSE k
      BY <2>1, <3>1, <3>2
    <3>. QED
      BY <2>5, <2>2, <2>3, <3>1, <3>3
  <2>4. CASE ~ (w[1].c = c /\ w[1].len > 0)
    <3>1. l = k
      BY <1>6, <2>1, <2>4 DEF SameGiven
    <3>. QED
      BY <2>5, <2>2, <2>4, <3>1
  <2>. QED
    BY <2>3, <2>4
<1>4. ComingOf(e, r, c, v) \in Counts /\ ComingOf(g, q, c, w) \in Counts
  BY ComingIs
<1>. QED
  BY <1>2, <1>3, <1>4 DEF Counts, SameView

\* An ack is processed.
AckTaken(K, L, x, c) ==
    IF x.c = c THEN K[x.ack] > 0 /\ OneLess(K, L, x.ack) ELSE L = K

LEMMA AckPopped ==
    ASSUME NEW g, NEW c, NEW q \in Seq(Ack), q # <<>>, NEW w \in Seq(Bounded),
           NEW r \in Seq(Ack), r = Tail(q), NEW x, x = q[1],
           NEW K, K = ComingOf(g, q, c, w), NEW L, L = ComingOf(g, r, c, w)
    PROVE  AckTaken(K, L, x, c)
<1>1. q[1] \in Ack /\ q[1].ack \in Nat
  <2>1. q[1] \in Ack
    BY TakeFront, Zenon
  <2>. QED
    BY <2>1 DEF Ack
<1>2. K \in Counts /\ L \in Counts
  BY ComingIs
<1>3. ASSUME NEW a \in Nat
      PROVE  /\ q[1].c = c => (a = q[1].ack => K[a] > 0) /\ L[a] = IF a = q[1].ack THEN K[a] - 1 ELSE K[a]
             /\ q[1].c # c => L[a] = K[a]
  <2>1. PICK k \in Nat, t \in Nat, l \in Nat :
           /\ k = Count(GivenOf(q, c), a) /\ l = Count(GivenOf(r, c), a)
           /\ t = Count(AskedOf(g, c, w), a)
    BY GivenTyped, AskedTyped
  <2>5. K[a] = k + t /\ L[a] = l + t
    <3>1. K[a] = Count(GivenOf(q, c), a) + Count(AskedOf(g, c, w), a)
      BY Zenon DEF ComingOf
    <3>2. L[a] = Count(GivenOf(r, c), a) + Count(AskedOf(g, c, w), a)
      BY Zenon DEF ComingOf
    <3>. QED
      BY <2>1, <3>1, <3>2
  <2>2. k = IF q[1].c = c /\ q[1].ack = a THEN l + 1 ELSE l
    BY <2>1, GivenPopped
  <2>3. ASSUME q[1].c = c PROVE (a = q[1].ack => K[a] > 0) /\ L[a] = IF a = q[1].ack THEN K[a] - 1 ELSE K[a]
    BY <2>5, <2>2, <2>3
  <2>4. ASSUME q[1].c # c PROVE L[a] = K[a]
    BY <2>5, <2>2, <2>4
  <2>. QED
    BY <2>3, <2>4
<1>4. ASSUME q[1].c # c PROVE L = K
  BY <1>2, <1>3, <1>4 DEF Counts
<1>5. ASSUME q[1].c = c PROVE K[q[1].ack] > 0 /\ OneLess(K, L, q[1].ack)
  BY <1>1, <1>3, <1>5 DEF OneLess
<1>. QED
  BY <1>4, <1>5 DEF AckTaken

-----------------------------------------------------------------------------
(* The way of the packets to a host.                                       *)

\* Past the tap, in the hands of the timer thread, and in the shape queue.
Joined(l, k, q) == (l \o k) \o q
Hand(h) == IF timer.pkt # None /\ timer.h = h THEN <<timer.pkt>> ELSE <<>>
Way(h) == Joined(line[h], Hand(h), shapeQ[h])

LEMMA OneElement ==
    ASSUME NEW S, NEW a \in S PROVE <<a>> \in Seq(S) /\ Len(<<a>>) = 1 /\ <<a>>[1] = a
OBVIOUS

LEMMA FrontOff ==
    ASSUME NEW S, NEW a \in S, NEW t \in Seq(S), NEW s, s = <<a>> \o t
    PROVE  s \in Seq(S) /\ s # <<>> /\ s[1] = a /\ Tail(s) = t
<1>1. PICK u \in Seq(S) : u = <<a>> /\ Len(u) = 1 /\ u[1] = a
  BY OneElement
<1>2. PICK n \in Nat : n = Len(t)
  BY LenProperties
<1>3. /\ s \in Seq(S) /\ Len(s) = 1 + n
      /\ \A i \in 1..(1 + n) : s[i] = IF i <= 1 THEN u[i] ELSE t[i - 1]
  <2>1. /\ u \o t \in Seq(S) /\ Len(u \o t) = Len(u) + Len(t)
        /\ \A i \in 1..(Len(u) + Len(t)) : (u \o t)[i] = IF i <= Len(u) THEN u[i] ELSE t[i - Len(u)]
    BY ConcatProperties
  <2>. QED
    BY <1>1, <1>2, <2>1
<1>4. s # <<>>
  BY <1>3, EmptySeq
<1>5. s[1] = a
  BY <1>1, <1>3
<1>6. Tail(s) = t
  <2>1. /\ Tail(s) \in Seq(S) /\ Len(Tail(s)) = Len(s) - 1
        /\ \A i \in 1..Len(Tail(s)) : Tail(s)[i] = s[i + 1]
    BY <1>3, <1>4, HeadTailProperties
  <2>5. Len(Tail(s)) = n
    BY <1>3, <2>1
  <2>2. PICK v \in Seq(S) : v = Tail(s) /\ Len(v) = n /\ \A i \in 1..n : v[i] = s[i + 1]
    BY <2>1, <2>5, Zenon
  <2>3. ASSUME NEW i \in 1..n PROVE v[i] = t[i]
    <3>1. i + 1 \in 1..(1 + n) /\ ~ (i + 1 <= 1) /\ (i + 1) - 1 = i
      OBVIOUS
    <3>. QED
      BY <1>3, <2>2, <3>1
  <2>4. v = t
    BY <1>2, <2>2, <2>3, SeqEqual
  <2>. QED
    BY <2>2, <2>4, Zenon
<1>. QED
  BY <1>3, <1>4, <1>5, <1>6

LEMMA FrontOn ==
    ASSUME NEW S, NEW s \in Seq(S), s # <<>>
    PROVE  s[1] \in S /\ Tail(s) \in Seq(S) /\ s = <<s[1]>> \o Tail(s)
<1>1. PICK n \in Nat : n + 1 = Len(s)
  <2>1. Len(s) \in Nat \ {0}
    BY EmptySeq
  <2>2. Len(s) - 1 \in Nat /\ (Len(s) - 1) + 1 = Len(s)
    BY <2>1
  <2>. QED
    BY <2>2, Zenon
<1>2. s[1] \in S
  BY <1>1, ElementOfSeq
<1>3. PICK t \in Seq(S) : t = Tail(s) /\ Len(t) = n /\ \A i \in 1..n : t[i] = s[i + 1]
  <2>1. /\ Tail(s) \in Seq(S) /\ Len(Tail(s)) = Len(s) - 1
        /\ \A i \in 1..Len(Tail(s)) : Tail(s)[i] = s[i + 1]
    BY HeadTailProperties
  <2>2. Len(Tail(s)) = n
    BY <1>1, <2>1
  <2>. QED
    BY <2>1, <2>2, Zenon
<1>4. PICK u \in Seq(S) : u = <<s[1]>> /\ Len(u) = 1 /\ u[1] = s[1]
  BY <1>2, OneElement
<1>5. PICK v \in Seq(S) : /\ v = u \o t /\ Len(v) = 1 + n
                          /\ \A i \in 1..(1 + n) : v[i] = IF i <= 1 THEN u[i] ELSE t[i - 1]
  <2>1. /\ u \o t \in Seq(S) /\ Len(u \o t) = Len(u) + Len(t)
        /\ \A i \in 1..(Len(u) + Len(t)) : (u \o t)[i] = IF i <= Len(u) THEN u[i] ELSE t[i - Len(u)]
    BY ConcatProperties
  <2>. QED
    BY <1>3, <1>4, <2>1
<1>6. ASSUME NEW i \in 1..(1 + n) PROVE s[i] = v[i]
  <2>1. CASE i = 1
    BY <1>4, <1>5, <2>1
  <2>2. CASE i # 1
    <3>1. i - 1 \in 1..n /\ ~ (i <= 1) /\ (i - 1) + 1 = i
      BY <2>2
    <3>. QED
      BY <1>3, <1>5, <3>1
  <2>. QED
    BY <2>1, <2>2
<1>7. s = v
  <2>1. Len(s) = Len(v) /\ \A i \in 1..Len(s) : s[i] = v[i]
    BY <1>1, <1>5, <1>6
  <2>. QED
    BY <2>1, SeqEqual
<1>. QED
  BY <1>2, <1>3, <1>4, <1>5, <1>7, Zenon

Grouped(s, t, u) == (s \o t) \o u = s \o (t \o u)

LEMMA GroupedEitherWay ==
    ASSUME NEW S, NEW s \in Seq(S), NEW t \in Seq(S), NEW u \in Seq(S) PROVE Grouped(s, t, u)
  BY ConcatAssociative DEF Grouped

PopJoined(l, k, q) ==
    l # <<>> => /\ Joined(l, k, q) # <<>> /\ Joined(l, k, q)[1] = l[1]
                /\ Tail(Joined(l, k, q)) = Joined(Tail(l), k, q)

\* A packet put behind all others, on the way past the tap, and off the way.
LEMMA JoinedIs ==
    ASSUME NEW S, NEW l \in Seq(S), NEW k \in Seq(S), NEW q \in Seq(S)
    PROVE  /\ Joined(l, k, q) \in Seq(S)
           /\ q # <<>> => Joined(l, <<q[1]>>, Tail(q)) = Joined(l, <<>>, q)
           /\ PopJoined(l, k, q)
<1>1. l \o k \in Seq(S)
  BY ConcatProperties
<1>2. PICK m \in Seq(S) : m = l \o k
  BY <1>1
<1>3. m \o q \in Seq(S)
  BY ConcatProperties
<1>4. Joined(l, k, q) = m \o q
  BY <1>2 DEF Joined
<1>7. ASSUME q # <<>> PROVE Joined(l, <<q[1]>>, Tail(q)) = Joined(l, <<>>, q)
  <2>1. q[1] \in S /\ Tail(q) \in Seq(S) /\ q = <<q[1]>> \o Tail(q)
    BY <1>7, FrontOn
  <2>2. PICK u \in Seq(S), t \in Seq(S) : u = <<q[1]>> /\ t = Tail(q)
    BY <2>1, OneElement
  <2>3. (l \o u) \o t = l \o (u \o t)
    <3>1. Grouped(l, u, t)
      BY GroupedEitherWay
    <3>. QED
      BY <3>1 DEF Grouped
  <2>4. l \o <<>> = l
    BY ConcatEmptySeq
  <2>. QED
    BY <2>1, <2>2, <2>3, <2>4 DEF Joined
<1>8. ASSUME l # <<>>
      PROVE  /\ Joined(l, k, q) # <<>> /\ Joined(l, k, q)[1] = l[1]
             /\ Tail(Joined(l, k, q)) = Joined(Tail(l), k, q)
  <2>1. l[1] \in S /\ Tail(l) \in Seq(S) /\ l = <<l[1]>> \o Tail(l)
    BY <1>8, FrontOn
  <2>2. PICK u \in Seq(S), t \in Seq(S) : u = <<l[1]>> /\ t = Tail(l)
    BY <2>1, OneElement
  <2>3. (u \o t) \o k = u \o (t \o k)
    <3>1. Grouped(u, t, k)
      BY GroupedEitherWay
    <3>. QED
      BY <3>1 DEF Grouped
  <2>4. t \o k \in Seq(S)
    BY ConcatProperties
  <2>5. PICK v \in Seq(S) : v = t \o k
    BY <2>4
  <2>6. (u \o v) \o q = u \o (v \o q)
    <3>1. Grouped(u, v, q)
      BY GroupedEitherWay
    <3>. QED
      BY <3>1 DEF Grouped
  <2>7. v \o q \in Seq(S)
    BY ConcatProperties
  <2>8. PICK w \in Seq(S) : w = v \o q
    BY <2>7
  <2>9. Joined(l, k, q) = u \o w
    BY <2>1, <2>2, <2>3, <2>5, <2>6, <2>8 DEF Joined
  <2>10. Joined(Tail(l), k, q) = w
    BY <2>2, <2>5, <2>8 DEF Joined
  <2>11. PICK a \in S : a = l[1]
    BY <2>1
  <2>12. Joined(l, k, q) = <<a>> \o w
    BY <2>2, <2>9, <2>11
  <2>13. PICK x : x = Joined(l, k, q)
    OBVIOUS
  <2>14. x # <<>> /\ x[1] = a /\ Tail(x) = w
    BY <2>12, <2>13, FrontOff
  <2>. QED
    BY <2>10, <2>11, <2>13, <2>14, Zenon
<1>. QED
  BY <1>3, <1>4, <1>7, <1>8 DEF PopJoined

PushJoined(l, k, q, x) == Joined(l, k, Append(q, x)) = Append(Joined(l, k, q), x)
PassJoined(l, q, x) == Joined(Append(l, x), <<>>, q) = Joined(l, <<x>>, q)

LEMMA JoinedPushed ==
    ASSUME NEW S, NEW l \in Seq(S), NEW k \in Seq(S), NEW q \in Seq(S), NEW x \in S
    PROVE  PushJoined(l, k, q, x) /\ PassJoined(l, q, x)
<1>1. PICK m \in Seq(S) : m = l \o k
  BY ConcatProperties
<1>2. m \o q \in Seq(S)
  BY ConcatProperties
<1>3. PICK u \in Seq(S) : u = <<x>>
  BY OneElement
<1>4. PushJoined(l, k, q, x)
  <2>1. Append(q, x) = q \o u
    BY <1>3, AppendIsConcat
  <2>2. Append(m \o q, x) = (m \o q) \o u
    BY <1>2, <1>3, AppendIsConcat
  <2>3. (m \o q) \o u = m \o (q \o u)
    <3>1. Grouped(m, q, u)
      BY GroupedEitherWay
    <3>. QED
      BY <3>1 DEF Grouped
  <2>. QED
    BY <1>1, <2>1, <2>2, <2>3 DEF PushJoined, Joined
<1>5. PassJoined(l, q, x)
  <2>1. Append(l, x) = l \o u /\ Append(l, x) \in Seq(S)
    BY <1>3, AppendIsConcat, AppendProperties
  <2>2. Append(l, x) \o <<>> = Append(l, x)
    BY <2>1, ConcatEmptySeq
  <2>. QED
    BY <1>3, <2>1, <2>2 DEF PassJoined, Joined
<1>. QED
  BY <1>4, <1>5

\* A packet is on its way to its own host only.
Homed(h) == {p \in Bounded : HostOf[p.c] = h}

HomeInv ==
    /\ \A h \in Hosts : line[h] \in Seq(Homed(h)) /\ shapeQ[h] \in Seq(Homed(h))
    /\ timer.pkt # None => timer.pkt \in Homed(timer.h)

\* The timer thread has a packet only while its callback runs.
IdleInv == timer.job \in {"idle", "clean"} => timer.pkt = None

LEMMA HomedPackets == \A h : Seq(Homed(h)) \subseteq Seq(Bounded)
<1>1. SUFFICES ASSUME NEW h, NEW s \in Seq(Homed(h)) PROVE s \in Seq(Bounded)
  OBVIOUS
<1>2. PICK n \in Nat : s \in [1..n -> Homed(h)]
  BY LenProperties
<1>3. Homed(h) \subseteq Bounded
  BY DEF Homed
<1>4. s \in [1..n -> Bounded]
  BY <1>2, <1>3
<1>. QED
  BY <1>4

LEMMA WayTyped ==
    ASSUME HomeInv, NEW h \in Hosts
    PROVE  /\ Hand(h) \in Seq(Homed(h)) /\ Way(h) \in Seq(Homed(h)) /\ Way(h) \in Seq(Bounded)
           /\ \A i \in 1..Len(Way(h)) : HostOf[Way(h)[i].c] = h
<1>1. line[h] \in Seq(Homed(h)) /\ shapeQ[h] \in Seq(Homed(h))
  BY DEF HomeInv
<1>2. Hand(h) \in Seq(Homed(h))
  <2>1. CASE timer.pkt # None /\ timer.h = h
    <3>1. PICK x \in Homed(h) : x = timer.pkt
      BY <2>1 DEF HomeInv
    <3>2. <<x>> \in Seq(Homed(h))
      BY OneElement
    <3>. QED
      BY <2>1, <3>1, <3>2 DEF Hand
  <2>2. CASE ~ (timer.pkt # None /\ timer.h = h)
    BY <2>2 DEF Hand
  <2>. QED
    BY <2>1, <2>2
<1>3. PICK l \in Seq(Homed(h)), k \in Seq(Homed(h)), q \in Seq(Homed(h)) :
          l = line[h] /\ k = Hand(h) /\ q = shapeQ[h]
  BY <1>1, <1>2
<1>4. Joined(l, k, q) \in Seq(Homed(h))
  BY JoinedIs
<1>5. Way(h) \in Seq(Homed(h))
  BY <1>3, <1>4 DEF Way
<1>6. ASSUME NEW i \in 1..Len(Way(h)) PROVE HostOf[Way(h)[i].c] = h
  <2>1. Way(h)[i] \in Homed(h)
    BY <1>5, ElementOfSeq
  <2>. QED
    BY <2>1 DEF Homed
<1>. QED
  BY <1>2, <1>5, <1>6, HomedPackets

\* shapePacketHost puts a packet on the way of its host.
LEMMA ShapePushes ==
    ASSUME Queues, HomeInv, NEW h \in Hosts, NEW p \in Homed(h), NEW post, Shape(h, p, post),
           UNCHANGED <<line, timer>>
    PROVE  /\ HomeInv' /\ Way(h)' = Append(Way(h), p)
           /\ \A g \in Hosts : g # h => Way(g)' = Way(g)
<1>1. shapeQ \in [Hosts -> Seq(Bounded)] /\ shapeQ' = [shapeQ EXCEPT ![h] = Append(@, p)]
  BY DEF Queues, Shape
<1>2. \A g \in Hosts : Hand(g)' = Hand(g)
  BY DEF Hand
<1>3. PICK l \in Seq(Homed(h)), k \in Seq(Homed(h)), q \in Seq(Homed(h)) :
          l = line[h] /\ k = Hand(h) /\ q = shapeQ[h]
  BY WayTyped DEF HomeInv
<1>4. Joined(l, k, Append(q, p)) = Append(Joined(l, k, q), p) /\ Append(q, p) \in Seq(Homed(h))
  <2>1. PushJoined(l, k, q, p)
    BY JoinedPushed
  <2>2. Append(q, p) \in Seq(Homed(h))
    BY PutBack
  <2>. QED
    BY <2>1, <2>2, Zenon DEF PushJoined
<1>5. shapeQ'[h] = Append(q, p) /\ \A g \in Hosts : g # h => shapeQ'[g] = shapeQ[g]
  BY <1>1, <1>3
<1>6. Way(h)' = Append(Way(h), p)
  BY <1>2, <1>3, <1>4, <1>5 DEF Way
<1>7. ASSUME NEW g \in Hosts, g # h PROVE Way(g)' = Way(g)
  BY <1>2, <1>5, <1>7 DEF Way
<1>8. HomeInv'
  <2>1. ASSUME NEW g \in Hosts PROVE line'[g] \in Seq(Homed(g)) /\ shapeQ'[g] \in Seq(Homed(g))
    BY <1>3, <1>4, <1>5 DEF HomeInv
  <2>2. timer'.pkt # None => timer'.pkt \in Homed(timer'.h)
    BY DEF HomeInv
  <2>. QED
    BY <2>1, <2>2 DEF HomeInv
<1>. QED
  BY <1>6, <1>7, <1>8

\* What the timer thread takes from the shape queue it has in its hands.
LEMMA HandTakes ==
    ASSUME Queues, HomeInv, timer.pkt = None, NEW h \in Hosts, shapeQ[h] # <<>>,
           shapeQ' = [shapeQ EXCEPT ![h] = Tail(@)], line' = line,
           timer'.pkt = shapeQ[h][1], timer'.h = h
    PROVE  HomeInv' /\ \A g \in Hosts : Way(g)' = Way(g)
<1>1. PICK l \in Seq(Homed(h)), q \in Seq(Homed(h)) : l = line[h] /\ q = shapeQ[h] /\ q # <<>>
  BY DEF HomeInv
<1>2. q[1] \in Homed(h) /\ Tail(q) \in Seq(Homed(h))
  <2>1. q \in Seq(Homed(h)) /\ q # <<>>
    BY <1>1
  <2>. QED
    BY <2>1, TakeFront
<1>3. \A g \in Hosts : Hand(g) = <<>>
  BY DEF Hand
<1>4. PICK x \in Homed(h) : x = q[1] /\ x # None
  <2>1. q[1] \in Packet
    BY <1>2 DEF Homed, Bounded
  <2>. QED
    BY <1>2, <2>1, NoneAssumption
<1>5. Hand(h)' = <<x>> /\ \A g \in Hosts : g # h => Hand(g)' = <<>>
  BY <1>1, <1>4 DEF Hand
<1>6. shapeQ'[h] = Tail(q) /\ \A g \in Hosts : g # h => shapeQ'[g] = shapeQ[g]
  BY <1>1 DEF Queues
<1>7. Joined(l, <<x>>, Tail(q)) = Joined(l, <<>>, q)
  <2>1. <<>> \in Seq(Homed(h)) /\ q # <<>>
    BY <1>1
  <2>2. q # <<>> => Joined(l, <<q[1]>>, Tail(q)) = Joined(l, <<>>, q)
    BY <2>1, JoinedIs
  <2>. QED
    BY <1>4, <2>1, <2>2
<1>8. Way(h)' = Way(h)
  BY <1>1, <1>3, <1>5, <1>6, <1>7 DEF Way
<1>9. ASSUME NEW g \in Hosts, g # h PROVE Way(g)' = Way(g)
  BY <1>3, <1>5, <1>6, <1>9 DEF Way
<1>10. HomeInv'
  <2>1. ASSUME NEW g \in Hosts PROVE line'[g] \in Seq(Homed(g)) /\ shapeQ'[g] \in Seq(Homed(g))
    BY <1>2, <1>6 DEF HomeInv
  <2>2. timer'.pkt \in Homed(timer'.h)
    BY <1>1, <1>4
  <2>. QED
    BY <2>1, <2>2 DEF HomeInv
<1>. QED
  BY <1>8, <1>9, <1>10

LEMMA NothingTaken ==
    ASSUME HomeInv, timer.pkt = None, timer'.pkt = None, UNCHANGED <<shapeQ, line>>
    PROVE  HomeInv' /\ \A g \in Hosts : Way(g)' = Way(g)
<1>1. \A g \in Hosts : Hand(g)' = Hand(g)
  BY DEF Hand
<1>. QED
  BY <1>1 DEF HomeInv, Way

LEMMA IdleHands == IdleTimer.pkt = None /\ IdleTimer.job = "idle"
BY DEF IdleTimer

LEMMA TimerKeepsWay ==
    ASSUME TypeInv, HomeInv, IdleInv, NEW h \in Hosts, ShapeTimer(h) \/ PostTimer(h)
    PROVE  HomeInv' /\ IdleInv' /\ \A g \in Hosts : Way(g)' = Way(g)
<1>1. Queues /\ line' = line
  BY Zenon DEF TypeInv, ShapeTimer, PostTimer
<1>2. CASE ShapeTimer(h)
  <2>1. timer.pkt = None /\ timer.job = "idle"
    BY <1>2, Zenon DEF ShapeTimer, IdleInv
  <2>2. CASE shapeQ[h] = <<>>
    <3>1. UNCHANGED <<shapeQ, timer>>
      BY <1>2, <2>2 DEF ShapeTimer
    <3>. QED
      BY <1>1, <2>1, <3>1, NothingTaken DEF IdleInv
  <2>3. CASE shapeQ[h] # <<>>
    <3>1. /\ shapeQ' = [shapeQ EXCEPT ![h] = Tail(@)]
          /\ timer' = [IdleTimer EXCEPT !.job = "shape", !.h = h, !.pkt = shapeQ[h][1]]
      BY <1>2, <2>3, Zenon DEF ShapeTimer
    <3>2. timer'.pkt = shapeQ[h][1] /\ timer'.h = h /\ timer'.job = "shape"
      BY <3>1 DEF IdleTimer
    <3>3. IdleInv'
      BY <3>2 DEF IdleInv
    <3>. QED
      BY <1>1, <2>1, <2>3, <3>1, <3>2, <3>3, HandTakes, Zenon
  <2>. QED
    BY <2>2, <2>3, Zenon
<1>3. CASE PostTimer(h)
  <2>1. timer.pkt = None
    BY <1>3 DEF PostTimer, IdleInv
  <2>2. CASE shapeQ[h] = <<>>
    <3>1. shapeQ' = shapeQ /\ timer' = IdleTimer
      BY <1>3, <2>2 DEF PostTimer
    <3>. QED
      BY <1>1, <2>1, <3>1, IdleHands, NothingTaken DEF IdleInv
  <2>3. CASE shapeQ[h] # <<>>
    <3>1. /\ shapeQ' = [shapeQ EXCEPT ![h] = Tail(@)]
          /\ timer' = [IdleTimer EXCEPT !.job = "post", !.h = h, !.pkt = shapeQ[h][1]]
      BY <1>3, <2>3 DEF PostTimer
    <3>2. timer'.pkt = shapeQ[h][1] /\ timer'.h = h /\ timer'.job = "post"
      BY <3>1 DEF IdleTimer
    <3>3. IdleInv'
      BY <3>2 DEF IdleInv
    <3>. QED
      BY <1>1, <2>1, <2>3, <3>1, <3>2, <3>3, HandTakes
  <2>. QED
    BY <2>2, <2>3
<1>. QED
  BY <1>2, <1>3, Zenon

LEMMA ResumeKeepsWay ==
    ASSUME TypeInv, HomeInv, IdleInv, ResumePostTap
    PROVE  HomeInv' /\ IdleInv' /\ \A g \in Hosts : Way(g)' = Way(g)
<1>1. /\ timer.pkt # None /\ line' = [line EXCEPT ![timer.h] = Append(@, timer.pkt)]
      /\ timer' = IF timer.job = "shape" THEN IdleTimer ELSE [timer EXCEPT !.pkt = None]
      /\ shapeQ' = shapeQ /\ Queues
  BY DEF TypeInv, ResumePostTap, hostVars
<1>2. timer \in Timers /\ timer.h \in Hosts /\ line \in [Hosts -> Seq(Bounded)]
  BY <1>1 DEF Queues, Timers
<1>3. timer'.pkt = None
  <2>1. CASE timer.job = "shape"
    BY <1>1, <2>1, IdleHands
  <2>2. CASE timer.job # "shape"
    <3>1. [timer EXCEPT !.pkt = None].pkt = None
      BY <1>2 DEF Timers
    <3>. QED
      BY <1>1, <2>2, <3>1
  <2>. QED
    BY <2>1, <2>2
<1>4. PICK h \in Hosts : h = timer.h
  BY <1>2
<1>5. PICK l \in Seq(Homed(h)), q \in Seq(Homed(h)), x \in Homed(h) :
          l = line[h] /\ q = shapeQ[h] /\ x = timer.pkt
  BY <1>1, <1>4 DEF HomeInv
<1>6. Append(l, x) \in Seq(Homed(h))
  BY PutBack
<1>7. line'[h] = Append(l, x) /\ \A g \in Hosts : g # h => line'[g] = line[g]
  BY <1>1, <1>2, <1>4, <1>5
<1>8. /\ Hand(h) = <<x>> /\ Hand(h)' = <<>>
      /\ \A g \in Hosts : g # h => Hand(g) = <<>> /\ Hand(g)' = <<>>
  BY <1>1, <1>3, <1>4, <1>5 DEF Hand
<1>9. Joined(Append(l, x), <<>>, q) = Joined(l, <<x>>, q)
  <2>1. PassJoined(l, q, x)
    BY JoinedPushed
  <2>. QED
    BY <2>1 DEF PassJoined
<1>10. Way(h)' = Way(h)
  BY <1>1, <1>5, <1>7, <1>8, <1>9 DEF Way
<1>11. ASSUME NEW g \in Hosts, g # h PROVE Way(g)' = Way(g)
  BY <1>1, <1>7, <1>8, <1>11 DEF Way
<1>12. HomeInv'
  <2>1. ASSUME NEW g \in Hosts PROVE line'[g] \in Seq(Homed(g)) /\ shapeQ'[g] \in Seq(Homed(g))
    BY <1>1, <1>6, <1>7 DEF HomeInv
  <2>. QED
    BY <1>3, <2>1 DEF HomeInv
<1>. QED
  BY <1>3, <1>10, <1>11, <1>12 DEF IdleInv

\* The burst a connection is in: how far its loop has come, the ack expected
\* next, and what that leaves to say about the connection.
Loop(c) == burst # None /\ burst.todo[1].c = c
Done == burst.n - Len(burst.todo)
Shaped == IF burst.shaped THEN Done + 1 ELSE Done
NextAck == ExpectedAck(Done, burst.n, burst.base, burst.todo[1])

Limit(c) == IF Loop(c) THEN LimitAt(sting, Done, burst.n, burst.base) ELSE sent[c]
Under(c) == IF Loop(c) THEN burst.base ELSE sent[c]
Reach(c) == IF Loop(c) THEN Placed(sting, Shaped, burst.n, burst.base) ELSE 0..(sent[c] - 1)
Extra(c) ==
    [a \in Nat |-> IF Loop(c) /\ burst.shaped /\ NextAck.gobble /\ NextAck.ack = a THEN 1 ELSE 0]

\* The LAN thread holds an ack of the connection that it passes on, and what the
\* sender has seen once it did.
Held(c) == lan # None /\ lan.ack.c = c /\ ~ lan.gobble
SeenAck(c) == IF Held(c) THEN LastAck(lan.ack.ack, acked[c]) ELSE acked[c]
SeenDups(c) == IF Held(c) THEN Repeats(lan.ack.ack, acked[c], dups[c]) ELSE dups[c]

\* What the host has once all on the way arrived, the acks the sender is to
\* see, and the connection as its next slice finds it.
Arrive(c) == ArrivedOf(got[c], c, Way(HostOf[c]))
Coming(c) == ComingOf(got[c], ackQ, c, Way(HostOf[c]))
Rec(c) == IF conn[c] = None THEN NewConn ELSE conn[c]

Settled(mode, A, K, r, X, k, d, n, limit, under, reach) ==
    /\ A = reach
    /\ LevelOK(A, K, k) /\ LastOK(A, K, k, n)
    /\ EntryOK(mode, r, k, d, n, limit, under)
    /\ DupOK(K, SwallowsAt(r.open), X, k, d)

Quiet(c) == losses = 0 /\ ~ fin[c] /\ ~ replied[c] /\ validate[HostOf[c]] # "resolved"
QuietInv(c) ==
    Quiet(c) => Settled(sting, Arrive(c), Coming(c), Rec(c), Extra(c), SeenAck(c), SeenDups(c),
                        sent[c], Limit(c), Under(c), Reach(c))

\* The loop holds the slices of one packet, the last that its sender sent.
BurstInv ==
    burst # None =>
        /\ burst.n >= 2 /\ Len(burst.todo) \in 1..burst.n
        /\ \A i \in 1..Len(burst.todo) :
              burst.todo[i] = [c |-> burst.todo[1].c, kind |-> "data",
                               seq |-> Place(sting, Done + i, burst.n, burst.base), len |-> 1]
        /\ sent[burst.todo[1].c] = burst.base + burst.n
        /\ validate[HostOf[burst.todo[1].c]] # "none"

\* No connection is open to a host that is not on the list, and every ack is
\* one that may be swallowed, unless its host has sent data or finished.
FreshInv == \A c \in Conns : validate[HostOf[c]] = "none" => conn[c] = None
Rightful(a, fins, replies) == (a.pure \/ replies[a.c]) /\ (a.fin => fins[a.c])
AckInv ==
    /\ \A i \in 1..Len(ackQ) : Rightful(ackQ[i], fin, replied)
    /\ lan # None => Rightful(lan.ack, fin, replied) /\ (lan.counted => lan.ack.fin)

FlowInv ==
    /\ BurstInv /\ IdleInv /\ FreshInv /\ AckInv /\ HomeInv
    /\ \A c \in Conns : QuietInv(c)

Views ==
    \A c \in Conns :
        /\ HostOf[c] \in Hosts /\ Way(HostOf[c]) \in Seq(Bounded)
        /\ got[c] \in Within /\ Arrive(c) \in Within /\ Coming(c) \in Counts
        /\ Rec(c) \in Conn /\ SwallowsAt(Rec(c).open) \in Counts
        /\ SeenAck(c) \in Nat /\ SeenDups(c) \in Nat /\ sent[c] \in 0..MaxSeq /\ fin[c] \in BOOLEAN

LEMMA ViewsTyped == TypeInv /\ HomeInv => Views
<1>1. SUFFICES ASSUME TypeInv, HomeInv, NEW c \in Conns
               PROVE  /\ HostOf[c] \in Hosts /\ Way(HostOf[c]) \in Seq(Bounded)
                      /\ got[c] \in Within /\ Arrive(c) \in Within /\ Coming(c) \in Counts
                      /\ Rec(c) \in Conn /\ SwallowsAt(Rec(c).open) \in Counts
                      /\ SeenAck(c) \in Nat /\ SeenDups(c) \in Nat /\ sent[c] \in 0..MaxSeq
                      /\ fin[c] \in BOOLEAN
  BY DEF Views
<1>2. PICK h \in Hosts : h = HostOf[c]
  BY Numbers
<1>3. Way(h) \in Seq(Bounded)
  BY <1>1, WayTyped
<1>4. got[c] \in Within /\ sent[c] \in 0..MaxSeq /\ fin[c] \in BOOLEAN
  BY <1>1 DEF TypeInv, Ends, Within
<1>10. SeenAck(c) \in Nat /\ SeenDups(c) \in Nat
  <2>1. PICK k \in Nat, d \in Nat : k = acked[c] /\ d = dups[c]
    BY <1>1 DEF TypeInv, Ends
  <2>2. CASE Held(c)
    <3>1. PICK b \in Nat : b = lan.ack.ack
      BY <1>1, <2>2, LanFields DEF Held, TypeInv, Ends, Ack
    <3>. QED
      BY <2>1, <2>2, <3>1 DEF SeenAck, SeenDups, LastAck, Repeats
  <2>3. CASE ~ Held(c)
    BY <2>1, <2>3 DEF SeenAck, SeenDups
  <2>. QED
    BY <2>2, <2>3
<1>5. PICK w \in Seq(Bounded), g \in Within, q \in Seq(Ack) : w = Way(h) /\ g = got[c] /\ q = ackQ
  BY <1>1, <1>3, <1>4 DEF TypeInv
<1>6. Arrive(c) \in Within
  <2>1. ArrivedOf(g, c, w) \in Within
    BY ArrivedTyped
  <2>. QED
    BY <1>2, <1>5, <2>1 DEF Arrive
<1>7. Coming(c) \in Counts
  <2>1. ComingOf(g, q, c, w) \in Counts
    BY ComingIs
  <2>. QED
    BY <1>2, <1>5, <2>1 DEF Coming
<1>8. Rec(c) \in Conn
  BY <1>1, NewConnTyped DEF TypeInv, Records, Rec
<1>9. SwallowsAt(Rec(c).open) \in Counts
  BY <1>8, SwallowsIs
<1>. QED
  BY <1>2, <1>3, <1>4, <1>6, <1>7, <1>8, <1>9, <1>10

LEMMA ViewsTypedNext == TypeInv' /\ HomeInv' => Views'
BY ViewsTyped, PTL

LEMMA ExtraTyped == \A c : Extra(c) \in Counts
BY DEF Extra, Counts

LEMMA LimitsTyped ==
    ASSUME Queues, BurstInv, Views, NEW c \in Conns
    PROVE  Limit(c) \in Nat /\ Under(c) \in Nat
<1>1. CASE Loop(c)
  <2>1. burst.n \in Nat /\ burst.base \in Nat /\ burst.n >= 2
    BY <1>1, BurstFields DEF Loop, BurstInv
  <2>. QED
    BY <1>1, <2>1 DEF Limit, LimitAt, Under
<1>2. CASE ~ Loop(c)
  BY <1>2 DEF Limit, Under, Views
<1>. QED
  BY <1>1, <1>2

LEMMA QuietKept ==
    ASSUME NEW c \in Conns, QuietInv(c), Quiet(c)' => Quiet(c), sting' = sting,
           Arrive(c)' = Arrive(c), Coming(c)' = Coming(c), Rec(c)' = Rec(c), Extra(c)' = Extra(c),
           SeenAck(c)' = SeenAck(c), SeenDups(c)' = SeenDups(c), sent'[c] = sent[c],
           Limit(c)' = Limit(c), Under(c)' = Under(c), Reach(c)' = Reach(c)
    PROVE  QuietInv(c)'
BY DEF QuietInv

LEMMA SeenSame ==
    ASSUME NEW c, lan' = lan, acked'[c] = acked[c], dups'[c] = dups[c]
    PROVE  SeenAck(c)' = SeenAck(c) /\ SeenDups(c)' = SeenDups(c)
BY DEF SeenAck, SeenDups, Held

LEMMA BurstSame ==
    ASSUME NEW c \in Conns, UNCHANGED <<burst, sting>>, sent'[c] = sent[c]
    PROVE  /\ Limit(c)' = Limit(c) /\ Under(c)' = Under(c) /\ Reach(c)' = Reach(c)
           /\ Extra(c)' = Extra(c)
<1>1. Loop(c)' <=> Loop(c)
  BY DEF Loop
<1>2. Done' = Done /\ Shaped' = Shaped
  BY DEF Done, Shaped
<1>3. NextAck' = NextAck
  BY DEF NextAck, Done, ExpectedAck
<1>4. Limit(c)' = Limit(c) /\ Under(c)' = Under(c) /\ Reach(c)' = Reach(c)
  BY <1>1, <1>2 DEF Limit, Under, Reach
<1>5. Extra(c)' = Extra(c)
  BY <1>1, <1>3 DEF Extra
<1>. QED
  BY <1>4, <1>5

LEMMA BurstElsewhere ==
    ASSUME NEW c \in Conns, ~ Loop(c), ~ Loop(c)', sent'[c] = sent[c]
    PROVE  /\ Limit(c)' = Limit(c) /\ Under(c)' = Under(c) /\ Reach(c)' = Reach(c)
           /\ Extra(c)' = Extra(c)
BY DEF Limit, Under, Reach, Extra

LEMMA SameArrives ==
    ASSUME NEW c \in Conns, got'[c] = got[c], Way(HostOf[c])' = Way(HostOf[c])
    PROVE  /\ Arrive(c)' = Arrive(c)
           /\ GivenOf(ackQ', c) = GivenOf(ackQ, c) => Coming(c)' = Coming(c)
BY DEF Arrive, Coming, ComingOf

LEMMA StampedFlow ==
    ASSUME ackQ \in Seq(Ack), AckInv, UNCHANGED <<fin, replied, lan>>,
           ackQ' = ackQ \/ \E d, seqs : ackQ' = StampedAfter(ackQ, d, seqs)
    PROVE  AckInv' /\ \A c : GivenOf(ackQ', c) = GivenOf(ackQ, c)
<1>1. CASE ackQ' = ackQ
  BY <1>1 DEF AckInv, Rightful
<1>2. CASE \E d, seqs : ackQ' = StampedAfter(ackQ, d, seqs)
  <2>1. PICK d, seqs : ackQ' = StampedAfter(ackQ, d, seqs)
    BY <1>2
  <2>2. /\ Len(ackQ') = Len(ackQ) /\ \A c : GivenOf(ackQ', c) = GivenOf(ackQ, c)
        /\ \A i \in 1..Len(ackQ) : /\ ackQ'[i].c = ackQ[i].c /\ ackQ'[i].pure = ackQ[i].pure
                                   /\ ackQ'[i].fin = ackQ[i].fin
    BY <2>1, GivenStamped
  <2>. QED
    BY <2>2 DEF AckInv, Rightful
<1>. QED
  BY <1>1, <1>2

\* No connection notices a step that leaves its way and its acks as they are.
LEMMA NothingNoticed ==
    ASSUME TypeInv, FlowInv, HomeInv', IdleInv', \A g \in Hosts : Way(g)' = Way(g),
           ackQ' = ackQ \/ \E d, seqs : ackQ' = StampedAfter(ackQ, d, seqs),
           UNCHANGED <<validate, conn, burst, lan, others>>
    PROVE  FlowInv'
<1>1. UNCHANGED <<sent, acked, dups, got, fin, losses, replied, sting>>
  BY DEF others
<1>2. AckInv' /\ \A c : GivenOf(ackQ', c) = GivenOf(ackQ, c)
  BY <1>1, StampedFlow DEF TypeInv, FlowInv
<1>3. BurstInv'
  BY <1>1 DEF FlowInv, BurstInv, Done
<1>4. FreshInv'
  BY DEF FlowInv, FreshInv
<1>5. ASSUME NEW c \in Conns PROVE QuietInv(c)'
  <2>1. HostOf[c] \in Hosts
    BY Numbers
  <2>2. Arrive(c)' = Arrive(c) /\ Coming(c)' = Coming(c)
    BY <1>1, <1>2, <2>1, SameArrives
  <2>3. /\ Limit(c)' = Limit(c) /\ Under(c)' = Under(c) /\ Reach(c)' = Reach(c)
        /\ Extra(c)' = Extra(c)
    BY <1>1, BurstSame
  <2>4. Rec(c)' = Rec(c) /\ (Quiet(c)' => Quiet(c))
    BY <1>1 DEF Rec, Quiet
  <2>5. SeenAck(c)' = SeenAck(c) /\ SeenDups(c)' = SeenDups(c)
    BY <1>1, SeenSame
  <2>. QED
    BY <1>1, <2>2, <2>3, <2>4, <2>5, QuietKept DEF FlowInv
<1>. QED
  BY <1>2, <1>3, <1>4, <1>5 DEF FlowInv

LEMMA TimersFlow ==
    ASSUME TypeInv, FlowInv, NEW h \in Hosts, ShapeTimer(h) \/ PostTimer(h) \/ ResumePostTap
    PROVE  FlowInv'
<1>1. TypeInv /\ HomeInv /\ IdleInv
  BY DEF FlowInv
<1>2. HomeInv' /\ IdleInv' /\ \A g \in Hosts : Way(g)' = Way(g)
  BY <1>1, TimerKeepsWay, ResumeKeepsWay
<1>3. ackQ' = ackQ \/ \E d, seqs : ackQ' = StampedAfter(ackQ, d, seqs)
  <2>1. CASE ShapeTimer(h)
    BY <2>1, Zenon DEF ShapeTimer
  <2>2. CASE PostTimer(h) \/ ResumePostTap
    BY <2>2, Zenon DEF PostTimer, ResumePostTap
  <2>. QED
    BY <2>1, <2>2, Zenon
<1>4. UNCHANGED <<validate, conn, burst, lan, others>>
  BY Zenon DEF ShapeTimer, PostTimer, ResumePostTap, hostVars
<1>. QED
  BY <1>2, <1>3, <1>4, NothingNoticed

\* A packet leaves the line of its host.
LEMMA LinePops ==
    ASSUME Queues, HomeInv, NEW h \in Hosts, line[h] # <<>>,
           line' = [line EXCEPT ![h] = Tail(@)], UNCHANGED <<shapeQ, timer>>
    PROVE  /\ HomeInv' /\ line[h][1] \in Homed(h)
           /\ Way(h) # <<>> /\ Way(h)[1] = line[h][1] /\ Way(h)' = Tail(Way(h))
           /\ \A g \in Hosts : g # h => Way(g)' = Way(g)
<1>1. \A g \in Hosts : Hand(g)' = Hand(g)
  BY DEF Hand
<1>2. PICK l \in Seq(Homed(h)), k \in Seq(Homed(h)), q \in Seq(Homed(h)) :
          l = line[h] /\ k = Hand(h) /\ q = shapeQ[h] /\ l # <<>>
  BY WayTyped DEF HomeInv
<1>3. l[1] \in Homed(h) /\ Tail(l) \in Seq(Homed(h))
  <2>1. l \in Seq(Homed(h)) /\ l # <<>>
    BY <1>2
  <2>. QED
    BY <2>1, TakeFront
<1>4. /\ Joined(l, k, q) # <<>> /\ Joined(l, k, q)[1] = l[1]
      /\ Tail(Joined(l, k, q)) = Joined(Tail(l), k, q)
  <2>1. PopJoined(l, k, q)
    BY JoinedIs
  <2>. QED
    BY <1>2, <2>1, Zenon DEF PopJoined
<1>5. line'[h] = Tail(l) /\ \A g \in Hosts : g # h => line'[g] = line[g]
  BY <1>2 DEF Queues
<1>6. Way(h) # <<>> /\ Way(h)[1] = line[h][1] /\ Way(h)' = Tail(Way(h))
  <2>1. Way(h) = Joined(l, k, q)
    BY <1>2 DEF Way
  <2>2. Way(h)' = Joined(Tail(l), k, q)
    BY <1>1, <1>2, <1>5 DEF Way
  <2>. QED
    BY <1>2, <1>4, <2>1, <2>2, Zenon
<1>7. ASSUME NEW g \in Hosts, g # h PROVE Way(g)' = Way(g)
  BY <1>1, <1>5, <1>7 DEF Way
<1>8. HomeInv'
  <2>1. ASSUME NEW g \in Hosts PROVE line'[g] \in Seq(Homed(g)) /\ shapeQ'[g] \in Seq(Homed(g))
    BY <1>3, <1>5 DEF HomeInv
  <2>. QED
    BY <2>1 DEF HomeInv
<1>. QED
  BY <1>2, <1>3, <1>6, <1>7, <1>8

LEMMA LoseFlow ==
    ASSUME TypeInv, FlowInv, NEW h \in Hosts, LosePacket(h) PROVE FlowInv'
<1>1. /\ line[h] # <<>> /\ line' = [line EXCEPT ![h] = Tail(@)] /\ losses' = losses + 1
      /\ UNCHANGED <<validate, shapeQ, conn, burst, timer, lan, ackQ, sent, fin, replied, sting>>
  BY DEF LosePacket, hostVars
<1>2. HomeInv' /\ IdleInv'
  BY <1>1, LinePops DEF TypeInv, FlowInv, IdleInv
<1>3. BurstInv' /\ FreshInv' /\ AckInv'
  BY <1>1 DEF FlowInv, BurstInv, Done, FreshInv, AckInv, Rightful
<1>4. losses' # 0
  BY <1>1 DEF TypeInv, Ends
<1>5. ASSUME NEW c \in Conns PROVE QuietInv(c)'
  BY <1>4 DEF QuietInv, Quiet
<1>. QED
  BY <1>2, <1>3, <1>5 DEF FlowInv

LEMMA TalksFlow ==
    ASSUME TypeInv, FlowInv, NEW d \in Conns, HostFinishes(d) \/ HostSends(d) PROVE FlowInv'
<1>1. UNCHANGED <<hostVars, conn, burst, timer, lan, line, sent, acked, dups, got, losses, sting>>
  BY DEF HostFinishes, HostSends
<1>2. UNCHANGED <<validate, shapeQ>>
  BY <1>1 DEF hostVars
<1>3. HomeInv' /\ IdleInv'
  BY <1>1, <1>2 DEF FlowInv, HomeInv, IdleInv
<1>4. BurstInv' /\ FreshInv'
  BY <1>1, <1>2 DEF FlowInv, BurstInv, Done, FreshInv
<1>9. fin \in [Conns -> BOOLEAN] /\ replied \in [Conns -> BOOLEAN]
  BY DEF TypeInv, Ends
<1>10. /\ \A c \in Conns : (fin[c] => fin'[c]) /\ (replied[c] => replied'[c])
       /\ \A c \in Conns : c # d => fin'[c] = fin[c] /\ replied'[c] = replied[c]
       /\ fin'[d] \/ replied'[d]
  <2>1. CASE HostFinishes(d)
    <3>1. fin' = [fin EXCEPT ![d] = TRUE] /\ replied' = replied
      BY <2>1 DEF HostFinishes
    <3>. QED
      BY <1>9, <3>1
  <2>2. CASE HostSends(d)
    <3>1. replied' = [replied EXCEPT ![d] = TRUE] /\ fin' = fin
      BY <2>2 DEF HostSends
    <3>. QED
      BY <1>9, <3>1
  <2>. QED
    BY <2>1, <2>2
<1>5. PICK x \in Ack : /\ x.c = d /\ Rightful(x, fin', replied') /\ ackQ' = Append(ackQ, x)
  <2>1. got[d] \in SUBSET (0..(MaxSeq - 1))
    BY DEF TypeInv, Ends
  <2>2. NextMissing(got[d]) \in Nat
    BY <2>1, MissingTyped, Numbers
  <2>3. CASE HostFinishes(d)
    <3>1. fin'[d]
      BY <1>9, <2>3 DEF HostFinishes
    <3>2. PICK x : x = [c |-> d, ack |-> NextMissing(got[d]), pure |-> TRUE, fin |-> TRUE, late |-> {}]
      OBVIOUS
    <3>3. x \in Ack /\ x.c = d /\ x.pure
      BY <2>2, <3>2 DEF Ack
    <3>4. ackQ' = Append(ackQ, x)
      BY <2>3, <3>2 DEF HostFinishes
    <3>. QED
      BY <3>1, <3>3, <3>4 DEF Rightful
  <2>4. CASE HostSends(d)
    <3>1. replied'[d]
      BY <1>9, <2>4 DEF HostSends
    <3>2. PICK x : x = [c |-> d, ack |-> NextMissing(got[d]), pure |-> FALSE, fin |-> FALSE, late |-> {}]
      OBVIOUS
    <3>3. x \in Ack /\ x.c = d /\ ~ x.fin
      BY <2>2, <3>2 DEF Ack
    <3>4. ackQ' = Append(ackQ, x)
      BY <2>4, <3>2 DEF HostSends
    <3>. QED
      BY <3>1, <3>3, <3>4 DEF Rightful
  <2>. QED
    BY <2>3, <2>4
<1>6. /\ Len(ackQ') = Len(ackQ) + 1 /\ Len(ackQ) \in Nat
      /\ \A i \in 1..(Len(ackQ) + 1) : ackQ'[i] = IF i = Len(ackQ) + 1 THEN x ELSE ackQ[i]
  BY <1>5, AppendProperties DEF TypeInv
<1>7. AckInv'
  <2>1. ASSUME NEW z \in Ack, Rightful(z, fin, replied) PROVE Rightful(z, fin', replied')
    BY <1>10, <2>1 DEF Rightful, Ack
  <2>2. ASSUME NEW i \in 1..(Len(ackQ) + 1) PROVE Rightful(ackQ'[i], fin', replied')
    <3>1. CASE i = Len(ackQ) + 1
      BY <1>5, <1>6, <3>1 DEF Rightful
    <3>2. CASE i # Len(ackQ) + 1
      <4>1. i \in 1..Len(ackQ) /\ ackQ'[i] = ackQ[i]
        BY <1>6, <3>2
      <4>2. ackQ[i] \in Ack /\ Rightful(ackQ[i], fin, replied)
        BY <4>1, ElementOfSeq DEF TypeInv, FlowInv, AckInv
      <4>3. PICK z \in Ack : z = ackQ[i] /\ Rightful(z, fin, replied)
        BY <4>2
      <4>. QED
        BY <2>1, <4>1, <4>3 DEF Rightful
    <3>. QED
      BY <3>1, <3>2
  <2>3. ASSUME lan # None PROVE Rightful(lan.ack, fin', replied') /\ (lan.counted => lan.ack.fin)
    <3>1. PICK z \in Ack : z = lan.ack
      BY <2>3, LanFields DEF TypeInv, Ends
    <3>2. Rightful(z, fin, replied) /\ (lan.counted => lan.ack.fin)
      BY <2>3, <3>1 DEF FlowInv, AckInv
    <3>. QED
      BY <1>1, <2>1, <3>1, <3>2 DEF Rightful
  <2>. QED
    BY <1>1, <1>6, <2>2, <2>3 DEF AckInv, Rightful
<1>8. ASSUME NEW c \in Conns PROVE QuietInv(c)'
  <2>1. CASE c = d
    <3>1. fin'[c] \/ replied'[c]
      BY <1>10, <2>1
    <3>. QED
      BY <3>1 DEF QuietInv, Quiet
  <2>2. CASE c # d
    <3>1. fin'[c] = fin[c] /\ replied'[c] = replied[c]
      BY <1>10, <2>2
    <3>2. Way(HostOf[c])' = Way(HostOf[c])
      BY <1>1, <1>2 DEF Way, Hand
    <3>3. Arrive(c)' = Arrive(c)
      BY <1>1, <3>2, SameArrives
    <3>4. Coming(c)' = Coming(c)
      <4>1. PICK q \in Seq(Ack), v \in Seq(Ack) : q = ackQ /\ v = ackQ' /\ v = Append(q, x)
        BY <1>5, AppendProperties DEF TypeInv
      <4>2. SameGiven(q, v, c)
        BY <1>5, <2>2, <4>1, OthersAck
      <4>. QED
        BY <1>1, <3>2, <4>1, <4>2 DEF Coming, ComingOf, SameGiven
    <3>5. /\ Limit(c)' = Limit(c) /\ Under(c)' = Under(c) /\ Reach(c)' = Reach(c)
          /\ Extra(c)' = Extra(c)
      BY <1>1, BurstSame
    <3>6. Rec(c)' = Rec(c) /\ (Quiet(c)' => Quiet(c))
      BY <1>1, <1>2, <3>1 DEF Rec, Quiet
    <3>7. SeenAck(c)' = SeenAck(c) /\ SeenDups(c)' = SeenDups(c)
      BY <1>1, SeenSame
    <3>. QED
      BY <1>1, <3>3, <3>4, <3>5, <3>6, <3>7, QuietKept DEF FlowInv
  <2>. QED
    BY <2>1, <2>2
<1>. QED
  BY <1>3, <1>4, <1>7, <1>8 DEF FlowInv

\* The ack that a host sends when a packet arrives was on its way before.
LEMMA ReceivesFlow ==
    ASSUME TypeInv, FlowInv, NEW h \in Hosts, HostReceives(h) PROVE FlowInv'
<1>1. PICK p : p = line[h][1]
  OBVIOUS
<1>2. /\ line[h] # <<>> /\ line' = [line EXCEPT ![h] = Tail(@)]
      /\ UNCHANGED <<hostVars, conn, burst, timer, lan, sent, acked, dups, fin, losses, replied,
                     sting>>
      /\ IF p.len = 0 THEN got' = got /\ ackQ' = ackQ
         ELSE /\ got' = [got EXCEPT ![p.c] = got[p.c] \cup Slots(p)]
              /\ ackQ' = Append(ackQ, [c |-> p.c, ack |-> NextMissing(got[p.c] \cup Slots(p)),
                                       pure |-> TRUE, fin |-> FALSE, late |-> {}])
  BY <1>1 DEF HostReceives, Slots
<1>3. UNCHANGED <<validate, shapeQ>>
  BY <1>2 DEF hostVars
<1>4. /\ HomeInv' /\ p \in Homed(h)
      /\ Way(h) # <<>> /\ Way(h)[1] = p /\ Way(h)' = Tail(Way(h))
      /\ \A g \in Hosts : g # h => Way(g)' = Way(g)
  BY <1>1, <1>2, <1>3, LinePops DEF TypeInv, FlowInv
<1>5. p \in Bounded /\ p.c \in Conns /\ HostOf[p.c] = h /\ p.len \in Nat /\ p.seq \in Nat
  BY <1>4, BoundedPacket DEF Homed
<1>6. TypeInv' /\ Views /\ Views'
  <2>1. TypeInv'
    BY ReceivesTyped
  <2>. QED
    BY <1>4, <2>1, ViewsTyped, ViewsTypedNext DEF FlowInv
<1>7. \A c \in Conns : /\ p.c = c => got'[c] = got[c] \cup Slots(p)
                       /\ p.c # c => got'[c] = got[c]
  <2>1. CASE p.len = 0
    <3>1. Slots(p) = {}
      BY <1>5, <2>1 DEF Slots
    <3>. QED
      BY <1>2, <2>1, <3>1
  <2>2. CASE p.len # 0
    BY <1>2, <1>5, <2>2 DEF TypeInv, Ends
  <2>. QED
    BY <2>1, <2>2
<1>8. /\ p.len = 0 => ackQ' = ackQ
      /\ p.len # 0 => \E x \in Ack : /\ x.c = p.c /\ x.ack = NextMissing(got'[p.c])
                                     /\ x.pure /\ ~ x.fin /\ ackQ' = Append(ackQ, x)
  <2>1. CASE p.len = 0
    BY <1>2, <2>1
  <2>2. CASE p.len # 0
    <3>1. NextMissing(got'[p.c]) \in Nat
      <4>1. got'[p.c] \in SUBSET (0..(MaxSeq - 1))
        BY <1>5, <1>6 DEF Views, Within
      <4>. QED
        BY <4>1, MissingTyped, Numbers
    <3>2. PICK x : x = [c |-> p.c, ack |-> NextMissing(got'[p.c]), pure |-> TRUE,
                        fin |-> FALSE, late |-> {}]
      OBVIOUS
    <3>3. x \in Ack /\ x.c = p.c /\ x.ack = NextMissing(got'[p.c]) /\ x.pure /\ ~ x.fin
      BY <1>5, <3>1, <3>2 DEF Ack
    <3>4. ackQ' = Append(ackQ, x)
      BY <1>2, <1>5, <1>7, <2>2, <3>2
    <3>. QED
      BY <2>2, <3>3, <3>4
  <2>. QED
    BY <2>1, <2>2
<1>9. AckInv'
  <2>1. CASE p.len = 0
    BY <1>2, <1>8, <2>1 DEF FlowInv, AckInv, Rightful
  <2>2. CASE p.len # 0
    <3>1. PICK x \in Ack : x.pure /\ ~ x.fin /\ ackQ' = Append(ackQ, x)
      BY <1>8, <2>2
    <3>2. /\ Len(ackQ') = Len(ackQ) + 1 /\ Len(ackQ) \in Nat
          /\ \A i \in 1..(Len(ackQ) + 1) : ackQ'[i] = IF i = Len(ackQ) + 1 THEN x ELSE ackQ[i]
      BY <3>1, AppendProperties DEF TypeInv
    <3>. QED
      BY <1>2, <3>1, <3>2 DEF FlowInv, AckInv, Rightful
  <2>. QED
    BY <2>1, <2>2
<1>10. BurstInv' /\ FreshInv' /\ IdleInv'
  BY <1>2, <1>3 DEF FlowInv, BurstInv, Done, FreshInv, IdleInv
<1>11. ASSUME NEW c \in Conns PROVE Arrive(c)' = Arrive(c) /\ Coming(c)' = Coming(c)
  <2>1. HostOf[c] \in Hosts
    BY Numbers
  <2>2. PICK g \in Within, e \in Within, q \in Seq(Ack), r \in Seq(Ack) :
            g = got[c] /\ e = got'[c] /\ q = ackQ /\ r = ackQ'
    BY <1>6 DEF Views, TypeInv
  <2>3. PICK w \in Seq(Bounded), v \in Seq(Bounded) : w = Way(HostOf[c]) /\ v = Way(HostOf[c])'
    BY <1>6 DEF Views
  <2>4. p.c # c => SameGiven(q, r, c)
    <3>1. CASE p.len = 0
      BY <1>8, <2>2, <3>1 DEF SameGiven
    <3>2. CASE p.len # 0
      <4>1. PICK x \in Ack : x.c = p.c /\ ackQ' = Append(ackQ, x)
        BY <1>8, <3>2
      <4>. QED
        BY <2>2, <4>1, OthersAck
    <3>. QED
      BY <3>1, <3>2
  <2>5. CASE HostOf[c] = h
    <3>1. w # <<>> /\ w[1] = p /\ v = Tail(w)
      BY <1>4, <2>3, <2>5
    <3>2. Received(g, e, c, p)
      BY <1>7, <2>2 DEF Received
    <3>3. Replied(q, r, c, p, NextMissing(e))
      <4>1. CASE p.len # 0 /\ p.c = c
        <5>1. PICK x \in Ack : x.c = p.c /\ x.ack = NextMissing(got'[p.c]) /\ ackQ' = Append(ackQ, x)
          BY <1>8, <4>1
        <5>. QED
          BY <1>5, <2>2, <4>1, <5>1 DEF Answered, Replied
      <4>2. CASE p.c # c
        BY <2>4, <4>2 DEF Replied
      <4>3. CASE p.len = 0
        BY <1>8, <2>2, <4>3 DEF Replied, SameGiven
      <4>. QED
        BY <4>1, <4>2, <4>3
    <3>4. SameView(g, q, w, e, r, v, c)
      BY <3>1, <3>2, <3>3, WayPopped
    <3>. QED
      BY <2>2, <2>3, <3>4 DEF Arrive, Coming, SameView
  <2>6. CASE HostOf[c] # h
    <3>1. p.c # c /\ e = g /\ v = w
      BY <1>4, <1>5, <1>7, <2>1, <2>2, <2>3, <2>6
    <3>. QED
      BY <2>2, <2>3, <2>4, <3>1 DEF Arrive, Coming, ComingOf, SameGiven
  <2>. QED
    BY <2>5, <2>6
<1>12. ASSUME NEW c \in Conns PROVE QuietInv(c)'
  <2>1. /\ Limit(c)' = Limit(c) /\ Under(c)' = Under(c) /\ Reach(c)' = Reach(c)
        /\ Extra(c)' = Extra(c)
    BY <1>2, BurstSame
  <2>2. Rec(c)' = Rec(c) /\ (Quiet(c)' => Quiet(c))
    BY <1>2, <1>3 DEF Rec, Quiet
  <2>3. SeenAck(c)' = SeenAck(c) /\ SeenDups(c)' = SeenDups(c)
    BY <1>2, SeenSame
  <2>. QED
    BY <1>2, <1>11, <2>1, <2>2, <2>3, QuietKept DEF FlowInv
<1>. QED
  BY <1>4, <1>9, <1>10, <1>12 DEF FlowInv

\* What is on the way is on the line, in the hands of the timer thread, or in
\* the shape queue.
Among(x, s) == \E j \in 1..Len(s) : x = s[j]

LEMMA ConcatElements ==
    ASSUME NEW S, NEW s \in Seq(S), NEW t \in Seq(S), NEW v, v = s \o t, NEW i \in 1..Len(v)
    PROVE  Among(v[i], s) \/ Among(v[i], t)
<1>1. PICK m \in Nat, n \in Nat : m = Len(s) /\ n = Len(t)
  BY LenProperties
<1>2. Len(v) = m + n /\ \A j \in 1..(m + n) : v[j] = IF j <= m THEN s[j] ELSE t[j - m]
  BY <1>1, ConcatProperties
<1>3. CASE i <= m
  BY <1>1, <1>2, <1>3 DEF Among
<1>4. CASE ~ (i <= m)
  <2>1. i - m \in 1..n
    BY <1>2, <1>4
  <2>. QED
    BY <1>1, <1>2, <1>4, <2>1 DEF Among
<1>. QED
  BY <1>3, <1>4

LEMMA JoinedElements ==
    ASSUME NEW S, NEW l \in Seq(S), NEW k \in Seq(S), NEW q \in Seq(S),
           NEW v, v = Joined(l, k, q), NEW i \in 1..Len(v)
    PROVE  Among(v[i], l) \/ Among(v[i], k) \/ Among(v[i], q)
<1>1. PICK m \in Seq(S) : m = l \o k
  BY ConcatProperties
<1>2. v = m \o q
  BY <1>1 DEF Joined
<1>3. Among(v[i], m) \/ Among(v[i], q)
  BY <1>2, ConcatElements
<1>4. CASE Among(v[i], m)
  <2>1. PICK j \in 1..Len(m) : v[i] = m[j]
    BY <1>4 DEF Among
  <2>2. Among(m[j], l) \/ Among(m[j], k)
    BY <1>1, ConcatElements
  <2>. QED
    BY <2>1, <2>2
<1>. QED
  BY <1>3, <1>4

LEMMA NothingComes ==
    ASSUME TypeInv, HomeInv, NEW c \in Conns, ~ InFlight(c)
    PROVE  ~ Loop(c) /\ \A a \in Nat : Coming(c)[a] = 0
<1>1. PICK h \in Hosts : h = HostOf[c]
  BY Numbers
<1>2. /\ ~ Loop(c)
      /\ ~ (timer.pkt # None /\ timer.pkt.c = c /\ timer.pkt.len > 0)
      /\ \A i \in 1..Len(shapeQ[h]) : ~ (shapeQ[h][i].c = c /\ shapeQ[h][i].len > 0)
      /\ \A i \in 1..Len(line[h]) : ~ (line[h][i].c = c /\ line[h][i].len > 0)
      /\ \A i \in 1..Len(ackQ) : ackQ[i].c # c
  BY <1>1 DEF InFlight, Loop
<1>3. PICK l \in Seq(Homed(h)), k \in Seq(Homed(h)), q \in Seq(Homed(h)) :
          l = line[h] /\ k = Hand(h) /\ q = shapeQ[h]
  BY WayTyped DEF HomeInv
<1>4. PICK w \in Seq(Bounded) : w = Way(h) /\ w = Joined(l, k, q)
  BY <1>3, WayTyped DEF Way
<1>5. ASSUME NEW j \in 1..Len(k) PROVE ~ (k[j].c = c /\ k[j].len > 0)
  <2>1. CASE timer.pkt # None /\ timer.h = h
    <3>1. PICK x \in Homed(h) : x = timer.pkt
      BY <2>1 DEF HomeInv
    <3>2. k = <<x>> /\ Len(<<x>>) = 1 /\ <<x>>[1] = x
      BY <1>3, <2>1, <3>1, OneElement DEF Hand
    <3>3. j = 1
      BY <3>2
    <3>. QED
      BY <1>2, <2>1, <3>1, <3>2, <3>3
  <2>2. CASE ~ (timer.pkt # None /\ timer.h = h)
    <3>1. k = <<>>
      BY <1>3, <2>2 DEF Hand
    <3>2. Len(k) = 0
      BY <3>1
    <3>. QED
      BY <3>2
  <2>. QED
    BY <2>1, <2>2
<1>6. ASSUME NEW i \in 1..Len(w) PROVE ~ (w[i].c = c /\ w[i].len > 0)
  <2>1. Among(w[i], l) \/ Among(w[i], k) \/ Among(w[i], q)
    BY <1>4, JoinedElements
  <2>. QED
    BY <1>2, <1>3, <1>5, <2>1 DEF Among
<1>7. ASSUME NEW a \in Nat PROVE Coming(c)[a] = 0
  <2>1. PICK n \in Nat, m \in Nat : n = Len(ackQ) /\ m = Len(w)
    BY LenProperties DEF TypeInv
  <2>2. Count(GivenOf(ackQ, c), a) = 0
    <3>1. PICK s : s = GivenOf(ackQ, c)
      OBVIOUS
    <3>2. DOMAIN s = 1..n /\ \A i \in 1..n : s[i] # a
      BY <1>2, <2>1, <3>1 DEF GivenOf
    <3>. QED
      BY <3>1, <3>2, CountProperties
  <2>3. Count(AskedOf(got[c], c, w), a) = 0
    <3>1. PICK s : s = AskedOf(got[c], c, w)
      OBVIOUS
    <3>2. DOMAIN s = 1..m /\ \A i \in 1..m : s[i] # a
      BY <1>6, <2>1, <3>1 DEF AskedOf
    <3>. QED
      BY <3>1, <3>2, CountProperties
  <2>4. Coming(c)[a] = Count(GivenOf(ackQ, c), a) + Count(AskedOf(got[c], c, w), a)
    BY <1>1, <1>4, Zenon DEF Coming, ComingOf
  <2>. QED
    BY <2>2, <2>3, <2>4
<1>. QED
  BY <1>2, <1>7

LEMMA NotLooping ==
    ASSUME NEW c \in Conns, ~ Loop(c)
    PROVE  /\ Limit(c) = sent[c] /\ Under(c) = sent[c] /\ Reach(c) = 0..(sent[c] - 1)
           /\ \A a \in Nat : Extra(c)[a] = 0
BY DEF Limit, Under, Reach, Extra

\* No ack of all that was sent is swallowed.
LEMMA SwallowsBelow ==
    ASSUME NEW r \in Conn, NEW n \in Nat, NEW limit, AcksOK(r, n, limit), NEW a \in Nat, n <= a
    PROVE  SwallowsAt(r.open)[a] = 0
<1>. PICK s : s = SwallowsOf(r.open)
  OBVIOUS
<1>1. PICK m \in Nat : m = Len(r.open)
  BY ConnFields, LenProperties
<1>2. ASSUME NEW i \in 1..m PROVE s[i] # a
  <2>1. r.open[i] \in MonPkt
    BY <1>1, ConnFields, ElementOfSeq
  <2>2. r.open[i].ack \in Nat /\ (r.open[i].gobble => r.open[i].ack < n)
    BY <1>1, <2>1 DEF AcksOK, MonPkt
  <2>3. s[i] = IF r.open[i].gobble THEN r.open[i].ack ELSE -1
    BY <1>1 DEF SwallowsOf
  <2>. QED
    BY <2>2, <2>3
<1>3. DOMAIN s = 1..m
  BY <1>1 DEF SwallowsOf
<1>4. Count(s, a) = 0
  BY <1>2, <1>3, CountProperties
<1>. QED
  BY <1>1, <1>4, SwallowsIs

LEMMA NewConnSettled ==
    ASSUME NEW mode, NEW k \in Nat, NEW n \in Nat, NEW limit, NEW under
    PROVE  /\ EntryOK(mode, NewConn, k, 0, n, limit, under)
           /\ \A a \in Nat : SwallowsAt(NewConn.open)[a] = 0
<1>1. /\ NewConn.open = <<>> /\ NewConn.matched = <<>>
      /\ Len(NewConn.open) = 0 /\ Len(NewConn.matched) = 0
  BY DEF NewConn
<1>2. EntryOK(mode, NewConn, k, 0, n, limit, under)
  BY <1>1 DEF EntryOK, AcksOK, SimpleOK, PshendOK
<1>3. NewConn \in Conn /\ AcksOK(NewConn, 0, limit)
  BY <1>1, NewConnTyped DEF AcksOK
<1>. QED
  BY <1>2, <1>3, SwallowsBelow

\* With nothing on its way the sender has seen all it sent acknowledged.
LEMMA AllSeen ==
    ASSUME TypeInv, FlowInv, NEW c \in Conns, ~ InFlight(c), Quiet(c)
    PROVE  SeenAck(c) = sent[c] /\ SeenDups(c) = 0 /\ acked[c] = sent[c]
<1>1. Views
  BY ViewsTyped DEF FlowInv
<1>2. ~ Loop(c) /\ \A a \in Nat : Coming(c)[a] = 0
  BY NothingComes DEF FlowInv
<1>3. PICK K \in Counts, X \in Counts, k \in Nat, d \in Nat, n \in Nat, r \in Conn, S \in Counts, A \in Within :
         /\ K = Coming(c) /\ X = Extra(c) /\ k = SeenAck(c) /\ d = SeenDups(c) /\ n = sent[c]
         /\ r = Rec(c) /\ S = SwallowsAt(r.open) /\ A = Arrive(c)
  <2>1. PICK x \in Conn, T \in Counts, L \in Counts, Y \in Counts :
            x = Rec(c) /\ T = SwallowsAt(x.open) /\ L = Coming(c) /\ Y = Extra(c)
    BY <1>1, ExtraTyped DEF Views
  <2>2. SeenAck(c) \in Nat /\ SeenDups(c) \in Nat /\ sent[c] \in Nat /\ Arrive(c) \in Within
    BY <1>1, Numbers DEF Views
  <2>. QED
    BY <2>1, <2>2
<1>4. Settled(sting, A, K, r, X, k, d, n, n, n, 0..(n - 1))
  BY <1>2, <1>3, NotLooping DEF FlowInv, QuietInv
<1>5. k = n
  BY <1>2, <1>3, <1>4 DEF Settled, LastOK
<1>6. S[k] = 0
  BY <1>3, <1>4, <1>5, SwallowsBelow DEF Settled, EntryOK
<1>7. X[k] = 0
  BY <1>2, <1>3, NotLooping
<1>8. d + K[k] <= S[k] + X[k] /\ K[k] = 0
  BY <1>2, <1>3, <1>4 DEF Settled, DupOK
<1>9. d = 0
  BY <1>6, <1>7, <1>8
<1>10. SeenAck(c) = acked[c]
  BY DEF InFlight, SeenAck, Held
<1>. QED
  BY <1>3, <1>5, <1>9, <1>10

LEMMA SummaryFlow ==
    ASSUME TypeInv, FlowInv, NEW d \in Conns, CreateSummary(d) PROVE FlowInv'
<1>1. /\ timer.job = "idle" /\ conn[d] # None /\ ~ InFlight(d)
      /\ conn' = [conn EXCEPT ![d] = None]
      /\ UNCHANGED <<validate, shapeQ, burst, lan, line, ackQ, sent, acked, dups, got, fin, losses,
                     replied, sting>>
  BY DEF CreateSummary, CloseConnection, others
<1>2. conn'[d] = None /\ \A c \in Conns : c # d => conn'[c] = conn[c]
  BY <1>1 DEF TypeInv, Records
<1>7. timer.pkt = None /\ timer'.pkt = None /\ timer'.job = "clean"
  BY <1>1 DEF FlowInv, IdleInv, CreateSummary, IdleTimer
<1>8. HomeInv' /\ \A g \in Hosts : Way(g)' = Way(g)
  BY <1>1, <1>7, NothingTaken DEF FlowInv
<1>3. IdleInv' /\ BurstInv' /\ AckInv'
  BY <1>1, <1>7 DEF FlowInv, IdleInv, BurstInv, Done, AckInv, Rightful
<1>4. FreshInv'
  BY <1>1, <1>2 DEF FlowInv, FreshInv
<1>5. Views
  BY ViewsTyped DEF FlowInv
<1>6. ASSUME NEW c \in Conns PROVE QuietInv(c)'
  <2>1. Way(HostOf[c])' = Way(HostOf[c])
    BY <1>8, Numbers
  <2>2. Arrive(c)' = Arrive(c) /\ Coming(c)' = Coming(c)
    BY <1>1, <2>1, SameArrives
  <2>3. /\ Limit(c)' = Limit(c) /\ Under(c)' = Under(c) /\ Reach(c)' = Reach(c)
        /\ Extra(c)' = Extra(c)
    BY <1>1, BurstSame
  <2>4. Quiet(c)' <=> Quiet(c)
    BY <1>1 DEF Quiet
  <2>7. SeenAck(c)' = SeenAck(c) /\ SeenDups(c)' = SeenDups(c)
    BY <1>1, SeenSame
  <2>5. CASE c # d
    <3>1. Rec(c)' = Rec(c)
      BY <1>2, <2>5 DEF Rec
    <3>. QED
      BY <1>1, <2>2, <2>3, <2>4, <2>7, <3>1, QuietKept DEF FlowInv
  <2>6. CASE c = d
    <3>1. SUFFICES ASSUME Quiet(c)
          PROVE  Settled(sting, Arrive(c), Coming(c), NewConn, Extra(c), SeenAck(c), SeenDups(c),
                         sent[c], Limit(c), Under(c), Reach(c))
      <4>1. Rec(c)' = NewConn
        BY <1>2, <2>6 DEF Rec
      <4>. QED
        BY <1>1, <2>2, <2>3, <2>4, <2>7, <4>1 DEF QuietInv
    <3>2. SeenAck(c) = sent[c] /\ SeenDups(c) = 0
      BY <1>1, <2>6, <3>1, AllSeen
    <3>3. ~ Loop(c) /\ \A a \in Nat : Coming(c)[a] = 0
      BY <1>1, <2>6, NothingComes DEF FlowInv
    <3>4. Settled(sting, Arrive(c), Coming(c), Rec(c), Extra(c), SeenAck(c), SeenDups(c),
                  sent[c], Limit(c), Under(c), Reach(c))
      BY <3>1 DEF FlowInv, QuietInv
    <3>5. PICK k \in Nat, K \in Counts, X \in Counts : k = SeenAck(c) /\ K = Coming(c) /\ X = Extra(c)
      BY <1>5, ExtraTyped DEF Views
    <3>6. EntryOK(sting, NewConn, k, 0, k, Limit(c), Under(c))
      BY NewConnSettled
    <3>7. DupOK(K, SwallowsAt(NewConn.open), X, k, 0)
      <4>1. PICK S \in Counts : S = SwallowsAt(NewConn.open)
        BY NewConnTyped, SwallowsIs
      <4>2. \A a \in Nat : S[a] = 0
        BY <4>1, NewConnSettled
      <4>3. \A a \in Nat : X[a] = 0 /\ K[a] = 0
        BY <3>3, <3>5, NotLooping
      <4>4. DupOK(K, S, X, k, 0)
        BY <4>2, <4>3 DEF DupOK
      <4>. QED
        BY <4>1, <4>4
    <3>. QED
      BY <3>2, <3>4, <3>5, <3>6, <3>7 DEF Settled
  <2>. QED
    BY <2>5, <2>6
<1>. QED
  BY <1>3, <1>4, <1>6, <1>8 DEF FlowInv

\* An ack that is not swallowed although it repeats the last one is the first
\* to repeat it.
Unmatched(r, b) == \A i \in 1..Len(r.open) : r.open[i].ack # b
FirstPassed(r, i, b) ==
    /\ i \in 1..Len(r.open) /\ r.open[i].ack = b /\ ~ r.open[i].gobble
    /\ \A j \in 1..Len(r.open) : j < i => r.open[j].ack # b

LEMMA SwallowsNone ==
    ASSUME NEW r \in Conn, NEW a \in Nat,
           \A i \in 1..Len(r.open) : r.open[i].gobble => r.open[i].ack # a
    PROVE  SwallowsAt(r.open)[a] = 0
<1>. PICK s : s = SwallowsOf(r.open)
  OBVIOUS
<1>1. PICK m \in Nat : m = Len(r.open)
  BY ConnFields, LenProperties
<1>2. DOMAIN s = 1..m /\ \A i \in 1..m : s[i] # a
  BY <1>1 DEF SwallowsOf
<1>3. Count(s, a) = 0
  BY <1>2, CountProperties
<1>. QED
  BY <1>1, <1>3, SwallowsIs

LEMMA FirstAnswer ==
    ASSUME NEW mode \in {"simple", "pshend"}, NEW r \in Conn, NEW S \in Counts, S = SwallowsAt(r.open),
           NEW K \in Counts, NEW X \in Counts, NEW k \in Nat, NEW d \in Nat, DupOK(K, S, X, k, d),
           NEW n, NEW limit, NEW under \in Nat, EntryOK(mode, r, k, d, n, limit, under), K[k] > 0,
           \A a \in Nat : X[a] <= 1,
           mode = "simple" => \A a \in Nat : X[a] > 0 => under <= a,
           Unmatched(r, k) \/ \E i : FirstPassed(r, i, k)
    PROVE  d = 0 /\ (Unmatched(r, k) \/ mode = "pshend")
<1>1. d + K[k] <= S[k] + X[k] /\ K[k] \in Nat /\ S[k] \in Nat /\ X[k] \in Nat /\ X[k] <= 1
  BY DEF DupOK, Counts
<1>2. CASE Unmatched(r, k)
  <2>1. S[k] = 0
    BY <1>2, SwallowsNone DEF Unmatched
  <2>. QED
    BY <1>1, <1>2, <2>1
<1>3. CASE mode = "pshend" /\ \E i : FirstPassed(r, i, k)
  BY <1>3 DEF EntryOK, PshendOK, FirstPassed
<1>4. CASE mode = "simple" /\ \E i : FirstPassed(r, i, k)
  <2>1. PICK i : FirstPassed(r, i, k)
    BY <1>4
  <2>2. k < under
    BY <1>4, <2>1 DEF EntryOK, SimpleOK, FirstPassed
  <2>3. X[k] = 0
    BY <1>1, <1>4, <2>2
  <2>4. ASSUME NEW j \in 1..Len(r.open), r.open[j].gobble PROVE r.open[j].ack # k
    <3>1. j \in Nat /\ i \in Nat
      BY <2>1, ConnFields, LenProperties DEF FirstPassed
    <3>2. CASE j < i
      BY <2>1, <3>2 DEF FirstPassed
    <3>3. CASE j = i
      BY <2>1, <2>4, <3>3 DEF FirstPassed
    <3>4. CASE i < j
      <4>1. r.open[i].ack < r.open[j].ack
        BY <1>4, <2>1, <3>4 DEF EntryOK, SimpleOK, FirstPassed
      <4>2. r.open[i].ack = k
        BY <2>1 DEF FirstPassed
      <4>. QED
        BY <4>1, <4>2
    <3>. QED
      BY <3>1, <3>2, <3>3, <3>4
  <2>5. S[k] = 0
    BY <2>4, SwallowsNone
  <2>. QED
    BY <1>1, <2>3, <2>5
<1>. QED
  BY <1>2, <1>3, <1>4

\* What becomes of a connection whose ack takes its match off the open list.
Takes(r, i, b, q) ==
    /\ i \in 1..Len(r.open) /\ r.open[i].ack = b
    /\ q \in Conn /\ Part(q.open, r.open, i)
    /\ \A k \in 1..Len(q.matched) :
          q.matched[k] = r.open[i] \/ \E j \in 1..Len(r.matched) : q.matched[k] = r.matched[j]
    /\ \A a \in Nat : a >= b => SwallowsAt(q.open)[a] =
          IF r.open[i].gobble /\ a = b THEN SwallowsAt(r.open)[a] - 1 ELSE SwallowsAt(r.open)[a]

LEMMA MatchSettles ==
    ASSUME NEW r \in Conn, NEW b \in Nat, Matches(r, b) # {}, NEW i, i = Min(Matches(r, b)),
           NEW late, NEW q, q = ApplyMatch(r, i, late)
    PROVE  /\ Takes(r, i, b, q)
           /\ r.open[i].gobble => AddsOne(SwallowsAt(q.open), SwallowsAt(r.open), b)
           /\ ~ r.open[i].gobble => FirstPassed(r, i, b)
<1>1. /\ i \in 1..Len(r.open) /\ r.open[i].ack = b
      /\ \A k \in 1..Len(r.open) : k < i => r.open[k].ack # b
  BY MatchIs
<1>2. /\ q \in Conn /\ Part(q.open, r.open, i)
      /\ \A k \in 1..Len(q.matched) :
            q.matched[k] = r.open[i] \/ \E j \in 1..Len(r.matched) : q.matched[k] = r.matched[j]
      /\ r.open[i].gobble =>
            /\ Count(SwallowsOf(r.open), b) = Count(SwallowsOf(q.open), b) + 1
            /\ \A a \in Nat \ {b} : Count(SwallowsOf(r.open), a) = Count(SwallowsOf(q.open), a)
      /\ ~ r.open[i].gobble =>
            \A a \in Nat : a >= b => Count(SwallowsOf(r.open), a) = Count(SwallowsOf(q.open), a)
  BY <1>1, MatchTakes
<1>3. PICK S \in Counts, T \in Counts : S = SwallowsAt(r.open) /\ T = SwallowsAt(q.open)
  BY <1>2, SwallowsIs
<1>4. /\ r.open[i].gobble => \A a \in Nat : S[a] = IF a = b THEN T[a] + 1 ELSE T[a]
      /\ ~ r.open[i].gobble => \A a \in Nat : a >= b => S[a] = T[a]
  <2>1. \A a \in Nat : S[a] = Count(SwallowsOf(r.open), a) /\ T[a] = Count(SwallowsOf(q.open), a)
    BY <1>2, <1>3, SwallowsIs
  <2>. QED
    BY <1>2, <2>1
<1>5. \A a \in Nat : S[a] \in Nat /\ T[a] \in Nat
  BY DEF Counts
<1>6. \A a \in Nat : a >= b => T[a] = IF r.open[i].gobble /\ a = b THEN S[a] - 1 ELSE S[a]
  BY <1>4, <1>5
<1>. QED
  BY <1>1, <1>2, <1>3, <1>4, <1>6 DEF Takes, FirstPassed, AddsOne

Passing(r, b, q) ==
    \/ q = r /\ Unmatched(r, b)
    \/ \E i : Takes(r, i, b, q) /\ FirstPassed(r, i, b)

OneAbove(mode, X, under) ==
    /\ \A a \in Nat : X[a] <= 1
    /\ mode = "simple" => \A a \in Nat : X[a] > 0 => under <= a

\* An ack that is forwarded, and one that is swallowed, leave the connection
\* settled.
LEMMA AckForwarded ==
    ASSUME NEW mode \in {"simple", "pshend"}, NEW A \in Within, NEW K \in Counts, NEW r \in Conn,
           NEW X \in Counts, NEW k \in Nat, NEW d \in Nat, NEW n \in 0..MaxSeq,
           NEW limit \in Nat, NEW under \in Nat, NEW reach,
           Settled(mode, A, K, r, X, k, d, n, limit, under, reach),
           OneAbove(mode, X, under),
           NEW b \in Nat, K[b] > 0,
           NEW L \in Counts, OneLess(K, L, b),
           NEW q \in Conn, Passing(r, b, q),
           NEW x \in Nat, x = LastAck(b, k), NEW y \in Nat, y = Repeats(b, k, d)
    PROVE  Settled(mode, A, L, q, X, x, y, n, limit, under, reach)
<1>1. PICK S \in Counts, T \in Counts : S = SwallowsAt(r.open) /\ T = SwallowsAt(q.open)
  BY SwallowsIs
<1>2. /\ A = reach /\ LevelOK(A, K, k) /\ LastOK(A, K, k, n)
      /\ EntryOK(mode, r, k, d, n, limit, under) /\ DupOK(K, S, X, k, d)
  BY <1>1 DEF Settled
<1>3. Unmatched(r, b) \/ \E i : FirstPassed(r, i, b)
  BY DEF Passing
<1>12. x = (IF b > k THEN b ELSE k) /\ y = (IF b > k THEN 0 ELSE IF b = k THEN d + 1 ELSE d)
  BY DEF LastAck, Repeats
<1>13. /\ \A a \in Nat : L[a] = IF a = b THEN K[a] - 1 ELSE K[a]
       /\ \A a \in Nat : X[a] <= 1
       /\ mode = "simple" => \A a \in Nat : X[a] > 0 => under <= a
  BY DEF OneLess, OneAbove
<1>4. b = k => d = 0 /\ (Unmatched(r, k) \/ mode = "pshend")
  <2>1. SUFFICES ASSUME b = k PROVE d = 0 /\ (Unmatched(r, k) \/ mode = "pshend")
    OBVIOUS
  <2>2. K[k] > 0 /\ (Unmatched(r, k) \/ \E i : FirstPassed(r, i, k))
    BY <1>3, <2>1
  <2>. QED
    BY <1>1, <1>2, <1>13, <2>2, FirstAnswer
<1>5. \A a \in Nat : a >= b => T[a] = S[a]
  BY <1>1 DEF Passing, Takes, FirstPassed
<1>6. DupOK(L, T, X, x, y)
  <2>1. b = k => d = 0
    BY <1>4
  <2>2. SameFrom(S, T, b)
    BY <1>5 DEF SameFrom
  <2>. QED
    BY <1>2, <2>1, <2>2, DupPassed
<1>7. LevelOK(A, L, x)
  <2>1. x = k \/ x = b
    BY <1>12
  <2>. QED
    BY <1>2, <1>13, <2>1, LevelPopped
<1>8. LastOK(A, L, x, n)
  <2>1. (x = k /\ b < n) \/ x = IF b > k THEN b ELSE k
    BY <1>12
  <2>. QED
    BY <1>2, <1>13, <2>1, LastPopped
<1>9. EntryOK(mode, q, k, d, n, limit, under)
  <2>1. CASE q = r
    BY <1>2, <2>1
  <2>2. CASE \E i : Takes(r, i, b, q)
    <3>1. PICK i : Takes(r, i, b, q)
      BY <2>2
    <3>2. /\ i \in 1..Len(r.open) /\ Part(q.open, r.open, i)
          /\ \A l \in 1..Len(q.matched) :
                q.matched[l] = r.open[i] \/ \E j \in 1..Len(r.matched) : q.matched[l] = r.matched[j]
      BY <3>1 DEF Takes
    <3>3. n \in Nat
      BY Numbers
    <3>. QED
      BY <1>2, <3>2, <3>3, EntryTaken
  <2>. QED
    BY <2>1, <2>2 DEF Passing
<1>10. \/ x = k /\ y = d
       \/ y = 0
       \/ b = k /\ x = k
  BY <1>12
<1>11. EntryOK(mode, q, x, y, n, limit, under)
  <2>1. CASE (x = k /\ y = d) \/ y = 0
    BY <1>9, <2>1, EntryPassed
  <2>2. CASE b = k /\ x = k
    <3>1. CASE q = r /\ Unmatched(r, b)
      <4>1. \A i \in 1..Len(q.open) : ~ q.open[i].gobble => q.open[i].ack # x
        BY <2>2, <3>1 DEF Unmatched
      <4>. QED
        BY <1>9, <4>1, EntryPassed
    <3>2. CASE mode = "pshend" /\ \E i : Takes(r, i, b, q) /\ FirstPassed(r, i, b)
      <4>1. PICK i : Takes(r, i, b, q) /\ FirstPassed(r, i, b)
        BY <3>2
      <4>2. /\ i \in 1..Len(r.open) /\ ~ r.open[i].gobble /\ Part(q.open, r.open, i)
            /\ r.open[i].ack = b
        BY <4>1 DEF Takes, FirstPassed
      <4>3. PshendOK(r.open, k, d)
        BY <1>2, <3>2 DEF EntryOK
      <4>4. NonePasses(q.open, r.open[i].ack)
        BY <4>2, <4>3, NoneLeft
      <4>5. \A l \in 1..Len(q.open) : ~ q.open[l].gobble => q.open[l].ack # x
        BY <2>2, <4>2, <4>4 DEF NonePasses
      <4>. QED
        BY <1>9, <4>5, EntryPassed
    <3>3. (q = r /\ Unmatched(r, b)) \/ (mode = "pshend" /\ \E i : Takes(r, i, b, q) /\ FirstPassed(r, i, b))
      <4>1. Unmatched(r, b) => \A i : ~ FirstPassed(r, i, b)
        BY DEF Unmatched, FirstPassed
      <4>. QED
        BY <1>4, <2>2, <4>1 DEF Passing
    <3>. QED
      BY <3>1, <3>2, <3>3
  <2>. QED
    BY <1>10, <2>1, <2>2
<1>. QED
  BY <1>1, <1>2, <1>6, <1>7, <1>8, <1>11 DEF Settled

LEMMA AckSwallowed ==
    ASSUME NEW mode \in {"simple", "pshend"}, NEW A \in Within, NEW K \in Counts, NEW r \in Conn,
           NEW X \in Counts, NEW k \in Nat, NEW d \in Nat, NEW n \in 0..MaxSeq,
           NEW limit \in Nat, NEW under \in Nat, NEW reach,
           Settled(mode, A, K, r, X, k, d, n, limit, under, reach),
           NEW b \in Nat, K[b] > 0,
           NEW L \in Counts, OneLess(K, L, b),
           NEW q \in Conn, NEW i, Takes(r, i, b, q), r.open[i].gobble,
           AddsOne(SwallowsAt(q.open), SwallowsAt(r.open), b)
    PROVE  Settled(mode, A, L, q, X, k, d, n, limit, under, reach)
<1>1. PICK S \in Counts, T \in Counts : S = SwallowsAt(r.open) /\ T = SwallowsAt(q.open)
  BY SwallowsIs
<1>2. /\ A = reach /\ LevelOK(A, K, k) /\ LastOK(A, K, k, n)
      /\ EntryOK(mode, r, k, d, n, limit, under) /\ DupOK(K, S, X, k, d)
  BY <1>1 DEF Settled
<1>3. DupOK(L, T, X, k, d)
  BY <1>1, <1>2, DupSwallowed
<1>4. /\ i \in 1..Len(r.open) /\ Part(q.open, r.open, i) /\ r.open[i].ack = b
      /\ \A l \in 1..Len(q.matched) :
            q.matched[l] = r.open[i] \/ \E j \in 1..Len(r.matched) : q.matched[l] = r.matched[j]
  BY DEF Takes
<1>5. EntryOK(mode, q, k, d, n, limit, under)
  <2>1. n \in Nat
    BY Numbers
  <2>. QED
    BY <1>2, <1>4, <2>1, EntryTaken
<1>6. b < n
  BY <1>2, <1>4 DEF EntryOK, AcksOK
<1>9. \A a \in Nat : L[a] = IF a = b THEN K[a] - 1 ELSE K[a]
  BY DEF OneLess
<1>7. LevelOK(A, L, k)
  BY <1>2, <1>9, LevelPopped
<1>8. LastOK(A, L, k, n)
  BY <1>2, <1>6, <1>9, LastPopped
<1>. QED
  BY <1>1, <1>2, <1>3, <1>5, <1>7, <1>8 DEF Settled

LEMMA ForwardIs ==
    ASSUME Ends, NEW a \in Ack, Forward(a)
    PROVE  /\ acked'[a.c] = LastAck(a.ack, acked[a.c])
           /\ a.pure /\ ~ a.fin => dups'[a.c] = Repeats(a.ack, acked[a.c], dups[a.c])
           /\ \A c \in Conns : c # a.c => acked'[c] = acked[c] /\ dups'[c] = dups[c]
<1>1. acked \in [Conns -> Nat] /\ dups \in [Conns -> Nat]
  BY DEF Ends
<1>2. a.c \in Conns /\ a.ack \in Nat
  BY DEF Ack
<1>3. PICK k \in Nat, d \in Nat, b \in Nat : k = acked[a.c] /\ d = dups[a.c] /\ b = a.ack
  BY <1>1, <1>2
<1>4. Max({k, b}) = LastAck(b, k)
  <2>1. PICK m \in Nat : m = IF b > k THEN b ELSE k
    OBVIOUS
  <2>2. m \in {k, b} /\ \A y \in {k, b} : m >= y
    BY <2>1
  <2>3. Max({k, b}) \in {k, b} /\ \A y \in {k, b} : Max({k, b}) >= y
    BY <2>2 DEF Max
  <2>4. Max({k, b}) \in Nat /\ Max({k, b}) >= m /\ m >= Max({k, b})
    BY <2>2, <2>3
  <2>5. Max({k, b}) = m
    BY <2>4
  <2>. QED
    BY <2>1, <2>5 DEF LastAck
<1>5. acked' = [acked EXCEPT ![a.c] = LastAck(b, k)]
  BY <1>3, <1>4 DEF Forward
<1>6. dups' = [dups EXCEPT ![a.c] = IF b > k THEN 0 ELSE IF b = k /\ a.pure /\ ~ a.fin THEN d + 1 ELSE d]
  BY <1>3 DEF Forward
<1>7. a.pure /\ ~ a.fin => dups'[a.c] = Repeats(b, k, d)
  BY <1>1, <1>2, <1>6 DEF Repeats
<1>. QED
  BY <1>1, <1>2, <1>3, <1>5, <1>6, <1>7

\* What the LAN thread does with an ack: it is going to pass the ack, with or without
\* a match, or to swallow it.
Forwards(a) ==
    /\ SeenAck(a.c)' = LastAck(a.ack, SeenAck(a.c))
    /\ SeenDups(a.c)' = Repeats(a.ack, SeenAck(a.c), SeenDups(a.c))
Withholds(a) == SeenAck(a.c)' = SeenAck(a.c) /\ SeenDups(a.c)' = SeenDups(a.c)

Passed(r, s, a) == s = r /\ Unmatched(r, a.ack) /\ Forwards(a)
PassedMatch(r, s, a) ==
    LET i == Min(Matches(r, a.ack)) IN
    /\ r \in Conn /\ Matches(r, a.ack) # {} /\ s = ApplyMatch(r, i, a.late)
    /\ ~ r.open[i].gobble /\ Forwards(a)
SwallowedMatch(r, s, a) ==
    LET i == Min(Matches(r, a.ack)) IN
    /\ r \in Conn /\ Matches(r, a.ack) # {} /\ s = ApplyMatch(r, i, a.late)
    /\ r.open[i].gobble /\ Withholds(a)

LEMMA AckParts ==
    ASSUME TypeInv, FreshInv, ProcessAck, NEW a \in Ack, a = ackQ[1]
    PROVE  /\ \A c \in Conns : c # a.c =>
                 conn'[c] = conn[c] /\ SeenAck(c)' = SeenAck(c) /\ SeenDups(c)' = SeenDups(c)
           /\ validate[HostOf[a.c]] = "none" => conn' = conn
           /\ lan' # None => lan'.ack = a /\ ~ lan'.counted
           /\ ~ a.fin /\ a.pure =>
                 Passed(Rec(a.c), Rec(a.c)', a) \/ PassedMatch(Rec(a.c), Rec(a.c)', a)
                 \/ SwallowedMatch(Rec(a.c), Rec(a.c)', a)
<1>1. PICK c \in Conns, h \in Hosts : c = a.c /\ h = HostOf[c]
  BY Numbers DEF Ack
<1>2. conn \in [Conns -> Conn \cup {None}] /\ Ends
  BY DEF TypeInv, Records
<1>3. PICK hit : hit = (conn[c] # None /\ Matches(conn[c], a.ack) # {})
  OBVIOUS
<1>4. PICK i : i = Min(Matches(conn[c], a.ack))
  OBVIOUS
<1>5. lan = None /\ \A d : SeenAck(d) = acked[d] /\ SeenDups(d) = dups[d]
  BY DEF ProcessAck, SeenAck, SeenDups, Held
<1>6. CASE validate[h] = "none"
  <2>1. UNCHANGED <<conn, lan>> /\ Forward(a)
    BY <1>1, <1>6, Zenon DEF ProcessAck
  <2>2. conn[c] = None
    BY <1>1, <1>6 DEF FreshInv
  <2>3. Rec(c)' = Rec(c) /\ Unmatched(Rec(c), a.ack)
    <3>1. Len(NewConn.open) = 0
      BY DEF NewConn
    <3>. QED
      BY <2>1, <2>2, <3>1 DEF Rec, Unmatched
  <2>4. \A d : SeenAck(d)' = acked'[d] /\ SeenDups(d)' = dups'[d]
    BY <1>5, <2>1 DEF SeenAck, SeenDups, Held
  <2>5. /\ acked'[a.c] = LastAck(a.ack, acked[a.c])
        /\ a.pure /\ ~ a.fin => dups'[a.c] = Repeats(a.ack, acked[a.c], dups[a.c])
        /\ \A d \in Conns : d # a.c => acked'[d] = acked[d] /\ dups'[d] = dups[d]
    BY <1>2, <2>1, ForwardIs
  <2>6. a.pure /\ ~ a.fin => Forwards(a)
    BY <1>5, <2>4, <2>5 DEF Forwards
  <2>. QED
    BY <1>1, <1>5, <2>1, <2>3, <2>4, <2>5, <2>6 DEF Passed
<1>7. CASE validate[h] # "none"
  <2>1. /\ conn' = IF hit THEN [conn EXCEPT ![c] = ApplyMatch(conn[c], i, a.late)] ELSE conn
        /\ lan' = [ack |-> a, gobble |-> hit /\ conn[c].open[i].gobble, counted |-> FALSE]
        /\ UNCHANGED <<acked, dups>>
    BY <1>1, <1>3, <1>4, <1>7, Zenon DEF ProcessAck
  <2>2. lan'.ack = a /\ ~ lan'.counted /\ lan'.gobble = (hit /\ conn[c].open[i].gobble)
    BY <2>1
  <2>3. lan' # None
    <3>1. lan' \in Lan
      BY <2>1, <2>2 DEF Lan
    <3>. QED
      BY <3>1, NoneAssumption
  <2>4. ASSUME NEW d \in Conns, d # c
        PROVE  conn'[d] = conn[d] /\ SeenAck(d)' = SeenAck(d) /\ SeenDups(d)' = SeenDups(d)
    <3>1. conn'[d] = conn[d]
      BY <1>2, <2>1, <2>4
    <3>2. ~ Held(d)'
      BY <1>1, <2>2, <2>4 DEF Held
    <3>. QED
      BY <1>5, <2>1, <3>1, <3>2 DEF SeenAck, SeenDups
  <2>5. Held(c)' <=> ~ (hit /\ conn[c].open[i].gobble)
    BY <1>1, <2>2, <2>3 DEF Held
  <2>6. Held(c)' => Forwards(a)
    BY <1>1, <1>5, <2>1, <2>2 DEF Forwards, SeenAck, SeenDups
  <2>7. ~ Held(c)' => Withholds(a)
    BY <1>1, <1>5, <2>1 DEF Withholds, SeenAck, SeenDups
  <2>8. Passed(Rec(c), Rec(c)', a) \/ PassedMatch(Rec(c), Rec(c)', a)
        \/ SwallowedMatch(Rec(c), Rec(c)', a)
    <3>1. CASE hit
      <4>1. conn[c] \in Conn /\ Rec(c) = conn[c] /\ Matches(Rec(c), a.ack) # {}
        BY <1>2, <1>3, <3>1 DEF Rec
      <4>2. i \in 1..Len(Rec(c).open) /\ i = Min(Matches(Rec(c), a.ack))
        BY <1>4, <4>1, FirstMatch
      <4>3. ApplyMatch(Rec(c), i, a.late) \in Conn
        BY <4>1, <4>2, ApplyMatchTyped
      <4>4. conn'[c] = ApplyMatch(Rec(c), i, a.late)
        BY <1>2, <2>1, <3>1, <4>1
      <4>5. Rec(c)' = ApplyMatch(Rec(c), i, a.late)
        BY <4>3, <4>4, NoneAssumption DEF Rec
      <4>6. Rec(c).open[i].gobble => Withholds(a)
        BY <2>5, <2>7, <3>1, <4>1
      <4>7. ~ Rec(c).open[i].gobble => Forwards(a)
        BY <2>5, <2>6, <4>1
      <4>. QED
        BY <4>1, <4>2, <4>5, <4>6, <4>7 DEF PassedMatch, SwallowedMatch
    <3>2. CASE ~ hit
      <4>1. conn' = conn /\ Forwards(a)
        BY <2>1, <2>5, <2>6, <3>2
      <4>2. Unmatched(Rec(c), a.ack)
        <5>1. CASE conn[c] = None
          <6>1. Len(NewConn.open) = 0
            BY DEF NewConn
          <6>. QED
            BY <5>1, <6>1 DEF Rec, Unmatched
        <5>2. CASE conn[c] # None
          BY <1>3, <3>2, <5>2 DEF Rec, Unmatched, Matches
        <5>. QED
          BY <5>1, <5>2
      <4>. QED
        BY <4>1, <4>2 DEF Passed, Rec
    <3>. QED
      BY <3>1, <3>2
  <2>. QED
    BY <1>1, <1>7, <2>2, <2>4, <2>8
<1>. QED
  BY <1>6, <1>7

LEMMA ExtraBound ==
    ASSUME Queues, Views, NEW c \in Conns PROVE OneAbove(sting, Extra(c), Under(c))
<1>1. ASSUME NEW a \in Nat
      PROVE  Extra(c)[a] = IF Loop(c) /\ burst.shaped /\ NextAck.gobble /\ NextAck.ack = a THEN 1 ELSE 0
  BY DEF Extra
<1>2. ASSUME NEW a \in Nat, sting = "simple", Extra(c)[a] > 0 PROVE Under(c) <= a
  <2>1. Loop(c) /\ NextAck.ack = a
    BY <1>1, <1>2
  <2>2. NextAck.ack = burst.base
    BY <1>2 DEF NextAck, ExpectedAck
  <2>. QED
    BY <2>1, <2>2 DEF Under
<1>. QED
  BY <1>1, <1>2 DEF OneAbove

LEMMA ProcessAckFlow ==
    ASSUME TypeInv, FlowInv, ProcessAck PROVE FlowInv'
<1>1. /\ ackQ \in Seq(Ack) /\ ackQ # <<>> /\ ackQ' = Tail(ackQ)
      /\ UNCHANGED <<validate, shapeQ, burst, timer, line, sent, got, fin, losses, replied, sting>>
  BY DEF TypeInv, ProcessAck, hostVars
<1>2. PICK a \in Ack : a = ackQ[1]
  BY <1>1, TakeFront, Zenon
<1>3. /\ \A c \in Conns : c # a.c =>
            conn'[c] = conn[c] /\ SeenAck(c)' = SeenAck(c) /\ SeenDups(c)' = SeenDups(c)
      /\ validate[HostOf[a.c]] = "none" => conn' = conn
      /\ lan' # None => lan'.ack = a /\ ~ lan'.counted
      /\ ~ a.fin /\ a.pure =>
            Passed(Rec(a.c), Rec(a.c)', a) \/ PassedMatch(Rec(a.c), Rec(a.c)', a)
            \/ SwallowedMatch(Rec(a.c), Rec(a.c)', a)
  BY <1>2, AckParts DEF FlowInv
<1>4. HomeInv' /\ IdleInv'
  BY <1>1 DEF FlowInv, HomeInv, IdleInv
<1>5. BurstInv'
  BY <1>1 DEF FlowInv, BurstInv, Done
<1>6. FreshInv'
  <2>1. SUFFICES ASSUME NEW c \in Conns, validate'[HostOf[c]] = "none" PROVE conn'[c] = None
    BY DEF FreshInv
  <2>2. validate[HostOf[c]] = "none" /\ conn[c] = None
    BY <1>1, <2>1 DEF FlowInv, FreshInv
  <2>. QED
    BY <1>3, <2>2
<1>7. AckInv'
  <2>1. PICK n \in Nat : n + 1 = Len(ackQ) /\ Len(Tail(ackQ)) = n
    <3>1. Len(ackQ) \in Nat \ {0} /\ Len(Tail(ackQ)) = Len(ackQ) - 1
      BY <1>1, TakeFront, Zenon
    <3>2. Len(ackQ) - 1 \in Nat /\ (Len(ackQ) - 1) + 1 = Len(ackQ)
      BY <3>1
    <3>. QED
      BY <3>1, <3>2, Zenon
  <2>2. \A i \in 1..n : Tail(ackQ)[i] = ackQ[i + 1] /\ i + 1 \in 1..(n + 1)
    BY <1>1, <2>1, HeadTailProperties
  <2>. QED
    <3>1. \A i \in 1..Len(ackQ) : Rightful(ackQ[i], fin, replied)
      BY DEF FlowInv, AckInv
    <3>2. \A i \in 1..n : Rightful(ackQ'[i], fin, replied)
      BY <1>1, <2>1, <2>2, <3>1, Zenon
    <3>3. Rightful(a, fin, replied)
      <4>1. 1 \in 1..Len(ackQ)
        BY <2>1
      <4>. QED
        BY <1>2, <3>1, <4>1, Zenon
    <3>4. \A x : Rightful(x, fin', replied') <=> Rightful(x, fin, replied)
      BY <1>1 DEF Rightful
    <3>5. \A i \in 1..Len(ackQ') : Rightful(ackQ'[i], fin', replied')
      BY <1>1, <2>1, <3>2 DEF Rightful
    <3>. QED
      BY <1>1, <1>3, <3>3, <3>5 DEF AckInv, Rightful
<1>8. TypeInv' /\ Views /\ Views'
  <2>1. TypeInv'
    BY ProcessAckTyped
  <2>. QED
    BY <1>4, <2>1, ViewsTyped, ViewsTypedNext DEF FlowInv
<1>9. ASSUME NEW c \in Conns PROVE QuietInv(c)'
  <2>1. Way(HostOf[c])' = Way(HostOf[c])
    BY <1>1 DEF Way, Hand
  <2>2. Arrive(c)' = Arrive(c)
    BY <1>1, <2>1, SameArrives
  <2>3. /\ a.c = c => Coming(c)[a.ack] > 0 /\ OneLess(Coming(c), Coming(c)', a.ack)
        /\ a.c # c => Coming(c)' = Coming(c)
    <3>1. PICK w \in Seq(Bounded), q \in Seq(Ack), r \in Seq(Ack), g \in Within :
              w = Way(HostOf[c]) /\ q = ackQ /\ r = ackQ' /\ r = Tail(q) /\ q # <<>> /\ g = got[c]
      BY <1>1, <1>8 DEF Views, TypeInv
    <3>4. PICK K, L : K = ComingOf(g, q, c, w) /\ L = ComingOf(g, r, c, w)
      OBVIOUS
    <3>2. AckTaken(K, L, a, c)
      <4>1. a = q[1]
        BY <1>2, <3>1
      <4>. QED
        BY <3>1, <3>4, <4>1, AckPopped
    <3>3. K = Coming(c) /\ L = Coming(c)'
      BY <1>1, <2>1, <3>1, <3>4 DEF Coming
    <3>. QED
      BY <3>2, <3>3 DEF AckTaken
  <2>4. /\ Limit(c)' = Limit(c) /\ Under(c)' = Under(c) /\ Reach(c)' = Reach(c)
        /\ Extra(c)' = Extra(c)
    BY <1>1, BurstSame
  <2>5. Quiet(c)' => Quiet(c)
    BY <1>1 DEF Quiet
  <2>6. CASE c # a.c
    <3>1. Rec(c)' = Rec(c)
      BY <1>3, <2>6 DEF Rec
    <3>. QED
      BY <1>1, <1>3, <2>2, <2>3, <2>4, <2>5, <2>6, <3>1, QuietKept DEF FlowInv
  <2>7. CASE c = a.c
    <3>1. SUFFICES ASSUME Quiet(c)
          PROVE  Settled(sting, Arrive(c), Coming(c)', Rec(c)', Extra(c), SeenAck(c)', SeenDups(c)',
                         sent[c], Limit(c), Under(c), Reach(c))
      BY <1>1, <2>2, <2>4, <2>5 DEF QuietInv
    <3>2. ~ a.fin /\ a.pure
      <4>1. 1 \in 1..Len(ackQ)
        <5>1. Len(ackQ) \in Nat \ {0}
          BY <1>1, TakeFront, Zenon
        <5>. QED
          BY <5>1
      <4>. QED
        BY <1>2, <2>7, <3>1, <4>1 DEF FlowInv, AckInv, Rightful, Quiet
    <3>3. PICK A \in Within, K \in Counts, L \in Counts, X \in Counts :
              A = Arrive(c) /\ K = Coming(c) /\ L = Coming(c)' /\ X = Extra(c)
      BY <1>8, ExtraTyped DEF Views
    <3>4. PICK r \in Conn, q \in Conn : r = Rec(c) /\ q = Rec(c)'
      BY <1>8 DEF Views
    <3>5. PICK k \in Nat, d \in Nat, x \in Nat, y \in Nat :
              k = SeenAck(c) /\ d = SeenDups(c) /\ x = SeenAck(c)' /\ y = SeenDups(c)'
      BY <1>8 DEF Views
    <3>6. PICK n \in 0..MaxSeq, limit \in Nat, under \in Nat, mode \in {"simple", "pshend"} :
              n = sent[c] /\ limit = Limit(c) /\ under = Under(c) /\ mode = sting
      <4>1. sting \in {"simple", "pshend"}
        BY Numbers DEF TypeInv, Ends
      <4>2. Limit(c) \in Nat /\ Under(c) \in Nat
        BY <1>8, LimitsTyped DEF TypeInv, FlowInv
      <4>3. sent[c] \in 0..MaxSeq
        BY <1>8 DEF Views
      <4>. QED
        BY <4>1, <4>2, <4>3
    <3>13. PICK reach : reach = Reach(c)
      OBVIOUS
    <3>7. Settled(mode, A, K, r, X, k, d, n, limit, under, reach)
      BY <3>1, <3>3, <3>4, <3>5, <3>6, <3>13 DEF FlowInv, QuietInv
    <3>8. PICK b \in Nat : b = a.ack /\ K[b] > 0 /\ OneLess(K, L, b)
      BY <2>3, <2>7, <3>3 DEF Ack
    <3>9. OneAbove(mode, X, under)
      BY <1>8, <3>3, <3>6, ExtraBound DEF TypeInv
    <3>10. Passed(r, q, a) \/ PassedMatch(r, q, a) \/ SwallowedMatch(r, q, a)
      BY <1>3, <2>7, <3>2, <3>4
    <3>11. ASSUME Forwards(a), Passing(r, b, q)
           PROVE  Settled(mode, A, L, q, X, x, y, n, limit, under, reach)
      <4>1. x = LastAck(b, k) /\ y = Repeats(b, k, d)
        BY <2>7, <3>5, <3>8, <3>11 DEF Forwards
      <4>. QED
        BY <3>7, <3>8, <3>9, <3>11, <4>1, AckForwarded
    <3>12. Settled(mode, A, L, q, X, x, y, n, limit, under, reach)
      <4>1. CASE Passed(r, q, a)
        BY <3>8, <3>11, <4>1 DEF Passed, Passing
      <4>2. CASE PassedMatch(r, q, a)
        <5>1. PICK i : /\ i = Min(Matches(r, b)) /\ Matches(r, b) # {} /\ q = ApplyMatch(r, i, a.late)
                       /\ ~ r.open[i].gobble /\ Forwards(a)
          BY <3>8, <4>2 DEF PassedMatch
        <5>2. Takes(r, i, b, q) /\ FirstPassed(r, i, b)
          BY <5>1, MatchSettles
        <5>. QED
          BY <3>11, <5>1, <5>2 DEF Passing
      <4>3. CASE SwallowedMatch(r, q, a)
        <5>1. PICK i : /\ i = Min(Matches(r, b)) /\ Matches(r, b) # {} /\ q = ApplyMatch(r, i, a.late)
                       /\ r.open[i].gobble /\ Withholds(a)
          BY <3>8, <4>3 DEF SwallowedMatch
        <5>2. Takes(r, i, b, q) /\ AddsOne(SwallowsAt(q.open), SwallowsAt(r.open), b)
          BY <5>1, MatchSettles
        <5>3. Settled(mode, A, L, q, X, k, d, n, limit, under, reach)
          BY <3>7, <3>8, <5>1, <5>2, AckSwallowed
        <5>. QED
          BY <2>7, <3>5, <5>1, <5>3 DEF Withholds
      <4>. QED
        BY <3>10, <4>1, <4>2, <4>3
    <3>. QED
      BY <3>3, <3>4, <3>5, <3>6, <3>12, <3>13
  <2>. QED
    BY <2>6, <2>7
<1>. QED
  BY <1>4, <1>5, <1>6, <1>7, <1>9 DEF FlowInv

\* The sender sees what the LAN thread was going to pass.
LEMMA MatchAckFlow ==
    ASSUME TypeInv, FlowInv, MatchAck PROVE FlowInv'
<1>1. /\ lan # None /\ ~ lan.counted
      /\ UNCHANGED <<shapeQ, conn, burst, timer, line, ackQ, sent, got, fin, losses, replied, sting>>
  BY DEF MatchAck
<1>2. PICK a \in Ack : a = lan.ack
  BY <1>1, LanFields DEF TypeInv, Ends
<1>3. PICK h \in Hosts : h = HostOf[a.c]
  BY Numbers DEF Ack
<1>4. /\ \A g \in Hosts : validate'[g] = validate[g] \/ validate'[g] = "resolved"
      /\ validate'[h] = "none" => validate[h] = "none"
  <2>1. validate' = validate \/ validate' = [validate EXCEPT ![h] = "resolved"]
    BY <1>2, <1>3 DEF MatchAck
  <2>2. validate \in [Hosts -> {"none", "ripps", "resolved"}]
    BY DEF TypeInv, Records
  <2>. QED
    BY <2>1, <2>2
<1>5. /\ lan' = IF a.fin THEN [lan EXCEPT !.counted = TRUE] ELSE None
      /\ IF a.fin \/ (lan.gobble /\ a.pure) THEN UNCHANGED <<acked, dups>> ELSE Forward(a)
  BY <1>2, Zenon DEF MatchAck
<1>6. HomeInv' /\ IdleInv'
  BY <1>1 DEF FlowInv, HomeInv, IdleInv
<1>7. BurstInv'
  <2>1. CASE burst = None
    BY <1>1, <2>1 DEF BurstInv
  <2>2. CASE burst # None
    <3>1. HostOf[burst.todo[1].c] \in Hosts
      BY <2>2, BurstFields, BoundedPacket DEF TypeInv
    <3>. QED
      BY <1>1, <1>4, <2>2, <3>1 DEF FlowInv, BurstInv, Done
  <2>. QED
    BY <2>1, <2>2
<1>8. FreshInv'
  <2>1. SUFFICES ASSUME NEW c \in Conns, validate'[HostOf[c]] = "none" PROVE conn'[c] = None
    BY DEF FreshInv
  <2>2. validate[HostOf[c]] = "none" /\ conn[c] = None
    BY <1>4, <2>1, Numbers DEF FlowInv, FreshInv
  <2>. QED
    BY <1>1, <2>2
<1>9. lan' # None => lan'.ack = a /\ lan'.gobble = lan.gobble /\ a.fin
  BY <1>1, <1>2, <1>5, LanFields DEF TypeInv, Ends, Lan
<1>10. AckInv'
  <2>1. AckInv
    BY DEF FlowInv
  <2>. QED
    BY <1>1, <1>2, <1>9, <2>1 DEF AckInv, Rightful
<1>11. ASSUME NEW c \in Conns, Quiet(c)'
       PROVE  Quiet(c) /\ SeenAck(c)' = SeenAck(c) /\ SeenDups(c)' = SeenDups(c)
  <2>1. Quiet(c)
    BY <1>1, <1>4, <1>11, Numbers DEF Quiet
  <2>2. CASE c # a.c
    <3>1. ~ Held(c) /\ ~ Held(c)'
      BY <1>2, <1>9, <2>2 DEF Held
    <3>2. acked'[c] = acked[c] /\ dups'[c] = dups[c]
      BY <1>5, <2>2, ForwardIs DEF TypeInv
    <3>. QED
      BY <2>1, <3>1, <3>2 DEF SeenAck, SeenDups
  <2>3. CASE c = a.c
    <3>1. a.pure /\ ~ a.fin
      BY <1>1, <1>2, <2>1, <2>3 DEF FlowInv, AckInv, Rightful, Quiet
    <3>2. ~ Held(c)'
      BY <1>9, <3>1 DEF Held
    <3>3. CASE lan.gobble
      BY <1>5, <2>1, <3>1, <3>2, <3>3 DEF SeenAck, SeenDups, Held
    <3>4. CASE ~ lan.gobble
      <4>1. Held(c)
        BY <1>1, <1>2, <2>3, <3>4 DEF Held
      <4>2. Forward(a)
        BY <1>5, <3>1, <3>4
      <4>3. /\ acked'[a.c] = LastAck(a.ack, acked[a.c])
            /\ dups'[a.c] = Repeats(a.ack, acked[a.c], dups[a.c])
        BY <3>1, <4>2, ForwardIs DEF TypeInv
      <4>. QED
        BY <1>2, <2>1, <2>3, <3>2, <4>1, <4>3 DEF SeenAck, SeenDups
    <3>. QED
      BY <3>3, <3>4
  <2>. QED
    BY <2>2, <2>3
<1>12. ASSUME NEW c \in Conns PROVE QuietInv(c)'
  <2>1. SUFFICES ASSUME Quiet(c)' PROVE QuietInv(c)'
    BY DEF QuietInv
  <2>2. Way(HostOf[c])' = Way(HostOf[c])
    BY <1>1 DEF Way, Hand
  <2>3. Arrive(c)' = Arrive(c) /\ Coming(c)' = Coming(c)
    BY <1>1, <2>2, SameArrives
  <2>4. /\ Limit(c)' = Limit(c) /\ Under(c)' = Under(c) /\ Reach(c)' = Reach(c)
        /\ Extra(c)' = Extra(c)
    BY <1>1, BurstSame
  <2>5. Rec(c)' = Rec(c)
    BY <1>1 DEF Rec
  <2>. QED
    BY <1>1, <1>11, <2>1, <2>3, <2>4, <2>5, QuietKept DEF FlowInv
<1>. QED
  BY <1>6, <1>7, <1>8, <1>10, <1>12 DEF FlowInv

\* A connection that its host closes is quiet no more.
LEMMA TerminateFlow ==
    ASSUME TypeInv, FlowInv, TerminateConnection PROVE FlowInv'
<1>1. /\ lan # None /\ lan.counted /\ lan' = None
      /\ UNCHANGED <<validate, shapeQ, burst, timer, line, ackQ, sent, got, fin, losses, replied, sting>>
  BY DEF TerminateConnection
<1>2. PICK a \in Ack : a = lan.ack
  BY <1>1, LanFields DEF TypeInv, Ends
<1>3. Forward(a) /\ fin[a.c]
  BY <1>1, <1>2 DEF TerminateConnection, FlowInv, AckInv, Rightful
<1>4. conn' = conn \/ conn' = [conn EXCEPT ![a.c] = None]
  BY <1>2 DEF TerminateConnection, CloseConnection
<1>5. \A c \in Conns : (c # a.c => conn'[c] = conn[c]) /\ (conn[c] = None => conn'[c] = None)
  BY <1>4 DEF TypeInv, Records
<1>6. HomeInv' /\ IdleInv' /\ BurstInv' /\ AckInv'
  BY <1>1 DEF FlowInv, HomeInv, IdleInv, BurstInv, Done, AckInv, Rightful
<1>7. FreshInv'
  BY <1>1, <1>5 DEF FlowInv, FreshInv
<1>8. ASSUME NEW c \in Conns PROVE QuietInv(c)'
  <2>1. CASE c = a.c
    BY <1>1, <1>3, <2>1 DEF QuietInv, Quiet
  <2>2. CASE c # a.c
    <3>1. Way(HostOf[c])' = Way(HostOf[c])
      BY <1>1 DEF Way, Hand
    <3>2. Arrive(c)' = Arrive(c) /\ Coming(c)' = Coming(c)
      BY <1>1, <3>1, SameArrives
    <3>3. /\ Limit(c)' = Limit(c) /\ Under(c)' = Under(c) /\ Reach(c)' = Reach(c)
          /\ Extra(c)' = Extra(c)
      BY <1>1, BurstSame
    <3>4. Rec(c)' = Rec(c) /\ (Quiet(c)' => Quiet(c))
      BY <1>1, <1>5, <2>2 DEF Rec, Quiet
    <3>5. acked'[c] = acked[c] /\ dups'[c] = dups[c]
      BY <1>3, <2>2, ForwardIs DEF TypeInv
    <3>6. SeenAck(c)' = SeenAck(c) /\ SeenDups(c)' = SeenDups(c)
      BY <1>1, <1>2, <2>2, <3>5 DEF SeenAck, SeenDups, Held
    <3>. QED
      BY <1>1, <3>2, <3>3, <3>4, <3>6, QuietKept DEF FlowInv
  <2>. QED
    BY <2>1, <2>2
<1>. QED
  BY <1>6, <1>7, <1>8 DEF FlowInv

-----------------------------------------------------------------------------
(* Packets put on their way.                                               *)

LEMMA EntryWider ==
    ASSUME NEW mode, NEW r \in Conn, NEW k, NEW d, NEW n \in Nat, NEW limit \in Nat, NEW under \in Nat,
           EntryOK(mode, r, k, d, n, limit, under),
           NEW n2 \in Nat, NEW limit2 \in Nat, NEW under2 \in Nat,
           n <= n2, limit <= limit2, under <= under2
    PROVE  EntryOK(mode, r, k, d, n2, limit2, under2)
<1>1. \A i \in 1..Len(r.open) : r.open[i].ack \in Nat
  <2>1. SUFFICES ASSUME NEW i \in 1..Len(r.open) PROVE r.open[i].ack \in Nat
    OBVIOUS
  <2>2. r.open[i] \in MonPkt
    BY ConnFields, ElementOfSeq
  <2>. QED
    BY <2>2 DEF MonPkt
<1>2. \A i \in 1..Len(r.matched) : r.matched[i].ack \in Nat
  <2>1. SUFFICES ASSUME NEW i \in 1..Len(r.matched) PROVE r.matched[i].ack \in Nat
    OBVIOUS
  <2>2. r.matched[i] \in MonPkt
    BY ConnFields, ElementOfSeq
  <2>. QED
    BY <2>2 DEF MonPkt
<1>3. AcksOK(r, n2, limit2)
  <2>1. /\ \A i \in 1..Len(r.open) : /\ r.open[i].ack <= limit
                                     /\ r.open[i].gobble => r.open[i].ack < n
        /\ \A i \in 1..Len(r.matched) : r.matched[i].ack <= limit
    BY DEF EntryOK, AcksOK
  <2>. QED
    BY <1>1, <1>2, <2>1 DEF AcksOK
<1>4. mode = "simple" => SimpleOK(r.open, under2)
  BY <1>1 DEF EntryOK, SimpleOK
<1>. QED
  BY <1>3, <1>4 DEF EntryOK

\* One more packet on the way keeps the connection settled, if the ack it will
\* bring is new or expected.
LEMMA AskedSettles ==
    ASSUME NEW mode, NEW A \in Within, NEW B \in Within, A \subseteq B, NEW r \in Conn,
           NEW K \in Counts, NEW L \in Counts, AddsOne(K, L, NextMissing(B)),
           NEW X \in Counts, NEW Y \in Counts, Grown(X, Y), Room(A, X, Y, NextMissing(B)),
           NEW k \in Nat, NEW d \in Nat, NEW n, NEW limit, NEW under, NEW reach,
           Settled(mode, A, K, r, X, k, d, n, limit, under, reach),
           NEW n2 \in 0..MaxSeq, NEW limit2, NEW under2, EntryOK(mode, r, k, d, n2, limit2, under2)
    PROVE  Settled(mode, B, L, r, Y, k, d, n2, limit2, under2, B)
<1>1. PICK S \in Counts : S = SwallowsAt(r.open)
  BY SwallowsIs
<1>2. LevelOK(A, K, k) /\ DupOK(K, S, X, k, d)
  BY <1>1 DEF Settled
<1>3. PICK v \in Nat : v = NextMissing(B)
  BY MissingTyped, Numbers DEF Within
<1>4. NextMissing(A) \in Nat
  BY MissingTyped, Numbers DEF Within
<1>5. DupOK(L, S, Y, k, d)
  BY <1>2, <1>3, <1>4, DupAsked
<1>6. LevelOK(B, L, k)
  BY <1>2, <1>3, LevelAsked
<1>7. LastOK(B, L, k, n2)
  BY <1>3, LastAsked
<1>. QED
  BY <1>1, <1>5, <1>6, <1>7 DEF Settled

LEMMA Pushes ==
    ASSUME TypeInv, TypeInv', Views, Views', NEW p \in Bounded,
           Way(HostOf[p.c])' = Append(Way(HostOf[p.c]), p),
           \A g \in Hosts : g # HostOf[p.c] => Way(g)' = Way(g),
           got' = got, \A c : GivenOf(ackQ', c) = GivenOf(ackQ, c), NEW c \in Conns
    PROVE  WayGrows(Arrive(c), Arrive(c)', Coming(c), Coming(c)', p, c)
<1>1. PICK w \in Seq(Bounded), v \in Seq(Bounded), q \in Seq(Ack), g \in Within :
          w = Way(HostOf[c]) /\ v = Way(HostOf[c])' /\ q = ackQ /\ g = got[c]
  BY DEF Views, TypeInv
<1>2. PICK A, B, K, L : /\ A = ArrivedOf(g, c, w) /\ B = ArrivedOf(g, c, v)
                        /\ K = ComingOf(g, q, c, w) /\ L = ComingOf(g, q, c, v)
  OBVIOUS
<1>3. A = Arrive(c) /\ B = Arrive(c)' /\ K = Coming(c) /\ L = Coming(c)'
  <2>1. ComingOf(g, ackQ', c, v) = ComingOf(g, q, c, v)
    BY <1>1 DEF ComingOf
  <2>. QED
    BY <1>1, <1>2, <2>1 DEF Arrive, Coming
<1>4. CASE HostOf[c] = HostOf[p.c]
  <2>1. v = Append(w, p)
    BY <1>1, <1>4
  <2>2. WayGrows(A, B, K, L, p, c)
    BY <1>1, <1>2, <2>1, WayPushed
  <2>. QED
    BY <1>3, <2>2
<1>5. CASE HostOf[c] # HostOf[p.c]
  <2>1. v = w
    BY <1>1, <1>5, Numbers
  <2>2. p.c # c /\ B = A /\ L = K
    BY <1>2, <1>5, <2>1
  <2>. QED
    BY <1>3, <2>2 DEF WayGrows
<1>. QED
  BY <1>4, <1>5

\* The slice that is shaped next.
LEMMA BurstIs ==
    ASSUME TypeInv, BurstInv, burst # None
    PROVE  /\ burst.n \in Nat /\ burst.n >= 2 /\ burst.base \in Nat /\ burst.base + burst.n <= MaxSeq
           /\ Done \in 0..(burst.n - 1) /\ burst.todo[1] \in Bounded /\ burst.todo[1].c \in Conns
           /\ burst.todo[1].seq = Place(sting, Done + 1, burst.n, burst.base) /\ burst.todo[1].len = 1
           /\ sent[burst.todo[1].c] = burst.base + burst.n
<1>1. /\ burst.base \in Nat /\ burst.n \in Nat \ {0} /\ burst.todo \in Seq(Bounded)
      /\ burst.todo[1] \in Bounded
  BY BurstFields DEF TypeInv
<1>2. /\ burst.n >= 2 /\ Len(burst.todo) \in 1..burst.n
      /\ \A i \in 1..Len(burst.todo) :
            burst.todo[i] = [c |-> burst.todo[1].c, kind |-> "data",
                             seq |-> Place(sting, Done + i, burst.n, burst.base), len |-> 1]
      /\ sent[burst.todo[1].c] = burst.base + burst.n
  BY DEF BurstInv
<1>3. Done \in 0..(burst.n - 1)
  BY <1>1, <1>2 DEF Done
<1>4. burst.todo[1].c \in Conns
  BY <1>1, BoundedPacket
<1>5. burst.base + burst.n <= MaxSeq
  <2>1. sent[burst.todo[1].c] \in 0..MaxSeq
    BY <1>4 DEF TypeInv, Ends
  <2>. QED
    BY <1>2, <2>1, Numbers
<1>6. burst.todo[1].seq = Place(sting, Done + 1, burst.n, burst.base) /\ burst.todo[1].len = 1
  <2>1. 1 \in 1..Len(burst.todo)
    BY <1>2
  <2>2. burst.todo[1] = [c |-> burst.todo[1].c, kind |-> "data",
                         seq |-> Place(sting, Done + 1, burst.n, burst.base), len |-> 1]
    BY <1>2, <2>1
  <2>. QED
    BY <2>2
<1>. QED
  BY <1>1, <1>2, <1>3, <1>4, <1>5, <1>6

LEMMA ShapeSliceFlow ==
    ASSUME TypeInv, FlowInv, ShapeSlice PROVE FlowInv'
<1>1. /\ burst # None /\ ~ burst.shaped /\ burst' = [burst EXCEPT !.shaped = TRUE]
      /\ Shape(HostOf[burst.todo[1].c], burst.todo[1], FALSE)
      /\ UNCHANGED <<validate, conn, timer, lan, line, ackQ, sent, acked, dups, got, fin, losses,
                     replied, sting>>
  BY DEF ShapeSlice, others
<1>2. PICK p \in Bounded, d \in Conns, h \in Hosts : p = burst.todo[1] /\ d = p.c /\ h = HostOf[d]
  BY <1>1, BurstIs, Numbers DEF FlowInv
<1>3. /\ HomeInv' /\ Way(h)' = Append(Way(h), p)
      /\ \A g \in Hosts : g # h => Way(g)' = Way(g)
  <2>1. p \in Homed(h)
    BY <1>2 DEF Homed
  <2>. QED
    BY <1>1, <1>2, <2>1, ShapePushes DEF TypeInv, FlowInv
<1>4. /\ burst' # None /\ burst'.todo = burst.todo /\ burst'.n = burst.n /\ burst'.base = burst.base
      /\ burst'.shaped
  <2>1. burst \in Bursts
    BY <1>1, BurstFields DEF TypeInv
  <2>2. /\ burst'.todo = burst.todo /\ burst'.n = burst.n /\ burst'.base = burst.base
        /\ burst'.shaped
    BY <1>1, <2>1 DEF Bursts
  <2>3. TypeInv'
    BY ShapeSliceTyped
  <2>4. burst' # None
    <3>1. burst' \in Burst
      <4>1. Seq(Bounded) \subseteq Seq(Packet)
        BY BoundedPackets
      <4>. QED
        BY <1>1, <2>1, <4>1 DEF Bursts, Burst
    <3>. QED
      BY <3>1, NoneAssumption
  <2>. QED
    BY <2>2, <2>4
<1>5. Done' = Done /\ NextAck' = NextAck /\ Shaped' = Done + 1 /\ Shaped = Done
      /\ \A c : Loop(c)' <=> Loop(c)
  BY <1>1, <1>4 DEF Done, NextAck, ExpectedAck, Shaped, Loop
<1>6. BurstInv' /\ FreshInv' /\ AckInv' /\ IdleInv'
  BY <1>1, <1>4, <1>5 DEF FlowInv, BurstInv, FreshInv, AckInv, Rightful, IdleInv
<1>7. TypeInv' /\ Views /\ Views'
  <2>1. TypeInv'
    BY ShapeSliceTyped
  <2>. QED
    BY <1>3, <2>1, ViewsTyped, ViewsTypedNext, Zenon DEF FlowInv
<1>8. ASSUME NEW c \in Conns PROVE WayGrows(Arrive(c), Arrive(c)', Coming(c), Coming(c)', p, c)
  BY <1>1, <1>2, <1>3, <1>7, Pushes
<1>9. ASSUME NEW c \in Conns PROVE QuietInv(c)'
  <2>1. Rec(c)' = Rec(c) /\ (Quiet(c)' => Quiet(c))
    BY <1>1 DEF Rec, Quiet
  <2>2. CASE c # d
    <3>1. ~ Loop(c) /\ ~ Loop(c)'
      BY <1>2, <1>5, <2>2 DEF Loop
    <3>2. Arrive(c)' = Arrive(c) /\ Coming(c)' = Coming(c)
      BY <1>2, <1>8, <2>2 DEF WayGrows
    <3>3. sent'[c] = sent[c] /\ SeenAck(c)' = SeenAck(c) /\ SeenDups(c)' = SeenDups(c) /\ sting' = sting
      BY <1>1, SeenSame
    <3>. QED
      BY <2>1, <3>1, <3>2, <3>3, BurstElsewhere, QuietKept DEF FlowInv
  <2>3. CASE c = d
    <3>1. Loop(c) /\ Loop(c)'
      BY <1>1, <1>2, <1>5, <2>3 DEF Loop
    <3>2. Limit(c)' = Limit(c) /\ Under(c)' = Under(c)
      BY <1>1, <1>4, <1>5, <3>1 DEF Limit, Under
    <3>0. SeenAck(c)' = SeenAck(c) /\ SeenDups(c)' = SeenDups(c)
      BY <1>1, SeenSame
    <3>3. SUFFICES ASSUME Quiet(c)
          PROVE  Settled(sting, Arrive(c)', Coming(c)', Rec(c), Extra(c)', SeenAck(c), SeenDups(c),
                         sent[c], Limit(c), Under(c), Reach(c)')
      BY <1>1, <2>1, <3>0, <3>2 DEF QuietInv
    <3>4. PICK n \in Nat, base \in Nat, j \in Nat :
              /\ j \in 0..(n - 1) /\ n = burst.n /\ base = burst.base /\ j = Done /\ n >= 2 /\ base + n <= MaxSeq
              /\ p.seq = Place(sting, j + 1, n, base) /\ p.len = 1
      BY <1>1, <1>2, BurstIs DEF FlowInv
    <3>5. PICK e : e = NextAck /\ e = ExpectedAck(j, n, base, p)
      BY <1>2, <3>4 DEF NextAck
    <3>6. sting \in StingModes
      BY DEF TypeInv, Ends
    <3>7. (e.gobble /\ e.ack = base) \/ ~ (j < n - 1 /\ (sting = "pshend" => j < n - 2))
      <4>1. /\ e.gobble <=> j < n - 1
            /\ j < n - 1 /\ (sting = "pshend" => j < n - 2) => e.ack = base
        BY <3>4, <3>5, <3>6, ExpectedIs
      <4>. QED
        BY <4>1
    <3>8. PICK A \in Within, B \in Within, K \in Counts, L \in Counts, X \in Counts, Y \in Counts :
              /\ A = Arrive(c) /\ B = Arrive(c)' /\ K = Coming(c) /\ L = Coming(c)'
              /\ X = Extra(c) /\ Y = Extra(c)'
      <4>1. Extra(c) \in Counts
        BY ExtraTyped
      <4>2. Extra(c)' \in Counts
        BY DEF Extra, Counts
      <4>. QED
        BY <1>7, <4>1, <4>2 DEF Views
    <3>9. Settled(sting, A, K, Rec(c), X, SeenAck(c), SeenDups(c), sent[c], Limit(c), Under(c), Reach(c))
      BY <3>3, <3>8 DEF FlowInv, QuietInv
    <3>10. A = Placed(sting, j, n, base)
      BY <1>5, <3>1, <3>4, <3>9 DEF Settled, Reach
    <3>11. B = A \cup Slots(p) /\ AddsOne(K, L, NextMissing(B))
      BY <1>2, <1>8, <2>3, <3>4, <3>8 DEF WayGrows
    <3>12. B = Placed(sting, j + 1, n, base)
      <4>1. PICK k \in Nat : k = Place(sting, j + 1, n, base)
        BY <3>4, BoundedPacket
      <4>2. Slots(p) = {k}
        BY <3>4, <4>1 DEF Slots
      <4>3. Placed(sting, j + 1, n, base) = Placed(sting, j, n, base) \cup {Place(sting, j + 1, n, base)}
        <5>1. \A i : i \in 1..(j + 1) <=> (i \in 1..j \/ i = j + 1)
          BY <3>4
        <5>. QED
          BY <5>1, Zenon DEF Placed
      <4>. QED
        BY <3>10, <3>11, <4>1, <4>2, <4>3
    <3>13. \/ NextMissing(B) = base /\ j < n - 1 /\ (sting = "pshend" => j < n - 2)
           \/ NextMissing(B) > NextMissing(A)
      BY <3>4, <3>6, <3>10, <3>12, PlaceAnswer
    <3>14. \A a \in Nat : X[a] = 0
      BY <1>1, <3>8 DEF Extra
    <3>15. \A a \in Nat : Y[a] = IF e.gobble /\ e.ack = a THEN 1 ELSE 0
      BY <1>4, <1>5, <3>1, <3>5, <3>8 DEF Extra
    <3>16. Grown(X, Y)
      BY <3>14, <3>15 DEF Grown
    <3>17. Room(A, X, Y, NextMissing(B))
      BY <3>7, <3>13, <3>14, <3>15 DEF Room
    <3>18. PICK r \in Conn, k \in Nat, m \in Nat, s \in 0..MaxSeq :
               r = Rec(c) /\ k = SeenAck(c) /\ m = SeenDups(c) /\ s = sent[c]
      BY <1>7 DEF Views
    <3>19. EntryOK(sting, r, k, m, s, Limit(c), Under(c))
      BY <3>9, <3>18 DEF Settled
    <3>20. Settled(sting, B, L, r, Y, k, m, s, Limit(c), Under(c), B)
      <4>1. A \subseteq B
        BY <3>11
      <4>2. Settled(sting, A, K, r, X, k, m, s, Limit(c), Under(c), Reach(c))
        BY <3>9, <3>18
      <4>. QED
        BY <3>11, <3>16, <3>17, <3>19, <4>1, <4>2, AskedSettles
    <3>21. Reach(c)' = B
      BY <1>1, <1>4, <1>5, <3>1, <3>4, <3>12 DEF Reach
    <3>. QED
      BY <3>8, <3>18, <3>20, <3>21
  <2>. QED
    BY <2>2, <2>3
<1>. QED
  BY <1>3, <1>6, <1>9 DEF FlowInv

-----------------------------------------------------------------------------
(* Acks expected.                                                          *)

LEMMA Lengthens ==
    ASSUME NEW r \in Conn, NEW p \in Bounded, NEW e,
           e.ack \in Nat, e.gobble \in BOOLEAN, e.extra \in Nat, ~ e.gobble => e.extra = 0,
           NEW n, NEW limit \in Nat, AcksOK(r, n, limit), limit <= e.ack,
           NEW q, q = AddExpected(r, p, e)
    PROVE  Lengthened(r, q, e.ack, e.gobble)
<1>1. MatchedBelow(r, e.ack)
  <2>1. SUFFICES ASSUME NEW i \in 1..Len(r.matched) PROVE r.matched[i].ack <= e.ack
    BY DEF MatchedBelow
  <2>2. r.matched[i].ack <= limit
    BY DEF AcksOK
  <2>3. r.matched[i].ack \in Nat
    <3>1. r.matched \in Seq(MonPkt)
      BY ConnFields
    <3>2. r.matched[i] \in MonPkt
      BY <3>1
    <3>. QED
      BY <3>2 DEF MonPkt
  <2>. QED
    BY <2>2, <2>3
<1>. QED
  BY <1>1, AddIs

\* The ack of the slice that was shaped may be counted twice until then.
OneAt(X, gobble, ack) == \A a \in Nat : X[a] = IF gobble /\ ack = a THEN 1 ELSE 0

LEMMA ExpectedSettles ==
    ASSUME NEW mode, NEW A, NEW K \in Counts, NEW r \in Conn, NEW X \in Counts, NEW k \in Nat,
           NEW d \in Nat, NEW n \in 0..MaxSeq, NEW limit \in Nat, NEW under \in Nat, NEW reach,
           Settled(mode, A, K, r, X, k, d, n, limit, under, reach),
           NEW ack \in Nat, NEW gobble \in BOOLEAN, OneAt(X, gobble, ack),
           NEW q, Lengthened(r, q, ack, gobble), NEW Y \in Counts, \A a \in Nat : Y[a] = 0,
           NEW limit2 \in Nat, NEW under2 \in Nat,
           Follows(mode, ack, gobble, n, limit, under, limit2, under2)
    PROVE  Settled(mode, A, K, q, Y, k, d, n, limit2, under2, reach)
<1>1. n \in Nat
  BY Numbers
<1>2. PICK S \in Counts, T \in Counts : S = SwallowsAt(r.open) /\ T = SwallowsAt(q.open)
  BY SwallowsIs DEF Lengthened
<1>3. EntryOK(mode, r, k, d, n, limit, under) /\ DupOK(K, S, X, k, d)
  BY <1>2 DEF Settled
<1>4. \A a \in Nat : S[a] + X[a] <= T[a] + Y[a]
  <2>1. SUFFICES ASSUME NEW a \in Nat PROVE S[a] + X[a] <= T[a] + Y[a]
    OBVIOUS
  <2>2. S[a] \in Nat /\ T[a] \in Nat /\ X[a] \in Nat /\ Y[a] \in Nat
    BY <1>2 DEF Counts
  <2>3. S[a] <= T[a] /\ (gobble /\ ack = a => S[a] + 1 <= T[a])
    BY <1>2, SwallowsIs DEF Lengthened, SwallowsMore
  <2>4. Y[a] = 0 /\ X[a] = IF gobble /\ ack = a THEN 1 ELSE 0
    BY DEF OneAt
  <2>. QED
    BY <2>2, <2>3, <2>4
<1>5. DupOK(K, T, Y, k, d)
  BY <1>3, <1>4, DupExpected
<1>6. Unseen(mode, ack, gobble, k, d)
  <2>1. SUFFICES ASSUME mode = "pshend", ~ gobble, ack = k PROVE d = 0
    BY DEF Unseen
  <2>2. S[k] = 0
    <3>1. AcksOK(r, n, limit) /\ n <= k
      BY <1>3, <2>1 DEF EntryOK, Follows
    <3>. QED
      BY <1>1, <1>2, <3>1, SwallowsBelow
  <2>3. X[k] = 0
    BY <2>1 DEF OneAt
  <2>4. d + K[k] <= S[k] + X[k]
    BY <1>3 DEF DupOK
  <2>5. K[k] \in Nat
    BY DEF Counts
  <2>. QED
    BY <2>2, <2>3, <2>4, <2>5
<1>7. EntryOK(mode, q, k, d, n, limit2, under2)
  BY <1>1, <1>3, <1>6, EntryExpected
<1>. QED
  BY <1>2, <1>5, <1>7 DEF Settled

LEMMA BurstThere ==
    ASSUME burst \in Bursts \cup {None}, burst # None PROVE burst \in Bursts
  OBVIOUS

LEMMA NoBurst == None \notin Bursts
<1>1. Seq(Bounded) \subseteq Seq(Packet)
  BY BoundedPackets
<1>2. Bursts \subseteq Burst
  BY <1>1 DEF Bursts, Burst
<1>. QED
  BY <1>2, NoneAssumption

\* The loop goes on with the next slice.
LEMMA NextSlice ==
    ASSUME TypeInv, BurstInv, burst # None, Len(burst.todo) # 1,
           burst' = [burst EXCEPT !.todo = Tail(@), !.shaped = FALSE],
           validate' = validate, sent' = sent, sting' = sting
    PROVE  /\ burst' # None /\ burst'.n = burst.n /\ burst'.base = burst.base /\ ~ burst'.shaped
           /\ Done' = Done + 1 /\ Done + 1 < burst.n /\ burst'.todo[1].c = burst.todo[1].c
           /\ BurstInv'
<1>1. burst \in Bursts
  BY BurstFields DEF TypeInv
<1>2. PICK todo \in Seq(Bounded), n \in Nat, base \in Nat :
          todo = burst.todo /\ n = burst.n /\ base = burst.base /\ todo # <<>>
  BY <1>1 DEF Bursts
<1>3. PICK rest \in Seq(Bounded) : rest = Tail(todo)
  BY <1>2, TakeFront
<1>4. PICK l \in Nat \ {0} : l = Len(todo) /\ l <= n /\ Len(rest) = l - 1
  <2>1. Len(todo) \in Nat \ {0} /\ Len(rest) = Len(todo) - 1
    BY <1>2, <1>3, TakeFront, Zenon
  <2>2. Len(todo) <= n
    BY <1>2, <2>1 DEF BurstInv
  <2>. QED
    BY <2>1, <2>2
<1>5. l # 1
  BY <1>2, <1>4
<1>6. burst'.todo = rest /\ burst'.n = n /\ burst'.base = base /\ burst'.shaped = FALSE
  BY <1>1, <1>2, <1>3 DEF Bursts
<1>7. burst' \in Bursts
  <2>1. rest # <<>>
    BY <1>4, <1>5
  <2>. QED
    BY <1>1, <1>2, <1>3, <2>1 DEF Bursts
<1>8. burst' # None
  BY <1>7, NoBurst
<1>9. Done = n - l /\ Done' = (n - l) + 1
  BY <1>2, <1>4, <1>6 DEF Done
<1>10. \A i \in 1..(l - 1) : rest[i] = todo[i + 1]
  BY <1>2, <1>3, <1>4, HeadTailProperties
<1>11. PICK d : d = todo[1].c
  OBVIOUS
<1>12. ASSUME NEW i \in 1..l
       PROVE  todo[i] = [c |-> d, kind |-> "data", seq |-> Place(sting, (n - l) + i, n, base), len |-> 1]
  <2>1. /\ i \in 1..Len(burst.todo)
        /\ burst.todo[1].c = d
    BY <1>2, <1>4, <1>11
  <2>. QED
    BY <1>2, <1>9, <2>1 DEF BurstInv
<1>13. rest[1].c = d
  <2>1. rest[1] = todo[2]
    BY <1>4, <1>5, <1>10
  <2>2. todo[2].c = d
    <3>1. 2 \in 1..l
      BY <1>4, <1>5
    <3>2. todo[2] = [c |-> d, kind |-> "data", seq |-> Place(sting, (n - l) + 2, n, base), len |-> 1]
      BY <1>12, <3>1
    <3>. QED
      BY <3>2
  <2>. QED
    BY <2>1, <2>2
<1>14. BurstInv'
  <2>1. ASSUME NEW i \in 1..(l - 1)
        PROVE  rest[i] = [c |-> d, kind |-> "data",
                          seq |-> Place(sting, ((n - l) + 1) + i, n, base), len |-> 1]
    <3>1. i + 1 \in 1..l /\ (n - l) + (i + 1) = ((n - l) + 1) + i
      BY <1>4
    <3>2. todo[i + 1] = [c |-> d, kind |-> "data",
                         seq |-> Place(sting, (n - l) + (i + 1), n, base), len |-> 1]
      BY <1>12, <3>1
    <3>3. rest[i] = todo[i + 1]
      BY <1>10
    <3>. QED
      BY <3>1, <3>2, <3>3
  <2>2. \A i \in 1..Len(burst'.todo) :
            burst'.todo[i] = [c |-> burst'.todo[1].c, kind |-> "data",
                              seq |-> Place(sting', Done' + i, burst'.n, burst'.base), len |-> 1]
    <3>1. SUFFICES ASSUME NEW i \in 1..(l - 1)
                   PROVE  rest[i] = [c |-> rest[1].c, kind |-> "data",
                                     seq |-> Place(sting, ((n - l) + 1) + i, n, base), len |-> 1]
      BY <1>4, <1>6, <1>9, Zenon
    <3>. QED
      BY <1>13, <2>1
  <2>3. burst'.n >= 2 /\ Len(burst'.todo) \in 1..burst'.n
    <3>1. n >= 2
      BY <1>2 DEF BurstInv
    <3>2. l - 1 \in 1..n
      BY <1>4, <1>5
    <3>. QED
      BY <1>4, <1>6, <3>1, <3>2
  <2>4. sent'[burst'.todo[1].c] = burst'.base + burst'.n /\ validate'[HostOf[burst'.todo[1].c]] # "none"
    <3>1. sent[d] = base + n /\ validate[HostOf[d]] # "none"
      BY <1>2, <1>11 DEF BurstInv
    <3>. QED
      BY <1>6, <1>13, <3>1
  <2>. QED
    BY <2>2, <2>3, <2>4 DEF BurstInv
<1>15. (n - l) + 1 < n /\ n - l \in Int
  BY <1>4, <1>5
<1>. QED
  BY <1>2, <1>6, <1>8, <1>9, <1>11, <1>13, <1>14, <1>15

\* The bounds of a connection's acks before and after one is expected.
LEMMA ExpectedFollows ==
    ASSUME NEW n \in Nat, n >= 2, NEW base \in Nat, NEW j \in 0..(n - 1), sting \in StingModes,
           NEW p \in Bounded, p.seq = Place(sting, j + 1, n, base), p.len = 1,
           NEW e, e = ExpectedAck(j, n, base, p), NEW limit \in Nat, limit = LimitAt(sting, j, n, base),
           NEW limit2 \in Nat, NEW under2 \in Nat,
           \/ j = n - 1 /\ limit2 = base + n /\ under2 = base + n
           \/ j < n - 1 /\ limit2 = LimitAt(sting, j + 1, n, base) /\ under2 = base
    PROVE  Follows(sting, e.ack, e.gobble, base + n, limit, base, limit2, under2)
<1>1. /\ e.ack \in Nat /\ e.gobble \in BOOLEAN
      /\ e.gobble <=> j < n - 1
      /\ e.gobble => e.ack < base + n
      /\ LimitAt(sting, j, n, base) <= e.ack
      /\ j < n - 1 => e.ack <= LimitAt(sting, j + 1, n, base)
      /\ e.ack <= base + n
      /\ sting = "simple" => e.ack = base
      /\ sting = "pshend" /\ ~ e.gobble => LimitAt(sting, j, n, base) < e.ack
  BY ExpectedIs
<1>2. sting = "pshend" /\ j = n - 1 => LimitAt(sting, j, n, base) = base + n - 1
  BY DEF LimitAt
<1>3. PICK a \in Nat : a = e.ack
  BY <1>1
<1>4. CASE j = n - 1
  <2>1. ~ e.gobble /\ limit <= a /\ a <= base + n /\ limit2 = base + n /\ under2 = base + n
    BY <1>1, <1>3, <1>4
  <2>2. sting = "simple" => a = base
    BY <1>1, <1>3
  <2>3. sting = "pshend" => limit < a /\ base + n <= a
    <3>1. sting = "pshend" => base + n - 1 < a /\ limit < a
      BY <1>1, <1>2, <1>3, <1>4
    <3>. QED
      BY <3>1
  <2>. QED
    BY <1>3, <2>1, <2>2, <2>3 DEF Follows
<1>5. CASE j < n - 1
  <2>1. e.gobble /\ limit <= a /\ a <= limit2 /\ a < base + n /\ under2 = base
    BY <1>1, <1>3, <1>5
  <2>2. sting = "simple" => a = base
    BY <1>1, <1>3
  <2>. QED
    BY <1>3, <2>1, <2>2 DEF Follows
<1>. QED
  BY <1>4, <1>5

LEMMA ExpectAckFlow ==
    ASSUME TypeInv, FlowInv, ExpectAck PROVE FlowInv'
<1>1. /\ burst # None /\ burst.shaped
      /\ burst' = IF Len(burst.todo) = 1 THEN None
                  ELSE [burst EXCEPT !.todo = Tail(@), !.shaped = FALSE]
      /\ UNCHANGED <<validate, shapeQ, timer, lan, line, ackQ, sent, acked, dups, got, fin, losses,
                     replied, sting>>
  BY DEF ExpectAck, hostVars, others
<1>2. PICK p \in Bounded, d \in Conns, n \in Nat, base \in Nat :
          /\ p = burst.todo[1] /\ d = p.c /\ n = burst.n /\ base = burst.base
          /\ n >= 2 /\ base + n <= MaxSeq /\ p.len = 1 /\ sent[d] = base + n
          /\ Done \in 0..(n - 1) /\ p.seq = Place(sting, Done + 1, n, base)
  BY <1>1, BurstIs DEF FlowInv
<1>3. PICK j \in 0..(n - 1) : j = Done /\ p.seq = Place(sting, j + 1, n, base)
  BY <1>2
<1>4. PICK e : e = ExpectedAck(j, n, base, p)
  OBVIOUS
<1>5. sting \in StingModes
  BY DEF TypeInv, Ends
<1>6. conn' = IF validate[HostOf[d]] = "resolved" THEN conn
              ELSE [conn EXCEPT ![d] = AddExpected(Rec(d), p, e)]
  BY <1>2, <1>3, <1>4 DEF ExpectAck, Rec, Done
<1>7. e.ack \in Nat /\ e.gobble \in BOOLEAN /\ e.extra \in Nat /\ (~ e.gobble => e.extra = 0)
  <2>1. n >= 2 /\ p.len = 1 /\ p.seq = Place(sting, j + 1, n, base)
    BY <1>2, <1>3
  <2>2. /\ e.ack \in Nat /\ e.gobble \in BOOLEAN /\ e.extra \in Nat
        /\ ~ e.gobble => e.extra = 0
    BY <1>4, <1>5, <2>1, ExpectedIs
  <2>. QED
    BY <2>2
<1>8. Loop(d) /\ \A c : c # d => ~ Loop(c)
  BY <1>1, <1>2 DEF Loop
<1>9. \/ burst' = None /\ j = n - 1
      \/ /\ burst' # None /\ burst'.n = n /\ burst'.base = base /\ ~ burst'.shaped
         /\ Done' = j + 1 /\ j < n - 1 /\ burst'.todo[1].c = d /\ BurstInv'
  <2>1. CASE Len(burst.todo) = 1
    BY <1>1, <1>2, <1>3, <2>1 DEF Done
  <2>2. CASE Len(burst.todo) # 1
    <3>1. /\ burst' # None /\ burst'.n = burst.n /\ burst'.base = burst.base /\ ~ burst'.shaped
          /\ Done' = Done + 1 /\ Done + 1 < burst.n /\ burst'.todo[1].c = burst.todo[1].c
          /\ BurstInv'
      <4>1. burst' = [burst EXCEPT !.todo = Tail(@), !.shaped = FALSE]
        BY <1>1, <2>2
      <4>. QED
        BY <1>1, <2>2, <4>1, NextSlice DEF FlowInv
    <3>. QED
      BY <1>2, <1>3, <3>1
  <2>. QED
    BY <2>1, <2>2
<1>10. BurstInv'
  BY <1>9 DEF BurstInv
<1>11. \A c : c # d => ~ Loop(c)'
  BY <1>9 DEF Loop
<1>12. AckInv' /\ IdleInv' /\ HomeInv'
  BY <1>1 DEF FlowInv, AckInv, Rightful, IdleInv, HomeInv
<1>13. conn \in [Conns -> Conn \cup {None}] /\ \A c \in Conns : c # d => conn'[c] = conn[c]
  <2>1. conn \in [Conns -> Conn \cup {None}]
    BY DEF TypeInv, Records
  <2>. QED
    BY <1>6, <2>1
<1>14. FreshInv'
  <2>1. validate[HostOf[d]] # "none"
    BY <1>1, <1>2 DEF FlowInv, BurstInv
  <2>. QED
    BY <1>1, <1>13, <2>1 DEF FlowInv, FreshInv
<1>15. TypeInv' /\ Views /\ Views'
  <2>1. TypeInv'
    BY ExpectAckTyped
  <2>. QED
    BY <1>12, <2>1, ViewsTyped, ViewsTypedNext DEF FlowInv
<1>16. ASSUME NEW c \in Conns PROVE QuietInv(c)'
  <2>1. Arrive(c)' = Arrive(c) /\ Coming(c)' = Coming(c) /\ (Quiet(c)' => Quiet(c))
    <3>1. got'[c] = got[c] /\ Way(HostOf[c])' = Way(HostOf[c]) /\ GivenOf(ackQ', c) = GivenOf(ackQ, c)
      BY <1>1 DEF Way, Hand
    <3>. QED
      BY <1>1, <3>1, SameArrives DEF Quiet
  <2>2. CASE c # d
    <3>1. ~ Loop(c) /\ ~ Loop(c)'
      BY <1>8, <1>11, <2>2
    <3>2. Rec(c)' = Rec(c)
      BY <1>13, <2>2 DEF Rec
    <3>3. sent'[c] = sent[c] /\ SeenAck(c)' = SeenAck(c) /\ SeenDups(c)' = SeenDups(c) /\ sting' = sting
      BY <1>1, SeenSame
    <3>. QED
      BY <2>1, <3>1, <3>2, <3>3, BurstElsewhere, QuietKept DEF FlowInv
  <2>3. CASE c = d
    <3>0. SeenAck(d)' = SeenAck(d) /\ SeenDups(d)' = SeenDups(d)
      BY <1>1, SeenSame
    <3>1. SUFFICES ASSUME Quiet(d)
          PROVE  Settled(sting, Arrive(d), Coming(d), Rec(d)', Extra(d)', SeenAck(d), SeenDups(d),
                         sent[d], Limit(d)', Under(d)', Reach(d)')
      BY <1>1, <2>1, <2>3, <3>0 DEF QuietInv
    <3>2. PICK r \in Conn, q \in Conn : r = Rec(d) /\ q = Rec(d)' /\ q = AddExpected(r, p, e)
      <4>1. Rec(d) \in Conn
        BY <1>15 DEF Views
      <4>2. AddExpected(Rec(d), p, e) \in Conn
        BY <1>7, <4>1, AddExpectedTyped
      <4>3. conn'[d] = AddExpected(Rec(d), p, e)
        BY <1>6, <1>13, <3>1 DEF Quiet
      <4>4. conn'[d] # None
        BY <4>2, <4>3, NoneAssumption
      <4>. QED
        BY <4>1, <4>2, <4>3, <4>4 DEF Rec
    <3>3. PICK A \in Within, K \in Counts, X \in Counts, Y \in Counts, k \in Nat, m \in Nat :
              /\ A = Arrive(d) /\ K = Coming(d) /\ X = Extra(d) /\ Y = Extra(d)'
              /\ k = SeenAck(d) /\ m = SeenDups(d)
      <4>1. Extra(d) \in Counts
        BY ExtraTyped
      <4>2. Extra(d)' \in Counts
        BY DEF Extra, Counts
      <4>. QED
        BY <1>15, <4>1, <4>2 DEF Views
    <3>4. PICK s \in 0..MaxSeq : s = sent[d] /\ s = base + n
      BY <1>2, <1>15 DEF Views
    <3>5. PICK limit \in Nat : limit = Limit(d) /\ limit = LimitAt(sting, j, n, base)
      BY <1>2, <1>3, <1>8 DEF Limit, LimitAt
    <3>6. Under(d) = base /\ Reach(d) = Placed(sting, j + 1, n, base)
      BY <1>1, <1>2, <1>3, <1>8 DEF Under, Reach, Shaped
    <3>7. OneAt(X, e.gobble, e.ack)
      <4>1. NextAck = e
        BY <1>2, <1>3, <1>4 DEF NextAck
      <4>. QED
        BY <1>1, <1>8, <3>3, <4>1 DEF OneAt, Extra
    <3>8. \A a \in Nat : Y[a] = 0
      BY <1>9, <3>3 DEF Extra, Loop
    <3>9. PICK limit2 \in Nat, under2 \in Nat :
              /\ limit2 = Limit(d)' /\ under2 = Under(d)' /\ Reach(d)' = Placed(sting, j + 1, n, base)
              /\ \/ j = n - 1 /\ limit2 = base + n /\ under2 = base + n
                 \/ j < n - 1 /\ limit2 = LimitAt(sting, j + 1, n, base) /\ under2 = base
      <4>1. CASE burst' = None /\ j = n - 1
        <5>1. ~ Loop(d)'
          BY <4>1 DEF Loop
        <5>2. Limit(d)' = base + n /\ Under(d)' = base + n /\ Reach(d)' = 0..(base + n - 1)
          BY <1>1, <1>2, <5>1 DEF Limit, Under, Reach
        <5>3. Placed(sting, n, n, base) = 0..(base + n - 1)
          BY <1>2, <1>5, PlacedAll
        <5>4. j + 1 = n /\ base + n \in Nat
          BY <4>1
        <5>. QED
          BY <4>1, <5>2, <5>3, <5>4
      <4>2. CASE /\ burst' # None /\ burst'.n = n /\ burst'.base = base /\ ~ burst'.shaped
                 /\ Done' = j + 1 /\ j < n - 1 /\ burst'.todo[1].c = d
        <5>1. Loop(d)' /\ Shaped' = j + 1
          BY <4>2 DEF Loop, Shaped
        <5>2. /\ Limit(d)' = LimitAt(sting, j + 1, n, base) /\ Under(d)' = base
              /\ Reach(d)' = Placed(sting, j + 1, n, base)
          BY <1>1, <4>2, <5>1 DEF Limit, Under, Reach
        <5>3. LimitAt(sting, j + 1, n, base) \in Nat
          BY <1>2 DEF LimitAt
        <5>. QED
          BY <4>2, <5>2, <5>3
      <4>. QED
        BY <1>9, <4>1, <4>2
    <3>10. Settled(sting, A, K, r, X, k, m, s, limit, base, Reach(d))
      BY <3>1, <3>2, <3>3, <3>4, <3>5, <3>6 DEF FlowInv, QuietInv
    <3>11. Follows(sting, e.ack, e.gobble, base + n, limit, base, limit2, under2)
      BY <1>2, <1>3, <1>4, <1>5, <3>5, <3>9, ExpectedFollows, Zenon
    <3>12. Lengthened(r, q, e.ack, e.gobble)
      <4>1. AcksOK(r, s, limit)
        BY <3>10 DEF Settled, EntryOK
      <4>2. limit <= e.ack
        BY <3>11 DEF Follows
      <4>. QED
        BY <1>7, <3>2, <4>1, <4>2, Lengthens
    <3>13. PICK ack \in Nat, gobble \in BOOLEAN : ack = e.ack /\ gobble = e.gobble
      BY <1>7
    <3>14. Settled(sting, A, K, q, Y, k, m, s, limit2, under2, Reach(d))
      <4>1. /\ OneAt(X, gobble, ack) /\ Lengthened(r, q, ack, gobble)
            /\ Follows(sting, ack, gobble, s, limit, base, limit2, under2)
        BY <3>4, <3>7, <3>11, <3>12, <3>13
      <4>. QED
        BY <3>8, <3>10, <4>1, ExpectedSettles
    <3>. QED
      BY <3>2, <3>3, <3>4, <3>6, <3>9, <3>14
  <2>. QED
    BY <2>2, <2>3
<1>. QED
  BY <1>10, <1>12, <1>14, <1>16 DEF FlowInv

-----------------------------------------------------------------------------
(* Packets of the senders.                                                 *)

\* d sends p: new data, which its sender has not sent before unless a connection to a
\* monitored host lost some, or no data at all.
Sends(p, d) ==
    /\ p.c = d /\ (p.kind = "flag" => p.len = 0) /\ burst = None
    /\ UNCHANGED <<timer, lan, acked, dups, got, fin, losses, replied, sting>>
    /\ \A c \in Conns : c # d => sent'[c] = sent[c]
    /\ IF p.len = 0 THEN sent'[d] = sent[d]
       ELSE sent'[d] = p.seq + p.len /\ (Quiet(d) => p.seq = sent[d])

LEMMA SameEntries ==
    ASSUME NEW mode, NEW A, NEW K, NEW r, NEW q, q.open = r.open, q.matched = r.matched, NEW X,
           NEW k, NEW d, NEW n, NEW limit, NEW under, NEW reach,
           Settled(mode, A, K, r, X, k, d, n, limit, under, reach)
    PROVE  Settled(mode, A, K, q, X, k, d, n, limit, under, reach)
  BY DEF Settled, EntryOK, AcksOK

LEMMA NoLoop ==
    ASSUME burst = None PROVE \A c : ~ Loop(c)
  BY DEF Loop

\* A packet for a host that is not monitored any more.
LEMMA ResolvedFlow ==
    ASSUME TypeInv, FlowInv, NEW d \in Conns, NEW p \in Bounded, Sends(p, d),
           validate[HostOf[d]] = "resolved", UNCHANGED <<validate, conn, burst, ackQ>>,
           HomeInv', \A g \in Hosts : g # HostOf[d] => Way(g)' = Way(g)
    PROVE  FlowInv'
<1>1. /\ burst = None /\ UNCHANGED <<timer, lan, acked, dups, got, fin, losses, replied, sting>>
      /\ \A c \in Conns : c # d => sent'[c] = sent[c]
  BY DEF Sends
<1>2. BurstInv' /\ IdleInv' /\ FreshInv' /\ AckInv'
  BY <1>1 DEF FlowInv, BurstInv, IdleInv, FreshInv, AckInv, Rightful
<1>3. ASSUME NEW c \in Conns PROVE QuietInv(c)'
  <2>1. CASE HostOf[c] = HostOf[d]
    BY <2>1 DEF QuietInv, Quiet
  <2>2. CASE HostOf[c] # HostOf[d]
    <3>1. c # d /\ Way(HostOf[c])' = Way(HostOf[c])
      BY <2>2, Numbers
    <3>2. Arrive(c)' = Arrive(c) /\ Coming(c)' = Coming(c)
      <4>1. got'[c] = got[c] /\ GivenOf(ackQ', c) = GivenOf(ackQ, c)
        BY <1>1
      <4>. QED
        BY <3>1, <4>1, SameArrives
    <3>3. Rec(c)' = Rec(c) /\ (Quiet(c)' => Quiet(c))
      BY <1>1 DEF Rec, Quiet
    <3>4. ~ Loop(c) /\ ~ Loop(c)'
      BY <1>1 DEF Loop
    <3>5. sent'[c] = sent[c] /\ SeenAck(c)' = SeenAck(c) /\ SeenDups(c)' = SeenDups(c) /\ sting' = sting
      BY <1>1, <3>1, SeenSame
    <3>. QED
      BY <3>2, <3>3, <3>4, <3>5, BurstElsewhere, QuietKept DEF FlowInv
  <2>. QED
    BY <2>1, <2>2
<1>. QED
  BY <1>2, <1>3 DEF FlowInv

\* A packet that is shaped as it is.
LEMMA PushedFlow ==
    ASSUME TypeInv, TypeInv', FlowInv, NEW d \in Conns, NEW p \in Bounded, Sends(p, d),
           validate[HostOf[d]] # "resolved",
           validate' = [validate EXCEPT ![HostOf[d]] = "ripps"],
           Shape(HostOf[d], p, FALSE), UNCHANGED <<burst, ackQ, line>>,
           \A c \in Conns : c # d => conn'[c] = conn[c],
           Rec(d)'.open = Rec(d).open, Rec(d)'.matched = Rec(d).matched
    PROVE  FlowInv'
<1>1. /\ p.c = d /\ burst = None /\ UNCHANGED <<timer, lan, acked, dups, got, fin, losses, replied, sting>>
      /\ \A c \in Conns : c # d => sent'[c] = sent[c]
  BY DEF Sends
<1>2. PICK h \in Hosts : h = HostOf[d]
  BY Numbers
<1>3. HomeInv' /\ Way(h)' = Append(Way(h), p) /\ \A g \in Hosts : g # h => Way(g)' = Way(g)
  <2>1. p \in Homed(h)
    BY <1>1, <1>2 DEF Homed
  <2>. QED
    BY <1>1, <1>2, <2>1, ShapePushes DEF TypeInv, FlowInv
<1>4. validate \in [Hosts -> {"none", "ripps", "resolved"}]
  BY DEF TypeInv, Records
<1>5. BurstInv' /\ IdleInv' /\ AckInv'
  BY <1>1 DEF FlowInv, BurstInv, IdleInv, AckInv, Rightful
<1>6. FreshInv'
  <2>1. SUFFICES ASSUME NEW c \in Conns, validate'[HostOf[c]] = "none" PROVE conn'[c] = None
    BY DEF FreshInv
  <2>2. HostOf[c] \in Hosts
    BY Numbers
  <2>3. HostOf[c] # HostOf[d] /\ validate[HostOf[c]] = "none"
    BY <1>4, <2>1, <2>2
  <2>. QED
    BY <2>3 DEF FlowInv, FreshInv
<1>7. Views /\ Views'
  BY <1>3, ViewsTyped, ViewsTypedNext DEF FlowInv
<1>8. ASSUME NEW c \in Conns PROVE WayGrows(Arrive(c), Arrive(c)', Coming(c), Coming(c)', p, c)
  BY <1>1, <1>2, <1>3, <1>7, Pushes
<1>9. \A c \in Conns : Quiet(c)' => Quiet(c)
  <2>1. SUFFICES ASSUME NEW c \in Conns, Quiet(c)' PROVE Quiet(c)
    OBVIOUS
  <2>2. HostOf[c] \in Hosts
    BY Numbers
  <2>. QED
    BY <1>1, <1>4, <2>1, <2>2 DEF Quiet
<1>10. \A c : ~ Loop(c) /\ ~ Loop(c)'
  BY <1>1 DEF Loop
<1>11. ASSUME NEW c \in Conns PROVE QuietInv(c)'
  <2>1. CASE c # d
    <3>1. Arrive(c)' = Arrive(c) /\ Coming(c)' = Coming(c)
      BY <1>1, <1>8, <2>1 DEF WayGrows
    <3>2. Rec(c)' = Rec(c) /\ sent'[c] = sent[c] /\ SeenAck(c)' = SeenAck(c) /\ SeenDups(c)' = SeenDups(c)
      BY <1>1, <2>1, SeenSame DEF Rec
    <3>. QED
      BY <1>1, <1>9, <1>10, <3>1, <3>2, BurstElsewhere, QuietKept DEF FlowInv
  <2>2. CASE c = d
    <3>1. /\ Limit(d) = sent[d] /\ Under(d) = sent[d] /\ Reach(d) = 0..(sent[d] - 1)
          /\ \A a \in Nat : Extra(d)[a] = 0
      BY <1>10, NotLooping
    <3>2. /\ Limit(d)' = sent'[d] /\ Under(d)' = sent'[d] /\ Reach(d)' = 0..(sent'[d] - 1)
          /\ \A a \in Nat : Extra(d)'[a] = 0
      BY <1>10 DEF Limit, Under, Reach, Extra
    <3>3. Extra(d)' = Extra(d)
      BY <1>10 DEF Extra
    <3>0. SeenAck(d)' = SeenAck(d) /\ SeenDups(d)' = SeenDups(d)
      BY <1>1, SeenSame
    <3>4. SUFFICES ASSUME Quiet(d)
          PROVE  Settled(sting, Arrive(d)', Coming(d)', Rec(d)', Extra(d), SeenAck(d), SeenDups(d),
                         sent'[d], sent'[d], sent'[d], 0..(sent'[d] - 1))
      BY <1>1, <1>9, <2>2, <3>0, <3>2, <3>3 DEF QuietInv
    <3>5. PICK A \in Within, B \in Within, K \in Counts, L \in Counts, r \in Conn, X \in Counts,
               k \in Nat, m \in Nat, n \in 0..MaxSeq :
              /\ A = Arrive(d) /\ B = Arrive(d)' /\ K = Coming(d) /\ L = Coming(d)'
              /\ r = Rec(d) /\ X = Extra(d) /\ k = SeenAck(d) /\ m = SeenDups(d) /\ n = sent[d]
      <4>1. Extra(d) \in Counts
        BY ExtraTyped
      <4>. QED
        BY <1>7, <4>1 DEF Views
    <3>6. Settled(sting, A, K, r, X, k, m, n, n, n, 0..(n - 1))
      BY <3>1, <3>4, <3>5 DEF FlowInv, QuietInv
    <3>7. WayGrows(A, B, K, L, p, d)
      BY <1>8, <3>5
    <3>8. PICK n2 \in 0..MaxSeq : n2 = sent'[d]
      BY DEF TypeInv, Ends
    <3>9. Settled(sting, B, L, r, X, k, m, n2, n2, n2, 0..(n2 - 1))
      <4>1. CASE p.len = 0
        <5>1. L = K /\ B = A \cup Slots(p)
          BY <1>1, <3>7, <4>1 DEF WayGrows
        <5>2. Slots(p) = {}
          <6>1. PICK x \in Nat : x = p.seq
            BY BoundedPacket
          <6>2. Slots(p) = x..(x + 0 - 1)
            BY <4>1, <6>1 DEF Slots
          <6>. QED
            BY <6>2
        <5>3. n2 = n
          BY <3>5, <3>8, <4>1 DEF Sends
        <5>. QED
          BY <3>6, <5>1, <5>2, <5>3
      <4>2. CASE p.len # 0
        <5>1. PICK l \in Nat : l = p.len /\ l > 0
          BY <4>2, BoundedPacket
        <5>2. p.seq = n /\ n2 = n + l
          BY <3>4, <3>5, <3>8, <4>2, <5>1 DEF Sends
        <5>3. A = 0..(n - 1)
          BY <3>6 DEF Settled
        <5>4. AddsOne(K, L, NextMissing(B)) /\ B = A \cup Slots(p)
          BY <1>1, <3>7, <5>1 DEF WayGrows
        <5>5. n \in Nat /\ n2 \in Nat /\ n < n2 /\ n <= n2
          BY <5>1, <5>2, Numbers
        <5>6. B = 0..(n2 - 1)
          <6>1. Slots(p) = n..(n2 - 1)
            BY <5>1, <5>2 DEF Slots
          <6>2. 0..(n2 - 1) = 0..(n - 1) \cup n..(n2 - 1)
            BY <5>5
          <6>. QED
            BY <5>3, <5>4, <6>1, <6>2
        <5>7. NextMissing(B) > NextMissing(A)
          <6>1. NextMissing(0..(n - 1)) = n /\ NextMissing(0..(n2 - 1)) = n2
            BY MissingFull
          <6>. QED
            BY <5>3, <5>5, <5>6, <6>1
        <5>8. Grown(X, X) /\ Room(A, X, X, NextMissing(B))
          <6>1. \A a \in Nat : X[a] \in Nat
            BY DEF Counts
          <6>. QED
            BY <5>7, <6>1 DEF Grown, Room
        <5>9. EntryOK(sting, r, k, m, n2, n2, n2)
          <6>1. EntryOK(sting, r, k, m, n, n, n)
            BY <3>6 DEF Settled
          <6>. QED
            BY <5>5, <6>1, EntryWider
        <5>10. A \subseteq B
          BY <5>4
        <5>11. Settled(sting, B, L, r, X, k, m, n2, n2, n2, B)
          BY <3>6, <5>4, <5>8, <5>9, <5>10, AskedSettles
        <5>. QED
          BY <5>6, <5>11
      <4>. QED
        BY <4>1, <4>2
    <3>10. Settled(sting, B, L, Rec(d)', X, k, m, n2, n2, n2, 0..(n2 - 1))
      BY <3>5, <3>9, SameEntries
    <3>. QED
      BY <3>5, <3>8, <3>10
  <2>. QED
    BY <2>1, <2>2
<1>. QED
  BY <1>3, <1>5, <1>6, <1>11 DEF FlowInv

\* The loop over the slices of a packet begins: none of them is shaped yet.
LEMMA CutFlow ==
    ASSUME TypeInv, TypeInv', FlowInv, NEW d \in Conns, NEW p \in Bounded, Sends(p, d),
           p.kind = "data", p.len >= 2, validate[HostOf[d]] # "resolved",
           validate' = [validate EXCEPT ![HostOf[d]] = "ripps"],
           burst' = [base |-> p.seq, n |-> p.len, shaped |-> FALSE,
                     todo |-> StingOrder(Slices(p))],
           \E seqs : ackQ' = StampedAfter(ackQ, d, seqs),
           UNCHANGED <<shapeQ, conn, line>>
    PROVE  FlowInv'
<1>1. /\ p.c = d /\ burst = None /\ UNCHANGED <<timer, lan, acked, dups, got, fin, losses, replied, sting>>
      /\ \A c \in Conns : c # d => sent'[c] = sent[c]
      /\ sent'[d] = p.seq + p.len /\ (Quiet(d) => p.seq = sent[d])
  BY BoundedPacket DEF Sends
<1>2. PICK n \in Nat, base \in Nat : n = p.len /\ base = p.seq /\ n >= 2 /\ base + n <= MaxSeq
  BY BoundedPacket
<1>3. sting \in StingModes
  BY DEF TypeInv, Ends
<1>4. PICK todo : todo = StingOrder(Slices(p))
  OBVIOUS
<1>5. Len(todo) = n /\ \A i \in 1..n : todo[i] = SliceAt(p, Place(sting, i, n, base))
  BY <1>2, <1>3, <1>4, SlicesPlaced
<1>6. burst'.base = base /\ burst'.n = n /\ burst'.shaped = FALSE /\ burst'.todo = todo
  BY <1>2, <1>4
<1>7. burst' # None
  <2>1. burst' \in Bursts \cup {None}
    BY DEF TypeInv, Queues
  <2>2. burst' \in Bursts
    <3>1. PICK slices \in Seq(Bounded) : slices = Slices(p) /\ Len(slices) = n
      BY <1>2, SlicesProperties
    <3>2. slices # <<>>
      BY <1>2, <3>1
    <3>3. todo \in Seq(Bounded) \ {<<>>}
      BY <1>4, <3>1, <3>2, OrderProperties
    <3>4. n \in Nat \ {0}
      BY <1>2
    <3>. QED
      BY <1>2, <1>4, <3>3, <3>4 DEF Bursts
  <2>. QED
    BY <2>2, NoBurst
<1>8. ASSUME NEW i \in 1..n
      PROVE  todo[i] = [c |-> d, kind |-> "data", seq |-> Place(sting, i, n, base), len |-> 1]
  <2>1. todo[i] = SliceAt(p, Place(sting, i, n, base))
    BY <1>5
  <2>2. p \in Packet
    BY DEF Bounded
  <2>. QED
    BY <1>1, <2>1, <2>2 DEF SliceAt, Packet
<1>9. todo[1].c = d
  <2>1. 1 \in 1..n
    BY <1>2
  <2>2. todo[1] = [c |-> d, kind |-> "data", seq |-> Place(sting, 1, n, base), len |-> 1]
    BY <1>8, <2>1
  <2>. QED
    BY <2>2
<1>10. Done' = 0 /\ Shaped' = 0
  BY <1>2, <1>5, <1>6 DEF Done, Shaped
<1>11. validate \in [Hosts -> {"none", "ripps", "resolved"}]
  BY DEF TypeInv, Records
<1>12. BurstInv'
  <2>1. \A i \in 1..Len(burst'.todo) :
            burst'.todo[i] = [c |-> burst'.todo[1].c, kind |-> "data",
                              seq |-> Place(sting', Done' + i, burst'.n, burst'.base), len |-> 1]
    <3>1. SUFFICES ASSUME NEW i \in 1..n
                   PROVE  todo[i] = [c |-> todo[1].c, kind |-> "data",
                                     seq |-> Place(sting, 0 + i, n, base), len |-> 1]
      BY <1>1, <1>5, <1>6, <1>10
    <3>2. 0 + i = i
      OBVIOUS
    <3>. QED
      BY <1>8, <1>9, <3>2
  <2>2. validate'[HostOf[d]] = "ripps"
    BY <1>11, Numbers
  <2>3. Len(burst'.todo) \in 1..n
    BY <1>2, <1>5, <1>6
  <2>. QED
    BY <1>1, <1>2, <1>6, <1>9, <2>1, <2>2, <2>3 DEF BurstInv
<1>13. AckInv' /\ \A c : GivenOf(ackQ', c) = GivenOf(ackQ, c)
  BY <1>1, StampedFlow DEF TypeInv, FlowInv
<1>14. IdleInv' /\ HomeInv'
  BY <1>1 DEF FlowInv, IdleInv, HomeInv
<1>15. FreshInv'
  <2>1. SUFFICES ASSUME NEW c \in Conns, validate'[HostOf[c]] = "none" PROVE conn'[c] = None
    BY DEF FreshInv
  <2>2. HostOf[c] \in Hosts
    BY Numbers
  <2>3. validate[HostOf[c]] = "none"
    BY <1>11, <2>1, <2>2
  <2>. QED
    BY <2>3 DEF FlowInv, FreshInv
<1>16. Views /\ Views'
  BY <1>14, ViewsTyped, ViewsTypedNext DEF FlowInv
<1>17. \A c \in Conns : Quiet(c)' => Quiet(c)
  <2>1. SUFFICES ASSUME NEW c \in Conns, Quiet(c)' PROVE Quiet(c)
    OBVIOUS
  <2>2. HostOf[c] \in Hosts
    BY Numbers
  <2>. QED
    BY <1>1, <1>11, <2>1, <2>2 DEF Quiet
<1>18. ASSUME NEW c \in Conns PROVE QuietInv(c)'
  <2>1. Arrive(c)' = Arrive(c) /\ Coming(c)' = Coming(c) /\ Rec(c)' = Rec(c)
    <3>1. got'[c] = got[c] /\ Way(HostOf[c])' = Way(HostOf[c])
      BY <1>1 DEF Way, Hand
    <3>2. Rec(c)' = Rec(c)
      BY DEF Rec
    <3>. QED
      BY <1>13, <3>1, <3>2, SameArrives
  <2>2. ~ Loop(c) /\ (c # d => ~ Loop(c)')
    BY <1>1, <1>6, <1>9 DEF Loop
  <2>3. CASE c # d
    <3>1. sent'[c] = sent[c] /\ SeenAck(c)' = SeenAck(c) /\ SeenDups(c)' = SeenDups(c)
      BY <1>1, <2>3, SeenSame
    <3>. QED
      BY <1>1, <1>17, <2>1, <2>2, <2>3, <3>1, BurstElsewhere, QuietKept DEF FlowInv
  <2>4. CASE c = d
    <3>0. SeenAck(d)' = SeenAck(d) /\ SeenDups(d)' = SeenDups(d)
      BY <1>1, SeenSame
    <3>1. SUFFICES ASSUME Quiet(d)
          PROVE  Settled(sting, Arrive(d), Coming(d), Rec(d), Extra(d)', SeenAck(d), SeenDups(d),
                         sent'[d], Limit(d)', Under(d)', Reach(d)')
      BY <1>1, <1>17, <2>1, <2>4, <3>0 DEF QuietInv
    <3>2. Loop(d)'
      BY <1>6, <1>7, <1>9 DEF Loop
    <3>3. Limit(d)' = base /\ Under(d)' = base /\ Reach(d)' = 0..(base - 1)
      <4>1. LimitAt(sting, 0, n, base) = base
        BY <1>2 DEF LimitAt
      <4>2. Placed(sting, 0, n, base) = 0..(base - 1)
        BY <1>2, <1>3, PlacedAll
      <4>. QED
        BY <1>1, <1>6, <1>10, <3>2, <4>1, <4>2 DEF Limit, Under, Reach
    <3>4. \A a \in Nat : Extra(d)'[a] = 0
      BY <1>6 DEF Extra
    <3>5. PICK A \in Within, K \in Counts, r \in Conn, S \in Counts, X \in Counts, Y \in Counts,
               k \in Nat, m \in Nat :
              /\ A = Arrive(d) /\ K = Coming(d) /\ r = Rec(d) /\ S = SwallowsAt(r.open)
              /\ X = Extra(d) /\ Y = Extra(d)' /\ k = SeenAck(d) /\ m = SeenDups(d)
      <4>1. Extra(d) \in Counts
        BY ExtraTyped
      <4>2. Extra(d)' \in Counts
        BY DEF Extra, Counts
      <4>. QED
        BY <1>16, <4>1, <4>2 DEF Views
    <3>6. /\ sent[d] = base /\ sent'[d] = base + n
          /\ Limit(d) = base /\ Under(d) = base /\ Reach(d) = 0..(base - 1)
          /\ \A a \in Nat : X[a] = 0
      <4>1. sent[d] = base /\ sent'[d] = base + n
        BY <1>1, <1>2, <3>1
      <4>2. /\ Limit(d) = sent[d] /\ Under(d) = sent[d] /\ Reach(d) = 0..(sent[d] - 1)
            /\ \A a \in Nat : Extra(d)[a] = 0
        BY <2>2, <2>4, NotLooping
      <4>. QED
        BY <3>5, <4>1, <4>2
    <3>7. Settled(sting, A, K, r, X, k, m, base, base, base, 0..(base - 1))
      BY <3>1, <3>5, <3>6 DEF FlowInv, QuietInv
    <3>8. DupOK(K, S, Y, k, m)
      <4>1. DupOK(K, S, X, k, m)
        BY <3>5, <3>7 DEF Settled
      <4>2. \A a \in Nat : S[a] + X[a] <= S[a] + Y[a]
        <5>1. \A a \in Nat : S[a] \in Nat /\ X[a] = 0 /\ Y[a] = 0
          BY <3>4, <3>5, <3>6 DEF Counts
        <5>. QED
          BY <5>1
      <4>. QED
        BY <4>1, <4>2, DupExpected
    <3>9. EntryOK(sting, r, k, m, base + n, base, base)
      <4>1. EntryOK(sting, r, k, m, base, base, base)
        BY <3>7 DEF Settled
      <4>2. PICK s \in Nat : s = base + n /\ base <= s /\ base <= base
        OBVIOUS
      <4>. QED
        BY <4>1, <4>2, EntryWider
    <3>10. LastOK(A, K, k, base + n)
      <4>1. A = 0..(base - 1)
        BY <3>7 DEF Settled
      <4>2. base \in 0..((base + n) - 1) /\ base \notin 0..(base - 1)
        BY <1>2
      <4>. QED
        BY <4>1, <4>2 DEF LastOK
    <3>11. Settled(sting, A, K, r, Y, k, m, base + n, base, base, 0..(base - 1))
      BY <3>5, <3>7, <3>8, <3>9, <3>10 DEF Settled
    <3>. QED
      BY <3>3, <3>5, <3>6, <3>11
  <2>. QED
    BY <2>3, <2>4
<1>. QED
  BY <1>12, <1>13, <1>14, <1>15, <1>18 DEF FlowInv

LEMMA ProcessPacketFlow ==
    ASSUME TypeInv, TypeInv', FlowInv, NEW d \in Conns, NEW p \in Bounded, Sends(p, d),
           ProcessPacketWAN(p)
    PROVE  FlowInv'
<1>1. p.c = d /\ timer' = timer /\ p.len \in Nat /\ p.kind \in {"data", "flag"} /\ burst = None
  BY BoundedPacket DEF Sends, Packet
<1>2. PICK h \in Hosts : h = HostOf[d]
  BY Numbers
<1>3. p \in Homed(h)
  BY <1>1, <1>2 DEF Homed
<1>4. Queues /\ HomeInv /\ conn \in [Conns -> Conn \cup {None}]
  BY DEF TypeInv, Records, FlowInv
<1>5. CASE validate[h] = "resolved"
  <2>1. UNCHANGED <<validate, conn, burst, ackQ>>
    BY <1>1, <1>2, <1>5 DEF ProcessPacketWAN
  <2>2. CASE shapeQ[h] # <<>>
    <3>1. Shape(h, p, TRUE) /\ line' = line
      BY <1>1, <1>2, <1>5, <2>2 DEF ProcessPacketWAN
    <3>2. HomeInv' /\ \A g \in Hosts : g # h => Way(g)' = Way(g)
      BY <1>1, <1>3, <1>4, <3>1, ShapePushes
    <3>. QED
      BY <1>2, <1>5, <2>1, <3>2, ResolvedFlow
  <2>3. CASE shapeQ[h] = <<>>
    <3>1. line' = [line EXCEPT ![h] = Append(@, p)] /\ shapeQ' = shapeQ
      BY <1>1, <1>2, <1>5, <2>3 DEF ProcessPacketWAN
    <3>2. line \in [Hosts -> Seq(Bounded)]
      BY <1>4 DEF Queues
    <3>3. \A g \in Hosts : g # h => line'[g] = line[g]
      BY <3>1, <3>2
    <3>4. \A g \in Hosts : g # h => Way(g)' = Way(g)
      BY <1>1, <3>1, <3>3 DEF Way, Hand
    <3>5. line'[h] \in Seq(Homed(h))
      <4>1. line[h] \in Seq(Homed(h))
        BY <1>4 DEF HomeInv
      <4>2. Append(line[h], p) \in Seq(Homed(h))
        BY <1>3, <4>1, PutBack
      <4>. QED
        BY <3>1, <3>2, <4>2
    <3>6. HomeInv'
      <4>1. \A g \in Hosts : line'[g] \in Seq(Homed(g))
        BY <1>4, <3>3, <3>5 DEF HomeInv
      <4>. QED
        BY <1>1, <1>4, <3>1, <4>1 DEF HomeInv
    <3>. QED
      BY <1>2, <1>5, <2>1, <3>4, <3>6, ResolvedFlow
  <2>. QED
    BY <2>2, <2>3
<1>6. CASE validate[h] # "resolved"
  <2>1. validate' = [validate EXCEPT ![h] = "ripps"] /\ SlicePacket(h, p) /\ line' = line
    BY <1>1, <1>2, <1>6 DEF ProcessPacketWAN
  <2>2. CASE p.kind # "flag" /\ IsRetransmission(conn[d], p)
    <3>1. /\ Shape(h, p, FALSE) /\ UNCHANGED <<burst, ackQ>>
          /\ conn' = [conn EXCEPT ![d] = NoteRetransmission(@, p)]
      BY <1>1, <2>1, <2>2 DEF SlicePacket
    <3>2. \A c \in Conns : c # d => conn'[c] = conn[c]
      BY <1>4, <3>1
    <3>3. PICK r \in Conn : r = conn[d]
      BY <1>4, <2>2 DEF IsRetransmission
    <3>4. PICK q \in Conn : q = [r EXCEPT !.rt = @ \cup {p.seq + p.len}]
      <4>1. PICK x \in Nat : x = p.seq + p.len
        BY BoundedPacket
      <4>. QED
        BY <4>1 DEF Conn
    <3>5. q.open = r.open /\ q.matched = r.matched
      BY <3>4 DEF Conn
    <3>6. Rec(d) = r /\ Rec(d)' = q
      <4>1. conn'[d] = q
        BY <1>4, <3>1, <3>3, <3>4 DEF NoteRetransmission
      <4>. QED
        BY <3>3, <4>1, NoneAssumption DEF Rec
    <3>. QED
      BY <1>2, <1>6, <2>1, <3>1, <3>2, <3>5, <3>6, PushedFlow
  <2>3. CASE ~ (p.kind # "flag" /\ IsRetransmission(conn[d], p)) /\ (p.kind = "flag" \/ p.len <= 1)
    <3>1. Shape(h, p, FALSE) /\ UNCHANGED <<conn, burst, ackQ>>
      BY <1>1, <2>1, <2>3 DEF SlicePacket
    <3>2. Rec(d)' = Rec(d) /\ \A c \in Conns : conn'[c] = conn[c]
      BY <3>1 DEF Rec
    <3>. QED
      BY <1>2, <1>6, <2>1, <3>1, <3>2, PushedFlow
  <2>4. CASE p.kind # "flag" /\ ~ IsRetransmission(conn[d], p) /\ ~ (p.len <= 1)
    <3>1. /\ burst' = [base |-> p.seq, n |-> p.len, shaped |-> FALSE,
                       todo |-> StingOrder(Slices(p))]
          /\ ackQ' = StampedAfter(ackQ, d, p.seq..(p.seq + p.len - 1))
          /\ UNCHANGED <<shapeQ, conn>>
      BY <1>1, <2>1, <2>4 DEF SlicePacket
    <3>2. p.kind = "data" /\ p.len >= 2
      BY <1>1, <2>4
    <3>3. \E seqs : ackQ' = StampedAfter(ackQ, d, seqs)
      BY <3>1
    <3>. QED
      BY <1>2, <1>6, <2>1, <3>1, <3>2, <3>3, CutFlow
  <2>. QED
    BY <2>2, <2>3, <2>4
<1>. QED
  BY <1>5, <1>6

\* While nothing was lost a sender has no reason to send again what is acknowledged:
\* its monitored host keeps no ack back but those that are swallowed.
LEMMA SenderFlow ==
    ASSUME TypeInv, FlowInv, NEW d \in Conns,
           \/ \E n \in Sizes[d] : Send(d, n)
           \/ \E kind \in {"data", "flag"} : SendControl(d, kind)
           \/ Retransmit(d)
    PROVE  FlowInv'
<1>1. TypeInv' /\ sent \in [Conns -> 0..MaxSeq] /\ acked \in [Conns -> Nat] /\ MaxSeq \in Nat
      /\ Sizes[d] \subseteq Nat \ {0}
  BY SendTyped, Numbers DEF TypeInv, Ends
<1>2. CASE \E n \in Sizes[d] : Send(d, n)
  <2>1. PICK n \in Sizes[d] : Send(d, n)
    BY <1>2
  <2>2. PICK p \in Bounded : p = [c |-> d, kind |-> "data", seq |-> sent[d], len |-> n]
    BY <2>1, SendersPacket
  <2>3. ProcessPacketWAN(p) /\ burst = None /\ UNCHANGED <<timer, lan>>
    BY <2>1, <2>2 DEF Send, ProcessPacketWAN
  <2>4. /\ p.c = d /\ p.kind = "data" /\ p.seq = sent[d] /\ p.len = n /\ n # 0
        /\ sent' = [sent EXCEPT ![d] = @ + n]
        /\ UNCHANGED <<lan, acked, dups, got, fin, losses, replied, sting>>
    BY <1>1, <2>1, <2>2, <2>3 DEF Send
  <2>5. sent'[d] = p.seq + p.len /\ \A c \in Conns : c # d => sent'[c] = sent[c]
    BY <1>1, <2>4
  <2>6. Sends(p, d)
    BY <2>3, <2>4, <2>5 DEF Sends
  <2>. QED
    BY <1>1, <2>3, <2>6, ProcessPacketFlow
<1>3. CASE \E kind \in {"data", "flag"} : SendControl(d, kind)
  <2>1. PICK kind \in {"data", "flag"} : SendControl(d, kind)
    BY <1>3
  <2>2. PICK p \in Bounded : p = [c |-> d, kind |-> kind, seq |-> sent[d], len |-> 0]
    BY <2>1, SendersPacket
  <2>3. ProcessPacketWAN(p) /\ burst = None /\ UNCHANGED <<timer, lan>>
    BY <2>1, <2>2 DEF SendControl, ProcessPacketWAN
  <2>4. /\ p.c = d /\ p.len = 0 /\ UNCHANGED <<lan, sent, acked, dups, got, fin, losses, replied, sting>>
    BY <2>1, <2>2, <2>3 DEF SendControl
  <2>5. Sends(p, d)
    BY <2>3, <2>4 DEF Sends
  <2>. QED
    BY <1>1, <2>3, <2>5, ProcessPacketFlow
<1>4. CASE Retransmit(d)
  <2>1. PICK p \in Bounded : p = [c |-> d, kind |-> "data", seq |-> acked[d], len |-> sent[d] - acked[d]]
    BY <1>4, SendersPacket
  <2>2. ProcessPacketWAN(p) /\ burst = None /\ UNCHANGED <<timer, lan>>
    BY <1>4, <2>1 DEF Retransmit, ProcessPacketWAN
  <2>3. /\ acked[d] < sent[d] /\ ~ InFlight(d)
        /\ UNCHANGED <<lan, sent, acked, dups, got, fin, losses, replied, sting>>
    BY <1>4, <2>2 DEF Retransmit, others
  <2>4. p.c = d /\ p.kind = "data" /\ p.seq = acked[d] /\ p.len = sent[d] - acked[d]
    BY <2>1
  <2>5. sent'[d] = p.seq + p.len /\ p.len # 0
    BY <1>1, <2>3, <2>4
  <2>6. ~ Quiet(d)
    <3>1. SUFFICES ASSUME Quiet(d) PROVE FALSE
      OBVIOUS
    <3>2. acked[d] = sent[d]
      BY <2>3, <3>1, AllSeen
    <3>. QED
      BY <1>1, <2>3, <3>2
  <2>7. Sends(p, d)
    BY <2>2, <2>3, <2>4, <2>5, <2>6 DEF Sends
  <2>. QED
    BY <1>1, <2>2, <2>7, ProcessPacketFlow
<1>. QED
  BY <1>2, <1>3, <1>4

-----------------------------------------------------------------------------
(* The sender sees no run of duplicates.                                   *)

LEMMA InitFlow == Init => FlowInv
<1>1. SUFFICES ASSUME Init PROVE FlowInv
  OBVIOUS
<1>2. TypeInv
  BY <1>1, InitTyped
<1>3. /\ burst = None /\ ackQ = <<>> /\ timer = IdleTimer /\ lan = None
      /\ \A c \in Conns : /\ conn[c] = None /\ got[c] = {} /\ sent[c] = 0 /\ SeenAck(c) = 0
                          /\ SeenDups(c) = 0
      /\ \A h \in Hosts : line[h] = <<>> /\ shapeQ[h] = <<>>
  BY <1>1 DEF Init, SeenAck, SeenDups, Held
<1>4. BurstInv /\ IdleInv /\ FreshInv /\ AckInv
  <2>1. Len(ackQ) = 0
    BY <1>3
  <2>. QED
    BY <1>3, <2>1, IdleHands DEF BurstInv, IdleInv, FreshInv, AckInv
<1>5. HomeInv
  BY <1>3, IdleHands, EmptySeq DEF HomeInv
<1>6. Views
  BY <1>2, <1>5, ViewsTyped
<1>7. ASSUME NEW c \in Conns PROVE QuietInv(c)
  <2>1. PICK h \in Hosts : h = HostOf[c]
    BY Numbers
  <2>2. Way(h) = <<>>
    BY <1>3, IdleHands DEF Way, Hand, Joined
  <2>3. ~ InFlight(c)
    <3>1. Len(shapeQ[h]) = 0 /\ Len(line[h]) = 0 /\ Len(ackQ) = 0
      BY <1>3
    <3>. QED
      BY <1>3, <2>1, <3>1, IdleHands DEF InFlight
  <2>4. ~ Loop(c) /\ \A a \in Nat : Coming(c)[a] = 0
    BY <1>2, <1>5, <2>3, NothingComes
  <2>5. /\ Limit(c) = 0 /\ Under(c) = 0 /\ Reach(c) = 0..(0 - 1)
        /\ \A a \in Nat : Extra(c)[a] = 0
    BY <1>3, <2>4, NotLooping
  <2>6. Arrive(c) = {}
    <3>1. Len(Way(h)) = 0
      BY <2>2
    <3>2. Arrive(c) = Seen(got[c], c, Way(h), 0)
      BY <2>1, <3>1 DEF Arrive, ArrivedOf
    <3>. QED
      BY <1>3, <3>2, SeenNone
  <2>7. PICK K \in Counts, S \in Counts, X \in Counts :
            K = Coming(c) /\ S = SwallowsAt(NewConn.open) /\ X = Extra(c)
    <3>1. Extra(c) \in Counts
      BY ExtraTyped
    <3>. QED
      BY <1>6, <3>1, NewConnTyped, SwallowsIs DEF Views
  <2>8. Rec(c) = NewConn
    BY <1>3 DEF Rec
  <2>9. EntryOK(sting, NewConn, 0, 0, 0, 0, 0) /\ \A a \in Nat : S[a] = 0
    BY <2>7, NewConnSettled
  <2>10. DupOK(K, S, X, 0, 0)
    BY <2>4, <2>5, <2>7, <2>9 DEF DupOK
  <2>11. LevelOK({}, K, 0)
    <3>1. {} \in SUBSET (0..(MaxSeq - 1))
      OBVIOUS
    <3>2. NextMissing({}) \in 0..MaxSeq
      BY <3>1, MissingTyped
    <3>. QED
      BY <2>4, <2>7, <3>2 DEF LevelOK
  <2>12. LastOK({}, K, 0, 0)
    BY DEF LastOK
  <2>13. 0..(0 - 1) = {}
    OBVIOUS
  <2>14. Settled(sting, {}, K, NewConn, X, 0, 0, 0, 0, 0, {})
    BY <2>7, <2>9, <2>10, <2>11, <2>12 DEF Settled
  <2>. QED
    BY <1>3, <2>5, <2>6, <2>7, <2>8, <2>13, <2>14 DEF QuietInv
<1>. QED
  BY <1>4, <1>5, <1>7 DEF FlowInv

LEMMA NothingFlows ==
    ASSUME TypeInv, FlowInv, UNCHANGED vars PROVE FlowInv'
<1>1. /\ UNCHANGED <<validate, conn, burst, lan, others, ackQ, timer, line, shapeQ>>
  BY DEF vars, hostVars
<1>2. HomeInv' /\ IdleInv' /\ \A g \in Hosts : Way(g)' = Way(g)
  BY <1>1 DEF FlowInv, HomeInv, IdleInv, Way, Hand
<1>. QED
  BY <1>1, <1>2, NothingNoticed

LEMMA RemoveFlow ==
    ASSUME TypeInv, FlowInv, RemoveConnection PROVE FlowInv'
<1>1. /\ timer.job = "clean" /\ timer' = IdleTimer
      /\ UNCHANGED <<validate, conn, burst, lan, others, ackQ, line, shapeQ>>
  BY DEF RemoveConnection, hostVars
<1>2. timer.pkt = None
  BY <1>1 DEF FlowInv, IdleInv
<1>3. HomeInv' /\ IdleInv' /\ \A g \in Hosts : Way(g)' = Way(g)
  BY <1>1, <1>2, IdleHands, NothingTaken DEF FlowInv, IdleInv
<1>. QED
  BY <1>1, <1>3, NothingNoticed

LEMMA StepFlow == TypeInv /\ FlowInv /\ [Next]_vars => FlowInv'
<1>. SUFFICES ASSUME TypeInv, FlowInv, [Next]_vars PROVE FlowInv'
  OBVIOUS
<1>1. CASE \E c \in Conns : \E n \in Sizes[c] : Send(c, n)
  BY <1>1, SenderFlow
<1>2. CASE \E c \in Conns, kind \in {"data", "flag"} : SendControl(c, kind)
  BY <1>2, SenderFlow
<1>3. CASE \E c \in Conns : Retransmit(c)
  BY <1>3, SenderFlow
<1>4. CASE \E c \in Conns : HostFinishes(c) \/ HostSends(c)
  BY <1>4, TalksFlow
<1>5. CASE \E c \in Conns : CreateSummary(c)
  BY <1>5, SummaryFlow
<1>6. CASE ShapeSlice
  BY <1>6, ShapeSliceFlow
<1>7. CASE ExpectAck
  BY <1>7, ExpectAckFlow
<1>8. CASE LANThread
  BY <1>8, ProcessAckFlow, MatchAckFlow, TerminateFlow DEF LANThread
<1>9. CASE ResumePostTap
  <2>1. PICK h \in Hosts : h = timer.h
    BY <1>9 DEF ResumePostTap, TypeInv, Queues, Timers
  <2>. QED
    BY <1>9, <2>1, TimersFlow
<1>10. CASE \E h \in Hosts : ShapeTimer(h) \/ PostTimer(h)
  BY <1>10, TimersFlow
<1>11. CASE \E h \in Hosts : HostReceives(h)
  BY <1>11, ReceivesFlow
<1>12. CASE \E h \in Hosts : LosePacket(h)
  BY <1>12, LoseFlow
<1>13. CASE UNCHANGED vars
  BY <1>13, NothingFlows
<1>14. CASE RemoveConnection
  BY <1>14, RemoveFlow
<1>. QED
  BY <1>1, <1>2, <1>3, <1>4, <1>5, <1>6, <1>7, <1>8, <1>9, <1>10, <1>11, <1>12, <1>13, <1>14 DEF Next

\* The sender has seen a duplicate at most, and at most one more it is about to see.
DupsInv == \A c \in Conns : Quiet(c) => dups[c] < 2

SeenInv == \A c \in Conns : Quiet(c) => SeenDups(c) < 2

LEMMA FewSeen ==
    ASSUME TypeInv, FlowInv, NEW c \in Conns, Quiet(c) PROVE SeenDups(c) < 2
<1>1. SeenDups(c) \in Nat
  BY ViewsTyped DEF FlowInv, Views
<1>2. SeenDups(c) <= 1
  BY DEF FlowInv, QuietInv, Settled, DupOK
<1>. QED
  BY <1>1, <1>2

LEMMA FewSeenNext == TypeInv' /\ FlowInv' => SeenInv'
<1>1. TypeInv /\ FlowInv => SeenInv
  BY FewSeen DEF SeenInv
<1>. QED
  BY <1>1, PTL

LEMMA StaysQuiet ==
    ASSUME TypeInv, [Next]_vars, NEW c \in Conns, Quiet(c)' PROVE Quiet(c)
<1>1. /\ losses \in Nat /\ fin \in [Conns -> BOOLEAN] /\ replied \in [Conns -> BOOLEAN]
      /\ validate \in [Hosts -> {"none", "ripps", "resolved"}] /\ HostOf[c] \in Hosts
  BY Numbers DEF TypeInv, Ends, Records
<1>2. UNCHANGED <<fin, losses, replied>> \/ (losses' = losses + 1 /\ UNCHANGED <<fin, replied>>)
      \/ (\E d \in Conns : fin' = [fin EXCEPT ![d] = TRUE] /\ UNCHANGED <<losses, replied>>)
      \/ (\E d \in Conns : replied' = [replied EXCEPT ![d] = TRUE] /\ UNCHANGED <<losses, fin>>)
  <2>1. CASE \/ \E d \in Conns : \E n \in Sizes[d] : Send(d, n)
             \/ \E d \in Conns, kind \in {"data", "flag"} : SendControl(d, kind)
             \/ \E d \in Conns : Retransmit(d) \/ CreateSummary(d)
             \/ ShapeSlice \/ ExpectAck \/ LANThread \/ ResumePostTap \/ RemoveConnection
             \/ \E h \in Hosts : ShapeTimer(h) \/ PostTimer(h) \/ HostReceives(h)
             \/ UNCHANGED vars
    BY <2>1, Zenon DEF Send, SendControl, Retransmit, CreateSummary, ShapeSlice, ExpectAck, LANThread,
       ProcessAck, MatchAck, TerminateConnection, ResumePostTap, RemoveConnection, ShapeTimer,
       PostTimer, HostReceives, vars, others
  <2>2. CASE \E h \in Hosts : LosePacket(h)
    BY <2>2, Zenon DEF LosePacket
  <2>3. CASE \E d \in Conns : HostFinishes(d) \/ HostSends(d)
    BY <2>3, Zenon DEF HostFinishes, HostSends
  <2>. QED
    BY <2>1, <2>2, <2>3 DEF Next
<1>3. (losses' = 0 => losses = 0) /\ (~ fin'[c] => ~ fin[c]) /\ (~ replied'[c] => ~ replied[c])
  <2>1. losses' = losses \/ losses' = losses + 1
    BY <1>2
  <2>2. fin' = fin \/ \E d \in Conns : fin' = [fin EXCEPT ![d] = TRUE]
    BY <1>2
  <2>3. replied' = replied \/ \E d \in Conns : replied' = [replied EXCEPT ![d] = TRUE]
    BY <1>2
  <2>4. fin[c] => fin'[c]
    BY <1>1, <2>2
  <2>5. replied[c] => replied'[c]
    BY <1>1, <2>3
  <2>. QED
    BY <1>1, <2>1, <2>4, <2>5
<1>4. validate[HostOf[c]] = "resolved" => validate'[HostOf[c]] = "resolved"
  <2>1. CASE \/ \E d \in Conns : \E n \in Sizes[d] : Send(d, n)
             \/ \E d \in Conns, kind \in {"data", "flag"} : SendControl(d, kind)
             \/ \E d \in Conns : Retransmit(d)
    <3>1. PICK p : ProcessPacketWAN(p)
      BY <2>1 DEF Send, SendControl, Retransmit
    <3>2. UNCHANGED validate
          \/ (validate[HostOf[p.c]] # "resolved" /\ validate' = [validate EXCEPT ![HostOf[p.c]] = "ripps"])
      BY <3>1 DEF ProcessPacketWAN
    <3>. QED
      BY <1>1, <3>2
  <2>2. CASE MatchAck
    <3>1. UNCHANGED validate \/ validate' = [validate EXCEPT ![HostOf[lan.ack.c]] = "resolved"]
      BY <2>2 DEF MatchAck
    <3>. QED
      BY <1>1, <3>1
  <2>3. CASE \/ \E d \in Conns : HostFinishes(d) \/ HostSends(d) \/ CreateSummary(d)
             \/ ShapeSlice \/ ExpectAck \/ ProcessAck \/ TerminateConnection
             \/ ResumePostTap \/ RemoveConnection
             \/ \E h \in Hosts : ShapeTimer(h) \/ PostTimer(h) \/ HostReceives(h) \/ LosePacket(h)
             \/ UNCHANGED vars
    <3>1. UNCHANGED validate
      BY <2>3, Zenon DEF HostFinishes, HostSends, CreateSummary, ShapeSlice, ExpectAck, ProcessAck,
         TerminateConnection, ResumePostTap, RemoveConnection, ShapeTimer, PostTimer, HostReceives,
         LosePacket, vars, hostVars
    <3>. QED
      BY <3>1
  <2>. QED
    BY <2>1, <2>2, <2>3 DEF Next, LANThread
<1>. QED
  BY <1>1, <1>3, <1>4 DEF Quiet

LEMMA StepDups ==
    ASSUME TypeInv, DupsInv, [Next]_vars, TypeInv', FlowInv' PROVE DupsInv'
<1>1. dups' = dups \/ lan' = None
  <2>1. CASE MatchAck
    <3>1. lan.ack.fin => dups' = dups
      BY <2>1 DEF MatchAck
    <3>. QED
      BY <2>1, <3>1 DEF MatchAck
  <2>2. CASE ProcessAck
    BY <2>2 DEF ProcessAck
  <2>3. CASE TerminateConnection
    BY <2>3 DEF TerminateConnection
  <2>4. CASE ~ LANThread
    <3>1. CASE \/ \E d \in Conns : \E n \in Sizes[d] : Send(d, n)
               \/ \E d \in Conns, kind \in {"data", "flag"} : SendControl(d, kind)
               \/ \E d \in Conns : Retransmit(d) \/ HostFinishes(d) \/ HostSends(d) \/ CreateSummary(d)
               \/ ShapeSlice \/ ExpectAck \/ ResumePostTap \/ RemoveConnection
               \/ \E h \in Hosts : ShapeTimer(h) \/ PostTimer(h) \/ HostReceives(h) \/ LosePacket(h)
               \/ UNCHANGED vars
      BY <3>1, Zenon DEF Send, SendControl, Retransmit, HostFinishes, HostSends, CreateSummary, ShapeSlice,
         ExpectAck, ResumePostTap, RemoveConnection, ShapeTimer, PostTimer, HostReceives, LosePacket,
         vars, others
    <3>. QED
      BY <2>4, <3>1 DEF Next
  <2>. QED
    BY <2>1, <2>2, <2>3, <2>4 DEF LANThread
<1>2. ASSUME NEW c \in Conns, Quiet(c)' PROVE dups'[c] < 2
  <2>1. CASE dups' = dups
    BY <1>2, <2>1, StaysQuiet DEF DupsInv
  <2>2. CASE lan' = None
    <3>1. SeenDups(c)' = dups'[c]
      BY <2>2 DEF SeenDups, Held
    <3>. QED
      BY <1>2, <3>1, FewSeenNext DEF SeenInv
  <2>. QED
    BY <1>1, <2>1, <2>2
<1>. QED
  BY <1>2 DEF DupsInv

LEMMA DupsImpliesNoFastRetransmit == DupsInv => NoFastRetransmit
  BY DEF DupsInv, Quiet, NoFastRetransmit

\* As long as the host is monitored, nothing is lost and the host has neither closed nor
\* sent data, the sender sees no two duplicates of an acknowledgement, for any number of
\* connections, slices and dummies, either order of the slices and any interleaving of
\* the threads (processPacketWAN, addExpectedAck, matchAck, processPacketMonitor).
THEOREM NoRunOfDuplicates == Spec => []NoFastRetransmit
<1>1. Init => TypeInv /\ FlowInv /\ DupsInv
  <2>1. Init => DupsInv
    BY DEF Init, DupsInv
  <2>. QED
    BY <2>1, InitTyped, InitFlow
<1>2. TypeInv /\ FlowInv /\ DupsInv /\ [Next]_vars => (TypeInv /\ FlowInv /\ DupsInv)'
  BY StepTyped, StepFlow, StepDups
<1>. QED
  BY <1>1, <1>2, DupsImpliesNoFastRetransmit, PTL DEF Spec

=============================================================================
