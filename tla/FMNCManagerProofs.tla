------------------------- MODULE FMNCManagerProofs -------------------------
(***************************************************************************)
(* Theorems about FMNCManager, for any clients, slots and bounds.           *)
(***************************************************************************)
EXTENDS FMNCManager, Integers, SequenceTheorems, FiniteSetTheorems,
        WellFoundedInduction, TLAPS

-----------------------------------------------------------------------------
(* Sequences and sets of numbers.                                           *)

\* A set of naturals has a least member.  This also stands for induction, which
\* is used as: no least counterexample.
LEMMA LeastNat ==
    ASSUME NEW T \in SUBSET Nat, T # {} PROVE \E n \in T : \A m \in T : n <= m
<1>1. \E n \in T : \A m \in T : ~ (<<m, n>> \in OpToRel(<, Nat))
  BY NatLessThanWellFounded, WFMin
<1>2. \A m, n \in Nat : <<m, n>> \in OpToRel(<, Nat) <=> m < n
  BY DEF OpToRel
<1>3. \E n \in T : \A m \in T : ~ (m < n)
  <2>1. \A m \in T : m \in Nat
    OBVIOUS
  <2>. QED
    BY <1>1, <1>2, <2>1, Zenon
<1>. QED
  BY <1>3

\* Popping takes out exactly the first element, if none is in there twice.
LEMMA PopProperties ==
    ASSUME NEW S, NEW s \in Seq(S), s # <<>>
    PROVE  /\ Head(s) \in S
           /\ Head(s) \in ToSet(s)
           /\ Tail(s) \in Seq(S)
           /\ IsInjective(s) => /\ IsInjective(Tail(s))
                               /\ ToSet(Tail(s)) = ToSet(s) \ {Head(s)}
<1>1. /\ Head(s) \in S /\ Head(s) = s[1]
      /\ Tail(s) \in Seq(S)
      /\ Len(s) \in Nat \ {0}
      /\ Len(Tail(s)) = Len(s) - 1
      /\ \A i \in 1..Len(Tail(s)) : Tail(s)[i] = s[i + 1]
  BY HeadTailProperties, EmptySeq
<1>2. DOMAIN s = 1..Len(s) /\ DOMAIN Tail(s) = 1..Len(s) - 1
  BY <1>1, LenProperties
<1>3. Head(s) \in ToSet(s)
  BY <1>1, <1>2 DEF ToSet
<1>4. ASSUME IsInjective(s) PROVE IsInjective(Tail(s))
  BY <1>1, <1>2, <1>4 DEF IsInjective
<1>5. ASSUME IsInjective(s) PROVE ToSet(Tail(s)) = ToSet(s) \ {Head(s)}
  <2>1. ASSUME NEW x \in ToSet(Tail(s)) PROVE x \in ToSet(s) \ {Head(s)}
    <3>1. PICK i \in 1..Len(s) - 1 : x = s[i + 1]
      BY <1>1, <1>2 DEF ToSet
    <3>. QED
      BY <3>1, <1>1, <1>2, <1>5 DEF ToSet, IsInjective
  <2>2. ASSUME NEW x \in ToSet(s), x # Head(s) PROVE x \in ToSet(Tail(s))
    <3>1. PICK i \in 1..Len(s) : x = s[i]
      BY <1>2 DEF ToSet
    <3>2. i - 1 \in 1..Len(s) - 1 /\ (i - 1) + 1 = i
      BY <3>1, <2>2, <1>1
    <3>3. Tail(s)[i - 1] = x
      BY <3>1, <3>2, <1>1
    <3>. QED
      BY <3>2, <3>3, <1>2 DEF ToSet
  <2>. QED
    BY <2>1, <2>2
<1>. QED
  BY <1>1, <1>3, <1>4, <1>5

\* Pushing adds exactly that element, and keeps the elements distinct if it is new.
LEMMA PushProperties ==
    ASSUME NEW S, NEW s \in Seq(S), NEW o \in S
    PROVE  /\ Append(s, o) \in Seq(S)
           /\ Append(s, o) # <<>>
           /\ ToSet(Append(s, o)) = ToSet(s) \cup {o}
           /\ IsInjective(s) /\ o \notin ToSet(s) => IsInjective(Append(s, o))
<1>1. /\ Append(s, o) \in Seq(S)
      /\ Append(s, o) # <<>>
      /\ Len(s) \in Nat
      /\ Len(Append(s, o)) = Len(s) + 1
      /\ \A i \in 1..Len(s) : Append(s, o)[i] = s[i]
      /\ Append(s, o)[Len(s) + 1] = o
  BY AppendProperties, LenProperties
<1>2. DOMAIN s = 1..Len(s) /\ DOMAIN Append(s, o) = 1..Len(s) + 1
  BY <1>1, LenProperties
<1>3. ToSet(Append(s, o)) = ToSet(s) \cup {o}
  <2>1. \A i \in 1..Len(s) + 1 : i \in 1..Len(s) \/ i = Len(s) + 1
    BY <1>1
  <2>. QED
    BY <1>1, <1>2, <2>1 DEF ToSet
<1>4. ASSUME IsInjective(s), o \notin ToSet(s) PROVE IsInjective(Append(s, o))
  BY <1>1, <1>2, <1>4 DEF IsInjective, ToSet
<1>. QED
  BY <1>1, <1>3, <1>4

\* An element between two sequences.
LEMMA BetweenProperties ==
    ASSUME NEW S, NEW front \in Seq(S), NEW back \in Seq(S), NEW e \in S
    PROVE  /\ front \o <<e>> \o back \in Seq(S)
           /\ Len(front \o <<e>> \o back) = Len(front) + 1 + Len(back)
           /\ \A k \in 1..Len(front) + 1 + Len(back) :
                 (front \o <<e>> \o back)[k] =
                     IF k <= Len(front) THEN front[k]
                     ELSE IF k = Len(front) + 1 THEN e ELSE back[k - Len(front) - 1]
<1>1. Len(front) \in Nat /\ Len(back) \in Nat
  BY LenProperties
<1>2. /\ front \o <<e>> \in Seq(S)
      /\ Len(front \o <<e>>) = Len(front) + 1
      /\ \A k \in 1..Len(front) + 1 :
            (front \o <<e>>)[k] = IF k <= Len(front) THEN front[k] ELSE e
  <2>1. <<e>> \in Seq(S) /\ Len(<<e>>) = 1 /\ <<e>>[1] = e
    OBVIOUS
  <2>. QED
    BY <1>1, <2>1, ConcatProperties
<1> DEFINE u == front \o <<e>>
<1>3. /\ u \o back \in Seq(S)
      /\ Len(u \o back) = Len(u) + Len(back)
      /\ \A k \in 1..Len(u) + Len(back) :
            (u \o back)[k] = IF k <= Len(u) THEN u[k] ELSE back[k - Len(u)]
  BY <1>2, ConcatProperties
<1> DEFINE t == u \o back
<1>. QED
  BY <1>1, <1>2, <1>3

\* The sequence with an element before place i, from what is before and behind it.
Parts(s, i, front, back) ==
    /\ Len(front) = i - 1 /\ \A k \in 1..i - 1 : front[k] = s[k]
    /\ Len(back) = Len(s) - i + 1 /\ \A k \in 1..Len(s) - i + 1 : back[k] = s[i + k - 1]

LEMMA InsertedBetween ==
    ASSUME NEW S, NEW s \in Seq(S), NEW i \in 1..Len(s) + 1, NEW e \in S,
           NEW front \in Seq(S), NEW back \in Seq(S), Parts(s, i, front, back)
    PROVE  /\ front \o <<e>> \o back \in Seq(S)
           /\ Len(front \o <<e>> \o back) = Len(s) + 1
           /\ \A k \in 1..Len(s) + 1 :
                 (front \o <<e>> \o back)[k]
                     = IF k < i THEN s[k] ELSE IF k = i THEN e ELSE s[k - 1]
<1>1. Len(s) \in Nat /\ i \in Nat /\ Len(front) + 1 + Len(back) = Len(s) + 1
  BY LenProperties DEF Parts
<1>2. ASSUME NEW k \in 1..Len(s) + 1
      PROVE  (front \o <<e>> \o back)[k]
                 = IF k < i THEN s[k] ELSE IF k = i THEN e ELSE s[k - 1]
  <2>1. (front \o <<e>> \o back)[k]
            = IF k <= Len(front) THEN front[k]
              ELSE IF k = Len(front) + 1 THEN e ELSE back[k - Len(front) - 1]
    BY <1>1, BetweenProperties
  <2>2. CASE k > i
    <3>1. k - Len(front) - 1 \in 1..Len(s) - i + 1 /\ i + (k - Len(front) - 1) - 1 = k - 1
      BY <1>1, <2>2 DEF Parts
    <3>. QED
      BY <1>1, <2>1, <2>2, <3>1 DEF Parts
  <2>3. CASE k <= i
    BY <1>1, <2>1, <2>3 DEF Parts
  <2>. QED
    BY <1>1, <2>2, <2>3
<1>3. /\ front \o <<e>> \o back \in Seq(S)
      /\ Len(front \o <<e>> \o back) = Len(front) + 1 + Len(back)
  BY BetweenProperties
<1>. QED
  BY <1>1, <1>2, <1>3

\* Inserting moves the elements from the place on up by one.
LEMMA InsertProperties ==
    ASSUME NEW S, NEW s \in Seq(S), NEW i \in 1..Len(s) + 1, NEW e \in S
    PROVE  /\ InsertAt(s, i, e) \in Seq(S)
           /\ DOMAIN InsertAt(s, i, e) = 1..Len(s) + 1
           /\ Len(InsertAt(s, i, e)) = Len(s) + 1
           /\ \A k \in 1..Len(s) + 1 :
                 InsertAt(s, i, e)[k] = IF k < i THEN s[k] ELSE IF k = i THEN e ELSE s[k - 1]
           /\ ToSet(InsertAt(s, i, e)) = ToSet(s) \cup {e}
           /\ IsInjective(s) /\ e \notin ToSet(s) => IsInjective(InsertAt(s, i, e))
<1>1. Len(s) \in Nat /\ DOMAIN s = 1..Len(s) /\ i \in Nat /\ \A k \in 1..Len(s) : s[k] \in S
  BY LenProperties, ElementOfSeq
<1>2. /\ SubSeq(s, 1, i - 1) \in Seq(S) /\ Len(SubSeq(s, 1, i - 1)) = i - 1
      /\ \A k \in 1..i - 1 : SubSeq(s, 1, i - 1)[k] = s[k]
  <2>1. \A k \in 1..i - 1 : s[k] \in S
    BY <1>1
  <2>. QED
    BY <1>1, <2>1, SubSeqProperties
<1>3. /\ SubSeq(s, i, Len(s)) \in Seq(S) /\ Len(SubSeq(s, i, Len(s))) = Len(s) - i + 1
      /\ \A k \in 1..Len(s) - i + 1 : SubSeq(s, i, Len(s))[k] = s[i + k - 1]
  <2>1. \A k \in i..Len(s) : s[k] \in S
    BY <1>1
  <2>. QED
    BY <1>1, <2>1, SubSeqProperties
<1>4. PICK front \in Seq(S), back \in Seq(S) :
        /\ front = SubSeq(s, 1, i - 1) /\ back = SubSeq(s, i, Len(s))
        /\ Parts(s, i, front, back)
  BY <1>2, <1>3 DEF Parts
<1>5. PICK t \in Seq(S) :
        /\ t = InsertAt(s, i, e) /\ Len(t) = Len(s) + 1
        /\ \A k \in 1..Len(s) + 1 : t[k] = IF k < i THEN s[k] ELSE IF k = i THEN e ELSE s[k - 1]
  <2>1. InsertAt(s, i, e) = front \o <<e>> \o back
    BY <1>4 DEF InsertAt
  <2>2. /\ front \o <<e>> \o back \in Seq(S)
        /\ Len(front \o <<e>> \o back) = Len(s) + 1
        /\ \A k \in 1..Len(s) + 1 :
              (front \o <<e>> \o back)[k]
                  = IF k < i THEN s[k] ELSE IF k = i THEN e ELSE s[k - 1]
    <3>1. Parts(s, i, front, back)
      BY <1>4
    <3>. QED
      BY <3>1, InsertedBetween
  <2>. QED
    BY <2>1, <2>2
<1>6. DOMAIN t = 1..Len(s) + 1
  BY <1>5, LenProperties
<1>7. ToSet(t) = ToSet(s) \cup {e}
  <2>1. ASSUME NEW k \in 1..Len(s) + 1 PROVE t[k] \in ToSet(s) \cup {e}
    <3>1. CASE k > i
      <4>1. k - 1 \in 1..Len(s) /\ t[k] = s[k - 1]
        BY <1>1, <1>5, <3>1
      <4>. QED
        BY <1>1, <4>1 DEF ToSet
    <3>2. CASE k < i
      <4>1. k \in 1..Len(s) /\ t[k] = s[k]
        BY <1>1, <1>5, <3>2
      <4>. QED
        BY <1>1, <4>1 DEF ToSet
    <3>3. CASE k = i
      BY <1>1, <1>5, <3>3
    <3>. QED
      BY <1>1, <3>1, <3>2, <3>3
  <2>2. ASSUME NEW k \in 1..Len(s) PROVE s[k] \in ToSet(t)
    <3>1. CASE k < i
      <4>1. k \in 1..Len(s) + 1 /\ t[k] = s[k]
        BY <1>1, <1>5, <3>1
      <4>. QED
        BY <1>6, <4>1 DEF ToSet
    <3>2. CASE k >= i
      <4>1. k + 1 \in 1..Len(s) + 1 /\ t[k + 1] = s[k]
        BY <1>1, <1>5, <3>2
      <4>. QED
        BY <1>6, <4>1 DEF ToSet
    <3>. QED
      BY <1>1, <3>1, <3>2
  <2>3. e \in ToSet(t)
    BY <1>1, <1>5, <1>6 DEF ToSet
  <2>. QED
    BY <1>1, <1>6, <2>1, <2>2, <2>3 DEF ToSet
<1>8. ASSUME IsInjective(s), e \notin ToSet(s) PROVE IsInjective(t)
  <2>1. \A k \in 1..Len(s) : s[k] # e
    BY <1>1, <1>8 DEF ToSet
  <2>2. \A j, k \in 1..Len(s) : s[j] = s[k] => j = k
    BY <1>1, <1>8 DEF IsInjective
  <2>3. SUFFICES ASSUME NEW j \in 1..Len(s) + 1, NEW k \in 1..Len(s) + 1, t[j] = t[k]
                 PROVE  j = k
    BY <1>6 DEF IsInjective
  <2>. QED
    BY <1>1, <1>5, <2>1, <2>2, <2>3
<1>. QED
  BY <1>5, <1>6, <1>7, <1>8

\* The least member of a set of naturals, as Min finds it.
LEMMA MinProperties ==
    ASSUME NEW T \in SUBSET Nat, T # {}
    PROVE  Min(T) \in T /\ \A m \in T : Min(T) <= m
<1>1. \E n \in T : \A m \in T : n <= m
  BY LeastNat
<1>. QED
  BY <1>1 DEF Min

\* Appending one list to another.
LEMMA JoinProperties ==
    ASSUME NEW S, NEW s \in Seq(S), NEW t \in Seq(S)
    PROVE  /\ s \o t \in Seq(S)
           /\ ToSet(s \o t) = ToSet(s) \cup ToSet(t)
           /\ IsInjective(s) /\ IsInjective(t) /\ ToSet(s) \cap ToSet(t) = {}
                 => IsInjective(s \o t)
<1>1. PICK r : r = s \o t
  OBVIOUS
<1>2. /\ r \in Seq(S) /\ Len(r) = Len(s) + Len(t)
      /\ \A i \in 1..Len(s) + Len(t) : r[i] = IF i <= Len(s) THEN s[i] ELSE t[i - Len(s)]
  BY <1>1, ConcatProperties
<1>3. /\ Len(s) \in Nat /\ Len(t) \in Nat /\ DOMAIN s = 1..Len(s) /\ DOMAIN t = 1..Len(t)
      /\ DOMAIN r = 1..(Len(s) + Len(t))
  BY <1>2, LenProperties
<1>4. ToSet(r) = ToSet(s) \cup ToSet(t)
  <2>1. ASSUME NEW x \in ToSet(r)
        PROVE  x \in ToSet(s) \cup ToSet(t)
    <3>1. PICK i \in 1..(Len(s) + Len(t)) : r[i] = x
      BY <1>3 DEF ToSet
    <3>2. CASE i <= Len(s)
      <4>1. i \in 1..Len(s) /\ s[i] = x
        BY <1>2, <1>3, <3>1, <3>2
      <4>. QED
        BY <1>3, <4>1 DEF ToSet
    <3>3. CASE ~ (i <= Len(s))
      <4>1. i - Len(s) \in 1..Len(t) /\ t[i - Len(s)] = x
        BY <1>2, <1>3, <3>1, <3>3
      <4>. QED
        BY <1>3, <4>1 DEF ToSet
    <3>. QED
      BY <3>2, <3>3
  <2>2. ASSUME NEW i \in 1..Len(s)
        PROVE  s[i] \in ToSet(r)
    <3>1. i \in 1..(Len(s) + Len(t)) /\ r[i] = s[i]
      BY <1>2, <1>3
    <3>. QED
      BY <1>3, <3>1 DEF ToSet
  <2>3. ASSUME NEW i \in 1..Len(t)
        PROVE  t[i] \in ToSet(r)
    <3>1. i + Len(s) \in 1..(Len(s) + Len(t)) /\ ~ (i + Len(s) <= Len(s)) /\ (i + Len(s)) - Len(s) = i
      BY <1>3
    <3>2. r[i + Len(s)] = t[i]
      BY <1>2, <3>1
    <3>. QED
      BY <1>3, <3>1, <3>2 DEF ToSet
  <2>. QED
    BY <1>3, <2>1, <2>2, <2>3 DEF ToSet
<1>5. ASSUME IsInjective(s), IsInjective(t), ToSet(s) \cap ToSet(t) = {}
      PROVE  IsInjective(r)
  <2>. SUFFICES ASSUME NEW i \in 1..(Len(s) + Len(t)), NEW k \in 1..(Len(s) + Len(t)), r[i] = r[k]
                PROVE  i = k
    BY <1>3 DEF IsInjective
  <2>1. \A a \in 1..Len(s), b \in 1..Len(t) : s[a] # t[b]
    BY <1>3, <1>5 DEF ToSet
  <2>2. CASE i <= Len(s) /\ k <= Len(s)
    <3>1. i \in DOMAIN s /\ k \in DOMAIN s /\ s[i] = s[k]
      BY <1>2, <1>3, <2>2
    <3>. QED
      BY <1>5, <3>1 DEF IsInjective
  <2>3. CASE ~ (i <= Len(s)) /\ ~ (k <= Len(s))
    <3>1. /\ i - Len(s) \in DOMAIN t /\ k - Len(s) \in DOMAIN t
          /\ t[i - Len(s)] = t[k - Len(s)]
      BY <1>2, <1>3, <2>3
    <3>2. i - Len(s) = k - Len(s)
      BY <1>5, <3>1 DEF IsInjective
    <3>. QED
      BY <1>3, <3>2
  <2>4. CASE i <= Len(s) /\ ~ (k <= Len(s))
    <3>1. i \in 1..Len(s) /\ k - Len(s) \in 1..Len(t) /\ s[i] = t[k - Len(s)]
      BY <1>2, <1>3, <2>4
    <3>. QED
      BY <2>1, <3>1
  <2>5. CASE ~ (i <= Len(s)) /\ k <= Len(s)
    <3>1. k \in 1..Len(s) /\ i - Len(s) \in 1..Len(t) /\ s[k] = t[i - Len(s)]
      BY <1>2, <1>3, <2>5
    <3>. QED
      BY <2>1, <3>1
  <2>. QED
    BY <2>2, <2>3, <2>4, <2>5
<1>. QED
  BY <1>1, <1>2, <1>4, <1>5

-----------------------------------------------------------------------------

\* A client keeps to a connection only while it is fresh, and the time from a
\* packet to the FIN of the sequence that it starts is less than a connection is
\* kept: the packet's age, the delay of the start, the waits for cross traffic,
\* the gaps between the slices and the delay of the FIN.
Timely ==
    /\ ~ LateClients
    /\ \A d, e \in Delays : MaxLag + d + MaxStall + MaxSpan + e < Age

-----------------------------------------------------------------------------
(* What holds whatever the parameters are.                                 *)

Sorted(events) == \A i, k \in DOMAIN events : i <= k => events[i].left <= events[k].left

TypeInv ==
    /\ TypeOK
    /\ Sorted(timers)
    /\ \A e \in ToSet(timers) : IF e.id = "cleanup" THEN e.data = NoConn ELSE e.data \in Slots
    /\ dispatcher.event.data \in Slots <=> dispatcher.pc \in {"traffic", "stuck"}
    /\ inbound.pc = "found" => inbound.conn \in Slots

ListsInv ==
    /\ IsInjective(connections) /\ IsInjective(old)
    /\ ToSet(connections) \cap ToSet(old) = {}
    /\ \A s \in ToSet(connections) \cup ToSet(old) : conn[s].live
    /\ \A s, t \in ToSet(connections) : conn[s].client = conn[t].client => s = t

\* Sessions are numbered in the order of their connections, and a session that
\* has a report is not listed any more.
SessionInv ==
    /\ \A s \in Slots : conn[s].live => conn[s].session < sessionID
    /\ \A s, t \in Slots : conn[s].live /\ conn[t].live /\ conn[s].session = conn[t].session => s = t
    /\ \A n \in ToSet(queue) \cup files :
          n < sessionID /\ \A s \in ToSet(connections) \cup ToSet(old) : conn[s].session # n
    /\ ReportedOnce

StructInv == TypeInv /\ ListsInv /\ SessionInv

-----------------------------------------------------------------------------
(* What holds when the parameters are timely.                              *)

Carrying(e) == e.id \in {"start", "slice", "fin"}

\* No two callbacks carry on the same sequence.
Single(events) ==
    \A i, k \in DOMAIN events :
        Carrying(events[i]) /\ Carrying(events[k]) /\ events[i].data = events[k].data => i = k

\* The connection a packet was found for is not purged before it is handled.
FoundInv ==
    inbound.pc = "found" =>
        /\ conn[inbound.conn].live /\ inbound.conn \notin ToSet(old)
        /\ inbound.age <= conn[inbound.conn].idle
        /\ conn[inbound.conn].idle + (MaxLag - inbound.age) < Age

\* A timer's connection and its state.
Owned(e) ==
    /\ conn[e.data].live /\ e.data \notin ToSet(old)
    /\ e.id \in {"start", "slice"} => conn[e.data].state = "active"
    /\ e.id = "fin" => conn[e.data].state = "waiting"

\* The same of the event that the timer thread works on, which no timer carries on.
Worked(s) ==
    /\ conn[s].live /\ s \notin ToSet(old) /\ conn[s].state = "active"
    /\ \A e \in ToSet(timers) : Carrying(e) => e.data # s

\* What carries the sequence of s on.
Carried(s) ==
    \/ s = dispatcher.event.data
    \/ \E e \in ToSet(timers) : Carrying(e) /\ e.data = s

OwnerInv ==
    /\ Single(timers)
    /\ \A e \in ToSet(timers) : e.id # "cleanup" => Owned(e)
    /\ \A s \in Slots : s = dispatcher.event.data => Worked(s)
    /\ \A s \in Slots : conn[s].live /\ conn[s].state \in {"active", "waiting"} => Carried(s)

\* What is left of a sequence when a timer of this kind fires, up to the FIN.
ToCome(id, r) ==
    CASE id = "start" -> {MaxSpan + d : d \in Delays}
      [] id = "slice" -> {r.wait + d : d \in Delays}
      [] OTHER -> {0}

\* So much time fits in before the connection is old: after its next packet, and
\* after the last one, in spite of the waits that its timers may still meet.
Fits(n, idle, held) ==
    /\ MaxLag + MaxStall + n < Age
    /\ idle + MaxStall + n < Age + held

InTime(id, left, r) ==
    \A x \in ToCome(id, r) : Fits(left + x, r.idle, r.held)

\* No timer is so late that its connection can become old before the sequence
\* has ended, nor is the event that waits for cross traffic to end.
TimeInv ==
    dispatcher.pc # "stuck" =>
        /\ \A e \in ToSet(timers) : e.id # "cleanup" => InTime(e.id, e.left, conn[e.data])
        /\ \A s \in Slots : s = dispatcher.event.data => InTime("slice", 0, conn[s])

TimelyInv ==
    FoundInv /\ OwnerInv /\ TimeInv

-----------------------------------------------------------------------------
(* Lists.                                                                  *)

\* A sublist has just the list's members in the set, each as often.
LEMMA SublistProperties ==
    ASSUME NEW T, NEW s \in Seq(T), NEW S
    PROVE  /\ Sublist(s, S) \in Seq(T)
           /\ ToSet(Sublist(s, S)) = ToSet(s) \cap S
           /\ IsInjective(s) => IsInjective(Sublist(s, S))
<1>1. PICK at : at = {i \in DOMAIN s : s[i] \in S}
  OBVIOUS
<1>2. PICK upto : upto = [i \in at |-> {j \in at : j <= i}]
  OBVIOUS
<1>3. /\ DOMAIN s = 1..Len(s) /\ Len(s) \in Nat /\ \A i \in 1..Len(s) : s[i] \in T
      /\ at \subseteq 1..Len(s)
  BY <1>1, LenProperties, ElementOfSeq
<1>4. IsFiniteSet(at) /\ Cardinality(at) \in Nat
  <2>1. IsFiniteSet(1..Len(s))
    BY <1>3, FS_Interval
  <2>. QED
    BY <1>3, <2>1, FS_Subset, FS_CardinalityType
<1>5. PICK n \in Nat : n = Cardinality(at)
  BY <1>4
<1>6. PICK rank : rank = [i \in at |-> Cardinality(upto[i])]
  OBVIOUS
<1>7. ASSUME NEW i \in at
      PROVE  IsFiniteSet(upto[i]) /\ i \in upto[i] /\ rank[i] \in 1..n
  <2>1. upto[i] \in SUBSET at /\ i \in upto[i]
    BY <1>2, <1>3
  <2>2. IsFiniteSet(upto[i]) /\ Cardinality(upto[i]) <= n /\ Cardinality(upto[i]) \in Nat
    BY <1>4, <1>5, <2>1, FS_Subset, FS_CardinalityType
  <2>3. Cardinality(upto[i]) # 0
    BY <2>1, <2>2, FS_EmptySet
  <2>. QED
    BY <1>6, <2>1, <2>2, <2>3
<1>8. ASSUME NEW i \in at, NEW k \in at, i < k
      PROVE  rank[i] # rank[k]
  <2>1. upto[i] \in SUBSET upto[k] /\ k \in upto[k] /\ k \notin upto[i]
    BY <1>2, <1>3, <1>8
  <2>2. Cardinality(upto[i]) # Cardinality(upto[k])
    BY <1>7, <2>1, FS_Subset
  <2>. QED
    BY <1>6, <2>2
<1>9. rank \in Injection(at, 1..n)
  <2>1. rank \in [at -> 1..n]
    BY <1>6, <1>7
  <2>2. \A i, k \in at : rank[i] = rank[k] => i = k
    <3>. SUFFICES ASSUME NEW i \in at, NEW k \in at, i # k
                  PROVE  rank[i] # rank[k]
      OBVIOUS
    <3>1. i < k \/ k < i
      BY <1>3
    <3>. QED
      BY <1>8, <3>1
  <2>. QED
    BY <2>1, <2>2 DEF Injection, IsInjective
<1>10. \A k \in 1..n : \E i \in at : rank[i] = k
  <2>1. IsFiniteSet(1..n) /\ Cardinality(1..n) = n
    BY FS_Interval
  <2>2. rank \in Surjection(at, 1..n)
    BY <1>5, <1>9, <2>1, FS_Injection
  <2>. QED
    BY <2>2 DEF Surjection
<1>11. PICK pos : pos = [k \in 1..n |-> CHOOSE i \in at : Cardinality({j \in at : j <= i}) = k]
  OBVIOUS
<1>12. ASSUME NEW k \in 1..n
       PROVE  pos[k] \in at /\ rank[pos[k]] = k
  <2>1. \A i \in at : Cardinality({j \in at : j <= i}) = rank[i]
    BY <1>2, <1>6
  <2>2. \E i \in at : Cardinality({j \in at : j <= i}) = k
    BY <1>10, <2>1
  <2>3. pos[k] \in at /\ Cardinality({j \in at : j <= pos[k]}) = k
    BY <1>11, <2>2
  <2>. QED
    BY <2>1, <2>3
<1>13. PICK r : r = [k \in 1..n |-> s[pos[k]]]
  OBVIOUS
<1>14. r = Sublist(s, S)
  <2>1. Sublist(s, S) = [k \in 1..n |-> s[CHOOSE i \in at : Cardinality({j \in at : j <= i}) = k]]
    BY <1>1, <1>5 DEF Sublist
  <2>. QED
    BY <1>11, <1>13, <2>1
<1>15. r \in Seq(T) /\ DOMAIN r = 1..n
  <2>1. r \in [1..n -> T]
    BY <1>3, <1>12, <1>13
  <2>. QED
    BY <2>1, IsASeq
<1>16. ToSet(r) = ToSet(s) \cap S
  <2>1. ASSUME NEW k \in 1..n
        PROVE  r[k] \in ToSet(s) \cap S
    BY <1>1, <1>12, <1>13 DEF ToSet
  <2>2. ASSUME NEW i \in DOMAIN s, s[i] \in S
        PROVE  s[i] \in ToSet(r)
    <3>1. i \in at /\ rank[i] \in 1..n
      BY <1>1, <1>7, <2>2
    <3>2. pos[rank[i]] = i
      BY <1>9, <1>12, <3>1 DEF Injection, IsInjective
    <3>3. r[rank[i]] = s[i]
      BY <1>13, <3>1, <3>2
    <3>. QED
      BY <1>15, <3>1, <3>3 DEF ToSet
  <2>. QED
    BY <1>15, <2>1, <2>2 DEF ToSet
<1>17. IsInjective(s) => IsInjective(r)
  <2>. SUFFICES ASSUME IsInjective(s), NEW k \in 1..n, NEW l \in 1..n, r[k] = r[l]
                PROVE  k = l
    BY <1>15 DEF IsInjective
  <2>1. pos[k] = pos[l]
    BY <1>3, <1>12, <1>13 DEF IsInjective
  <2>. QED
    BY <1>12, <2>1
<1>. QED
  BY <1>14, <1>15, <1>16, <1>17


-----------------------------------------------------------------------------
(* The list of timers.                                                     *)

\* The callback e does not carry on a sequence that one of the events carries on.
Joins(events, e) ==
    Carrying(e) => \A f \in ToSet(events) : Carrying(f) => f.data # e.data

\* r is s with e inserted at the index i.
Placed(r, s, i, e, n) ==
    /\ DOMAIN r = 1..n + 1
    /\ \A k \in 1..n + 1 : r[k] = IF k < i THEN s[k] ELSE IF k = i THEN e ELSE s[k - 1]
    /\ ToSet(r) = ToSet(s) \cup {e}

LEMMA PlacedAt ==
    ASSUME NEW T, NEW s \in Seq(T), NEW i \in 1..Len(s) + 1, NEW e \in T
    PROVE  InsertAt(s, i, e) \in Seq(T) /\ Placed(InsertAt(s, i, e), s, i, e, Len(s))
<1>1. /\ InsertAt(s, i, e) \in Seq(T) /\ DOMAIN InsertAt(s, i, e) = 1..Len(s) + 1
      /\ \A k \in 1..Len(s) + 1 : InsertAt(s, i, e)[k]
            = IF k < i THEN s[k] ELSE IF k = i THEN e ELSE s[k - 1]
      /\ ToSet(InsertAt(s, i, e)) = ToSet(s) \cup {e}
  BY InsertProperties
<1>. QED
  BY <1>1 DEF Placed

\* An event goes in where the order allows it.
LEMMA PlaceProperties ==
    ASSUME NEW events \in Seq(Timers), Sorted(events), NEW e \in Timers,
           NEW i \in 1..Len(events) + 1, NEW r, r = InsertAt(events, i, e),
           \A k \in DOMAIN events : IF k < i THEN events[k].left <= e.left
                                             ELSE e.left <= events[k].left
    PROVE  /\ r \in Seq(Timers)
           /\ Sorted(r)
           /\ ToSet(r) = ToSet(events) \cup {e}
           /\ Single(events) /\ Joins(events, e) => Single(r)
<1>1. PICK n \in Nat : n = Len(events)
  BY LenProperties
<1>2. DOMAIN events = 1..n /\ \A k \in 1..n : events[k] \in Timers /\ events[k].left \in Nat
  <2>1. DOMAIN events = 1..n /\ \A k \in 1..n : events[k] \in Timers
    BY <1>1, LenProperties, ElementOfSeq
  <2>. QED
    BY <2>1 DEF Timers
<1>3. /\ r \in Seq(Timers) /\ DOMAIN r = 1..n + 1
      /\ \A k \in 1..n + 1 : r[k] = IF k < i THEN events[k] ELSE IF k = i THEN e ELSE events[k - 1]
      /\ ToSet(r) = ToSet(events) \cup {e}
  <2>1. InsertAt(events, i, e) \in Seq(Timers) /\ Placed(InsertAt(events, i, e), events, i, e, Len(events))
    BY PlacedAt
  <2>2. r \in Seq(Timers) /\ Placed(r, events, i, e, n)
    BY <1>1, <2>1
  <2>. QED
    BY <2>2 DEF Placed
<1>4. i \in 1..n + 1 /\ e.left \in Nat
  BY <1>1 DEF Timers
<1>5. Sorted(r)
  <2>. SUFFICES ASSUME NEW j \in 1..n + 1, NEW k \in 1..n + 1, j < k
                PROVE  r[j].left <= r[k].left
    <3>1. \A j \in 1..n + 1 : r[j].left <= r[j].left
      <4>. SUFFICES ASSUME NEW j \in 1..n + 1 PROVE r[j].left \in Nat
        OBVIOUS
      <4>1. r[j] \in Timers
        BY <1>3, ElementOfSeq
      <4>. QED
        BY <4>1 DEF Timers
    <3>. QED
      BY <1>3, <3>1 DEF Sorted
  <2>1. CASE k < i
    <3>1. r[j] = events[j] /\ r[k] = events[k] /\ j \in 1..n /\ k \in 1..n
      BY <1>3, <1>4, <2>1
    <3>. QED
      BY <1>2, <3>1 DEF Sorted
  <2>2. CASE k = i
    <3>1. r[j] = events[j] /\ r[k] = e /\ j \in 1..n
      BY <1>3, <1>4, <2>2
    <3>. QED
      BY <1>2, <2>2, <3>1
  <2>3. CASE i < k /\ j < i
    <3>1. r[j] = events[j] /\ r[k] = events[k - 1] /\ j \in 1..n /\ k - 1 \in 1..n /\ j <= k - 1
      BY <1>3, <1>4, <2>3
    <3>. QED
      BY <1>2, <3>1 DEF Sorted
  <2>4. CASE i < k /\ j = i
    <3>1. r[j] = e /\ r[k] = events[k - 1] /\ k - 1 \in 1..n /\ ~ (k - 1 < i)
      BY <1>3, <1>4, <2>4
    <3>. QED
      BY <1>2, <3>1
  <2>5. CASE i < k /\ i < j
    <3>1. r[j] = events[j - 1] /\ r[k] = events[k - 1] /\ j - 1 \in 1..n /\ k - 1 \in 1..n
          /\ j - 1 <= k - 1
      BY <1>3, <1>4, <2>5
    <3>. QED
      BY <1>2, <3>1 DEF Sorted
  <2>. QED
    BY <1>4, <2>1, <2>2, <2>3, <2>4, <2>5
<1>6. ASSUME Single(events), Joins(events, e)
      PROVE  Single(r)
  <2>. SUFFICES ASSUME NEW j \in 1..n + 1, NEW k \in 1..n + 1, j < k,
                       Carrying(r[j]), Carrying(r[k]), r[j].data = r[k].data
                PROVE  FALSE
    BY <1>3 DEF Single
  <2>0. \A m \in 1..n : events[m] \in ToSet(events)
    BY <1>2 DEF ToSet
  <2>1. CASE k < i
    <3>1. r[j] = events[j] /\ r[k] = events[k] /\ j \in 1..n /\ k \in 1..n
      BY <1>3, <1>4, <2>1
    <3>. QED
      BY <1>2, <1>6, <3>1 DEF Single
  <2>2. CASE k = i
    <3>1. r[j] = events[j] /\ r[k] = e /\ j \in 1..n
      BY <1>3, <1>4, <2>2
    <3>. QED
      BY <1>6, <2>0, <3>1 DEF Joins
  <2>3. CASE i < k /\ j < i
    <3>1. r[j] = events[j] /\ r[k] = events[k - 1] /\ j \in 1..n /\ k - 1 \in 1..n /\ j < k - 1 + 1
      BY <1>3, <1>4, <2>3
    <3>2. j # k - 1 \/ k - 1 < i
      BY <1>4, <2>3
    <3>3. j = k - 1
      BY <1>2, <1>6, <3>1 DEF Single
    <3>. QED
      BY <1>4, <2>3, <3>3
  <2>4. CASE i < k /\ j = i
    <3>1. r[j] = e /\ r[k] = events[k - 1] /\ k - 1 \in 1..n
      BY <1>3, <1>4, <2>4
    <3>. QED
      BY <1>6, <2>0, <3>1 DEF Joins
  <2>5. CASE i < k /\ i < j
    <3>1. r[j] = events[j - 1] /\ r[k] = events[k - 1] /\ j - 1 \in 1..n /\ k - 1 \in 1..n
          /\ j - 1 # k - 1
      BY <1>3, <1>4, <2>5
    <3>. QED
      BY <1>2, <1>6, <3>1 DEF Single
  <2>. QED
    BY <1>4, <2>1, <2>2, <2>3, <2>4, <2>5
<1>. QED
  BY <1>3, <1>5, <1>6

\* addTimerEvent keeps the order.
LEMMA ArmProperties ==
    ASSUME NEW events \in Seq(Timers), Sorted(events), NEW e \in Timers,
           NEW r, r = Insert(events, e)
    PROVE  /\ r \in Seq(Timers)
           /\ Sorted(r)
           /\ ToSet(r) = ToSet(events) \cup {e}
           /\ Single(events) /\ Joins(events, e) => Single(r)
<1>1. DOMAIN events = 1..Len(events) /\ Len(events) \in Nat
      /\ \A k \in 1..Len(events) : events[k].left \in Nat
  <2>1. /\ DOMAIN events = 1..Len(events) /\ Len(events) \in Nat
        /\ \A k \in 1..Len(events) : events[k] \in Timers
    BY LenProperties, ElementOfSeq
  <2>. QED
    BY <2>1 DEF Timers
<1>2. e.left \in Nat
  BY DEF Timers
<1>3. PICK later : later = {i \in DOMAIN events : events[i].left > e.left}
  OBVIOUS
<1>4. PICK at : at = IF later = {} THEN Len(events) + 1 ELSE Min(later)
  OBVIOUS
<1>5. r = InsertAt(events, at, e)
  BY <1>3, <1>4 DEF Insert
<1>6. at \in 1..Len(events) + 1 /\ \A k \in 1..Len(events) : IF k < at THEN k \notin later ELSE TRUE
  <2>1. CASE later = {}
    BY <1>1, <1>4, <2>1
  <2>2. CASE later # {}
    <3>1. later \in SUBSET Nat /\ later \subseteq 1..Len(events)
      BY <1>1, <1>3
    <3>2. at \in later /\ \A m \in later : at <= m
      BY <1>4, <2>2, <3>1, MinProperties
    <3>3. ASSUME NEW k \in 1..Len(events), k < at PROVE k \notin later
      <4>. SUFFICES ASSUME k \in later PROVE FALSE
        OBVIOUS
      <4>1. at <= k /\ at \in Nat /\ k \in Nat
        BY <1>1, <3>1, <3>2
      <4>. QED
        BY <3>3, <4>1
    <3>4. at \in 1..Len(events)
      BY <3>1, <3>2
    <3>. QED
      BY <1>1, <3>3, <3>4
  <2>. QED
    BY <2>1, <2>2
<1>7. \A k \in DOMAIN events : k >= at => e.left <= events[k].left
  <2>1. CASE later = {}
    BY <1>1, <1>4, <2>1
  <2>2. CASE later # {}
    <3>1. later \in SUBSET Nat /\ later \subseteq 1..Len(events)
      BY <1>1, <1>3
    <3>2. at \in later
      BY <1>4, <2>2, <3>1, MinProperties
    <3>3. at \in 1..Len(events) /\ events[at].left > e.left
      BY <1>1, <1>3, <3>2
    <3>. QED
      BY <1>1, <1>2, <3>3 DEF Sorted
  <2>. QED
    BY <2>1, <2>2
<1>8. \A k \in DOMAIN events : IF k < at THEN events[k].left <= e.left
                                        ELSE e.left <= events[k].left
  <2>. SUFFICES ASSUME NEW k \in DOMAIN events
                PROVE  IF k < at THEN events[k].left <= e.left ELSE e.left <= events[k].left
    OBVIOUS
  <2>1. k < at => ~ (events[k].left > e.left)
    BY <1>1, <1>3, <1>6
  <2>. QED
    BY <1>1, <1>2, <1>6, <1>7, <2>1
<1>. QED
  BY <1>5, <1>6, <1>8, PlaceProperties


\* The FINISH timer goes among the expired ones.
LEMMA UnarmedProperties ==
    ASSUME NEW events \in Seq(Timers), Sorted(events), NEW e \in Timers, e.left = 0,
           NEW r \in InsertUnarmed(events, e)
    PROVE  /\ r \in Seq(Timers)
           /\ Sorted(r)
           /\ ToSet(r) = ToSet(events) \cup {e}
           /\ Single(events) /\ Joins(events, e) => Single(r)
<1>1. DOMAIN events = 1..Len(events) /\ Len(events) \in Nat
      /\ \A k \in 1..Len(events) : events[k].left \in Nat
  <2>1. /\ DOMAIN events = 1..Len(events) /\ Len(events) \in Nat
        /\ \A k \in 1..Len(events) : events[k] \in Timers
    BY LenProperties, ElementOfSeq
  <2>. QED
    BY <2>1 DEF Timers
<1>2. PICK at \in 1..Len(events) + 1 :
          r = InsertAt(events, at, e) /\ \A m \in 1..at - 1 : events[m].left = 0
  BY DEF InsertUnarmed
<1>3. \A k \in DOMAIN events : IF k < at THEN events[k].left <= e.left
                                        ELSE e.left <= events[k].left
  BY <1>1, <1>2
<1>. QED
  BY <1>2, <1>3, PlaceProperties

\* popProcessTimer takes the front event, which is due first.
LEMMA PoppedProperties ==
    ASSUME NEW events \in Seq(Timers), Sorted(events), events # <<>>
    PROVE  /\ Tail(events) \in Seq(Timers)
           /\ Sorted(Tail(events))
           /\ Head(events) \in Timers /\ Head(events) \in ToSet(events)
           /\ ToSet(Tail(events)) \subseteq ToSet(events)
           /\ ToSet(events) \ {Head(events)} \subseteq ToSet(Tail(events))
           /\ Single(events) => Single(Tail(events)) /\ Joins(Tail(events), Head(events))
           /\ \A f \in ToSet(events) : Head(events).left <= f.left
<1>1. /\ Head(events) = events[1] /\ Head(events) \in Timers
      /\ Tail(events) \in Seq(Timers)
      /\ Len(events) \in Nat \ {0} /\ DOMAIN events = 1..Len(events)
      /\ Len(Tail(events)) = Len(events) - 1
      /\ \A i \in 1..Len(Tail(events)) : Tail(events)[i] = events[i + 1]
  BY HeadTailProperties, EmptySeq, LenProperties
<1>2. PICK t \in Seq(Timers) : t = Tail(events)
  BY <1>1
<1>3. PICK n \in Nat \ {0} : n = Len(events)
  BY <1>1
<1>4. /\ DOMAIN events = 1..n /\ Head(events) = events[1]
      /\ \A i \in 1..n - 1 : t[i] = events[i + 1]
  BY <1>1, <1>2, <1>3
<1>5. DOMAIN t = 1..n - 1
  <2>1. Len(t) = n - 1 /\ DOMAIN t = 1..Len(t)
    BY <1>1, <1>2, <1>3, LenProperties
  <2>. QED
    BY <2>1
<1>6. Sorted(t)
  <2>. SUFFICES ASSUME NEW i \in 1..n - 1, NEW k \in 1..n - 1, i <= k
                PROVE  t[i].left <= t[k].left
    BY <1>5 DEF Sorted
  <2>1. t[i] = events[i + 1] /\ t[k] = events[k + 1] /\ i + 1 \in 1..n /\ k + 1 \in 1..n
        /\ i + 1 <= k + 1
    BY <1>4
  <2>. QED
    BY <1>4, <2>1 DEF Sorted
<1>7. events[1] \in ToSet(events) /\ ToSet(t) \subseteq ToSet(events)
  BY <1>4, <1>5 DEF ToSet
<1>8. ASSUME NEW f \in ToSet(events), f # events[1] PROVE f \in ToSet(t)
  <2>1. PICK i \in 1..n : f = events[i]
    BY <1>4 DEF ToSet
  <2>2. i - 1 \in 1..n - 1 /\ t[i - 1] = f
    BY <1>4, <1>8, <2>1
  <2>. QED
    BY <1>5, <2>2 DEF ToSet
<1>9. ASSUME Single(events) PROVE Single(t) /\ Joins(t, events[1])
  <2>1. Single(t)
    <3>. SUFFICES ASSUME NEW i \in 1..n - 1, NEW k \in 1..n - 1,
                         Carrying(t[i]), Carrying(t[k]), t[i].data = t[k].data
                  PROVE  i = k
      BY <1>5 DEF Single
    <3>1. t[i] = events[i + 1] /\ t[k] = events[k + 1] /\ i + 1 \in 1..n /\ k + 1 \in 1..n
      BY <1>4
    <3>2. i + 1 = k + 1
      BY <1>4, <1>9, <3>1 DEF Single
    <3>. QED
      BY <3>2
  <2>2. Joins(t, events[1])
    <3>. SUFFICES ASSUME Carrying(events[1]), NEW k \in 1..n - 1, Carrying(t[k]),
                         t[k].data = events[1].data
                  PROVE  FALSE
      BY <1>5 DEF Joins, ToSet
    <3>1. t[k] = events[k + 1] /\ k + 1 \in 1..n /\ 1 \in 1..n
      BY <1>4
    <3>2. k + 1 = 1
      BY <1>4, <1>9, <3>1 DEF Single
    <3>. QED
      BY <3>2
  <2>. QED
    BY <2>1, <2>2
<1>10. \A f \in ToSet(events) : events[1].left <= f.left
  <2>1. \A i \in 1..n : events[1].left <= events[i].left
    BY <1>4 DEF Sorted
  <2>. QED
    BY <1>4, <2>1 DEF ToSet
<1>. QED
  BY <1>1, <1>2, <1>4, <1>6, <1>7, <1>8, <1>9, <1>10

\* What a unit of time makes of an event.
Lowered(e) == [e EXCEPT !.left = IF @ = 0 THEN 0 ELSE @ - 1]

LEMMA LoweredEvent ==
    ASSUME NEW e \in Timers
    PROVE  /\ Lowered(e) \in Timers /\ Lowered(e).id = e.id /\ Lowered(e).data = e.data
           /\ Lowered(e).left = IF e.left = 0 THEN 0 ELSE e.left - 1
  BY DEF Lowered, Timers

\* Time passes for all events alike.
LEMMA LoweredProperties ==
    ASSUME NEW events \in Seq(Timers), Sorted(events),
           NEW r, r = [i \in DOMAIN events |-> Lowered(events[i])]
    PROVE  /\ r \in Seq(Timers)
           /\ Sorted(r)
           /\ \A f \in ToSet(r) : \E e \in ToSet(events) : f = Lowered(e)
           /\ \A e \in ToSet(events) : Lowered(e) \in ToSet(r)
           /\ Single(events) => Single(r)
<1>1. PICK n \in Nat : n = Len(events)
  BY LenProperties
<1>2. DOMAIN events = 1..n /\ \A i \in 1..n : events[i] \in Timers
  BY <1>1, LenProperties, ElementOfSeq
<1>3. DOMAIN r = 1..n /\ \A i \in 1..n : r[i] = Lowered(events[i])
  BY <1>2
<1>4. \A i \in 1..n : r[i] \in Timers /\ r[i].id = events[i].id /\ r[i].data = events[i].data
                      /\ r[i].left = IF events[i].left = 0 THEN 0 ELSE events[i].left - 1
  BY <1>2, <1>3, LoweredEvent
<1>5. r \in Seq(Timers)
  <2>1. r = [i \in 1..n |-> Lowered(events[i])]
    BY <1>2
  <2>2. r \in [1..n -> Timers]
    BY <1>2, <2>1, LoweredEvent
  <2>. QED
    BY <2>2, IsASeq
<1>6. Sorted(r)
  <2>1. \A i \in 1..n : events[i].left \in Nat
    BY <1>2 DEF Timers
  <2>. SUFFICES ASSUME NEW i \in 1..n, NEW k \in 1..n, i <= k PROVE r[i].left <= r[k].left
    BY <1>3 DEF Sorted
  <2>2. events[i].left <= events[k].left
    BY <1>2 DEF Sorted
  <2>3. /\ r[i].left = IF events[i].left = 0 THEN 0 ELSE events[i].left - 1
        /\ r[k].left = IF events[k].left = 0 THEN 0 ELSE events[k].left - 1
        /\ events[i].left \in Nat /\ events[k].left \in Nat
    BY <1>4, <2>1
  <2>. QED
    BY <2>2, <2>3
<1>7. /\ \A f \in ToSet(r) : \E e \in ToSet(events) : f = Lowered(e)
      /\ \A e \in ToSet(events) : Lowered(e) \in ToSet(r)
  BY <1>2, <1>3 DEF ToSet
<1>8. ASSUME Single(events) PROVE Single(r)
  <2>. SUFFICES ASSUME NEW i \in 1..n, NEW k \in 1..n,
                       Carrying(r[i]), Carrying(r[k]), r[i].data = r[k].data
                PROVE  i = k
    BY <1>3 DEF Single
  <2>1. Carrying(events[i]) /\ Carrying(events[k]) /\ events[i].data = events[k].data
    BY <1>4 DEF Carrying
  <2>. QED
    BY <1>2, <1>8, <2>1 DEF Single
<1>. QED
  BY <1>5, <1>6, <1>7, <1>8


-----------------------------------------------------------------------------
(* What the actions do to the connections.                                 *)

LEMMA StateNames ==
    ToSet(States) = {"none", "synack", "waitdata", "active", "waiting", "waiting_fin_ack"}
<1>1. DOMAIN States = 1..6
  BY DEF States
<1>2. /\ States[1] = "none" /\ States[2] = "synack" /\ States[3] = "waitdata"
      /\ States[4] = "active" /\ States[5] = "waiting" /\ States[6] = "waiting_fin_ack"
  BY DEF States
<1>3. \A i \in 1..6 : i = 1 \/ i = 2 \/ i = 3 \/ i = 4 \/ i = 5 \/ i = 6
  OBVIOUS
<1>. QED
  BY <1>1, <1>2, <1>3 DEF ToSet

\* A connection but for its state and its times.
Same(r, q) == r.live = q.live /\ r.client = q.client /\ r.session = q.session

\* Its gaps to come and the time it was held up are as they were.
Even(r, q) == r.wait = q.wait /\ r.held = q.held

\* The connection at s, and no other, gets a new state or new times.
Becomes(s, state, idle, wait, held) ==
    \A t \in Slots :
        /\ Same(conn'[t], conn[t])
        /\ conn'[t].state = IF t = s THEN state ELSE conn[t].state
        /\ conn'[t].idle = IF t = s THEN idle ELSE conn[t].idle
        /\ conn'[t].wait = IF t = s THEN wait ELSE conn[t].wait
        /\ conn'[t].held = IF t = s THEN held ELSE conn[t].held

LEMMA BecomesWhole ==
    ASSUME conn \in [Slots -> Connections], NEW s \in Slots, NEW r \in Connections,
           Same(r, conn[s]), conn' = [conn EXCEPT ![s] = r]
    PROVE  conn' \in [Slots -> Connections] /\ Becomes(s, r.state, r.idle, r.wait, r.held)
<1>1. conn' \in [Slots -> Connections] /\ \A t \in Slots : conn'[t] = IF t = s THEN r ELSE conn[t]
  OBVIOUS
<1>2. \A t \in Slots : Same(conn[t], conn[t])
  BY DEF Same
<1>. QED
  BY <1>1, <1>2 DEF Becomes

LEMMA StateSet ==
    ASSUME NEW r \in Connections, NEW state \in ToSet(States), NEW q, q = [r EXCEPT !.state = state]
    PROVE  q \in Connections /\ Same(q, r) /\ Even(q, r) /\ q.state = state /\ q.idle = r.idle
  BY DEF Connections, Same, Even

LEMMA NextSet ==
    ASSUME NEW r \in Connections, NEW n \in Nat, NEW q, q = [r EXCEPT !.next = n]
    PROVE  q \in Connections /\ Same(q, r) /\ Even(q, r) /\ q.state = r.state /\ q.idle = r.idle
  BY DEF Connections, Same, Even

LEMMA LengthSet ==
    ASSUME NEW r \in Connections, NEW n \in Nat, NEW q, q = [r EXCEPT !.length = n]
    PROVE  q \in Connections /\ Same(q, r) /\ Even(q, r) /\ q.state = r.state /\ q.idle = r.idle
  BY DEF Connections, Same, Even

\* A connection with both its times set.
Timed(r, n, m) == [r EXCEPT !.idle = n, !.held = m]

LEMMA TimesSet ==
    ASSUME NEW r \in Connections, NEW n \in 0..Age, NEW m \in 0..MaxStall,
           NEW q, q = Timed(r, n, m)
    PROVE  /\ q \in Connections /\ Same(q, r) /\ q.state = r.state
           /\ q.idle = n /\ q.wait = r.wait /\ q.held = m
  BY DEF Connections, Same, Timed

LEMMA WaitSet ==
    ASSUME NEW r \in Connections, NEW n \in 0..MaxSpan, NEW q, q = [r EXCEPT !.wait = n]
    PROVE  /\ q \in Connections /\ Same(q, r) /\ q.state = r.state
           /\ q.idle = r.idle /\ q.wait = n /\ q.held = r.held
  BY DEF Connections, Same

LEMMA FinsSet ==
    ASSUME NEW r \in Connections, NEW n \in 0..MaxFinAck, NEW q, q = [r EXCEPT !.fins = n]
    PROVE  q \in Connections /\ Same(q, r) /\ Even(q, r) /\ q.state = r.state /\ q.idle = r.idle
  BY DEF Connections, Same, Even

LEMMA MeasuredSet ==
    ASSUME NEW r \in Connections, NEW kind, NEW q, q = Measured(r, kind)
    PROVE  q \in Connections /\ Same(q, r) /\ Even(q, r) /\ q.state = r.state /\ q.idle = r.idle
<1>1. r.rcvd \in 0..2
  BY DEF Connections
<1>2. PICK n : n = IF kind = "data" \/ r.rcvd = 2 THEN r.rcvd ELSE r.rcvd + 1
  OBVIOUS
<1>3. n \in 0..2
  BY <1>1, <1>2
<1>4. q = [r EXCEPT !.rcvd = n]
  BY <1>2 DEF Measured
<1>. QED
  BY <1>3, <1>4 DEF Connections, Same, Even

\* What becomes of the state.
HandledState(state, kind) ==
    CASE state = "synack" -> IF kind = "rst" THEN state ELSE "waitdata"
      [] state = "waitdata" -> "active"
      [] OTHER -> state

LEMMA HandledSet ==
    ASSUME NEW r \in Connections, NEW kind, NEW q, q = Handled(r, kind)
    PROVE  /\ q \in Connections /\ Same(q, r) /\ Even(q, r)
           /\ q.state = HandledState(r.state, kind) /\ q.idle = r.idle
<1>1. r.state \in {"none", "synack", "waitdata", "active", "waiting", "waiting_fin_ack"}
  BY StateNames DEF Connections
<1>2. {"waitdata", "active"} \subseteq ToSet(States) /\ Same(r, r) /\ Even(r, r)
  BY StateNames DEF Same, Even
<1>3. CASE r.state = "synack"
  <2>1. q = IF kind = "rst" THEN r ELSE [r EXCEPT !.state = "waitdata"]
    BY <1>3 DEF Handled
  <2>2. HandledState(r.state, kind) = IF kind = "rst" THEN r.state ELSE "waitdata"
    BY <1>3 DEF HandledState
  <2>3. CASE kind = "rst"
    BY <1>2, <2>1, <2>2, <2>3
  <2>4. CASE kind # "rst"
    BY <1>2, <2>1, <2>2, <2>4, StateSet
  <2>. QED
    BY <2>3, <2>4
<1>4. CASE r.state = "waitdata"
  <2>1. q = [r EXCEPT !.state = "active"]
    BY <1>4 DEF Handled, FirstData
  <2>2. HandledState(r.state, kind) = "active"
    BY <1>4 DEF HandledState
  <2>. QED
    BY <1>2, <2>1, <2>2, StateSet
<1>5. CASE r.state \in {"active", "waiting"}
  <2>1. q = Measured(r, kind)
    BY <1>5 DEF Handled
  <2>2. HandledState(r.state, kind) = r.state
    BY <1>5 DEF HandledState
  <2>. QED
    BY <2>1, <2>2, MeasuredSet
<1>6. CASE r.state = "waiting_fin_ack"
  <2>1. q = FinAck(r, kind)
    BY <1>6 DEF Handled
  <2>2. HandledState(r.state, kind) = r.state
    BY <1>6 DEF HandledState
  <2>3. r.fins \in 0..MaxFinAck /\ MaxFinAck \in Nat
    BY ParameterAssumption DEF Connections
  <2>4. PICK n : n = IF r.fins = MaxFinAck THEN MaxFinAck ELSE r.fins + 1
    OBVIOUS
  <2>5. PICK m : m = IF kind = "fin" /\ n < MaxFinAck THEN r ELSE Measured(r, kind)
    OBVIOUS
  <2>6. q = [m EXCEPT !.fins = n] /\ n \in 0..MaxFinAck
    BY <2>1, <2>3, <2>4, <2>5 DEF FinAck
  <2>7. m \in Connections /\ Same(m, r) /\ Even(m, r) /\ m.state = r.state /\ m.idle = r.idle
    BY <1>2, <2>5, MeasuredSet
  <2>8. q \in Connections /\ Same(q, m) /\ Even(q, m) /\ q.state = m.state /\ q.idle = m.idle
    BY <2>6, <2>7, FinsSet
  <2>. QED
    BY <2>2, <2>7, <2>8 DEF Same, Even
<1>7. CASE r.state = "none"
  <2>1. q = r
    BY <1>7 DEF Handled
  <2>2. HandledState(r.state, kind) = r.state
    BY <1>7 DEF HandledState
  <2>. QED
    BY <1>2, <2>1, <2>2
<1>. QED
  BY <1>1, <1>3, <1>4, <1>5, <1>6, <1>7


LEMMA HandleConn ==
    ASSUME TypeInv, HandleExisting
    PROVE  /\ inbound.conn \in Slots /\ inbound.age \in 0..MaxLag /\ inbound.kind \in Kinds
           /\ conn' \in [Slots -> Connections]
           /\ Becomes(inbound.conn,
                      IF inbound.kind = "syn" THEN conn[inbound.conn].state
                      ELSE HandledState(conn[inbound.conn].state, inbound.kind),
                      inbound.age, conn[inbound.conn].wait, 0)
<1>1. /\ inbound.conn \in Slots /\ inbound.age \in 0..MaxLag /\ inbound.kind \in Kinds
      /\ conn \in [Slots -> Connections]
  BY DEF TypeInv, TypeOK, HandleExisting
<1>2. PICK s \in Slots : s = inbound.conn
  BY <1>1
<1>3. PICK kind : kind = inbound.kind
  OBVIOUS
<1>4. PICK q \in Connections : q = conn[s]
  BY <1>1
<1>5. PICK r : r = Marked(q)
  OBVIOUS
<1>6. inbound.age \in 0..Age /\ 0 \in 0..MaxStall
  BY <1>1, ParameterAssumption
<1>7. /\ r \in Connections /\ Same(r, q) /\ r.state = q.state
      /\ r.idle = inbound.age /\ r.wait = q.wait /\ r.held = 0
  <2>1. PICK n \in 0..Age : n = inbound.age
    BY <1>6
  <2>2. r = Timed(q, n, 0)
    BY <1>5, <2>1 DEF Marked, Timed
  <2>3. /\ r \in Connections /\ Same(r, q) /\ r.state = q.state
        /\ r.idle = n /\ r.wait = q.wait /\ r.held = 0
    BY <1>6, <2>2, TimesSet
  <2>. QED
    BY <2>1, <2>3
<1>8. conn' = [conn EXCEPT ![s] = IF kind = "syn" THEN r ELSE Handled(r, kind)]
  BY <1>2, <1>3, <1>4, <1>5 DEF HandleExisting
<1>9. PICK h : h = IF kind = "syn" THEN r ELSE Handled(r, kind)
  OBVIOUS
<1>10. /\ h \in Connections /\ Same(h, q) /\ h.idle = inbound.age /\ h.wait = q.wait /\ h.held = 0
       /\ h.state = IF kind = "syn" THEN q.state ELSE HandledState(q.state, kind)
  <2>1. CASE kind = "syn"
    BY <1>7, <1>9, <2>1
  <2>2. CASE kind # "syn"
    <3>1. /\ h \in Connections /\ Same(h, r) /\ Even(h, r) /\ h.idle = r.idle
          /\ h.state = HandledState(r.state, kind)
      BY <1>7, <1>9, <2>2, HandledSet
    <3>. QED
      BY <1>7, <2>2, <3>1 DEF Same, Even
  <2>. QED
    BY <2>1, <2>2
<1>11. conn' \in [Slots -> Connections] /\ Becomes(s, h.state, h.idle, h.wait, h.held)
  BY <1>1, <1>4, <1>8, <1>9, <1>10, BecomesWhole
<1>. QED
  BY <1>1, <1>2, <1>3, <1>4, <1>10, <1>11

\* r is the list of events with one more.
Adds(events, e, r) ==
    /\ r \in Seq(Timers)
    /\ Sorted(r)
    /\ ToSet(r) = ToSet(events) \cup {e}
    /\ Single(events) /\ Joins(events, e) => Single(r)

\* The timer that a packet sets up.
PacketTimer(e) ==
    /\ e \in Timers /\ e.data = inbound.conn /\ inbound.kind # "syn"
    /\ Adds(timers, e, timers')
    /\ \/ e.id = "start" /\ e.left \in Delays /\ conn[inbound.conn].state = "waitdata"
       \/ e.id = "finish" /\ e.left = 0 /\ conn[inbound.conn].state = "waiting_fin_ack"

LEMMA TimerRecord ==
    ASSUME NEW id \in {"start", "slice", "fin", "finish", "cleanup"},
           NEW s \in Slots \cup {NoConn}, NEW left \in Nat, NEW e, e = Timer(id, s, left)
    PROVE  e \in Timers /\ e.id = id /\ e.data = s /\ e.left = left
  BY DEF Timer, Timers

LEMMA HandleTimers ==
    ASSUME TypeInv, HandleExisting
    PROVE  \/ \E e \in Timers : PacketTimer(e)
           \/ /\ timers' = timers
              /\ inbound.kind = "syn" \/ conn[inbound.conn].state # "waitdata"
<1>1. /\ inbound.conn \in Slots /\ conn \in [Slots -> Connections]
      /\ timers \in Seq(Timers) /\ Sorted(timers)
  BY DEF TypeInv, TypeOK, HandleExisting
<1>2. PICK s \in Slots : s = inbound.conn
  BY <1>1
<1>3. PICK q \in Connections : q = conn[s]
  BY <1>1
<1>4. Marked(q).state = q.state
  BY DEF Marked, Connections
<1>5. CASE inbound.kind = "syn"
  BY <1>5 DEF HandleExisting
<1>6. CASE inbound.kind # "syn"
  <2>1. timers' \in WithTimer(s, q.state)
    BY <1>2, <1>3, <1>4, <1>6 DEF HandleExisting
  <2>2. CASE q.state = "waitdata"
    <3>1. PICK d \in Delays : timers' = Insert(timers, Timer("start", s, d))
      BY <2>1, <2>2 DEF WithTimer
    <3>2. PICK e : e = Timer("start", s, d)
      OBVIOUS
    <3>3. d \in Nat
      BY ParameterAssumption
    <3>4. e \in Timers /\ e.id = "start" /\ e.data = s /\ e.left = d
      BY <3>2, <3>3, TimerRecord
    <3>5. Adds(timers, e, timers')
      BY <1>1, <3>1, <3>2, <3>4, ArmProperties DEF Adds
    <3>. QED
      BY <1>2, <1>3, <1>6, <2>2, <3>4, <3>5 DEF PacketTimer
  <2>3. CASE q.state = "waiting_fin_ack"
    <3>1. timers' \in InsertUnarmed(timers, Timer("finish", s, 0))
      BY <2>1, <2>3 DEF WithTimer
    <3>2. PICK e : e = Timer("finish", s, 0)
      OBVIOUS
    <3>3. e \in Timers /\ e.id = "finish" /\ e.data = s /\ e.left = 0
      BY <3>2, TimerRecord
    <3>4. Adds(timers, e, timers')
      BY <1>1, <3>1, <3>2, <3>3, UnarmedProperties DEF Adds
    <3>. QED
      BY <1>2, <1>3, <1>6, <2>3, <3>3, <3>4 DEF PacketTimer
  <2>4. CASE q.state # "waitdata" /\ q.state # "waiting_fin_ack"
    <3>1. timers' = timers
      BY <2>1, <2>4 DEF WithTimer
    <3>. QED
      BY <1>2, <1>3, <2>4, <3>1
  <2>. QED
    BY <2>2, <2>3, <2>4
<1>. QED
  BY <1>5, <1>6


\* h is the event that fires and r what is left of the list.
Popped(h, r) ==
    /\ h \in Timers /\ h \in ToSet(timers) /\ h.left = 0
    /\ r \in Seq(Timers) /\ Sorted(r)
    /\ ToSet(r) \subseteq ToSet(timers)
    /\ ToSet(timers) \ {h} \subseteq ToSet(r)
    /\ Single(timers) => Single(r) /\ Joins(r, h)

LEMMA FiresPopped ==
    ASSUME TypeInv, NEW id, Fires(id)
    PROVE  /\ Popped(Head(timers), Tail(timers)) /\ Head(timers).id = id
           /\ dispatcher.pc = "idle" /\ timers # <<>>
           /\ id # "cleanup" => Head(timers).data \in Slots
<1>1. timers \in Seq(Timers) /\ Sorted(timers) /\ timers # <<>>
  BY DEF TypeInv, TypeOK, Fires, Expired
<1>2. Head(timers).id = id /\ Head(timers).left = 0 /\ dispatcher.pc = "idle"
  BY DEF Fires, Expired
<1>3. /\ Tail(timers) \in Seq(Timers)
      /\ Sorted(Tail(timers))
      /\ Head(timers) \in Timers /\ Head(timers) \in ToSet(timers)
      /\ ToSet(Tail(timers)) \subseteq ToSet(timers)
      /\ ToSet(timers) \ {Head(timers)} \subseteq ToSet(Tail(timers))
      /\ Single(timers) => Single(Tail(timers)) /\ Joins(Tail(timers), Head(timers))
  BY <1>1, PoppedProperties
<1>4. Popped(Head(timers), Tail(timers))
  BY <1>2, <1>3 DEF Popped
<1>5. id # "cleanup" => Head(timers).data \in Slots
  BY <1>2, <1>3 DEF TypeInv
<1>. QED
  BY <1>1, <1>2, <1>4, <1>5

LEMMA StartConn ==
    ASSUME TypeInv, StartSlicing
    PROVE  /\ conn' \in [Slots -> Connections]
           /\ Becomes(Head(timers).data, "active", conn[Head(timers).data].idle, MaxSpan,
                      conn[Head(timers).data].held)
<1>1. conn \in [Slots -> Connections] /\ Fires("start")
  BY DEF TypeInv, TypeOK, StartSlicing
<1>2. PICK s \in Slots : s = Head(timers).data
  BY <1>1, FiresPopped
<1>3. PICK n \in Lengths : conn' = [conn EXCEPT ![s].length = n, ![s].next = 0,
                                                     ![s].wait = MaxSpan, ![s].state = "active"]
  BY <1>2 DEF StartSlicing
<1>4. PICK q \in Connections : q = conn[s]
  BY <1>1
<1>5. PICK q1 : q1 = [q EXCEPT !.length = n]
  OBVIOUS
<1>6. n \in Nat /\ MaxSpan \in 0..MaxSpan
  BY ParameterAssumption
<1>7. q1 \in Connections /\ Same(q1, q) /\ Even(q1, q) /\ q1.state = q.state /\ q1.idle = q.idle
  BY <1>5, <1>6, LengthSet
<1>8. PICK q2 : q2 = [q1 EXCEPT !.next = 0]
  OBVIOUS
<1>9. q2 \in Connections /\ Same(q2, q1) /\ Even(q2, q1) /\ q2.state = q1.state /\ q2.idle = q1.idle
  BY <1>7, <1>8, NextSet
<1>10. PICK q3 : q3 = [q2 EXCEPT !.wait = MaxSpan]
  OBVIOUS
<1>11. /\ q3 \in Connections /\ Same(q3, q2) /\ q3.idle = q2.idle
       /\ q3.wait = MaxSpan /\ q3.held = q2.held
  BY <1>6, <1>9, <1>10, WaitSet
<1>12. PICK q4 : q4 = [q3 EXCEPT !.state = "active"]
  OBVIOUS
<1>13. q4 \in Connections /\ Same(q4, q3) /\ Even(q4, q3) /\ q4.state = "active" /\ q4.idle = q3.idle
  BY <1>11, <1>12, StateSet, StateNames
<1>14. conn' = [conn EXCEPT ![s] = q4]
  BY <1>1, <1>3, <1>4, <1>5, <1>8, <1>10, <1>12
<1>15. Same(q4, conn[s])
  BY <1>4, <1>7, <1>9, <1>11, <1>13 DEF Same
<1>16. conn' \in [Slots -> Connections] /\ Becomes(s, q4.state, q4.idle, q4.wait, q4.held)
  BY <1>1, <1>13, <1>14, <1>15, BecomesWhole
<1>. QED
  BY <1>2, <1>4, <1>7, <1>9, <1>11, <1>16, <1>13 DEF Even

\* The state that sending a slice leaves.
SlicedState(r) ==
    IF r.live /\ ~ (r.next + 1 < r.length) THEN "waiting" ELSE r.state

\* A slice that is not the last one.
LEMMA GapTaken ==
    ASSUME Slice, NEW s, s = Head(timers).data, NEW q, q = conn[s], q.live,
           q.next \in Nat, q.length \in Nat, q.next + 1 < q.length
    PROVE  \E gap \in 0..q.wait :
              /\ conn' = [conn EXCEPT ![s].next = q.next + 1, ![s].wait = @ - gap]
              /\ timers' = Insert(Tail(timers), Timer("slice", s, gap))
<1>1. PICK n : n = q.next + 1
  OBVIOUS
<1>2. ~ (n = q.length)
  BY <1>1
<1>3. \/ \E gap \in 0..q.wait :
             /\ conn' = [conn EXCEPT ![s].next = n, ![s].wait = @ - gap]
             /\ timers' = Insert(Tail(timers), Timer("slice", s, gap))
      \/ n = q.length
      \/ ~ q.live
  BY <1>1, Zenon DEF Slice
<1>. QED
  BY <1>1, <1>2, <1>3, Zenon

LEMMA SliceConn ==
    ASSUME TypeInv, Slice
    PROVE  /\ conn' \in [Slots -> Connections]
           /\ \E w \in 0..MaxSpan :
                 Becomes(Head(timers).data, SlicedState(conn[Head(timers).data]),
                         conn[Head(timers).data].idle, w, conn[Head(timers).data].held)
<1>1. conn \in [Slots -> Connections] /\ Fires("slice")
  BY DEF TypeInv, TypeOK, Slice
<1>2. PICK s \in Slots : s = Head(timers).data
  BY <1>1, FiresPopped
<1>3. PICK q \in Connections : q = conn[s]
  BY <1>1
<1>4. /\ q.next + 1 \in Nat /\ q.next \in Nat /\ q.length \in Nat /\ q.wait \in 0..MaxSpan
      /\ MaxSpan \in Nat /\ 0 \in 0..MaxSpan
  BY ParameterAssumption DEF Connections
<1>5. PICK q1 : q1 = [q EXCEPT !.next = q.next + 1]
  OBVIOUS
<1>6. q1 \in Connections /\ Same(q1, q) /\ Even(q1, q) /\ q1.state = q.state /\ q1.idle = q.idle
  BY <1>4, <1>5, NextSet
<1>7. CASE q.live /\ q.next + 1 < q.length
  <2>1. PICK gap \in 0..q.wait : conn' = [conn EXCEPT ![s].next = q.next + 1, ![s].wait = @ - gap]
    <3>1. \E gap \in 0..q.wait :
             /\ conn' = [conn EXCEPT ![s].next = q.next + 1, ![s].wait = @ - gap]
             /\ timers' = Insert(Tail(timers), Timer("slice", s, gap))
      BY <1>2, <1>3, <1>4, <1>7, GapTaken
    <3>. QED
      BY <3>1
  <2>2. PICK w : w = q.wait - gap
    OBVIOUS
  <2>3. w \in 0..MaxSpan
    BY <1>4, <2>2
  <2>4. PICK q2 : q2 = [q1 EXCEPT !.wait = w]
    OBVIOUS
  <2>5. /\ q2 \in Connections /\ Same(q2, q1) /\ q2.state = q1.state
        /\ q2.idle = q1.idle /\ q2.wait = w /\ q2.held = q1.held
    BY <1>6, <2>3, <2>4, WaitSet
  <2>6. conn' = [conn EXCEPT ![s] = q2]
    BY <1>1, <1>3, <1>5, <2>1, <2>2, <2>4
  <2>7. Same(q2, conn[s])
    BY <1>3, <1>6, <2>5 DEF Same
  <2>8. conn' \in [Slots -> Connections] /\ Becomes(s, q2.state, q2.idle, q2.wait, q2.held)
    BY <1>1, <2>5, <2>6, <2>7, BecomesWhole
  <2>9. SlicedState(q) = q.state
    BY <1>7 DEF SlicedState
  <2>. QED
    BY <1>2, <1>3, <1>6, <2>3, <2>5, <2>8, <2>9 DEF Even
<1>8. CASE q.live /\ ~ (q.next + 1 < q.length)
  <2>1. conn' = [conn EXCEPT ![s].next = q.next + 1, ![s].wait = 0, ![s].state = "waiting"]
    BY <1>2, <1>3, <1>4, <1>8 DEF Slice
  <2>2. PICK q2 : q2 = [q1 EXCEPT !.wait = 0]
    OBVIOUS
  <2>3. /\ q2 \in Connections /\ Same(q2, q1)
        /\ q2.idle = q1.idle /\ q2.wait = 0 /\ q2.held = q1.held
    BY <1>4, <1>6, <2>2, WaitSet
  <2>4. PICK q3 : q3 = [q2 EXCEPT !.state = "waiting"]
    OBVIOUS
  <2>5. q3 \in Connections /\ Same(q3, q2) /\ Even(q3, q2) /\ q3.state = "waiting" /\ q3.idle = q2.idle
    BY <2>3, <2>4, StateSet, StateNames
  <2>6. conn' = [conn EXCEPT ![s] = q3]
    BY <1>1, <1>3, <1>5, <2>1, <2>2, <2>4
  <2>7. Same(q3, conn[s])
    BY <1>3, <1>6, <2>3, <2>5 DEF Same
  <2>8. conn' \in [Slots -> Connections] /\ Becomes(s, q3.state, q3.idle, q3.wait, q3.held)
    BY <1>1, <2>5, <2>6, <2>7, BecomesWhole
  <2>9. SlicedState(q) = "waiting"
    BY <1>8 DEF SlicedState
  <2>. QED
    BY <1>2, <1>3, <1>4, <1>6, <2>3, <2>5, <2>8, <2>9 DEF Even
<1>9. CASE ~ q.live
  <2>1. conn' = conn /\ SlicedState(q) = q.state
    BY <1>2, <1>3, <1>9 DEF Slice, SlicedState
  <2>2. \A t \in Slots : Same(conn[t], conn[t])
    BY DEF Same
  <2>3. Becomes(s, q.state, q.idle, q.wait, q.held)
    BY <1>3, <2>1, <2>2 DEF Becomes
  <2>. QED
    BY <1>1, <1>2, <1>3, <1>4, <2>1, <2>3
<1>. QED
  BY <1>7, <1>8, <1>9

LEMMA SendFINConn ==
    ASSUME TypeInv, SendFIN
    PROVE  /\ conn' \in [Slots -> Connections]
           /\ Becomes(Head(timers).data,
                      IF conn[Head(timers).data].live THEN "waiting_fin_ack"
                      ELSE conn[Head(timers).data].state,
                      conn[Head(timers).data].idle, conn[Head(timers).data].wait,
                      conn[Head(timers).data].held)
<1>1. conn \in [Slots -> Connections] /\ Fires("fin")
  BY DEF TypeInv, TypeOK, SendFIN
<1>2. PICK s \in Slots : s = Head(timers).data
  BY <1>1, FiresPopped
<1>3. PICK q \in Connections : q = conn[s]
  BY <1>1
<1>4. PICK state : state = IF q.live THEN "waiting_fin_ack" ELSE q.state
  OBVIOUS
<1>5. state \in ToSet(States)
  BY <1>4, StateNames DEF Connections
<1>6. PICK r : r = [q EXCEPT !.state = state]
  OBVIOUS
<1>7. r \in Connections /\ Same(r, q) /\ Even(r, q) /\ r.state = state /\ r.idle = q.idle
  BY <1>5, <1>6, StateSet
<1>8. conn' = [conn EXCEPT ![s].state = state]
  BY <1>1, <1>2, <1>3, <1>4 DEF SendFIN
<1>9. conn' = [conn EXCEPT ![s] = r]
  BY <1>1, <1>3, <1>6, <1>8
<1>10. conn' \in [Slots -> Connections] /\ Becomes(s, r.state, r.idle, r.wait, r.held)
  BY <1>1, <1>3, <1>7, <1>9, BecomesWhole
<1>. QED
  BY <1>2, <1>3, <1>4, <1>7, <1>10 DEF Even


\* The timer that sending a slice sets up; the time it takes is taken from the
\* gaps to come.
SliceTimer(e, r, q) ==
    /\ e \in Timers /\ e.data = Head(timers).data
    /\ Adds(Tail(timers), e, timers')
    /\ \/ e.id = "slice" /\ e.left + q.wait = r.wait /\ r.next + 1 < r.length
       \/ e.id = "fin" /\ e.left \in Delays /\ ~ (r.next + 1 < r.length)

LEMMA SliceTimers ==
    ASSUME TypeInv, Slice
    PROVE  IF conn[Head(timers).data].live
           THEN \E e \in Timers : SliceTimer(e, conn[Head(timers).data], conn'[Head(timers).data])
           ELSE timers' = Tail(timers)
<1>1. Fires("slice") /\ conn \in [Slots -> Connections]
  BY DEF Slice, TypeInv, TypeOK
<1>2. PICK s \in Slots : s = Head(timers).data
  BY <1>1, FiresPopped
<1>3. PICK rest \in Seq(Timers) : rest = Tail(timers) /\ Sorted(rest)
  BY <1>1, FiresPopped DEF Popped
<1>4. PICK q \in Connections : q = conn[s]
  BY <1>1
<1>5. CASE q.live
  <2>1. CASE q.next + 1 < q.length
    <3>0. q.wait \in 0..MaxSpan /\ MaxSpan \in Nat /\ q.next \in Nat /\ q.length \in Nat
      BY ParameterAssumption DEF Connections
    <3>1. PICK gap \in 0..q.wait : /\ conn' = [conn EXCEPT ![s].next = q.next + 1, ![s].wait = @ - gap]
                                   /\ timers' = Insert(rest, Timer("slice", s, gap))
      <4>1. \E gap \in 0..q.wait :
               /\ conn' = [conn EXCEPT ![s].next = q.next + 1, ![s].wait = @ - gap]
               /\ timers' = Insert(Tail(timers), Timer("slice", s, gap))
        BY <1>2, <1>4, <1>5, <2>1, <3>0, GapTaken
      <4>. QED
        BY <1>3, <4>1
    <3>2. PICK e : e = Timer("slice", s, gap)
      OBVIOUS
    <3>3. e \in Timers /\ e.id = "slice" /\ e.data = s /\ e.left = gap
      BY <3>0, <3>2, TimerRecord
    <3>4. Adds(rest, e, timers')
      BY <1>3, <3>1, <3>2, <3>3, ArmProperties DEF Adds
    <3>5. conn'[s].wait = q.wait - gap
      BY <1>1, <1>4, <3>1 DEF Connections
    <3>6. gap + (q.wait - gap) = q.wait
      BY <3>0
    <3>. QED
      BY <1>2, <1>3, <1>4, <1>5, <2>1, <3>3, <3>4, <3>5, <3>6 DEF SliceTimer
  <2>2. CASE ~ (q.next + 1 < q.length)
    <3>0. q.next \in Nat /\ q.length \in Nat
      BY DEF Connections
    <3>1. PICK d \in Delays : timers' = Insert(rest, Timer("fin", s, d))
      BY <1>2, <1>3, <1>4, <1>5, <2>2, <3>0 DEF Slice
    <3>2. PICK e : e = Timer("fin", s, d)
      OBVIOUS
    <3>3. d \in Nat
      BY ParameterAssumption
    <3>4. e \in Timers /\ e.id = "fin" /\ e.data = s /\ e.left = d
      BY <3>2, <3>3, TimerRecord
    <3>5. Adds(rest, e, timers')
      BY <1>3, <3>1, <3>2, <3>4, ArmProperties DEF Adds
    <3>. QED
      BY <1>2, <1>3, <1>4, <1>5, <2>2, <3>4, <3>5 DEF SliceTimer
  <2>. QED
    BY <2>1, <2>2
<1>6. CASE ~ q.live
  BY <1>2, <1>4, <1>6 DEF Slice
<1>. QED
  BY <1>2, <1>4, <1>5, <1>6

LEMMA TrafficTimers ==
    ASSUME TypeInv, TrafficEnds
    PROVE  /\ dispatcher.event.data \in Slots
           /\ \E e \in Timers : /\ e.id = "slice" /\ e.data = dispatcher.event.data /\ e.left = 0
                                /\ Adds(timers, e, timers')
<1>1. PICK s \in Slots : s = dispatcher.event.data
  BY DEF TypeInv, TrafficEnds
<1>2. PICK e : e = Timer("slice", s, 0)
  OBVIOUS
<1>3. e \in Timers /\ e.id = "slice" /\ e.data = s /\ e.left = 0
  BY <1>2, TimerRecord
<1>4. timers' = Insert(timers, e) /\ timers \in Seq(Timers) /\ Sorted(timers)
  BY <1>1, <1>2 DEF TrafficEnds, TypeInv, TypeOK
<1>5. Adds(timers, e, timers')
  BY <1>3, <1>4, ArmProperties DEF Adds
<1>. QED
  BY <1>1, <1>3, <1>5

LEMMA RearmTimers ==
    ASSUME TypeInv, RearmCleanup
    PROVE  \E e \in Timers : e.id = "cleanup" /\ e.data = NoConn /\ Adds(timers, e, timers')
<1>1. PICK e : e = Timer("cleanup", NoConn, Interval)
  OBVIOUS
<1>2. Interval \in Nat
  BY ParameterAssumption
<1>3. e \in Timers /\ e.id = "cleanup" /\ e.data = NoConn
  BY <1>1, <1>2, TimerRecord
<1>4. timers' = Insert(timers, e) /\ timers \in Seq(Timers) /\ Sorted(timers)
  BY <1>1 DEF RearmCleanup, TypeInv, TypeOK
<1>5. Adds(timers, e, timers')
  BY <1>3, <1>4, ArmProperties DEF Adds
<1>. QED
  BY <1>3, <1>5

\* The times of a connection after a tick.
Ages(r, q, s) ==
    /\ r.idle = IF q.idle < Age THEN q.idle + 1 ELSE q.idle
    /\ r.wait = q.wait
    /\ r.held = IF s \in HeldUp THEN q.held + 1 ELSE q.held

LEMMA TickConn ==
    ASSUME TypeInv, Tick
    PROVE  /\ conn' \in [Slots -> Connections]
           /\ \A t \in Slots :
                 /\ Same(conn'[t], conn[t]) /\ conn'[t].state = conn[t].state
                 /\ Ages(conn'[t], conn[t], t)
<1>1. conn \in [Slots -> Connections] /\ Age \in Nat /\ MaxStall \in Nat
  BY ParameterAssumption DEF TypeInv, TypeOK
<1>2. conn' = [s \in Slots |-> [conn[s] EXCEPT
          !.idle = IF @ < Age THEN @ + 1 ELSE @,
          !.held = IF s \in HeldUp THEN @ + 1 ELSE @]]
  BY DEF Tick
<1>3. ASSUME NEW t \in Slots
      PROVE  /\ conn'[t] \in Connections
             /\ Same(conn'[t], conn[t]) /\ conn'[t].state = conn[t].state
             /\ Ages(conn'[t], conn[t], t)
  <2>1. PICK q \in Connections : q = conn[t]
    BY <1>1
  <2>2. PICK n : n = IF q.idle < Age THEN q.idle + 1 ELSE q.idle
    OBVIOUS
  <2>3. q.idle \in 0..Age /\ q.held \in 0..MaxStall
    BY DEF Connections
  <2>4. n \in 0..Age
    BY <1>1, <2>2, <2>3
  <2>5. PICK m : m = IF t \in HeldUp THEN q.held + 1 ELSE q.held
    OBVIOUS
  <2>6. m \in 0..MaxStall
    <3>1. t \in HeldUp => q.held < MaxStall
      BY <2>1 DEF Tick
    <3>. QED
      BY <1>1, <2>3, <2>5, <3>1
  <2>7. PICK r : r = Timed(q, n, m)
    OBVIOUS
  <2>8. /\ r \in Connections /\ Same(r, q) /\ r.state = q.state
        /\ r.idle = n /\ r.wait = q.wait /\ r.held = m
    BY <2>4, <2>6, <2>7, TimesSet
  <2>9. conn'[t] = r
    BY <1>2, <2>1, <2>2, <2>5, <2>7 DEF Connections, Timed
  <2>. QED
    BY <2>1, <2>2, <2>5, <2>8, <2>9 DEF Ages
<1>. QED
  BY <1>2, <1>3

LEMMA TickTimers ==
    ASSUME TypeInv, Tick
    PROVE  /\ timers' \in Seq(Timers) /\ Sorted(timers')
           /\ \A f \in ToSet(timers') : \E e \in ToSet(timers) : f = Lowered(e)
           /\ \A e \in ToSet(timers) : Lowered(e) \in ToSet(timers')
           /\ Single(timers) => Single(timers')
<1>1. timers \in Seq(Timers) /\ Sorted(timers)
  BY DEF TypeInv, TypeOK
<1>2. timers' = [i \in DOMAIN timers |-> Lowered(timers[i])]
  BY DEF Tick, Lowered
<1>. QED
  BY <1>1, <1>2, LoweredProperties

LEMMA TimersTyped ==
    ASSUME TypeInv, NEW e \in ToSet(timers)
    PROVE  e \in Timers /\ e.left \in Nat
           /\ IF e.id = "cleanup" THEN e.data = NoConn ELSE e.data \in Slots
<1>1. timers \in Seq(Timers)
  BY DEF TypeInv, TypeOK
<1>2. PICK i \in DOMAIN timers : e = timers[i]
  BY DEF ToSet
<1>3. e \in Timers
  BY <1>1, <1>2, LenProperties, ElementOfSeq
<1>4. e.left \in Nat
  BY <1>3 DEF Timers
<1>. QED
  BY <1>3, <1>4 DEF TypeInv


-----------------------------------------------------------------------------
(* Types.                                                                  *)

LEMMA InitTyped == Init => TypeInv
<1>. SUFFICES ASSUME Init PROVE TypeInv
  OBVIOUS
<1>1. Blank \in Connections
  BY StateNames, ParameterAssumption DEF Blank, Connections
<1>2. conn \in [Slots -> Connections]
  BY <1>1 DEF Init
<1>3. PICK e : e = Timer("cleanup", NoConn, Interval)
  OBVIOUS
<1>4. e \in Timers /\ e.id = "cleanup" /\ e.data = NoConn
  BY <1>3, ParameterAssumption, TimerRecord
<1>5. timers = <<e>>
  BY <1>3 DEF Init
<1>6. timers \in Seq(Timers) /\ DOMAIN timers = {1} /\ timers[1] = e
  BY <1>4, <1>5
<1>7. Sorted(timers)
  <2>1. e.left <= e.left
    BY <1>4 DEF Timers
  <2>. QED
    BY <1>6, <2>1 DEF Sorted
<1>8. \A f \in ToSet(timers) : f.id = "cleanup" /\ f.data = NoConn
  BY <1>4, <1>6 DEF ToSet
<1>9. PICK f : f = Timer("cleanup", NoConn, 0)
  OBVIOUS
<1>10. f \in Timers /\ f.data = NoConn
  BY <1>9, TimerRecord
<1>11. dispatcher = [pc |-> "idle", event |-> f]
  BY <1>9 DEF Init, Idle
<1>12. /\ dispatcher \in [pc : {"idle", "traffic", "purge", "stuck"}, event : Timers]
       /\ dispatcher.pc = "idle" /\ dispatcher.event.data = NoConn
  BY <1>10, <1>11
<1>13. /\ inbound \in [pc : {"idle", "found"}, conn : Slots \cup {NoConn}, kind : Kinds, age : 0..MaxLag]
       /\ inbound.pc = "idle"
  BY ParameterAssumption DEF Init, NoPacket, Kinds
<1>14. /\ connections \in Seq(Slots) /\ old \in Seq(Slots) /\ sessionID \in 0..MaxSessions
       /\ queue \in Seq(0..MaxSessions) /\ files \subseteq 0..MaxSessions
  BY ParameterAssumption DEF Init
<1>15. TypeOK
  BY <1>2, <1>6, <1>12, <1>13, <1>14 DEF TypeOK
<1>16. ~ (dispatcher.event.data \in Slots) /\ ~ (dispatcher.pc \in {"traffic", "stuck"})
  BY <1>12, ParameterAssumption
<1>. QED
  BY <1>7, <1>8, <1>13, <1>15, <1>16 DEF TypeInv

LEMMA AcceptConn ==
    ASSUME TypeInv, NEW c \in Clients, Accept(c)
    PROVE  \E s \in Slots :
              /\ ~ conn[s].live
              /\ connections' = Append(connections, s)
              /\ conn' \in [Slots -> Connections]
              /\ \A t \in Slots : t # s => conn'[t] = conn[t]
              /\ conn'[s].live /\ conn'[s].client = c /\ conn'[s].session = sessionID
              /\ conn'[s].state = "synack"
<1>1. /\ conn \in [Slots -> Connections] /\ sessionID \in 0..MaxSessions
  BY DEF TypeInv, TypeOK
<1>2. PICK s \in Slots :
        /\ ~ conn[s].live
        /\ conn' = [conn EXCEPT ![s] = [Blank EXCEPT !.live = TRUE, !.client = c,
                                            !.session = sessionID, !.state = "synack"]]
        /\ connections' = Append(connections, s)
  BY DEF Accept
<1>3. PICK r : r = [Blank EXCEPT !.live = TRUE, !.client = c, !.session = sessionID, !.state = "synack"]
  OBVIOUS
<1>4. r = [live |-> TRUE, client |-> c, session |-> sessionID, state |-> "synack", idle |-> 0,
           length |-> 0, next |-> 0, rcvd |-> 0, fins |-> 0, wait |-> 0, held |-> 0]
  <2>1. PICK yes, no : yes = TRUE /\ no = FALSE
    OBVIOUS
  <2>2. Blank = [live |-> no, client |-> NoConn, session |-> 0, state |-> "none", idle |-> 0,
                 length |-> 0, next |-> 0, rcvd |-> 0, fins |-> 0, wait |-> 0, held |-> 0]
    BY <2>1 DEF Blank
  <2>3. r = [Blank EXCEPT !.live = yes, !.client = c, !.session = sessionID, !.state = "synack"]
    BY <1>3, <2>1
  <2>4. r = [live |-> yes, client |-> c, session |-> sessionID, state |-> "synack", idle |-> 0,
             length |-> 0, next |-> 0, rcvd |-> 0, fins |-> 0, wait |-> 0, held |-> 0]
    BY <2>2, <2>3
  <2>. QED
    BY <2>1, <2>4
<1>5. r \in Connections /\ r.live /\ r.client = c /\ r.session = sessionID /\ r.state = "synack"
  BY <1>1, <1>4, StateNames, ParameterAssumption DEF Connections
<1>6. conn' = [conn EXCEPT ![s] = r]
  BY <1>2, <1>3
<1>7. conn' \in [Slots -> Connections] /\ conn'[s] = r /\ \A t \in Slots : t # s => conn'[t] = conn[t]
  BY <1>1, <1>5, <1>6
<1>. QED
  BY <1>2, <1>5, <1>7

LEMMA PurgeConn ==
    ASSUME TypeInv, PurgeEntry
    PROVE  /\ Head(old) \in Slots /\ Head(old) \in ToSet(old)
           /\ conn' \in [Slots -> Connections]
           /\ \A t \in Slots : t # Head(old) => conn'[t] = conn[t]
           /\ ~ conn'[Head(old)].live
           /\ queue' = IF Analysed(Head(old)) THEN Append(queue, conn[Head(old)].session) ELSE queue
<1>1. conn \in [Slots -> Connections] /\ old \in Seq(Slots) /\ old # <<>>
  BY DEF TypeInv, TypeOK, PurgeEntry
<1>2. Head(old) \in Slots /\ Head(old) \in ToSet(old)
  BY <1>1, PopProperties
<1>3. PICK s \in Slots : s = Head(old)
  BY <1>2
<1>4. PICK q \in Connections : q = conn[s]
  BY <1>1
<1>5. PICK r : r = [q EXCEPT !.live = FALSE]
  OBVIOUS
<1>6. r \in Connections /\ ~ r.live
  BY <1>5 DEF Connections
<1>7. conn' = [conn EXCEPT ![s] = r]
  BY <1>1, <1>3, <1>4, <1>5 DEF PurgeEntry
<1>8. conn' \in [Slots -> Connections] /\ conn'[s] = r /\ \A t \in Slots : t # s => conn'[t] = conn[t]
  BY <1>1, <1>6, <1>7
<1>9. queue' = IF Analysed(Head(old)) THEN Append(queue, conn[Head(old)].session) ELSE queue
  BY DEF PurgeEntry
<1>. QED
  BY <1>2, <1>3, <1>6, <1>8, <1>9


\* The list that actions other than these leave alone is one of these.
TimersInv ==
    /\ timers \in Seq(Timers) /\ Sorted(timers)
    /\ \A e \in ToSet(timers) : IF e.id = "cleanup" THEN e.data = NoConn ELSE e.data \in Slots

LEMMA ConnNext ==
    ASSUME TypeInv, Next PROVE conn' \in [Slots -> Connections]
<1>1. conn \in [Slots -> Connections]
  BY DEF TypeInv, TypeOK
<1>2. CASE \E c \in Clients : Accept(c)
  BY <1>2, AcceptConn
<1>3. CASE HandleExisting
  BY <1>3, HandleConn
<1>4. CASE StartSlicing
  BY <1>4, StartConn
<1>5. CASE Slice
  BY <1>5, SliceConn
<1>6. CASE SendFIN
  BY <1>6, SendFINConn
<1>7. CASE PurgeEntry
  BY <1>7, PurgeConn
<1>8. CASE Tick
  BY <1>8, TickConn
<1>9. CASE (\E c \in Clients, kind \in Kinds : FindConnection(c, kind)) \/ TrafficEnds \/ SliceOfNothing
  BY <1>1, <1>9 DEF FindConnection, TrafficEnds, SliceOfNothing
<1>10. CASE Finish \/ PopulateOldList \/ RearmCleanup \/ WriteReport
  BY <1>1, <1>10 DEF Finish, PopulateOldList, RearmCleanup, WriteReport
<1>. QED
  BY <1>2, <1>3, <1>4, <1>5, <1>6, <1>7, <1>8, <1>9, <1>10 DEF Next, TimerThread

LEMMA TimersAdded ==
    ASSUME TypeInv, NEW events, ToSet(events) \subseteq ToSet(timers),
           NEW e \in Timers, Adds(events, e, timers'),
           IF e.id = "cleanup" THEN e.data = NoConn ELSE e.data \in Slots
    PROVE  TimersInv'
  BY DEF TypeInv, Adds, TimersInv

LEMMA TimersPopped ==
    ASSUME TypeInv, NEW id, Fires(id), timers' = Tail(timers)
    PROVE  TimersInv'
<1>1. Popped(Head(timers), timers')
  BY FiresPopped
<1>. QED
  BY <1>1 DEF Popped, TypeInv, TimersInv

LEMMA TimersNext ==
    ASSUME TypeInv, Next PROVE TimersInv'
<1>1. CASE UNCHANGED timers
  BY <1>1 DEF TypeInv, TypeOK, TimersInv
<1>2. CASE HandleExisting
  <2>1. CASE UNCHANGED timers
    BY <1>1, <2>1
  <2>2. CASE \E e \in Timers : PacketTimer(e)
    <3>1. PICK e \in Timers : e.data = inbound.conn /\ Adds(timers, e, timers') /\ e.id # "cleanup"
      BY <2>2 DEF PacketTimer
    <3>2. e.data \in Slots
      BY <1>2, <3>1, HandleConn
    <3>. QED
      BY <3>1, <3>2, TimersAdded
  <2>. QED
    BY <1>2, <2>1, <2>2, HandleTimers
<1>3. CASE StartSlicing
  BY <1>3, TimersPopped DEF StartSlicing
<1>4. CASE TrafficEnds
  <2>1. PICK e \in Timers : e.data \in Slots /\ e.id # "cleanup" /\ Adds(timers, e, timers')
    BY <1>4, TrafficTimers
  <2>. QED
    BY <2>1, TimersAdded
<1>5. CASE Slice
  <2>1. Fires("slice")
    BY <1>5 DEF Slice
  <2>2. CASE timers' = Tail(timers)
    BY <2>1, <2>2, TimersPopped
  <2>3. CASE \E e \in Timers : SliceTimer(e, conn[Head(timers).data], conn'[Head(timers).data])
    <3>1. PICK e \in Timers : /\ e.data = Head(timers).data /\ e.id # "cleanup"
                              /\ Adds(Tail(timers), e, timers')
      BY <2>3 DEF SliceTimer
    <3>2. e.data \in Slots /\ ToSet(Tail(timers)) \subseteq ToSet(timers)
      BY <2>1, <3>1, FiresPopped DEF Popped
    <3>. QED
      BY <3>1, <3>2, TimersAdded
  <2>. QED
    BY <1>5, <2>2, <2>3, SliceTimers
<1>6. CASE SliceOfNothing
  BY <1>6, TimersPopped DEF SliceOfNothing
<1>7. CASE SendFIN
  BY <1>7, TimersPopped DEF SendFIN
<1>8. CASE Finish
  BY <1>8, TimersPopped DEF Finish
<1>9. CASE PopulateOldList
  BY <1>9, TimersPopped DEF PopulateOldList
<1>10. CASE RearmCleanup
  <2>1. PICK e \in Timers : e.id = "cleanup" /\ e.data = NoConn /\ Adds(timers, e, timers')
    BY <1>10, RearmTimers
  <2>. QED
    BY <2>1, TimersAdded
<1>11. CASE Tick
  <2>1. /\ timers' \in Seq(Timers) /\ Sorted(timers')
        /\ \A f \in ToSet(timers') : \E e \in ToSet(timers) : f = Lowered(e)
    BY <1>11, TickTimers
  <2>2. ASSUME NEW f \in ToSet(timers')
        PROVE  IF f.id = "cleanup" THEN f.data = NoConn ELSE f.data \in Slots
    <3>1. PICK e \in ToSet(timers) : f = Lowered(e)
      BY <2>1
    <3>2. e \in Timers
      BY TimersTyped
    <3>3. e.id = f.id /\ e.data = f.data
      BY <3>1, <3>2, LoweredEvent
    <3>. QED
      BY <3>3, TimersTyped
  <2>. QED
    BY <2>1, <2>2 DEF TimersInv
<1>12. CASE (\E c \in Clients : Accept(c)) \/ PurgeEntry \/ WriteReport
            \/ \E c \in Clients, kind \in Kinds : FindConnection(c, kind)
  BY <1>1, <1>12 DEF Accept, PurgeEntry, WriteReport, FindConnection
<1>. QED
  BY <1>2, <1>3, <1>4, <1>5, <1>6, <1>7, <1>8, <1>9, <1>10, <1>11, <1>12 DEF Next, TimerThread


LEMMA ListsNext ==
    ASSUME TypeInv, Next PROVE connections' \in Seq(Slots) /\ old' \in Seq(Slots)
<1>1. connections \in Seq(Slots) /\ old \in Seq(Slots)
  BY DEF TypeInv, TypeOK
<1>2. CASE UNCHANGED <<connections, old>>
  BY <1>1, <1>2
<1>3. CASE \E c \in Clients : Accept(c)
  <2>1. PICK c \in Clients : Accept(c)
    BY <1>3
  <2>2. PICK s \in Slots : connections' = Append(connections, s)
    BY <2>1, AcceptConn
  <2>3. connections' \in Seq(Slots)
    BY <1>1, <2>2, PushProperties
  <2>. QED
    BY <1>1, <2>1, <2>3 DEF Accept
<1>4. CASE Finish
  <2>1. PICK S : connections' = Sublist(connections, S) \/ connections' = connections
    BY <1>4 DEF Finish
  <2>2. connections' \in Seq(Slots)
    BY <1>1, <2>1, SublistProperties
  <2>. QED
    BY <1>1, <1>4, <2>2 DEF Finish
<1>5. CASE PopulateOldList
  <2>1. Sublist(connections, Aged) \in Seq(Slots) /\ Sublist(connections, Slots \ Aged) \in Seq(Slots)
    BY <1>1, SublistProperties
  <2>2. old \o Sublist(connections, Aged) \in Seq(Slots)
    BY <1>1, <2>1, JoinProperties
  <2>. QED
    BY <1>5, <2>1, <2>2 DEF PopulateOldList
<1>6. CASE PurgeEntry
  <2>1. Tail(old) \in Seq(Slots)
    BY <1>1, <1>6, PopProperties DEF PurgeEntry
  <2>. QED
    BY <1>1, <1>6, <2>1 DEF PurgeEntry
<1>7. CASE HandleExisting \/ WriteReport \/ Tick
            \/ \E c \in Clients, kind \in Kinds : FindConnection(c, kind)
  BY <1>2, <1>7 DEF HandleExisting, WriteReport, Tick, FindConnection
<1>8. CASE StartSlicing \/ TrafficEnds \/ Slice \/ SliceOfNothing
  BY <1>2, <1>8 DEF StartSlicing, TrafficEnds, Slice, SliceOfNothing
<1>9. CASE SendFIN \/ RearmCleanup
  BY <1>2, <1>9 DEF SendFIN, RearmCleanup
<1>. QED
  BY <1>3, <1>4, <1>5, <1>6, <1>7, <1>8, <1>9 DEF Next, TimerThread

Dispatchers == [pc : {"idle", "traffic", "purge", "stuck"}, event : Timers]

LEMMA DispatcherSet ==
    ASSUME NEW pc \in {"idle", "traffic", "purge", "stuck"}, NEW e \in Timers,
           NEW d, d = [pc |-> pc, event |-> e]
    PROVE  d \in Dispatchers /\ d.pc = pc /\ d.event = e
  BY DEF Dispatchers

LEMMA IdleDispatcher ==
    /\ Idle \in Dispatchers /\ Idle.pc = "idle" /\ Idle.event.data = NoConn
    /\ Idle.event \in Timers
<1>1. PICK e : e = Timer("cleanup", NoConn, 0)
  OBVIOUS
<1>2. e \in Timers /\ e.data = NoConn
  BY <1>1, TimerRecord
<1>3. Idle = [pc |-> "idle", event |-> e]
  BY <1>1 DEF Idle
<1>. QED
  BY <1>2, <1>3, DispatcherSet

\* The thread that dispatches knows an event just as long as it works on it.
LEMMA DispatcherNext ==
    ASSUME TypeInv, Next
    PROVE  /\ dispatcher' \in Dispatchers
           /\ dispatcher'.event.data \in Slots <=> dispatcher'.pc \in {"traffic", "stuck"}
<1>1. dispatcher \in Dispatchers
  BY DEF TypeInv, TypeOK, Dispatchers
<1>2. dispatcher.event.data \in Slots <=> dispatcher.pc \in {"traffic", "stuck"}
  BY DEF TypeInv
<1>3. CASE UNCHANGED dispatcher
  BY <1>1, <1>2, <1>3
<1>4. CASE dispatcher' = Idle
  BY <1>4, IdleDispatcher, ParameterAssumption
<1>5. CASE StartSlicing
  <2>1. PICK e \in Timers : e = Head(timers) /\ e.data \in Slots
    BY <1>5, FiresPopped DEF StartSlicing, Popped
  <2>2. dispatcher' = [pc |-> "traffic", event |-> e]
    BY <1>5, <2>1 DEF StartSlicing
  <2>3. dispatcher' \in Dispatchers /\ dispatcher'.pc = "traffic" /\ dispatcher'.event = e
    BY <2>2, DispatcherSet
  <2>. QED
    BY <2>1, <2>3
<1>6. CASE SliceOfNothing
  <2>1. PICK e \in Timers : e = Head(timers) /\ e.data \in Slots
    BY <1>6, FiresPopped DEF SliceOfNothing, Popped
  <2>2. dispatcher' = [pc |-> "stuck", event |-> e]
    BY <1>6, <2>1 DEF SliceOfNothing
  <2>3. dispatcher' \in Dispatchers /\ dispatcher'.pc = "stuck" /\ dispatcher'.event = e
    BY <2>2, DispatcherSet
  <2>. QED
    BY <2>1, <2>3
<1>7. CASE PopulateOldList
  <2>1. PICK e \in Timers : e = Idle.event /\ e.data = NoConn
    BY IdleDispatcher
  <2>2. dispatcher' = [pc |-> "purge", event |-> e]
    BY <1>7, <2>1 DEF PopulateOldList, Idle
  <2>3. dispatcher' \in Dispatchers /\ dispatcher'.pc = "purge" /\ dispatcher'.event = e
    BY <2>2, DispatcherSet
  <2>. QED
    BY <2>1, <2>3, ParameterAssumption
<1>8. CASE TrafficEnds \/ RearmCleanup
  BY <1>4, <1>8 DEF TrafficEnds, RearmCleanup
<1>9. CASE (\E c \in Clients : Accept(c)) \/ HandleExisting \/ WriteReport \/ Tick
           \/ \E c \in Clients, kind \in Kinds : FindConnection(c, kind)
  BY <1>3, <1>9 DEF Accept, HandleExisting, WriteReport, FindConnection, Tick
<1>10. CASE Slice \/ SendFIN \/ Finish \/ PurgeEntry
  BY <1>3, <1>10 DEF Slice, SendFIN, Finish, PurgeEntry
<1>. QED
  BY <1>5, <1>6, <1>7, <1>8, <1>9, <1>10 DEF Next, TimerThread


Handlers == [pc : {"idle", "found"}, conn : Slots \cup {NoConn}, kind : Kinds, age : 0..MaxLag]

LEMMA FoundConnection ==
    ASSUME TypeInv, NEW c \in Clients, NEW kind \in Kinds, FindConnection(c, kind)
    PROVE  \E s \in ToSet(connections) :
              /\ s \in Slots
              /\ ~ LateClients => conn[s].idle + MaxLag < Age
              /\ inbound' = [pc |-> "found", conn |-> s, kind |-> kind, age |-> 0]
<1>1. connections \in Seq(Slots)
  BY DEF TypeInv, TypeOK
<1>2. PICK i \in DOMAIN connections :
          /\ ~ LateClients => conn[connections[i]].idle + MaxLag < Age
          /\ inbound' = [pc |-> "found", conn |-> connections[i], kind |-> kind, age |-> 0]
  BY DEF FindConnection, Matches
<1>3. connections[i] \in ToSet(connections)
  BY DEF ToSet
<1>4. connections[i] \in Slots
  BY <1>1, LenProperties, ElementOfSeq
<1>. QED
  BY <1>2, <1>3, <1>4

LEMMA InboundNext ==
    ASSUME TypeInv, Next
    PROVE  inbound' \in Handlers /\ (inbound'.pc = "found" => inbound'.conn \in Slots)
<1>1. inbound \in Handlers /\ (inbound.pc = "found" => inbound.conn \in Slots)
  BY DEF TypeInv, TypeOK, Handlers
<1>2. CASE UNCHANGED inbound
  BY <1>1, <1>2
<1>3. CASE \E c \in Clients, kind \in Kinds : FindConnection(c, kind)
  <2>1. PICK c \in Clients, kind \in Kinds : FindConnection(c, kind)
    BY <1>3
  <2>2. PICK s \in Slots : inbound' = [pc |-> "found", conn |-> s, kind |-> kind, age |-> 0]
    BY <2>1, FoundConnection
  <2>3. 0 \in 0..MaxLag
    BY ParameterAssumption
  <2>. QED
    BY <2>2, <2>3 DEF Handlers
<1>4. CASE HandleExisting
  <2>1. inbound' = NoPacket /\ 0 \in 0..MaxLag
    BY <1>4, ParameterAssumption DEF HandleExisting
  <2>. QED
    BY <2>1 DEF NoPacket, Handlers, Kinds
<1>5. CASE Tick
  <2>1. CASE inbound.pc = "found" /\ inbound.age < MaxLag /\ inbound' = [inbound EXCEPT !.age = @ + 1]
    <3>1. inbound.age \in 0..MaxLag /\ MaxLag \in Nat
      BY <1>1, ParameterAssumption DEF Handlers
    <3>2. PICK n \in 0..MaxLag : inbound' = [inbound EXCEPT !.age = n]
      BY <2>1, <3>1
    <3>. QED
      BY <1>1, <3>2 DEF Handlers
  <2>. QED
    BY <1>2, <1>5, <2>1 DEF Tick
<1>6. CASE (\E c \in Clients : Accept(c)) \/ WriteReport
  BY <1>2, <1>6 DEF Accept, WriteReport
<1>7. CASE StartSlicing \/ TrafficEnds \/ Slice \/ SliceOfNothing
  BY <1>2, <1>7 DEF StartSlicing, TrafficEnds, Slice, SliceOfNothing
<1>8. CASE SendFIN \/ Finish \/ PopulateOldList \/ PurgeEntry \/ RearmCleanup
  BY <1>2, <1>8 DEF SendFIN, Finish, PopulateOldList, PurgeEntry, RearmCleanup
<1>. QED
  BY <1>3, <1>4, <1>5, <1>6, <1>7, <1>8 DEF Next, TimerThread

\* Finish either reports a listed connection and takes it off the list, or
\* leaves the lists alone.
LEMMA FinishCases ==
    ASSUME TypeInv, Finish
    PROVE  /\ UNCHANGED <<conn, old, sessionID, dispatcher, inbound, files>>
           /\ Head(timers).data \in Slots
           /\ \/ /\ Head(timers).data \in ToSet(connections)
                 /\ connections' = Sublist(connections, Slots \ {Head(timers).data})
                 /\ queue' = Append(queue, conn[Head(timers).data].session)
              \/ UNCHANGED <<connections, queue>>
<1>1. Head(timers).data \in Slots
  BY FiresPopped DEF Finish
<1>. QED
  BY <1>1 DEF Finish

LEMMA ReportsNext ==
    ASSUME TypeInv, Next
    PROVE  sessionID' \in 0..MaxSessions /\ queue' \in Seq(0..MaxSessions) /\ files' \subseteq 0..MaxSessions
<1>1. /\ sessionID \in 0..MaxSessions /\ queue \in Seq(0..MaxSessions) /\ files \subseteq 0..MaxSessions
      /\ MaxSessions \in Nat
  BY ParameterAssumption DEF TypeInv, TypeOK
<1>2. CASE UNCHANGED <<sessionID, queue, files>>
  BY <1>1, <1>2
<1>3. ASSUME NEW s \in Slots PROVE conn[s].session \in 0..MaxSessions
  BY DEF TypeInv, TypeOK, Connections
<1>4. ASSUME NEW n \in 0..MaxSessions PROVE Append(queue, n) \in Seq(0..MaxSessions)
  BY <1>1, PushProperties
<1>5. CASE \E c \in Clients : Accept(c)
  <2>1. sessionID < MaxSessions /\ sessionID' = sessionID + 1 /\ UNCHANGED <<queue, files>>
    BY <1>5 DEF Accept
  <2>. QED
    BY <1>1, <2>1
<1>6. CASE Finish
  <2>1. CASE queue' = Append(queue, conn[Head(timers).data].session)
    BY <1>1, <1>3, <1>4, <1>6, <2>1, FinishCases
  <2>. QED
    BY <1>1, <1>6, <2>1, FinishCases
<1>7. CASE PurgeEntry
  <2>1. UNCHANGED <<sessionID, files>>
    BY <1>7 DEF PurgeEntry
  <2>2. queue' = Append(queue, conn[Head(old)].session) \/ queue' = queue
    BY <1>7, PurgeConn
  <2>3. conn[Head(old)].session \in 0..MaxSessions
    BY <1>3, <1>7, PurgeConn
  <2>. QED
    BY <1>1, <1>4, <2>1, <2>2, <2>3
<1>8. CASE WriteReport
  <2>1. queue # <<>> /\ queue' = Tail(queue) /\ files' = files \cup {Head(queue)} /\ UNCHANGED sessionID
    BY <1>8 DEF WriteReport
  <2>2. Tail(queue) \in Seq(0..MaxSessions) /\ Head(queue) \in 0..MaxSessions
    BY <1>1, <2>1, PopProperties
  <2>. QED
    BY <1>1, <2>1, <2>2
<1>9. CASE HandleExisting \/ Tick \/ \E c \in Clients, kind \in Kinds : FindConnection(c, kind)
  BY <1>2, <1>9 DEF HandleExisting, Tick, FindConnection
<1>10. CASE StartSlicing \/ TrafficEnds \/ Slice \/ SliceOfNothing
  BY <1>2, <1>10 DEF StartSlicing, TrafficEnds, Slice, SliceOfNothing
<1>11. CASE SendFIN \/ PopulateOldList \/ RearmCleanup
  BY <1>2, <1>11 DEF SendFIN, PopulateOldList, RearmCleanup
<1>. QED
  BY <1>5, <1>6, <1>7, <1>8, <1>9, <1>10, <1>11 DEF Next, TimerThread

LEMMA NextTyped == ASSUME TypeInv, Next PROVE TypeInv'
<1>1. TimersInv'
  BY TimersNext
<1>2. conn' \in [Slots -> Connections] /\ connections' \in Seq(Slots) /\ old' \in Seq(Slots)
  BY ConnNext, ListsNext
<1>3. dispatcher' \in Dispatchers /\ inbound' \in Handlers
  BY DispatcherNext, InboundNext
<1>4. sessionID' \in 0..MaxSessions /\ queue' \in Seq(0..MaxSessions) /\ files' \subseteq 0..MaxSessions
  BY ReportsNext
<1>5. TypeOK'
  BY <1>1, <1>2, <1>3, <1>4 DEF TypeOK, TimersInv, Dispatchers, Handlers
<1>6. /\ dispatcher'.event.data \in Slots <=> dispatcher'.pc \in {"traffic", "stuck"}
      /\ inbound'.pc = "found" => inbound'.conn \in Slots
  BY DispatcherNext, InboundNext
<1>. QED
  BY <1>1, <1>5, <1>6 DEF TypeInv, TimersInv


-----------------------------------------------------------------------------
(* Lists and reports.                                                      *)

LEMMA Members == ASSUME NEW T, NEW s \in Seq(T) PROVE ToSet(s) \subseteq T
<1>1. \A i \in DOMAIN s : s[i] \in T
  BY LenProperties, ElementOfSeq
<1>. QED
  BY <1>1 DEF ToSet

\* No connection is made or deleted.
Kept == \A s \in Slots : Same(conn'[s], conn[s])

LEMMA KeptByMost ==
    ASSUME TypeInv, Next, ~ (\E c \in Clients : Accept(c)), ~ PurgeEntry
    PROVE  Kept
<1>1. CASE UNCHANGED conn
  BY <1>1 DEF Kept, Same
<1>2. CASE HandleExisting
  BY <1>2, HandleConn DEF Kept, Becomes
<1>3. CASE StartSlicing
  BY <1>3, StartConn DEF Kept, Becomes
<1>4. CASE Slice
  BY <1>4, SliceConn DEF Kept, Becomes
<1>5. CASE SendFIN
  BY <1>5, SendFINConn DEF Kept, Becomes
<1>6. CASE Tick
  BY <1>6, TickConn DEF Kept
<1>7. CASE (\E c \in Clients, kind \in Kinds : FindConnection(c, kind)) \/ TrafficEnds \/ SliceOfNothing
  BY <1>1, <1>7 DEF FindConnection, TrafficEnds, SliceOfNothing
<1>8. CASE Finish \/ PopulateOldList \/ RearmCleanup \/ WriteReport
  BY <1>1, <1>8 DEF Finish, PopulateOldList, RearmCleanup, WriteReport
<1>. QED
  BY <1>2, <1>3, <1>4, <1>5, <1>6, <1>7, <1>8 DEF Next, TimerThread

\* Most actions leave the lists and the reports alone.
LEMMA ListsKeptByMost ==
    ASSUME Next, ~ (\E c \in Clients : Accept(c)), ~ Finish, ~ PopulateOldList,
           ~ PurgeEntry, ~ WriteReport
    PROVE  UNCHANGED <<connections, old, sessionID, queue, files>>
<1>1. CASE HandleExisting \/ Tick \/ \E c \in Clients, kind \in Kinds : FindConnection(c, kind)
  BY <1>1 DEF HandleExisting, Tick, FindConnection
<1>2. CASE StartSlicing \/ TrafficEnds \/ Slice \/ SliceOfNothing
  BY <1>2 DEF StartSlicing, TrafficEnds, Slice, SliceOfNothing
<1>3. CASE SendFIN \/ RearmCleanup
  BY <1>3 DEF SendFIN, RearmCleanup
<1>. QED
  BY <1>1, <1>2, <1>3 DEF Next, TimerThread

LEMMA ListsShrink ==
    ASSUME TypeInv, ListsInv, Kept,
           IsInjective(connections'), IsInjective(old'),
           ToSet(connections') \subseteq ToSet(connections),
           ToSet(old') \subseteq ToSet(old) \cup (ToSet(connections) \ ToSet(connections'))
    PROVE  ListsInv'
<1>1. ToSet(connections) \subseteq Slots /\ ToSet(old) \subseteq Slots
  BY Members DEF TypeInv, TypeOK
<1>2. ToSet(connections') \cap ToSet(old') = {}
  BY DEF ListsInv
<1>3. ASSUME NEW s \in ToSet(connections') \cup ToSet(old') PROVE conn'[s].live
  <2>1. s \in Slots /\ conn[s].live
    BY <1>1 DEF ListsInv
  <2>. QED
    BY <2>1 DEF Kept, Same
<1>4. ASSUME NEW s \in ToSet(connections'), NEW t \in ToSet(connections'),
             conn'[s].client = conn'[t].client
      PROVE  s = t
  <2>1. conn[s].client = conn[t].client
    BY <1>1, <1>4 DEF Kept, Same
  <2>. QED
    BY <2>1 DEF ListsInv
<1>. QED
  BY <1>2, <1>3, <1>4 DEF ListsInv

LEMMA PopulateLists ==
    ASSUME TypeInv, ListsInv, PopulateOldList
    PROVE  /\ IsInjective(connections') /\ IsInjective(old')
           /\ ToSet(connections') = ToSet(connections) \ Aged
           /\ ToSet(old') = ToSet(old) \cup (ToSet(connections) \cap Aged)
<1>1. PICK c \in Seq(Slots), o \in Seq(Slots) : c = connections /\ o = old
  BY DEF TypeInv, TypeOK
<1>2. IsInjective(c) /\ IsInjective(o) /\ ToSet(c) \cap ToSet(o) = {} /\ ToSet(c) \subseteq Slots
  BY <1>1, Members DEF ListsInv
<1>3. PICK a : a = Sublist(c, Aged)
  OBVIOUS
<1>4. a \in Seq(Slots) /\ ToSet(a) = ToSet(c) \cap Aged /\ IsInjective(a)
  BY <1>2, <1>3, SublistProperties
<1>5. PICK b : b = Sublist(c, Slots \ Aged)
  OBVIOUS
<1>6. ToSet(b) = ToSet(c) \ Aged /\ IsInjective(b)
  BY <1>2, <1>5, SublistProperties
<1>7. ToSet(o \o a) = ToSet(o) \cup ToSet(a) /\ IsInjective(o \o a)
  <2>1. ToSet(o) \cap ToSet(a) = {}
    BY <1>2, <1>4
  <2>. QED
    BY <1>2, <1>4, <2>1, JoinProperties
<1>8. connections' = b /\ old' = o \o a
  BY <1>1, <1>3, <1>5 DEF PopulateOldList
<1>. QED
  BY <1>1, <1>4, <1>6, <1>7, <1>8

LEMMA FinishLists ==
    ASSUME TypeInv, ListsInv, Finish, connections' = Sublist(connections, Slots \ {Head(timers).data})
    PROVE  /\ IsInjective(connections')
           /\ ToSet(connections') = ToSet(connections) \ {Head(timers).data}
<1>1. PICK c \in Seq(Slots) : c = connections
  BY DEF TypeInv, TypeOK
<1>2. IsInjective(c) /\ ToSet(c) \subseteq Slots
  BY <1>1, Members DEF ListsInv
<1>3. ToSet(connections') = ToSet(c) \cap (Slots \ {Head(timers).data}) /\ IsInjective(connections')
  BY <1>1, <1>2, SublistProperties
<1>. QED
  BY <1>1, <1>2, <1>3

LEMMA AcceptLists ==
    ASSUME TypeInv, ListsInv, NEW c \in Clients, Accept(c)
    PROVE  \E s \in Slots :
              /\ ~ conn[s].live /\ s \notin ToSet(connections) \cup ToSet(old)
              /\ IsInjective(connections') /\ old' = old
              /\ ToSet(connections') = ToSet(connections) \cup {s}
              /\ \A t \in Slots : t # s => conn'[t] = conn[t]
              /\ conn'[s].live /\ conn'[s].client = c /\ conn'[s].session = sessionID
              /\ conn'[s].state = "synack"
              /\ \A t \in ToSet(connections) : conn[t].client # c
<1>1. PICK s \in Slots :
              /\ ~ conn[s].live
              /\ connections' = Append(connections, s)
              /\ \A t \in Slots : t # s => conn'[t] = conn[t]
              /\ conn'[s].live /\ conn'[s].client = c /\ conn'[s].session = sessionID
              /\ conn'[s].state = "synack"
  BY AcceptConn
<1>2. s \notin ToSet(connections) \cup ToSet(old)
  BY <1>1 DEF ListsInv
<1>3. IsInjective(connections') /\ ToSet(connections') = ToSet(connections) \cup {s}
  <2>1. connections \in Seq(Slots) /\ IsInjective(connections) /\ s \notin ToSet(connections)
    BY <1>2 DEF TypeInv, TypeOK, ListsInv
  <2>2. /\ ToSet(Append(connections, s)) = ToSet(connections) \cup {s}
        /\ IsInjective(Append(connections, s))
    BY <2>1, PushProperties
  <2>. QED
    BY <1>1, <2>2
<1>4. \A t \in ToSet(connections) : conn[t].client # c
  BY DEF Accept, Matches, ToSet
<1>5. old' = old
  BY DEF Accept
<1>. QED
  BY <1>1, <1>2, <1>3, <1>4, <1>5

LEMMA NextLists == ASSUME TypeInv, ListsInv, Next PROVE ListsInv'
<1>0. ToSet(connections) \subseteq Slots /\ ToSet(old) \subseteq Slots
  BY Members DEF TypeInv, TypeOK
<1>1. CASE \E c \in Clients : Accept(c)
  <2>1. PICK c \in Clients : Accept(c)
    BY <1>1
  <2>2. PICK s \in Slots :
              /\ ~ conn[s].live /\ s \notin ToSet(connections) \cup ToSet(old)
              /\ IsInjective(connections') /\ old' = old
              /\ ToSet(connections') = ToSet(connections) \cup {s}
              /\ \A t \in Slots : t # s => conn'[t] = conn[t]
              /\ conn'[s].live /\ conn'[s].client = c
              /\ \A t \in ToSet(connections) : conn[t].client # c
    BY <2>1, AcceptLists
  <2>3. IsInjective(old') /\ ToSet(connections') \cap ToSet(old') = {}
    BY <2>2 DEF ListsInv
  <2>4. ASSUME NEW t \in ToSet(connections') \cup ToSet(old') PROVE conn'[t].live
    BY <1>0, <2>2 DEF ListsInv
  <2>5. ASSUME NEW t \in ToSet(connections'), NEW u \in ToSet(connections'),
               conn'[t].client = conn'[u].client
        PROVE  t = u
    <3>1. CASE t = s
      BY <1>0, <2>2, <2>5, <3>1
    <3>2. CASE u = s
      BY <1>0, <2>2, <2>5, <3>2
    <3>3. CASE t # s /\ u # s
      BY <1>0, <2>2, <2>5, <3>3 DEF ListsInv
    <3>. QED
      BY <3>1, <3>2, <3>3
  <2>. QED
    BY <2>2, <2>3, <2>4, <2>5 DEF ListsInv
<1>2. CASE PurgeEntry
  <2>1. old \in Seq(Slots) /\ old # <<>> /\ old' = Tail(old) /\ UNCHANGED connections
    BY <1>2 DEF PurgeEntry, TypeInv, TypeOK
  <2>2. IsInjective(old') /\ ToSet(old') = ToSet(old) \ {Head(old)}
    BY <2>1, PopProperties DEF ListsInv
  <2>3. Head(old) \in ToSet(old) /\ \A t \in Slots : t # Head(old) => conn'[t] = conn[t]
    BY <1>2, PurgeConn
  <2>4. \A t \in ToSet(connections) \cup ToSet(old') : t # Head(old) /\ t \in Slots /\ conn'[t] = conn[t]
    BY <1>0, <2>2, <2>3 DEF ListsInv
  <2>. QED
    BY <2>1, <2>2, <2>4 DEF ListsInv
<1>3. CASE ~ (\E c \in Clients : Accept(c)) /\ ~ PurgeEntry
  <2>1. Kept
    BY <1>3, KeptByMost
  <2>2. CASE UNCHANGED <<connections, old>>
    BY <2>1, <2>2, ListsShrink DEF ListsInv
  <2>3. CASE Finish
    <3>1. CASE UNCHANGED connections
      BY <2>2, <2>3, <3>1 DEF Finish
    <3>2. CASE connections' = Sublist(connections, Slots \ {Head(timers).data})
      <4>1. IsInjective(connections') /\ ToSet(connections') \subseteq ToSet(connections)
        BY <2>3, <3>2, FinishLists
      <4>2. IsInjective(old') /\ ToSet(old') = ToSet(old)
        BY <2>3 DEF Finish, ListsInv
      <4>. QED
        BY <2>1, <4>1, <4>2, ListsShrink
    <3>. QED
      BY <2>3, <3>1, <3>2, FinishCases
  <2>4. CASE PopulateOldList
    BY <2>1, <2>4, PopulateLists, ListsShrink
  <2>5. CASE WriteReport
    BY <2>2, <2>5 DEF WriteReport
  <2>. QED
    BY <1>3, <2>2, <2>3, <2>4, <2>5, ListsKeptByMost
<1>. QED
  BY <1>1, <1>2, <1>3


\* The connections that are not reported yet.
Listed == ToSet(connections) \cup ToSet(old)

LEMMA ListedTyped == ASSUME TypeInv, ListsInv, NEW s \in Listed PROVE s \in Slots /\ conn[s].live
<1>1. ToSet(connections) \subseteq Slots /\ ToSet(old) \subseteq Slots
  BY Members DEF TypeInv, TypeOK
<1>. QED
  BY <1>1 DEF Listed, ListsInv

\* Nothing is reported.
LEMMA SessionsKept ==
    ASSUME TypeInv, ListsInv, SessionInv, Kept, sessionID' = sessionID,
           Listed' \subseteq Listed, ReportedOnce',
           ToSet(queue') \cup files' \subseteq ToSet(queue) \cup files
    PROVE  SessionInv'
<1>1. \A s \in Listed' : s \in Slots
  BY ListedTyped
<1>2. \A s \in Slots : conn'[s].live => conn'[s].session < sessionID
  BY DEF SessionInv, Kept, Same
<1>3. ASSUME NEW s \in Slots, NEW t \in Slots,
             conn'[s].live, conn'[t].live, conn'[s].session = conn'[t].session
      PROVE  s = t
  BY <1>3 DEF SessionInv, Kept, Same
<1>4. ASSUME NEW n \in ToSet(queue') \cup files'
      PROVE  n < sessionID /\ \A s \in Listed' : conn'[s].session # n
  <2>1. n < sessionID /\ \A s \in Listed : conn[s].session # n
    BY <1>4 DEF SessionInv, Listed
  <2>. QED
    BY <1>1, <2>1 DEF Kept, Same
<1>. QED
  BY <1>2, <1>3, <1>4 DEF SessionInv, Listed

\* A listed connection is taken off its list and reported.
LEMMA SessionReported ==
    ASSUME TypeInv, ListsInv, SessionInv, NEW s \in Listed,
           s \notin Listed', Listed' \subseteq Listed,
           sessionID' = sessionID, queue' = Append(queue, conn[s].session), files' = files,
           \A t \in Slots : t # s => Same(conn'[t], conn[t]),
           conn'[s].session = conn[s].session
    PROVE  SessionInv'
<1>1. s \in Slots /\ conn[s].live /\ \A t \in Listed' : t \in Slots /\ conn[t].live /\ t # s
  BY ListedTyped
<1>2. PICK n : n = conn[s].session
  OBVIOUS
<1>3. n \in 0..MaxSessions /\ queue \in Seq(0..MaxSessions)
  BY <1>1, <1>2 DEF TypeInv, TypeOK, Connections
<1>4. n \notin ToSet(queue) /\ n \notin files /\ n < sessionID
  BY <1>1, <1>2 DEF SessionInv, Listed
<1>5. ToSet(queue') = ToSet(queue) \cup {n} /\ IsInjective(queue')
  <2>1. IsInjective(queue)
    BY DEF SessionInv, ReportedOnce
  <2>2. PICK T : T = 0..MaxSessions
    OBVIOUS
  <2>3. queue \in Seq(T) /\ n \in T
    BY <1>3, <2>2
  <2>4. PICK q \in Seq(T) : q = queue
    BY <2>3
  <2>5. ToSet(Append(q, n)) = ToSet(q) \cup {n} /\ (IsInjective(q) /\ n \notin ToSet(q) => IsInjective(Append(q, n)))
    BY <2>3, PushProperties, ZenonT(40)
  <2>6. ToSet(Append(queue, n)) = ToSet(queue) \cup {n} /\ IsInjective(Append(queue, n))
    BY <1>4, <2>1, <2>4, <2>5
  <2>. QED
    BY <1>2, <2>6
<1>6. ReportedOnce'
  BY <1>4, <1>5 DEF SessionInv, ReportedOnce
<1>7. \A t \in Slots : conn'[t].session = conn[t].session /\ (conn'[t].live => conn[t].live)
  BY <1>1 DEF Same
<1>8. \A t \in Slots : conn'[t].live => conn'[t].session < sessionID
  BY <1>7 DEF SessionInv
<1>9. ASSUME NEW t \in Slots, NEW u \in Slots,
             conn'[t].live, conn'[u].live, conn'[t].session = conn'[u].session
      PROVE  t = u
  BY <1>7, <1>9 DEF SessionInv
<1>10. ASSUME NEW m \in ToSet(queue') \cup files'
       PROVE  m < sessionID /\ \A t \in Listed' : conn'[t].session # m
  <2>1. CASE m = n
    <3>1. \A t \in Listed' : conn[t].session # n
      BY <1>1, <1>2 DEF SessionInv
    <3>. QED
      BY <1>1, <1>4, <1>7, <2>1, <3>1
  <2>2. CASE m # n
    <3>1. m < sessionID /\ \A t \in Listed : conn[t].session # m
      BY <1>5, <1>10, <2>2 DEF SessionInv, Listed
    <3>. QED
      BY <1>1, <1>7, <3>1
  <2>. QED
    BY <2>1, <2>2
<1>. QED
  BY <1>6, <1>8, <1>9, <1>10 DEF SessionInv, Listed

LEMMA NextSessions == ASSUME TypeInv, ListsInv, SessionInv, Next PROVE SessionInv'
<1>0. ReportedOnce /\ sessionID \in Nat
  BY DEF SessionInv, TypeInv, TypeOK
<1>1. CASE \E c \in Clients : Accept(c)
  <2>1. PICK c \in Clients : Accept(c)
    BY <1>1
  <2>2. PICK s \in Slots :
              /\ ~ conn[s].live /\ s \notin ToSet(connections) \cup ToSet(old)
              /\ old' = old
              /\ ToSet(connections') = ToSet(connections) \cup {s}
              /\ \A t \in Slots : t # s => conn'[t] = conn[t]
              /\ conn'[s].live /\ conn'[s].session = sessionID
    BY <2>1, AcceptLists
  <2>3. sessionID' = sessionID + 1 /\ UNCHANGED <<queue, files>>
    BY <2>1 DEF Accept
  <2>4. \A t \in Slots : t # s /\ conn[t].live => conn[t].session < sessionID
                                                 /\ conn[t].session \in Nat
    <3>1. ASSUME NEW t \in Slots PROVE conn[t].session \in Nat
      <4>1. PICK r \in Connections : r = conn[t]
        BY DEF TypeInv, TypeOK
      <4>2. r.session \in 0..MaxSessions
        BY DEF Connections
      <4>. QED
        BY <4>1, <4>2
    <3>2. \A t \in Slots : conn[t].live => conn[t].session < sessionID
      BY DEF SessionInv
    <3>. QED
      BY <3>1, <3>2
  <2>5. \A t \in Slots : conn'[t].live => conn'[t].session < sessionID'
    BY <1>0, <2>2, <2>3, <2>4
  <2>6. ASSUME NEW t \in Slots, NEW u \in Slots,
               conn'[t].live, conn'[u].live, conn'[t].session = conn'[u].session
        PROVE  t = u
    <3>1. CASE t = s
      BY <1>0, <2>2, <2>4, <2>6, <3>1
    <3>2. CASE u = s
      BY <1>0, <2>2, <2>4, <2>6, <3>2
    <3>3. CASE t # s /\ u # s
      BY <2>2, <2>6, <3>3 DEF SessionInv
    <3>. QED
      BY <3>1, <3>2, <3>3
  <2>7. ASSUME NEW n \in ToSet(queue') \cup files'
        PROVE  n < sessionID' /\ \A t \in Listed' : conn'[t].session # n
    <3>1. n < sessionID /\ \A t \in Listed : conn[t].session # n
      BY <2>3, <2>7 DEF SessionInv, Listed
    <3>2. n \in Nat
      <4>1. ToSet(queue) \subseteq 0..MaxSessions /\ files \subseteq 0..MaxSessions
        BY Members DEF TypeInv, TypeOK
      <4>2. n \in ToSet(queue) \cup files
        BY <2>3, <2>7
      <4>3. n \in 0..MaxSessions
        BY <4>1, <4>2
      <4>. QED
        BY <4>3
    <3>3. \A t \in Listed' : t = s \/ (t \in Listed /\ t # s /\ t \in Slots)
      BY <2>2, ListedTyped DEF Listed
    <3>. QED
      BY <1>0, <2>2, <2>3, <3>1, <3>2, <3>3
  <2>8. ReportedOnce'
    BY <1>0, <2>3 DEF ReportedOnce
  <2>. QED
    BY <2>5, <2>6, <2>7, <2>8 DEF SessionInv, Listed
<1>2. CASE PurgeEntry
  <2>1. /\ old \in Seq(Slots) /\ old # <<>> /\ old' = Tail(old)
        /\ UNCHANGED <<connections, sessionID, files>>
    BY <1>2 DEF PurgeEntry, TypeInv, TypeOK
  <2>2. PICK s \in Slots : s = Head(old)
    BY <1>2, PurgeConn
  <2>3. ToSet(old') = ToSet(old) \ {s} /\ s \in ToSet(old)
    BY <2>1, <2>2, PopProperties DEF ListsInv
  <2>4. s \in Listed /\ s \notin Listed' /\ Listed' \subseteq Listed
    BY <2>1, <2>3 DEF Listed, ListsInv
  <2>5. \A t \in Slots : t # s => conn'[t] = conn[t]
    BY <1>2, <2>2, PurgeConn
  <2>6. conn'[s].session = conn[s].session
    BY <1>2, <2>2 DEF PurgeEntry, TypeInv, TypeOK, Connections
  <2>7. \A t \in Slots : t # s => Same(conn'[t], conn[t])
    BY <2>5 DEF Same
  <2>8. CASE Analysed(s)
    <3>1. queue' = Append(queue, conn[s].session)
      BY <1>2, <2>2, <2>8, PurgeConn
    <3>. QED
      BY <2>1, <2>4, <2>6, <2>7, <3>1, SessionReported
  <2>9. CASE ~ Analysed(s)
    <3>1. queue' = queue
      BY <1>2, <2>2, <2>9, PurgeConn
    <3>2. ~ conn'[s].live
      BY <1>2, <2>2, PurgeConn
    <3>3. \A t \in Slots : conn'[t].live => conn'[t].session < sessionID'
      BY <2>1, <2>5, <3>2 DEF SessionInv
    <3>4. ASSUME NEW t \in Slots, NEW u \in Slots,
                 conn'[t].live, conn'[u].live, conn'[t].session = conn'[u].session
          PROVE  t = u
      BY <2>5, <3>2, <3>4 DEF SessionInv
    <3>5. ASSUME NEW n \in ToSet(queue') \cup files', NEW t \in Listed'
          PROVE  n < sessionID' /\ conn'[t].session # n
      <4>1. t \in Listed /\ t # s /\ t \in Slots
        BY <2>4, <3>5, ListedTyped
      <4>. QED
        BY <2>1, <2>5, <3>1, <3>5, <4>1 DEF SessionInv, Listed
    <3>6. \A n \in ToSet(queue') \cup files' : n < sessionID'
      BY <2>1, <3>1 DEF SessionInv
    <3>7. ReportedOnce'
      BY <1>0, <2>1, <3>1 DEF ReportedOnce
    <3>. QED
      BY <3>3, <3>4, <3>5, <3>6, <3>7 DEF SessionInv, Listed
  <2>. QED
    BY <2>8, <2>9
<1>3. CASE ~ (\E c \in Clients : Accept(c)) /\ ~ PurgeEntry
  <2>1. Kept
    BY <1>3, KeptByMost
  <2>2. CASE UNCHANGED <<connections, old, sessionID, queue, files>>
    <3>1. ReportedOnce' /\ Listed' = Listed
      BY <1>0, <2>2 DEF ReportedOnce, Listed
    <3>. QED
      BY <2>1, <2>2, <3>1, SessionsKept
  <2>3. CASE Finish
    <3>1. CASE UNCHANGED <<connections, queue>>
      BY <2>2, <2>3, <3>1 DEF Finish
    <3>2. CASE /\ Head(timers).data \in ToSet(connections)
               /\ connections' = Sublist(connections, Slots \ {Head(timers).data})
               /\ queue' = Append(queue, conn[Head(timers).data].session)
      <4>1. PICK s \in Slots : s = Head(timers).data
        BY <2>3, FinishCases
      <4>2. ToSet(connections') = ToSet(connections) \ {s} /\ UNCHANGED <<old, sessionID, files>>
        BY <2>3, <3>2, <4>1, FinishLists DEF Finish
      <4>3. s \in Listed /\ s \notin Listed' /\ Listed' \subseteq Listed
        BY <3>2, <4>1, <4>2 DEF Listed, ListsInv
      <4>. QED
        BY <2>1, <3>2, <4>1, <4>2, <4>3, SessionReported DEF Kept, Same
    <3>. QED
      BY <2>3, <3>1, <3>2, FinishCases
  <2>4. CASE PopulateOldList
    <3>1. UNCHANGED <<sessionID, queue, files>>
      BY <2>4 DEF PopulateOldList
    <3>2. ReportedOnce'
      BY <1>0, <3>1 DEF ReportedOnce
    <3>3. Listed' \subseteq Listed
      BY <2>4, PopulateLists DEF Listed
    <3>. QED
      BY <2>1, <3>1, <3>2, <3>3, SessionsKept
  <2>5. CASE WriteReport
    <3>1. /\ queue # <<>> /\ queue' = Tail(queue) /\ files' = files \cup {Head(queue)}
          /\ UNCHANGED <<connections, old, sessionID>> /\ queue \in Seq(0..MaxSessions)
      BY <2>5 DEF WriteReport, TypeInv, TypeOK
    <3>2. /\ Head(queue) \in ToSet(queue) /\ IsInjective(queue')
          /\ ToSet(queue') = ToSet(queue) \ {Head(queue)}
      BY <1>0, <3>1, PopProperties DEF ReportedOnce
    <3>3. ReportedOnce' /\ Listed' = Listed
      BY <1>0, <3>1, <3>2 DEF ReportedOnce, Listed
    <3>. QED
      BY <2>1, <3>1, <3>2, <3>3, SessionsKept
  <2>. QED
    BY <1>3, <2>2, <2>3, <2>4, <2>5, ListsKeptByMost
<1>. QED
  BY <1>1, <1>2, <1>3


LEMMA InitStruct == Init => StructInv
<1>. SUFFICES ASSUME Init PROVE StructInv
  OBVIOUS
<1>1. TypeInv
  BY InitTyped
<1>2. connections = <<>> /\ old = <<>> /\ queue = <<>> /\ files = {} /\ \A s \in Slots : ~ conn[s].live
  BY DEF Init, Blank
<1>3. DOMAIN connections = {} /\ DOMAIN old = {} /\ DOMAIN queue = {}
  BY <1>2
<1>4. ToSet(connections) = {} /\ ToSet(old) = {} /\ ToSet(queue) = {}
  BY <1>3 DEF ToSet
<1>5. IsInjective(connections) /\ IsInjective(old) /\ IsInjective(queue)
  BY <1>3 DEF IsInjective
<1>6. ListsInv
  BY <1>4, <1>5 DEF ListsInv
<1>7. SessionInv
  BY <1>2, <1>4, <1>5 DEF SessionInv, ReportedOnce
<1>. QED
  BY <1>1, <1>6, <1>7 DEF StructInv

LEMMA NextStruct == StructInv /\ [Next]_vars => StructInv'
<1>. SUFFICES ASSUME StructInv, [Next]_vars PROVE StructInv'
  OBVIOUS
<1>1. CASE Next
  BY <1>1, NextTyped, NextLists, NextSessions DEF StructInv
<1>2. CASE UNCHANGED vars
  BY <1>2 DEF vars, StructInv, TypeInv, TypeOK, ListsInv, SessionInv, ReportedOnce, Sorted
<1>. QED
  BY <1>1, <1>2

\* The lists, the sessions and the types together are inductive.
THEOREM StructInvariant == Spec => []StructInv
<1>. QED
  BY InitStruct, NextStruct, PTL DEF Spec

\* Every variable of fmnc_manager.cc's model keeps its type: the lists hold
\* addresses of connections, the timers are timers and reports are of sessions.
THEOREM TypeCorrect == Spec => []TypeOK
<1>1. StructInv => TypeOK
  BY DEF StructInv, TypeInv
<1>. QED
  BY <1>1, StructInvariant, PTL

\* m_Connections and m_OldConnections share no connection and repeat none, hold
\* only connections that are not deleted, and no two of one client are in the first.
THEOREM ConnectionsListedOnce == Spec => []ListsDisjoint
<1>1. ASSUME StructInv PROVE ListsDisjoint
  <2>1. /\ connections \in Seq(Slots) /\ old \in Seq(Slots)
        /\ IsInjective(connections) /\ IsInjective(old)
        /\ ToSet(connections) \cap ToSet(old) = {}
    BY <1>1 DEF StructInv, TypeInv, TypeOK, ListsInv
  <2>2. /\ ToSet(connections \o old) = ToSet(connections) \cup ToSet(old)
        /\ IsInjective(connections \o old)
    BY <2>1, JoinProperties
  <2>3. \A s \in ToSet(connections \o old) : conn[s].live
    BY <1>1, <2>2 DEF StructInv, ListsInv
  <2>4. ASSUME NEW i \in DOMAIN connections, NEW k \in DOMAIN connections,
               conn[connections[i]].client = conn[connections[k]].client
        PROVE  i = k
    <3>1. connections[i] \in ToSet(connections) /\ connections[k] \in ToSet(connections)
      BY DEF ToSet
    <3>2. connections[i] = connections[k]
      BY <1>1, <2>4, <3>1 DEF StructInv, ListsInv
    <3>. QED
      BY <2>1, <3>2 DEF IsInjective
  <2>. QED
    BY <2>2, <2>3, <2>4 DEF ListsDisjoint
<1>. QED
  BY <1>1, StructInvariant, PTL

\* doTimer_Finish, its repetitions for every packet after the FIN, and the purge
\* of doTimer_Cleanup together write at most one report about a session.
THEOREM SessionsReportedOnce == Spec => []ReportedOnce
<1>1. StructInv => ReportedOnce
  BY DEF StructInv, SessionInv
<1>. QED
  BY <1>1, StructInvariant, PTL


-----------------------------------------------------------------------------
(* Timers and their connections.                                           *)

\* Actions that touch neither the timers nor the connections' states.
LEMMA OwnersKept ==
    ASSUME TypeInv, OwnerInv, UNCHANGED <<timers, dispatcher>>, ToSet(old') \subseteq ToSet(old),
           \A s \in Slots : conn[s].live /\ s \notin ToSet(old) =>
               conn'[s].live /\ conn'[s].state = conn[s].state,
           \A s \in Slots : conn'[s].live /\ conn'[s].state \in {"active", "waiting"} =>
               conn[s].live /\ conn[s].state = conn'[s].state
    PROVE  OwnerInv'
<1>1. Single(timers)'
  BY DEF OwnerInv, Single
<1>2. ASSUME NEW e \in ToSet(timers'), e.id # "cleanup" PROVE Owned(e)'
  <2>1. e \in ToSet(timers) /\ e.data \in Slots
    BY <1>2, TimersTyped
  <2>2. Owned(e)
    BY <1>2, <2>1 DEF OwnerInv
  <2>. QED
    BY <2>1, <2>2 DEF Owned
<1>3. ASSUME NEW s \in Slots, s = dispatcher'.event.data PROVE Worked(s)'
  <2>1. Worked(s)
    BY <1>3 DEF OwnerInv
  <2>. QED
    BY <2>1 DEF Worked
<1>4. ASSUME NEW s \in Slots, conn'[s].live, conn'[s].state \in {"active", "waiting"}
      PROVE  Carried(s)'
  <2>1. Carried(s)
    BY <1>4 DEF OwnerInv
  <2>. QED
    BY <2>1 DEF Carried
<1>. QED
  BY <1>1, <1>2, <1>3, <1>4 DEF OwnerInv

LEMMA AcceptOwners ==
    ASSUME TypeInv, ListsInv, OwnerInv, NEW c \in Clients, Accept(c) PROVE OwnerInv'
<1>1. PICK s \in Slots :
          /\ ~ conn[s].live /\ old' = old
          /\ \A t \in Slots : t # s => conn'[t] = conn[t]
          /\ conn'[s].state = "synack"
  BY AcceptLists
<1>2. UNCHANGED <<timers, dispatcher>>
  BY DEF Accept
<1>3. \A t \in Slots : conn[t].live => conn'[t] = conn[t]
  BY <1>1
<1>4. \A t \in Slots : conn'[t].live /\ conn'[t].state \in {"active", "waiting"} => conn'[t] = conn[t]
  BY <1>1
<1>. QED
  BY <1>1, <1>2, <1>3, <1>4, OwnersKept

LEMMA PurgeOwners ==
    ASSUME TypeInv, ListsInv, OwnerInv, PurgeEntry PROVE OwnerInv'
<1>1. /\ Head(old) \in ToSet(old)
      /\ \A t \in Slots : t # Head(old) => conn'[t] = conn[t]
      /\ ~ conn'[Head(old)].live
  BY PurgeConn
<1>2. old \in Seq(Slots) /\ old # <<>> /\ old' = Tail(old) /\ UNCHANGED <<timers, dispatcher>>
  BY DEF PurgeEntry, TypeInv, TypeOK
<1>3. ToSet(old') \subseteq ToSet(old)
  BY <1>2, PopProperties DEF ListsInv
<1>4. \A t \in Slots : t \notin ToSet(old) => conn'[t] = conn[t]
  BY <1>1
<1>5. \A t \in Slots : conn'[t].live => conn'[t] = conn[t]
  BY <1>1
<1>. QED
  BY <1>2, <1>3, <1>4, <1>5, OwnersKept

\* A callback that carries a sequence on fires and does not go on to another: the
\* timer thread works on it, or the sequence is over.
LEMMA CarrierPopped ==
    ASSUME TypeInv, OwnerInv, NEW id, Fires(id), timers' = Tail(timers), old' = old,
           NEW s, s = Head(timers).data, NEW state, NEW idle, NEW wait, NEW held,
           Becomes(s, state, idle, wait, held),
           Carrying(Head(timers)), Owned(Head(timers)),
           \/ dispatcher'.event.data = s /\ state = "active"
           \/ dispatcher'.event.data = NoConn /\ state \notin {"active", "waiting"}
    PROVE  OwnerInv'
<1>1. PICK h \in Timers : h = Head(timers) /\ h.id = id /\ Popped(h, timers')
  BY FiresPopped DEF Popped
<1>2. /\ Single(timers') /\ Joins(timers', h)
      /\ ToSet(timers') \subseteq ToSet(timers) /\ ToSet(timers) \ {h} \subseteq ToSet(timers')
  BY <1>1 DEF Popped, OwnerInv
<1>3. dispatcher.event.data \notin Slots
  BY FiresPopped DEF TypeInv
<1>4. NoConn \notin Slots
  BY ParameterAssumption
<1>5. ASSUME NEW e \in ToSet(timers'), e.id # "cleanup" PROVE Owned(e)'
  <2>1. e \in ToSet(timers) /\ e.data \in Slots
    BY <1>2, <1>5, TimersTyped
  <2>2. Owned(e)
    BY <1>5, <2>1 DEF OwnerInv
  <2>3. CASE e.data = s
    <3>1. ~ Carrying(e)
      BY <1>1, <1>2, <2>3 DEF Joins
    <3>2. conn'[e.data].live = conn[e.data].live
      BY <2>1 DEF Becomes, Same
    <3>. QED
      BY <2>2, <3>1, <3>2 DEF Owned, Carrying
  <2>4. CASE e.data # s
    <3>1. conn'[e.data].live = conn[e.data].live /\ conn'[e.data].state = conn[e.data].state
      BY <2>1, <2>4 DEF Becomes, Same
    <3>. QED
      BY <2>2, <3>1 DEF Owned
  <2>. QED
    BY <2>3, <2>4
<1>6. ASSUME NEW t \in Slots, t = dispatcher'.event.data PROVE Worked(t)'
  <2>1. t = s /\ state = "active"
    BY <1>4, <1>6
  <2>2. conn'[s].live /\ conn'[s].state = "active" /\ s \notin ToSet(old)
    BY <1>6, <2>1 DEF Becomes, Same, Owned
  <2>3. \A e \in ToSet(timers') : Carrying(e) => e.data # s
    BY <1>1, <1>2 DEF Joins
  <2>. QED
    BY <2>1, <2>2, <2>3 DEF Worked
<1>7. ASSUME NEW t \in Slots, conn'[t].live, conn'[t].state \in {"active", "waiting"}
      PROVE  Carried(t)'
  <2>1. CASE t = dispatcher'.event.data
    BY <2>1 DEF Carried
  <2>2. CASE t # dispatcher'.event.data
    <3>1. t # s
      BY <1>7, <2>2 DEF Becomes
    <3>2. conn[t].live /\ conn[t].state = conn'[t].state
      BY <1>7, <3>1 DEF Becomes, Same
    <3>3. PICK e \in ToSet(timers) : Carrying(e) /\ e.data = t
      BY <1>3, <1>7, <3>2 DEF OwnerInv, Carried
    <3>4. e \in ToSet(timers')
      BY <1>1, <1>2, <3>1, <3>3
    <3>. QED
      BY <3>3, <3>4 DEF Carried
  <2>. QED
    BY <2>1, <2>2
<1>. QED
  BY <1>2, <1>5, <1>6, <1>7 DEF OwnerInv

\* Another event fires.
LEMMA OtherPopped ==
    ASSUME TypeInv, OwnerInv, NEW id, Fires(id), timers' = Tail(timers), UNCHANGED conn,
           ~ Carrying(Head(timers)), dispatcher'.event.data = NoConn,
           \A e \in ToSet(timers) : e.id # "cleanup" => e.data \notin ToSet(old')
    PROVE  OwnerInv'
<1>1. PICK h \in Timers : h = Head(timers) /\ Popped(h, timers')
  BY FiresPopped DEF Popped
<1>2. /\ Single(timers')
      /\ ToSet(timers') \subseteq ToSet(timers) /\ ToSet(timers) \ {h} \subseteq ToSet(timers')
  BY <1>1 DEF Popped, OwnerInv
<1>3. dispatcher.event.data \notin Slots /\ NoConn \notin Slots
  BY FiresPopped, ParameterAssumption DEF TypeInv
<1>4. ASSUME NEW e \in ToSet(timers'), e.id # "cleanup" PROVE Owned(e)'
  <2>1. Owned(e) /\ e.data \notin ToSet(old')
    BY <1>2, <1>4 DEF OwnerInv
  <2>. QED
    BY <2>1 DEF Owned
<1>5. ASSUME NEW t \in Slots, conn'[t].live, conn'[t].state \in {"active", "waiting"}
      PROVE  Carried(t)'
  <2>1. PICK e \in ToSet(timers) : Carrying(e) /\ e.data = t
    BY <1>3, <1>5 DEF OwnerInv, Carried
  <2>2. e \in ToSet(timers')
    BY <1>1, <1>2, <2>1
  <2>. QED
    BY <2>1, <2>2 DEF Carried
<1>. QED
  BY <1>2, <1>3, <1>4, <1>5 DEF OwnerInv

\* What an event that is due may take for granted.
LEMMA FiresOwned ==
    ASSUME TypeInv, OwnerInv, NEW id \in {"start", "slice", "fin", "finish"}, Fires(id)
    PROVE  Owned(Head(timers)) /\ Head(timers).id = id /\ Head(timers).data \in Slots
<1>1. Head(timers) \in ToSet(timers) /\ Head(timers).id = id /\ Head(timers).data \in Slots
  BY FiresPopped DEF Popped
<1>. QED
  BY <1>1 DEF OwnerInv

LEMMA StartOwners == ASSUME TypeInv, OwnerInv, StartSlicing PROVE OwnerInv'
<1>1. Fires("start") /\ timers' = Tail(timers) /\ old' = old
  BY DEF StartSlicing
<1>2. PICK s : s = Head(timers).data
  OBVIOUS
<1>3. Owned(Head(timers)) /\ Carrying(Head(timers))
  BY <1>1, FiresOwned DEF Carrying
<1>4. Becomes(s, "active", conn[s].idle, MaxSpan, conn[s].held)
  BY <1>2, StartConn
<1>5. dispatcher'.event.data = s
  BY <1>2 DEF StartSlicing, Idle
<1>. QED
  BY <1>1, <1>2, <1>3, <1>4, <1>5, CarrierPopped

LEMMA NothingOwners == ASSUME TypeInv, OwnerInv, SliceOfNothing PROVE OwnerInv'
<1>1. Fires("slice") /\ timers' = Tail(timers) /\ UNCHANGED <<old, conn>>
  BY DEF SliceOfNothing
<1>2. PICK s \in Slots : s = Head(timers).data
  BY <1>1, FiresPopped
<1>3. Owned(Head(timers)) /\ Carrying(Head(timers))
  BY <1>1, FiresOwned DEF Carrying
<1>4. conn[s].state = "active"
  BY <1>1, <1>2, <1>3, FiresOwned DEF Owned
<1>5. Becomes(s, "active", conn[s].idle, conn[s].wait, conn[s].held)
  BY <1>1, <1>4 DEF Becomes, Same
<1>6. dispatcher'.event.data = s
  BY <1>2 DEF SliceOfNothing, Idle
<1>. QED
  BY <1>1, <1>2, <1>3, <1>5, <1>6, CarrierPopped

LEMMA SendFINOwners == ASSUME TypeInv, OwnerInv, SendFIN PROVE OwnerInv'
<1>1. Fires("fin") /\ timers' = Tail(timers) /\ UNCHANGED <<old, dispatcher>>
  BY DEF SendFIN
<1>2. PICK s : s = Head(timers).data
  OBVIOUS
<1>3. Owned(Head(timers)) /\ Carrying(Head(timers))
  BY <1>1, FiresOwned DEF Carrying
<1>4. conn[s].live
  BY <1>2, <1>3 DEF Owned
<1>5. Becomes(s, "waiting_fin_ack", conn[s].idle, conn[s].wait, conn[s].held)
  BY <1>2, <1>4, SendFINConn
<1>6. dispatcher'.event.data = NoConn
  <2>1. dispatcher.event.data \in Slots \cup {NoConn}
    BY DEF TypeInv, TypeOK, Timers
  <2>. QED
    BY <1>1, <2>1, FiresPopped DEF TypeInv
<1>. QED
  BY <1>1, <1>2, <1>3, <1>5, <1>6, CarrierPopped

LEMMA FinishOwners == ASSUME TypeInv, OwnerInv, Finish PROVE OwnerInv'
<1>1. Fires("finish") /\ timers' = Tail(timers) /\ UNCHANGED <<old, conn, dispatcher>>
  BY DEF Finish
<1>2. ~ Carrying(Head(timers))
  BY <1>1, FiresOwned DEF Carrying
<1>3. dispatcher'.event.data = NoConn
  <2>1. dispatcher.event.data \in Slots \cup {NoConn}
    BY DEF TypeInv, TypeOK, Timers
  <2>. QED
    BY <1>1, <2>1, FiresPopped DEF TypeInv
<1>4. \A e \in ToSet(timers) : e.id # "cleanup" => e.data \notin ToSet(old')
  BY <1>1 DEF OwnerInv, Owned
<1>. QED
  BY <1>1, <1>2, <1>3, <1>4, OtherPopped


LEMMA TrafficOwners == ASSUME TypeInv, OwnerInv, TrafficEnds PROVE OwnerInv'
<1>1. PICK s \in Slots, e \in Timers :
          /\ s = dispatcher.event.data
          /\ e.id = "slice" /\ e.data = s /\ Adds(timers, e, timers')
  BY TrafficTimers
<1>2. Worked(s)
  BY <1>1 DEF OwnerInv
<1>3. UNCHANGED <<conn, old>> /\ dispatcher'.event.data = NoConn /\ NoConn \notin Slots
  BY IdleDispatcher, ParameterAssumption DEF TrafficEnds
<1>4. Joins(timers, e)
  BY <1>1, <1>2 DEF Worked, Joins
<1>5. Single(timers') /\ ToSet(timers') = ToSet(timers) \cup {e}
  BY <1>1, <1>4 DEF Adds, OwnerInv
<1>6. Owned(e)
  BY <1>1, <1>2 DEF Worked, Owned
<1>7. ASSUME NEW f \in ToSet(timers'), f.id # "cleanup" PROVE Owned(f)'
  <2>1. Owned(f)
    BY <1>5, <1>6, <1>7 DEF OwnerInv
  <2>. QED
    BY <1>3, <2>1 DEF Owned
<1>8. ASSUME NEW t \in Slots, conn'[t].live, conn'[t].state \in {"active", "waiting"}
      PROVE  Carried(t)'
  <2>1. Carried(t)
    BY <1>3, <1>8 DEF OwnerInv
  <2>2. CASE t = s
    BY <1>1, <1>5, <2>2 DEF Carried, Carrying
  <2>3. CASE t # s
    BY <1>1, <1>5, <2>1, <2>3 DEF Carried
  <2>. QED
    BY <2>2, <2>3
<1>. QED
  BY <1>3, <1>5, <1>7, <1>8 DEF OwnerInv

LEMMA SliceOwners == ASSUME TypeInv, OwnerInv, Slice PROVE OwnerInv'
<1>1. Fires("slice") /\ UNCHANGED <<old, dispatcher>>
  BY DEF Slice
<1>2. PICK h \in Timers, s \in Slots :
          h = Head(timers) /\ s = h.data /\ h.id = "slice" /\ Popped(h, Tail(timers)) /\ Owned(h)
  BY <1>1, FiresPopped, FiresOwned DEF Popped
<1>3. PICK r : r = conn[s]
  OBVIOUS
<1>4. r.live /\ r.state = "active" /\ s \notin ToSet(old)
  BY <1>2, <1>3 DEF Owned
<1>5. PICK e \in Timers :
          /\ e.data = s /\ Adds(Tail(timers), e, timers')
          /\ \/ e.id = "slice" /\ r.next + 1 < r.length
             \/ e.id = "fin" /\ ~ (r.next + 1 < r.length)
  BY <1>2, <1>3, <1>4, SliceTimers DEF SliceTimer
<1>6. PICK w : Becomes(s, SlicedState(r), r.idle, w, r.held)
  BY <1>2, <1>3, SliceConn
<1>7. SlicedState(r) = IF r.next + 1 < r.length THEN "active" ELSE "waiting"
  BY <1>4 DEF SlicedState
<1>8. PICK rest : rest = Tail(timers)
  OBVIOUS
<1>9. /\ Single(rest) /\ Joins(rest, h)
      /\ ToSet(rest) \subseteq ToSet(timers) /\ ToSet(timers) \ {h} \subseteq ToSet(rest)
  BY <1>2, <1>8 DEF Popped, OwnerInv
<1>10. Joins(rest, e)
  BY <1>2, <1>5, <1>9 DEF Joins, Carrying
<1>11. Single(timers') /\ ToSet(timers') = ToSet(rest) \cup {e}
  BY <1>5, <1>8, <1>9, <1>10 DEF Adds
<1>12. dispatcher.event.data \notin Slots
  BY <1>1, FiresPopped DEF TypeInv
<1>13. conn'[s].live /\ conn'[s].state = SlicedState(r)
  BY <1>3, <1>4, <1>6 DEF Becomes, Same
<1>14. ASSUME NEW f \in ToSet(timers'), f.id # "cleanup" PROVE Owned(f)'
  <2>1. CASE f = e
    BY <1>1, <1>4, <1>5, <1>7, <1>13, <2>1 DEF Owned
  <2>2. CASE f # e
    <3>1. f \in ToSet(rest) /\ f \in ToSet(timers)
      BY <1>9, <1>11, <1>14, <2>2
    <3>2. Owned(f) /\ f.data \in Slots
      BY <1>14, <3>1, TimersTyped DEF OwnerInv
    <3>3. CASE f.data = s
      <4>1. ~ Carrying(f)
        BY <1>2, <1>9, <3>1, <3>3 DEF Joins, Carrying
      <4>. QED
        BY <1>1, <1>13, <3>2, <3>3, <4>1 DEF Owned, Carrying
    <3>4. CASE f.data # s
      <4>1. conn'[f.data].live = conn[f.data].live /\ conn'[f.data].state = conn[f.data].state
        BY <1>6, <3>2, <3>4 DEF Becomes, Same
      <4>. QED
        BY <1>1, <3>2, <4>1 DEF Owned
    <3>. QED
      BY <3>3, <3>4
  <2>. QED
    BY <2>1, <2>2
<1>15. ASSUME NEW t \in Slots, conn'[t].live, conn'[t].state \in {"active", "waiting"}
       PROVE  Carried(t)'
  <2>1. CASE t = s
    <3>1. e \in ToSet(timers') /\ Carrying(e)
      BY <1>5, <1>11 DEF Carrying
    <3>. QED
      BY <1>5, <2>1, <3>1 DEF Carried
  <2>2. CASE t # s
    <3>1. conn[t].live /\ conn[t].state = conn'[t].state
      BY <1>6, <1>15, <2>2 DEF Becomes, Same
    <3>2. PICK f \in ToSet(timers) : Carrying(f) /\ f.data = t
      BY <1>12, <1>15, <3>1 DEF OwnerInv, Carried
    <3>3. f \in ToSet(timers')
      BY <1>2, <1>9, <1>11, <2>2, <3>2
    <3>. QED
      BY <3>2, <3>3 DEF Carried
  <2>. QED
    BY <2>1, <2>2
<1>. QED
  BY <1>1, <1>11, <1>12, <1>14, <1>15 DEF OwnerInv

LEMMA RearmOwners == ASSUME TypeInv, OwnerInv, RearmCleanup PROVE OwnerInv'
<1>1. PICK e \in Timers : e.id = "cleanup" /\ Adds(timers, e, timers')
  BY RearmTimers
<1>2. Single(timers') /\ ToSet(timers') = ToSet(timers) \cup {e} /\ ~ Carrying(e)
  BY <1>1 DEF Adds, OwnerInv, Joins, Carrying
<1>3. UNCHANGED <<conn, old>> /\ dispatcher'.event.data = NoConn /\ NoConn \notin Slots
  BY IdleDispatcher, ParameterAssumption DEF RearmCleanup
<1>4. dispatcher.event.data \notin Slots
  BY DEF RearmCleanup, TypeInv
<1>5. ASSUME NEW f \in ToSet(timers'), f.id # "cleanup" PROVE Owned(f)'
  <2>1. Owned(f)
    BY <1>1, <1>2, <1>5 DEF OwnerInv
  <2>. QED
    BY <1>3, <2>1 DEF Owned
<1>6. ASSUME NEW t \in Slots, conn'[t].live, conn'[t].state \in {"active", "waiting"}
      PROVE  Carried(t)'
  BY <1>2, <1>3, <1>4, <1>6 DEF OwnerInv, Carried
<1>. QED
  BY <1>2, <1>3, <1>5, <1>6 DEF OwnerInv

LEMMA TickOwners == ASSUME TypeInv, OwnerInv, Tick PROVE OwnerInv'
<1>1. /\ \A f \in ToSet(timers') : \E e \in ToSet(timers) : f = Lowered(e)
      /\ \A e \in ToSet(timers) : Lowered(e) \in ToSet(timers')
      /\ Single(timers')
  BY TickTimers DEF OwnerInv
<1>2. \A s \in Slots : conn'[s].live = conn[s].live /\ conn'[s].state = conn[s].state
  BY TickConn DEF Same
<1>3. old' = old /\ dispatcher'.event = dispatcher.event
  BY DEF Tick
<1>4. \A e \in ToSet(timers) : Lowered(e).id = e.id /\ Lowered(e).data = e.data
  BY TimersTyped, LoweredEvent
<1>5. ASSUME NEW f \in ToSet(timers'), f.id # "cleanup" PROVE Owned(f)'
  <2>1. PICK e \in ToSet(timers) : f = Lowered(e) /\ f.id = e.id /\ f.data = e.data
    BY <1>1, <1>4
  <2>2. Owned(e) /\ e.data \in Slots
    BY <1>5, <2>1, TimersTyped DEF OwnerInv
  <2>. QED
    BY <1>2, <1>3, <2>1, <2>2 DEF Owned
<1>6. ASSUME NEW s \in Slots, s = dispatcher'.event.data PROVE Worked(s)'
  <2>1. Worked(s)
    BY <1>3, <1>6 DEF OwnerInv
  <2>2. ASSUME NEW f \in ToSet(timers'), Carrying(f) PROVE f.data # s
    <3>1. PICK e \in ToSet(timers) : f = Lowered(e) /\ f.id = e.id /\ f.data = e.data
      BY <1>1, <1>4
    <3>. QED
      BY <2>1, <2>2, <3>1 DEF Worked, Carrying
  <2>. QED
    BY <1>2, <1>3, <2>1, <2>2 DEF Worked
<1>7. ASSUME NEW t \in Slots, conn'[t].live, conn'[t].state \in {"active", "waiting"}
      PROVE  Carried(t)'
  <2>1. Carried(t)
    BY <1>2, <1>7 DEF OwnerInv
  <2>2. CASE t = dispatcher.event.data
    BY <1>3, <2>2 DEF Carried
  <2>3. CASE \E e \in ToSet(timers) : Carrying(e) /\ e.data = t
    <3>1. PICK e \in ToSet(timers) : Carrying(e) /\ e.data = t
      BY <2>3
    <3>2. Lowered(e) \in ToSet(timers') /\ Carrying(Lowered(e)) /\ Lowered(e).data = t
      BY <1>1, <1>4, <3>1 DEF Carrying
    <3>. QED
      BY <3>2 DEF Carried
  <2>. QED
    BY <2>1, <2>2, <2>3 DEF Carried
<1>. QED
  BY <1>1, <1>5, <1>6, <1>7 DEF OwnerInv


LEMMA PopulateOwners ==
    ASSUME TypeInv, ListsInv, OwnerInv, PopulateOldList,
           \A e \in ToSet(timers) : e.id # "cleanup" => conn[e.data].idle < Age
    PROVE  OwnerInv'
<1>1. Fires("cleanup") /\ timers' = Tail(timers) /\ UNCHANGED conn
  BY DEF PopulateOldList
<1>2. ~ Carrying(Head(timers))
  BY <1>1, FiresPopped DEF Carrying
<1>3. dispatcher'.event.data = NoConn
  BY IdleDispatcher DEF PopulateOldList, Idle
<1>4. ToSet(old') = ToSet(old) \cup (ToSet(connections) \cap Aged)
  BY PopulateLists
<1>5. ASSUME NEW e \in ToSet(timers), e.id # "cleanup" PROVE e.data \notin ToSet(old')
  <2>1. e.data \notin ToSet(old) /\ conn[e.data].idle < Age /\ e.data \in Slots
    BY <1>5, TimersTyped DEF OwnerInv, Owned
  <2>2. conn[e.data].idle \in 0..Age /\ Age \in Nat
    BY <2>1, ParameterAssumption DEF TypeInv, TypeOK, Connections
  <2>3. e.data \notin Aged
    BY <2>1, <2>2 DEF Aged
  <2>. QED
    BY <1>4, <2>1, <2>3
<1>. QED
  BY <1>1, <1>2, <1>3, <1>5, OtherPopped

LEMMA HandleOwners ==
    ASSUME TypeInv, OwnerInv, FoundInv, HandleExisting PROVE OwnerInv'
<1>1. PICK s \in Slots : s = inbound.conn
  BY HandleConn
<1>2. conn[s].live /\ s \notin ToSet(old)
  BY <1>1 DEF FoundInv, HandleExisting
<1>3. PICK new : new = IF inbound.kind = "syn" THEN conn[s].state
                       ELSE HandledState(conn[s].state, inbound.kind)
  OBVIOUS
<1>4. Becomes(s, new, inbound.age, conn[s].wait, 0)
  BY <1>1, <1>3, HandleConn
<1>5. UNCHANGED <<old, dispatcher>>
  BY DEF HandleExisting
<1>6. /\ conn[s].state \in {"active", "waiting", "waiting_fin_ack", "none"} => new = conn[s].state
      /\ conn[s].state = "synack" => new \in {"synack", "waitdata"}
      /\ conn[s].state = "waitdata" => new \in {"waitdata", "active"}
  BY <1>3 DEF HandledState
<1>7. conn[s].state \in {"none", "synack", "waitdata", "active", "waiting", "waiting_fin_ack"}
  BY <1>1, StateNames DEF TypeInv, TypeOK, Connections
<1>8. \A t \in Slots : conn'[t].live = conn[t].live
                       /\ conn'[t].state = IF t = s THEN new ELSE conn[t].state
  BY <1>4 DEF Becomes, Same
<1>9. ASSUME NEW f \in ToSet(timers), f.id # "cleanup" PROVE Owned(f)'
  <2>1. Owned(f) /\ f.data \in Slots
    BY <1>9, TimersTyped DEF OwnerInv
  <2>. QED
    BY <1>5, <1>6, <1>8, <2>1 DEF Owned
<1>10. CASE \E e \in Timers : PacketTimer(e)
  <2>1. PICK e \in Timers : PacketTimer(e)
    BY <1>10
  <2>2. /\ e.data = s /\ inbound.kind # "syn" /\ Adds(timers, e, timers')
        /\ \/ e.id = "start" /\ conn[s].state = "waitdata"
           \/ e.id = "finish" /\ conn[s].state = "waiting_fin_ack"
    BY <1>1, <2>1 DEF PacketTimer
  <2>3. e.id = "start" => new = "active"
    BY <1>3, <2>2 DEF HandledState
  <2>4. \A f \in ToSet(timers) : Carrying(f) => f.data # s
    BY <2>2 DEF OwnerInv, Owned, Carrying
  <2>5. Joins(timers, e)
    BY <2>2, <2>4 DEF Joins
  <2>6. Single(timers') /\ ToSet(timers') = ToSet(timers) \cup {e}
    BY <2>2, <2>5 DEF Adds, OwnerInv
  <2>7. Owned(e)'
    BY <1>1, <1>2, <1>5, <1>8, <2>2, <2>3 DEF Owned
  <2>8. \A f \in ToSet(timers') : f.id # "cleanup" => Owned(f)'
    BY <1>9, <2>6, <2>7
  <2>9. ASSUME NEW t \in Slots, t = dispatcher'.event.data PROVE Worked(t)'
    <3>1. Worked(t)
      BY <1>5, <2>9 DEF OwnerInv
    <3>2. t # s
      BY <2>2, <3>1 DEF Worked
    <3>. QED
      BY <1>5, <1>8, <2>2, <2>6, <3>1, <3>2 DEF Worked
  <2>10. ASSUME NEW t \in Slots, conn'[t].live, conn'[t].state \in {"active", "waiting"}
         PROVE  Carried(t)'
    <3>1. CASE t = s
      <4>1. e.id = "start"
        BY <1>6, <1>8, <2>2, <2>10, <3>1
      <4>. QED
        BY <2>2, <2>6, <3>1, <4>1 DEF Carried, Carrying
    <3>2. CASE t # s
      <4>1. Carried(t)
        BY <1>8, <2>10, <3>2 DEF OwnerInv
      <4>. QED
        BY <1>5, <2>6, <4>1 DEF Carried
    <3>. QED
      BY <3>1, <3>2
  <2>. QED
    BY <2>6, <2>8, <2>9, <2>10 DEF OwnerInv
<1>11. CASE timers' = timers /\ (inbound.kind = "syn" \/ conn[s].state # "waitdata")
  <2>1. new \in {"active", "waiting"} \/ conn[s].state \in {"active", "waiting"} => new = conn[s].state
    BY <1>3, <1>6, <1>7, <1>11 DEF HandledState
  <2>2. Single(timers')
    BY <1>11 DEF OwnerInv
  <2>3. \A f \in ToSet(timers') : f.id # "cleanup" => Owned(f)'
    BY <1>9, <1>11
  <2>4. ASSUME NEW t \in Slots, t = dispatcher'.event.data PROVE Worked(t)'
    <3>1. Worked(t)
      BY <1>5, <2>4 DEF OwnerInv
    <3>. QED
      BY <1>5, <1>6, <1>8, <1>11, <3>1 DEF Worked
  <2>5. ASSUME NEW t \in Slots, conn'[t].live, conn'[t].state \in {"active", "waiting"}
        PROVE  Carried(t)'
    <3>1. conn[t].live /\ conn[t].state \in {"active", "waiting"}
      BY <1>8, <2>1, <2>5
    <3>2. Carried(t)
      BY <3>1 DEF OwnerInv
    <3>. QED
      BY <1>5, <1>11, <3>2 DEF Carried
  <2>. QED
    BY <2>2, <2>3, <2>4, <2>5 DEF OwnerInv
<1>. QED
  BY <1>1, <1>10, <1>11, HandleTimers

LEMMA NextOwners ==
    ASSUME TypeInv, ListsInv, OwnerInv, FoundInv, Next,
           PopulateOldList =>
               \A e \in ToSet(timers) : e.id # "cleanup" => conn[e.data].idle < Age
    PROVE  OwnerInv'
<1>1. CASE \E c \in Clients : Accept(c)
  BY <1>1, AcceptOwners
<1>2. CASE UNCHANGED <<conn, old, timers, dispatcher>>
  BY <1>2, OwnersKept
<1>3. CASE (\E c \in Clients, kind \in Kinds : FindConnection(c, kind)) \/ WriteReport
  BY <1>2, <1>3 DEF FindConnection, WriteReport
<1>4. CASE HandleExisting
  BY <1>4, HandleOwners
<1>5. CASE StartSlicing
  BY <1>5, StartOwners
<1>6. CASE TrafficEnds
  BY <1>6, TrafficOwners
<1>7. CASE Slice
  BY <1>7, SliceOwners
<1>8. CASE SliceOfNothing
  BY <1>8, NothingOwners
<1>9. CASE SendFIN
  BY <1>9, SendFINOwners
<1>10. CASE Finish
  BY <1>10, FinishOwners
<1>11. CASE PopulateOldList
  BY <1>11, PopulateOwners
<1>12. CASE PurgeEntry
  BY <1>12, PurgeOwners
<1>13. CASE RearmCleanup
  BY <1>13, RearmOwners
<1>14. CASE Tick
  BY <1>14, TickOwners
<1>. QED
  BY <1>1, <1>3, <1>4, <1>5, <1>6, <1>7, <1>8, <1>9, <1>10, <1>11, <1>12, <1>13, <1>14
     DEF Next, TimerThread


-----------------------------------------------------------------------------
(* The connection that a packet was found for.                             *)

LEMMA FoundKept ==
    ASSUME TypeInv, FoundInv, UNCHANGED inbound, ToSet(old') \subseteq ToSet(old) \cup Aged,
           \A s \in Slots : conn[s].live /\ s \notin ToSet(old) =>
               conn'[s].live /\ conn'[s].idle = conn[s].idle
    PROVE  FoundInv'
<1>. SUFFICES ASSUME inbound.pc = "found"
              PROVE  /\ conn'[inbound.conn].live /\ inbound.conn \notin ToSet(old')
                     /\ inbound.age <= conn'[inbound.conn].idle
                     /\ conn'[inbound.conn].idle + (MaxLag - inbound.age) < Age
  BY DEF FoundInv
<1>1. PICK s \in Slots : s = inbound.conn
  BY DEF TypeInv
<1>2. /\ conn[s].live /\ s \notin ToSet(old)
      /\ inbound.age <= conn[s].idle
      /\ conn[s].idle + (MaxLag - inbound.age) < Age
  BY <1>1 DEF FoundInv
<1>3. conn'[s].live /\ conn'[s].idle = conn[s].idle
  BY <1>2
<1>4. s \notin Aged
  <2>1. conn[s].idle \in 0..Age /\ inbound.age \in 0..MaxLag /\ MaxLag \in Nat /\ Age \in Nat
    BY ParameterAssumption DEF TypeInv, TypeOK, Connections
  <2>. QED
    BY <1>2, <2>1 DEF Aged
<1>. QED
  BY <1>1, <1>2, <1>3, <1>4

LEMMA NextFound ==
    ASSUME Timely, TypeInv, ListsInv, FoundInv, Next PROVE FoundInv'
<1>1. CASE \E c \in Clients : Accept(c)
  <2>1. inbound'.pc = "idle"
    BY <1>1 DEF Accept
  <2>. QED
    BY <2>1 DEF FoundInv
<1>2. CASE \E c \in Clients, kind \in Kinds : FindConnection(c, kind)
  <2>1. PICK c \in Clients, kind \in Kinds : FindConnection(c, kind)
    BY <1>2
  <2>2. PICK s \in ToSet(connections) :
          /\ s \in Slots
          /\ conn[s].idle + MaxLag < Age
          /\ inbound' = [pc |-> "found", conn |-> s, kind |-> kind, age |-> 0]
    BY <2>1, FoundConnection DEF Timely
  <2>3. UNCHANGED <<conn, old>>
    BY <2>1 DEF FindConnection
  <2>4. inbound'.conn = s /\ inbound'.age = 0 /\ MaxLag \in Nat /\ conn[s].idle \in Nat
    BY <2>2, ParameterAssumption DEF TypeInv, TypeOK, Connections
  <2>5. conn[s].live /\ s \notin ToSet(old)
    BY <2>2 DEF ListsInv
  <2>. QED
    BY <2>2, <2>3, <2>4, <2>5 DEF FoundInv
<1>3. CASE HandleExisting
  <2>1. inbound'.pc = "idle"
    BY <1>3 DEF HandleExisting, NoPacket
  <2>. QED
    BY <2>1 DEF FoundInv
<1>4. CASE StartSlicing
  <2>1. UNCHANGED <<inbound, old>>
    BY <1>4 DEF StartSlicing
  <2>2. \A s \in Slots : conn'[s].live = conn[s].live /\ conn'[s].idle = conn[s].idle
    BY <1>4, StartConn DEF Becomes, Same
  <2>. QED
    BY <2>1, <2>2, FoundKept
<1>5. CASE Slice
  <2>1. UNCHANGED <<inbound, old>>
    BY <1>5 DEF Slice
  <2>2. \A s \in Slots : conn'[s].live = conn[s].live /\ conn'[s].idle = conn[s].idle
    BY <1>5, SliceConn DEF Becomes, Same
  <2>. QED
    BY <2>1, <2>2, FoundKept
<1>6. CASE SendFIN
  <2>1. UNCHANGED <<inbound, old>>
    BY <1>6 DEF SendFIN
  <2>2. \A s \in Slots : conn'[s].live = conn[s].live /\ conn'[s].idle = conn[s].idle
    BY <1>6, SendFINConn DEF Becomes, Same
  <2>. QED
    BY <2>1, <2>2, FoundKept
<1>7. CASE UNCHANGED <<inbound, conn, old>>
  BY <1>7, FoundKept
<1>8. CASE TrafficEnds \/ SliceOfNothing
  BY <1>7, <1>8 DEF TrafficEnds, SliceOfNothing
<1>9. CASE Finish \/ RearmCleanup \/ WriteReport
  BY <1>7, <1>9 DEF Finish, RearmCleanup, WriteReport
<1>10. CASE PopulateOldList
  <2>1. UNCHANGED <<inbound, conn>>
    BY <1>10 DEF PopulateOldList
  <2>2. ToSet(old') \subseteq ToSet(old) \cup Aged
    BY <1>10, PopulateLists
  <2>. QED
    BY <2>1, <2>2, FoundKept
<1>11. CASE PurgeEntry
  <2>1. old \in Seq(Slots) /\ old # <<>> /\ old' = Tail(old) /\ UNCHANGED inbound
    BY <1>11 DEF PurgeEntry, TypeInv, TypeOK
  <2>2. ToSet(old') \subseteq ToSet(old)
    BY <2>1, PopProperties DEF ListsInv
  <2>3. \A s \in Slots : s \notin ToSet(old) => conn'[s] = conn[s]
    BY <1>11, PurgeConn
  <2>. QED
    BY <2>1, <2>2, <2>3, FoundKept
<1>12. CASE Tick
  <2>1. old' = old
    BY <1>12 DEF Tick
  <2>2. CASE inbound.pc = "idle" /\ UNCHANGED inbound
    BY <2>2 DEF FoundInv
  <2>3. CASE inbound.pc = "found" /\ inbound.age < MaxLag
             /\ inbound' = [inbound EXCEPT !.age = @ + 1]
    <3>1. PICK s \in Slots : s = inbound.conn
      BY <2>3 DEF TypeInv
    <3>2. /\ conn[s].live /\ s \notin ToSet(old)
          /\ inbound.age <= conn[s].idle
          /\ conn[s].idle + (MaxLag - inbound.age) < Age
      BY <2>3, <3>1 DEF FoundInv
    <3>3. conn[s].idle \in 0..Age /\ inbound.age \in 0..MaxLag /\ MaxLag \in Nat /\ Age \in Nat
      BY ParameterAssumption DEF TypeInv, TypeOK, Connections
    <3>4. inbound'.age = inbound.age + 1 /\ inbound'.conn = s
      BY <2>3, <3>1 DEF TypeInv, TypeOK
    <3>5. conn'[s].live = conn[s].live /\ conn'[s].idle = conn[s].idle + 1
      <4>1. conn[s].idle < Age
        BY <3>2, <3>3
      <4>. QED
        BY <1>12, <4>1, TickConn DEF Same, Ages
    <3>6. /\ conn'[s].live /\ s \notin ToSet(old')
          /\ inbound.age + 1 <= conn[s].idle + 1
          /\ conn[s].idle + 1 + (MaxLag - (inbound.age + 1)) < Age
      BY <2>1, <3>2, <3>3, <3>5
    <3>. QED
      BY <3>4, <3>5, <3>6 DEF FoundInv
  <2>. QED
    BY <1>12, <2>2, <2>3 DEF Tick
<1>. QED
  BY <1>1, <1>2, <1>3, <1>4, <1>5, <1>6, <1>8, <1>9, <1>10, <1>11, <1>12 DEF Next, TimerThread

-----------------------------------------------------------------------------
(* Time.                                                                   *)

LEMMA TimesTyped ==
    ASSUME NEW r \in Connections
    PROVE  /\ r.idle \in Nat /\ r.held \in Nat /\ r.wait \in Nat
           /\ r.held <= MaxStall /\ r.idle <= Age
  BY ParameterAssumption DEF Connections

LEMMA ToComeTyped ==
    ASSUME NEW id, NEW r \in Connections
    PROVE  ToCome(id, r) \subseteq Nat /\ ToCome(id, r) # {}
<1>1. Delays \subseteq Nat /\ Delays # {} /\ MaxSpan \in Nat /\ r.wait \in Nat
  BY ParameterAssumption, TimesTyped
<1>2. CASE id = "start"
  BY <1>1, <1>2 DEF ToCome
<1>3. CASE id = "slice"
  BY <1>1, <1>3 DEF ToCome
<1>4. CASE id \notin {"start", "slice"}
  BY <1>4 DEF ToCome
<1>. QED
  BY <1>2, <1>3, <1>4

\* A time goes on fitting if what the connection grew older by is taken off it,
\* or if it was held up meanwhile.
LEMMA FitsKept ==
    ASSUME NEW n \in Nat, NEW m \in Nat, NEW i \in Nat, NEW k \in Nat,
           NEW h \in Nat, NEW g \in Nat,
           Fits(n, i, h), m <= n, k + m + h <= i + n + g
    PROVE  Fits(m, k, g)
<1>1. MaxLag \in Nat /\ MaxStall \in Nat /\ Age \in Nat
  BY ParameterAssumption
<1>. QED
  BY <1>1 DEF Fits

\* It fits after any packet that is not older than packets may be.
LEMMA FitsMarked ==
    ASSUME NEW n \in Nat, NEW k \in Nat, MaxLag + MaxStall + n < Age, k <= MaxLag
    PROVE  Fits(n, k, 0)
<1>1. MaxLag \in Nat /\ MaxStall \in Nat /\ Age \in Nat
  BY ParameterAssumption
<1>. QED
  BY <1>1 DEF Fits

\* r has the same times as q, or those of a connection that was just used.
Fresh(r, q) ==
    \/ r.idle = q.idle /\ r.held = q.held
    \/ r.idle <= MaxLag /\ r.held = 0

LEMMA FitsFresh ==
    ASSUME NEW r \in Connections, NEW q \in Connections, Fresh(r, q),
           NEW n \in Nat, NEW m \in Nat, m <= n, Fits(n, q.idle, q.held)
    PROVE  Fits(m, r.idle, r.held)
<1>1. PICK i \in Nat, h \in Nat : i = q.idle /\ h = q.held
  BY TimesTyped
<1>2. PICK k \in Nat, g \in Nat : k = r.idle /\ g = r.held
  BY TimesTyped
<1>3. Fits(m, i, h)
  BY <1>1, FitsKept
<1>4. CASE k = i /\ g = h
  BY <1>2, <1>3, <1>4
<1>5. CASE k <= MaxLag /\ g = 0
  BY <1>2, <1>3, <1>5, FitsMarked DEF Fits
<1>. QED
  BY <1>1, <1>2, <1>4, <1>5 DEF Fresh

\* A step that takes no time leaves a connection as old as it was, or it was used
\* just now; the gaps to come change only as the sequence goes on.
LEMMA TimesFall ==
    ASSUME TypeInv, ListsInv, Next, ~ Tick,
           NEW s \in Slots, conn[s].live, s \notin ToSet(old)
    PROVE  /\ Fresh(conn'[s], conn[s])
           /\ \/ conn'[s].wait = conn[s].wait
              \/ (StartSlicing \/ Slice) /\ s = Head(timers).data
<1>1. CASE conn'[s] = conn[s]
  BY <1>1 DEF Fresh
<1>2. CASE \E c \in Clients : Accept(c)
  BY <1>1, <1>2, AcceptLists
<1>3. CASE HandleExisting
  <2>1. inbound.age <= MaxLag
    BY <1>3, HandleConn, ParameterAssumption
  <2>2. CASE s = inbound.conn
    <3>1. conn'[s].idle = inbound.age /\ conn'[s].held = 0 /\ conn'[s].wait = conn[s].wait
      BY <1>3, <2>2, HandleConn DEF Becomes
    <3>. QED
      BY <2>1, <3>1 DEF Fresh
  <2>3. CASE s # inbound.conn
    <3>1. /\ conn'[s].idle = conn[s].idle /\ conn'[s].held = conn[s].held
          /\ conn'[s].wait = conn[s].wait
      BY <1>3, <2>3, HandleConn DEF Becomes
    <3>. QED
      BY <3>1 DEF Fresh
  <2>. QED
    BY <2>2, <2>3
<1>4. CASE StartSlicing
  <2>1. /\ conn'[s].idle = conn[s].idle /\ conn'[s].held = conn[s].held
        /\ s # Head(timers).data => conn'[s].wait = conn[s].wait
    BY <1>4, StartConn DEF Becomes
  <2>. QED
    BY <1>4, <2>1 DEF Fresh
<1>5. CASE Slice
  <2>1. PICK w : Becomes(Head(timers).data, SlicedState(conn[Head(timers).data]),
                         conn[Head(timers).data].idle, w, conn[Head(timers).data].held)
    BY <1>5, SliceConn
  <2>2. /\ conn'[s].idle = conn[s].idle /\ conn'[s].held = conn[s].held
        /\ s # Head(timers).data => conn'[s].wait = conn[s].wait
    BY <2>1 DEF Becomes
  <2>. QED
    BY <1>5, <2>2 DEF Fresh
<1>6. CASE SendFIN
  <2>1. /\ conn'[s].idle = conn[s].idle /\ conn'[s].held = conn[s].held
        /\ conn'[s].wait = conn[s].wait
    BY <1>6, SendFINConn DEF Becomes
  <2>. QED
    BY <2>1 DEF Fresh
<1>7. CASE PurgeEntry
  BY <1>1, <1>7, PurgeConn
<1>8. CASE (\E c \in Clients, kind \in Kinds : FindConnection(c, kind)) \/ TrafficEnds \/ SliceOfNothing
  BY <1>1, <1>8 DEF FindConnection, TrafficEnds, SliceOfNothing
<1>9. CASE Finish \/ PopulateOldList \/ RearmCleanup \/ WriteReport
  BY <1>1, <1>9 DEF Finish, PopulateOldList, RearmCleanup, WriteReport
<1>. QED
  BY <1>2, <1>3, <1>4, <1>5, <1>6, <1>7, <1>8, <1>9 DEF Next, TimerThread

\* Where a timer comes from that is not the cleanup's.
LEMMA NewTimers ==
    ASSUME TypeInv, Next, ~ Tick, NEW f \in ToSet(timers'), f.id # "cleanup"
    PROVE  \/ HandleExisting /\ PacketTimer(f)
           \/ /\ TrafficEnds /\ f \in Timers /\ f.id = "slice" /\ f.left = 0
              /\ f.data = dispatcher.event.data
           \/ /\ Slice /\ conn[Head(timers).data].live
              /\ SliceTimer(f, conn[Head(timers).data], conn'[Head(timers).data])
           \/ f \in ToSet(timers) /\ (StartSlicing \/ Slice => f \in ToSet(Tail(timers)))
<1>1. \A id : Fires(id) => ToSet(Tail(timers)) \subseteq ToSet(timers)
  BY FiresPopped DEF Popped
<1>2. CASE timers' = timers /\ ~ StartSlicing /\ ~ Slice
  BY <1>2
<1>3. CASE timers' = Tail(timers) /\ \E id : Fires(id)
  BY <1>1, <1>3
<1>4. CASE TrafficEnds
  <2>1. ~ StartSlicing /\ ~ Slice
    BY <1>4 DEF TrafficEnds, StartSlicing, Slice, Fires, Expired
  <2>. QED
    BY <1>4, <2>1, TrafficTimers DEF Adds
<1>5. CASE RearmCleanup
  <2>1. ~ StartSlicing /\ ~ Slice
    BY <1>5 DEF RearmCleanup, StartSlicing, Slice, Fires, Expired
  <2>. QED
    BY <1>5, <2>1, RearmTimers DEF Adds
<1>6. CASE Slice
  <2>1. Fires("slice")
    BY <1>6 DEF Slice
  <2>2. CASE ~ conn[Head(timers).data].live
    BY <1>3, <1>6, <2>1, <2>2, SliceTimers
  <2>3. CASE conn[Head(timers).data].live
    <3>1. PICK e \in Timers : SliceTimer(e, conn[Head(timers).data], conn'[Head(timers).data])
      BY <1>6, <2>3, SliceTimers
    <3>2. f = e \/ f \in ToSet(Tail(timers))
      BY <3>1 DEF SliceTimer, Adds
    <3>. QED
      BY <1>1, <1>6, <2>1, <2>3, <3>1, <3>2
  <2>. QED
    BY <2>2, <2>3
<1>7. CASE StartSlicing \/ SliceOfNothing \/ SendFIN
  BY <1>3, <1>7 DEF StartSlicing, SliceOfNothing, SendFIN
<1>8. CASE Finish \/ PopulateOldList
  BY <1>3, <1>8 DEF Finish, PopulateOldList
<1>9. CASE HandleExisting /\ ~ StartSlicing /\ ~ Slice
  <2>1. CASE timers' = timers
    BY <1>2, <1>9, <2>1
  <2>2. CASE \E e \in Timers : PacketTimer(e)
    <3>1. PICK e \in Timers : PacketTimer(e)
      BY <2>2
    <3>2. f = e \/ f \in ToSet(timers)
      BY <3>1 DEF PacketTimer, Adds
    <3>. QED
      BY <1>9, <3>1, <3>2
  <2>. QED
    BY <1>9, <2>1, <2>2, HandleTimers
<1>10. CASE /\ ~ StartSlicing /\ ~ Slice
            /\ \/ (\E c \in Clients : Accept(c)) \/ WriteReport \/ PurgeEntry
               \/ \E c \in Clients, kind \in Kinds : FindConnection(c, kind)
  BY <1>2, <1>10 DEF Accept, WriteReport, PurgeEntry, FindConnection
<1>. QED
  BY <1>4, <1>5, <1>6, <1>7, <1>8, <1>9, <1>10 DEF Next, TimerThread

LEMMA StuckStays == ASSUME TypeInv, Next, dispatcher.pc = "stuck" PROVE dispatcher'.pc = "stuck"
<1>1. UNCHANGED dispatcher
  <2>1. CASE (\E c \in Clients : Accept(c)) \/ HandleExisting \/ WriteReport \/ Tick
            \/ \E c \in Clients, kind \in Kinds : FindConnection(c, kind)
    BY <2>1 DEF Accept, HandleExisting, WriteReport, FindConnection, Tick
  <2>2. ~ StartSlicing /\ ~ Slice /\ ~ SliceOfNothing /\ ~ SendFIN /\ ~ Finish /\ ~ PopulateOldList
    BY DEF StartSlicing, Slice, SliceOfNothing, SendFIN, Finish, PopulateOldList, Fires, Expired
  <2>3. ~ TrafficEnds /\ ~ PurgeEntry /\ ~ RearmCleanup
    BY DEF TrafficEnds, PurgeEntry, RearmCleanup
  <2>. QED
    BY <2>1, <2>2, <2>3 DEF Next, TimerThread
<1>. QED
  BY <1>1

\* The timer that a packet sets up is in time: the packet is recent.
LEMMA PacketInTime ==
    ASSUME Timely, TypeInv, HandleExisting, NEW f \in Timers, PacketTimer(f)
    PROVE  InTime(f.id, f.left, conn'[f.data])
<1>1. PICK s \in Slots : s = inbound.conn /\ s = f.data
  BY HandleConn DEF PacketTimer
<1>2. PICK k \in Nat : k = inbound.age /\ k <= MaxLag
  BY HandleConn, ParameterAssumption
<1>3. conn'[s].idle = k /\ conn'[s].held = 0
  BY <1>1, <1>2, HandleConn DEF Becomes
<1>4. /\ MaxLag \in Nat /\ MaxStall \in Nat /\ MaxSpan \in Nat /\ Age \in Nat
      /\ Delays \subseteq Nat /\ \E d \in Delays : TRUE
  BY ParameterAssumption
<1>5. CASE f.id = "start" /\ f.left \in Delays
  <2>1. PICK l \in Nat : l = f.left /\ l \in Delays
    BY <1>4, <1>5
  <2>2. ASSUME NEW x \in ToCome("start", conn'[s]) PROVE Fits(l + x, k, 0)
    <3>1. PICK d \in Delays : x = MaxSpan + d
      BY <2>2 DEF ToCome
    <3>2. d \in Nat /\ MaxLag + l + MaxStall + MaxSpan + d < Age
      BY <1>4, <2>1, <3>1 DEF Timely
    <3>3. l + x \in Nat /\ MaxLag + MaxStall + (l + x) < Age
      BY <1>4, <2>1, <3>1, <3>2
    <3>. QED
      BY <1>2, <3>3, FitsMarked
  <2>. QED
    BY <1>1, <1>3, <1>5, <2>1, <2>2 DEF InTime
<1>6. CASE f.id = "finish" /\ f.left = 0
  <2>1. PICK d \in Delays : d \in Nat /\ MaxLag + d + MaxStall + MaxSpan + d < Age
    BY <1>4 DEF Timely
  <2>2. MaxLag + MaxStall + 0 < Age
    BY <1>4, <2>1
  <2>3. Fits(0, k, 0)
    BY <1>2, <2>2, FitsMarked
  <2>4. ToCome("finish", conn'[s]) = {0}
    BY DEF ToCome
  <2>. QED
    BY <1>1, <1>3, <1>6, <2>3, <2>4 DEF InTime
<1>. QED
  BY <1>5, <1>6 DEF PacketTimer

\* The connection of the timer that fires, which has been in time so far.
LEMMA HeadInTime ==
    ASSUME StructInv, OwnerInv, TimeInv, Next, ~ Tick, NEW id, id # "cleanup", Fires(id)
    PROVE  \E s \in Slots :
              /\ s = Head(timers).data /\ Head(timers).left = 0 /\ Head(timers).id = id
              /\ conn[s] \in Connections /\ conn'[s] \in Connections
              /\ Fresh(conn'[s], conn[s])
              /\ \A x \in ToCome(id, conn[s]) : x \in Nat /\ Fits(x, conn[s].idle, conn[s].held)
<1>. USE DEF StructInv
<1>1. PICK h \in Timers, s \in Slots :
          /\ h = Head(timers) /\ s = h.data /\ h.id = id /\ h.left = 0 /\ h \in ToSet(timers)
          /\ Owned(h)
  <2>1. Popped(Head(timers), Tail(timers)) /\ Head(timers).id = id /\ Head(timers).data \in Slots
    BY FiresPopped
  <2>2. Owned(Head(timers))
    BY <2>1 DEF Popped, OwnerInv
  <2>. QED
    BY <2>1, <2>2 DEF Popped
<1>2. conn[s] \in Connections /\ conn'[s] \in Connections
  BY ConnNext DEF TypeInv, TypeOK
<1>3. Fresh(conn'[s], conn[s])
  BY <1>1, TimesFall DEF Owned
<1>4. InTime(id, 0, conn[s])
  BY <1>1 DEF TimeInv, Fires, Expired
<1>5. ASSUME NEW x \in ToCome(id, conn[s])
      PROVE  x \in Nat /\ Fits(x, conn[s].idle, conn[s].held)
  <2>1. x \in Nat
    BY <1>2, ToComeTyped
  <2>2. Fits(0 + x, conn[s].idle, conn[s].held) /\ 0 + x = x
    BY <1>4, <2>1 DEF InTime
  <2>. QED
    BY <2>1, <2>2
<1>. QED
  BY <1>1, <1>2, <1>3, <1>5

\* So is the timer of a slice, or of the FIN: the one that fires was in time, and
\* the gap is taken from the gaps to come.
LEMMA SliceInTime ==
    ASSUME StructInv, OwnerInv, TimeInv, Slice,
           NEW f \in Timers, SliceTimer(f, conn[Head(timers).data], conn'[Head(timers).data])
    PROVE  InTime(f.id, f.left, conn'[f.data])
<1>1. Fires("slice") /\ ~ Tick /\ Next
  BY DEF Slice, Tick, Fires, Next, TimerThread
<1>2. PICK s \in Slots :
          /\ s = Head(timers).data
          /\ conn[s] \in Connections /\ conn'[s] \in Connections
          /\ Fresh(conn'[s], conn[s])
          /\ \A x \in ToCome("slice", conn[s]) : x \in Nat /\ Fits(x, conn[s].idle, conn[s].held)
  BY <1>1, HeadInTime
<1>3. PICK r \in Connections, q \in Connections : r = conn[s] /\ q = conn'[s]
  BY <1>2
<1>4. f.data = s /\ SliceTimer(f, r, q) /\ f.left \in Nat /\ r.wait \in Nat /\ q.wait \in Nat
  BY <1>2, <1>3, TimesTyped DEF SliceTimer, Timers
<1>5. Delays \subseteq Nat
  BY ParameterAssumption
<1>6. ASSUME NEW d \in Delays, NEW m \in Nat, m <= r.wait + d PROVE Fits(m, q.idle, q.held)
  <2>1. r.wait + d \in ToCome("slice", r)
    BY <1>6 DEF ToCome
  <2>2. r.wait + d \in Nat /\ Fits(r.wait + d, r.idle, r.held)
    BY <1>2, <1>3, <2>1
  <2>. QED
    BY <1>2, <1>3, <1>6, <2>2, FitsFresh
<1>7. CASE f.id = "slice" /\ f.left + q.wait = r.wait
  <2>1. ASSUME NEW x \in ToCome("slice", q) PROVE Fits(f.left + x, q.idle, q.held)
    <3>1. PICK d \in Delays : x = q.wait + d
      BY <2>1 DEF ToCome
    <3>2. PICK a \in Nat, b \in Nat, c \in Nat, e \in Nat :
              a = f.left /\ b = q.wait /\ c = r.wait /\ e = d
      BY <1>4, <1>5
    <3>3. a + b = c
      BY <1>7, <3>2
    <3>4. a + x \in Nat /\ a + x <= c + e
      BY <3>1, <3>2, <3>3
    <3>. QED
      BY <1>6, <3>2, <3>4
  <2>. QED
    BY <1>3, <1>4, <1>7, <2>1 DEF InTime
<1>8. CASE f.id = "fin" /\ f.left \in Delays
  <2>1. PICK l \in Nat : l = f.left /\ l \in Delays
    BY <1>5, <1>8
  <2>2. l + 0 \in Nat /\ l + 0 <= r.wait + l
    BY <1>4, <2>1
  <2>3. Fits(l + 0, q.idle, q.held)
    BY <1>6, <2>1, <2>2
  <2>4. ToCome("fin", q) = {0}
    BY DEF ToCome
  <2>. QED
    BY <1>3, <1>4, <1>8, <2>1, <2>3, <2>4 DEF InTime
<1>. QED
  BY <1>4, <1>7, <1>8 DEF SliceTimer

LEMMA TrafficInTime ==
    ASSUME StructInv, TimeInv, TrafficEnds,
           NEW f \in Timers, f.id = "slice", f.left = 0, f.data = dispatcher.event.data
    PROVE  InTime(f.id, f.left, conn'[f.data])
<1>1. dispatcher.pc # "stuck" /\ conn' = conn
  BY DEF TrafficEnds
<1>2. dispatcher.event.data \in Slots
  BY TrafficTimers DEF StructInv
<1>3. InTime("slice", 0, conn[f.data])
  BY <1>1, <1>2 DEF TimeInv
<1>. QED
  BY <1>1, <1>3

\* The timer thread waits for traffic only from the start of a sequence on.
LEMMA TrafficNext ==
    ASSUME Next, ~ Tick, dispatcher'.pc = "traffic"
    PROVE  \/ dispatcher' = dispatcher
           \/ StartSlicing /\ dispatcher'.event = Head(timers)
<1>1. CASE StartSlicing
  <2>1. dispatcher'.event = Head(timers)
    BY <1>1 DEF StartSlicing
  <2>. QED
    BY <1>1, <2>1
<1>2. CASE ~ StartSlicing
  <2>1. ~ TrafficEnds /\ ~ RearmCleanup
    BY DEF TrafficEnds, RearmCleanup, Idle
  <2>2. ~ SliceOfNothing
    BY DEF SliceOfNothing
  <2>3. ~ PopulateOldList
    BY DEF PopulateOldList, Idle
  <2>4. ASSUME Slice \/ SendFIN \/ Finish \/ PurgeEntry PROVE dispatcher' = dispatcher
    BY <2>4 DEF Slice, SendFIN, Finish, PurgeEntry
  <2>5. ASSUME NEW c \in Clients, Accept(c) PROVE dispatcher' = dispatcher
    BY <2>5 DEF Accept
  <2>6. ASSUME NEW c \in Clients, NEW kind \in Kinds, FindConnection(c, kind)
        PROVE  dispatcher' = dispatcher
    BY <2>6 DEF FindConnection
  <2>7. ASSUME HandleExisting \/ WriteReport PROVE dispatcher' = dispatcher
    BY <2>7 DEF HandleExisting, WriteReport
  <2>8. dispatcher' = dispatcher
    BY <1>2, <2>1, <2>2, <2>3, <2>4, <2>5, <2>6, <2>7, Zenon DEF Next, TimerThread
  <2>. QED
    BY <2>8
<1>. QED
  BY <1>1, <1>2

\* A timer that a step leaves pending has the times of its connection left.
LEMMA KeptInTime ==
    ASSUME StructInv, OwnerInv, TimeInv, Next, ~ Tick, dispatcher.pc # "stuck",
           NEW f \in ToSet(timers), f.id # "cleanup",
           StartSlicing \/ Slice => f \in ToSet(Tail(timers))
    PROVE  InTime(f.id, f.left, conn'[f.data])
<1>. USE DEF StructInv
<1>1. PICK s \in Slots : s = f.data
  BY TimersTyped
<1>2. f \in Timers /\ f.left \in Nat /\ Owned(f) /\ InTime(f.id, f.left, conn[s])
  BY <1>1, TimersTyped DEF OwnerInv, TimeInv
<1>3. PICK r \in Connections, q \in Connections : r = conn[s] /\ q = conn'[s]
  BY ConnNext DEF TypeInv, TypeOK
<1>4. Fresh(q, r) /\ (q.wait = r.wait \/ ((StartSlicing \/ Slice) /\ s = Head(timers).data))
  BY <1>1, <1>2, <1>3, TimesFall DEF Owned
<1>5. Carrying(f) => q.wait = r.wait
  <2>1. SUFFICES ASSUME Carrying(f), StartSlicing \/ Slice, s = Head(timers).data PROVE FALSE
    BY <1>4
  <2>2. PICK id \in {"start", "slice"} : Fires(id)
    BY <2>1 DEF StartSlicing, Slice
  <2>3. Joins(Tail(timers), Head(timers)) /\ Carrying(Head(timers))
    BY <2>2, FiresPopped DEF Popped, OwnerInv, Carrying
  <2>. QED
    BY <1>1, <2>1, <2>3 DEF Joins
<1>6. ToCome(f.id, q) = ToCome(f.id, r)
  <2>1. CASE f.id = "slice"
    BY <1>5, <2>1 DEF Carrying, ToCome
  <2>2. CASE f.id # "slice"
    BY <2>2 DEF ToCome
  <2>. QED
    BY <2>1, <2>2
<1>7. ASSUME NEW x \in ToCome(f.id, q) PROVE Fits(f.left + x, q.idle, q.held)
  <2>1. x \in Nat /\ Fits(f.left + x, r.idle, r.held)
    BY <1>2, <1>3, <1>6, ToComeTyped DEF InTime
  <2>2. f.left + x \in Nat /\ f.left + x <= f.left + x
    BY <1>2, <2>1
  <2>. QED
    BY <1>4, <2>1, <2>2, FitsFresh
<1>. QED
  BY <1>1, <1>3, <1>7 DEF InTime

\* A step that takes no time makes no timer late.
LEMMA TimersInTime ==
    ASSUME Timely, StructInv, OwnerInv, TimeInv, Next, ~ Tick, dispatcher.pc # "stuck",
           NEW f \in ToSet(timers'), f.id # "cleanup"
    PROVE  InTime(f.id, f.left, conn'[f.data])
<1>1. CASE HandleExisting /\ PacketTimer(f)
  BY <1>1, PacketInTime DEF PacketTimer, StructInv
<1>2. CASE TrafficEnds /\ f \in Timers /\ f.id = "slice" /\ f.left = 0
           /\ f.data = dispatcher.event.data
  BY <1>2, TrafficInTime
<1>3. CASE /\ Slice /\ conn[Head(timers).data].live
           /\ SliceTimer(f, conn[Head(timers).data], conn'[Head(timers).data])
  BY <1>3, SliceInTime DEF SliceTimer
<1>4. CASE f \in ToSet(timers) /\ (StartSlicing \/ Slice => f \in ToSet(Tail(timers)))
  BY <1>4, KeptInTime
<1>. QED
  BY <1>1, <1>2, <1>3, <1>4, NewTimers DEF StructInv

\* Nor does it make the event late that the timer thread works on.
LEMMA EventInTime ==
    ASSUME StructInv, OwnerInv, TimeInv, Next, ~ Tick, dispatcher'.pc = "traffic",
           NEW s \in Slots, s = dispatcher'.event.data
    PROVE  InTime("slice", 0, conn'[s])
<1>. USE DEF StructInv
<1>1. PICK r \in Connections, q \in Connections : r = conn[s] /\ q = conn'[s]
  BY ConnNext DEF TypeInv, TypeOK
<1>2. CASE dispatcher' = dispatcher
  <2>1. Worked(s) /\ dispatcher.pc = "traffic" /\ ~ StartSlicing /\ ~ Slice
    BY <1>2 DEF OwnerInv, StartSlicing, Slice, Fires, Expired
  <2>2. Fresh(q, r) /\ q.wait = r.wait
    BY <1>1, <2>1, TimesFall DEF Worked
  <2>3. InTime("slice", 0, r)
    BY <1>1, <1>2, <2>1 DEF TimeInv
  <2>4. ASSUME NEW x \in ToCome("slice", q) PROVE Fits(0 + x, q.idle, q.held)
    <3>1. x \in ToCome("slice", r) /\ x \in Nat
      BY <2>2, ToComeTyped DEF ToCome
    <3>2. Fits(0 + x, r.idle, r.held) /\ 0 + x \in Nat /\ 0 + x <= 0 + x
      BY <2>3, <3>1 DEF InTime
    <3>. QED
      BY <2>2, <3>2, FitsFresh
  <2>. QED
    BY <1>1, <2>4 DEF InTime
<1>3. CASE StartSlicing /\ dispatcher'.event = Head(timers)
  <2>1. Fires("start")
    BY <1>3 DEF StartSlicing
  <2>2. /\ Fresh(q, r)
        /\ \A x \in ToCome("start", r) : x \in Nat /\ Fits(x, r.idle, r.held)
    BY <1>1, <1>3, <2>1, HeadInTime
  <2>3. q.wait = MaxSpan
    BY <1>1, <1>3, StartConn DEF Becomes
  <2>4. ASSUME NEW x \in ToCome("slice", q) PROVE Fits(0 + x, q.idle, q.held)
    <3>1. x \in ToCome("start", r)
      BY <2>3 DEF ToCome
    <3>2. x \in Nat /\ Fits(x, r.idle, r.held) /\ 0 + x = x /\ x <= x
      BY <2>2, <3>1
    <3>. QED
      BY <2>2, <3>2, FitsFresh
  <2>. QED
    BY <1>1, <2>4 DEF InTime
<1>. QED
  BY <1>2, <1>3, TrafficNext

\* Time lowers the timers while the thread waits for them; while it waits for
\* traffic to end it holds up all their connections.
LEMMA TickInTime ==
    ASSUME TypeInv, TimeInv, Tick, dispatcher.pc # "stuck",
           NEW f \in ToSet(timers'), f.id # "cleanup"
    PROVE  InTime(f.id, f.left, conn'[f.data])
<1>1. PICK e \in ToSet(timers) : f = Lowered(e)
  BY TickTimers
<1>2. e \in Timers /\ e.left \in Nat
  BY <1>1, TimersTyped
<1>3. /\ f.id = e.id /\ f.data = e.data
      /\ f.left = IF e.left = 0 THEN 0 ELSE e.left - 1
  BY <1>1, <1>2, LoweredEvent
<1>4. PICK s \in Slots : s = e.data
  BY <1>1, <1>3, TimersTyped
<1>5. PICK r \in Connections, q \in Connections : r = conn[s] /\ q = conn'[s]
  BY <1>4, TickConn DEF TypeInv, TypeOK
<1>6. PICK i \in Nat, h \in Nat : i = r.idle /\ h = r.held
  BY TimesTyped
<1>7. PICK k \in Nat, g \in Nat : k = q.idle /\ g = q.held
  BY TimesTyped
<1>8. k <= i + 1 /\ q.wait = r.wait /\ g = IF s \in HeldUp THEN h + 1 ELSE h
  <2>1. Ages(q, r, s)
    BY <1>4, <1>5, TickConn
  <2>. QED
    BY <1>6, <1>7, <2>1 DEF Ages
<1>9. PICK l \in Nat, m \in Nat : l = e.left /\ m = f.left /\ m <= l
  BY <1>2, <1>3
<1>10. k + m + h <= i + l + g
  <2>1. CASE dispatcher.pc = "traffic"
    <3>1. s \in HeldUp
      BY <1>1, <1>4, <2>1 DEF HeldUp, ToSet
    <3>. QED
      BY <1>8, <1>9, <3>1
  <2>2. CASE dispatcher.pc = "idle"
    <3>1. timers \in Seq(Timers) /\ Sorted(timers) /\ timers # <<>>
      BY <1>1 DEF TypeInv, TypeOK, ToSet
    <3>2. Head(timers) \in Timers /\ Head(timers).left <= e.left
      BY <1>1, <3>1, PoppedProperties
    <3>3. Head(timers).left # 0
      BY <2>2, <3>1 DEF Tick, Expired
    <3>4. l # 0
      BY <1>9, <3>2, <3>3 DEF Timers
    <3>5. m = l - 1
      BY <1>3, <1>9, <3>4
    <3>. QED
      BY <1>8, <1>9, <3>5
  <2>. QED
    BY <2>1, <2>2 DEF Tick
<1>11. InTime(e.id, l, r)
  BY <1>1, <1>3, <1>4, <1>5, <1>9 DEF TimeInv
<1>12. ASSUME NEW x \in ToCome(f.id, q) PROVE Fits(m + x, k, g)
  <2>1. x \in ToCome(e.id, r) /\ x \in Nat
    BY <1>3, <1>8, ToComeTyped DEF ToCome
  <2>2. Fits(l + x, i, h)
    BY <1>6, <1>11, <2>1 DEF InTime
  <2>3. /\ l + x \in Nat /\ m + x \in Nat /\ m + x <= l + x
        /\ k + (m + x) + h <= i + (l + x) + g
    BY <1>9, <1>10, <2>1
  <2>. QED
    BY <2>2, <2>3, FitsKept
<1>. QED
  BY <1>3, <1>4, <1>5, <1>7, <1>9, <1>12 DEF InTime

LEMMA TickEvent ==
    ASSUME TypeInv, TimeInv, Tick, dispatcher'.pc = "traffic",
           NEW s \in Slots, s = dispatcher'.event.data
    PROVE  InTime("slice", 0, conn'[s])
<1>1. dispatcher.pc = "traffic" /\ dispatcher.event.data = s
  BY DEF Tick
<1>2. PICK r \in Connections, q \in Connections : r = conn[s] /\ q = conn'[s]
  BY TickConn DEF TypeInv, TypeOK
<1>3. PICK i \in Nat, h \in Nat : i = r.idle /\ h = r.held
  BY TimesTyped
<1>4. PICK k \in Nat, g \in Nat : k = q.idle /\ g = q.held
  BY TimesTyped
<1>5. k <= i + 1 /\ q.wait = r.wait /\ g = h + 1
  <2>1. Ages(q, r, s)
    BY <1>2, TickConn
  <2>2. s \in HeldUp
    BY <1>1 DEF HeldUp
  <2>. QED
    BY <1>3, <1>4, <2>1, <2>2 DEF Ages
<1>6. InTime("slice", 0, r)
  BY <1>1, <1>2 DEF TimeInv
<1>7. ASSUME NEW x \in ToCome("slice", q) PROVE Fits(0 + x, k, g)
  <2>1. x \in ToCome("slice", r) /\ x \in Nat
    BY <1>5, ToComeTyped DEF ToCome
  <2>2. Fits(0 + x, i, h)
    BY <1>3, <1>6, <2>1 DEF InTime
  <2>3. 0 + x \in Nat /\ 0 + x <= 0 + x /\ k + (0 + x) + h <= i + (0 + x) + g
    BY <1>5, <2>1
  <2>. QED
    BY <2>2, <2>3, FitsKept
<1>. QED
  BY <1>2, <1>4, <1>7 DEF InTime

LEMMA NextTime ==
    ASSUME Timely, StructInv, OwnerInv, TimeInv, Next PROVE TimeInv'
<1>1. SUFFICES ASSUME dispatcher'.pc # "stuck"
               PROVE  /\ \A e \in ToSet(timers') : e.id # "cleanup" =>
                             InTime(e.id, e.left, conn'[e.data])
                      /\ \A s \in Slots : s = dispatcher'.event.data =>
                             InTime("slice", 0, conn'[s])
  BY DEF TimeInv
<1>2. dispatcher.pc # "stuck"
  BY <1>1, StuckStays DEF StructInv
<1>3. ASSUME NEW s \in Slots, s = dispatcher'.event.data PROVE dispatcher'.pc = "traffic"
  BY <1>1, <1>3, NextTyped DEF StructInv, TypeInv
<1>4. CASE Tick
  BY <1>2, <1>3, <1>4, TickInTime, TickEvent DEF StructInv
<1>5. CASE ~ Tick
  BY <1>2, <1>3, <1>5, TimersInTime, EventInTime
<1>. QED
  BY <1>4, <1>5


-----------------------------------------------------------------------------
(* The inductive invariant of a timely manager.                            *)

LEMMA InitTimely == Init => TimelyInv
<1>. SUFFICES ASSUME Init PROVE TimelyInv
  OBVIOUS
<1>1. /\ timers = <<Timer("cleanup", NoConn, Interval)>> /\ inbound.pc = "idle"
      /\ \A s \in Slots : ~ conn[s].live
      /\ dispatcher.event.data = NoConn /\ NoConn \notin Slots
  BY ParameterAssumption DEF Init, NoPacket, Blank, Idle, Timer
<1>2. DOMAIN timers = {1} /\ timers[1].id = "cleanup"
  BY <1>1 DEF Timer
<1>3. \A e \in ToSet(timers) : e.id = "cleanup"
  BY <1>2 DEF ToSet
<1>4. FoundInv
  BY <1>1 DEF FoundInv
<1>5. Single(timers)
  BY <1>2 DEF Single, Carrying
<1>6. OwnerInv
  BY <1>1, <1>3, <1>5 DEF OwnerInv
<1>7. TimeInv
  BY <1>1, <1>3 DEF TimeInv
<1>. QED
  BY <1>4, <1>6, <1>7 DEF TimelyInv

\* When the connections are examined for age, none that a timer needs is old.
LEMMA TimersYoung ==
    ASSUME StructInv, TimeInv, PopulateOldList, NEW e \in ToSet(timers), e.id # "cleanup"
    PROVE  conn[e.data].idle < Age
<1>. USE DEF StructInv
<1>1. dispatcher.pc # "stuck"
  BY DEF PopulateOldList, Fires, Expired
<1>2. PICK s \in Slots : s = e.data
  BY TimersTyped
<1>3. PICK l \in Nat : l = e.left
  BY TimersTyped
<1>4. PICK r \in Connections : r = conn[s]
  BY DEF TypeInv, TypeOK
<1>5. PICK i \in Nat, h \in Nat : i = r.idle /\ h = r.held /\ h <= MaxStall
  BY TimesTyped
<1>6. PICK x \in Nat : x \in ToCome(e.id, r)
  BY ToComeTyped
<1>7. Fits(l + x, i, h)
  BY <1>1, <1>2, <1>3, <1>4, <1>5, <1>6 DEF TimeInv, InTime
<1>8. i < Age
  BY <1>3, <1>5, <1>6, <1>7, ParameterAssumption DEF Fits
<1>. QED
  BY <1>2, <1>4, <1>5, <1>8

LEMMA NextTimely ==
    ASSUME Timely, StructInv, TimelyInv, [Next]_vars PROVE TimelyInv'
<1>1. CASE Next
  <2>1. TypeInv /\ ListsInv /\ FoundInv /\ OwnerInv /\ TimeInv
    BY DEF StructInv, TimelyInv
  <2>2. FoundInv'
    BY <1>1, <2>1, NextFound
  <2>3. OwnerInv'
    <3>1. PopulateOldList => \A e \in ToSet(timers) : e.id # "cleanup" => conn[e.data].idle < Age
      BY <2>1, TimersYoung
    <3>. QED
      BY <1>1, <2>1, <3>1, NextOwners
  <2>4. TimeInv'
    BY <1>1, <2>1, NextTime
  <2>. QED
    BY <2>2, <2>3, <2>4 DEF TimelyInv
<1>2. CASE UNCHANGED vars
  <2>1. FoundInv'
    BY <1>2 DEF vars, TimelyInv, FoundInv
  <2>2. OwnerInv'
    <3>1. conn' = conn /\ old' = old /\ timers' = timers /\ dispatcher' = dispatcher
      BY <1>2 DEF vars
    <3>2. OwnerInv
      BY DEF TimelyInv
    <3>. QED
      BY <3>1, <3>2 DEF OwnerInv, Single, Owned, Worked, Carried
  <2>3. TimeInv'
    BY <1>2 DEF vars, TimelyInv, TimeInv
  <2>. QED
    BY <2>1, <2>2, <2>3 DEF TimelyInv
<1>. QED
  BY <1>1, <1>2

\* With timely parameters every timer, the event at work and the packet being
\* handled have their connection, and no connection is old before its timers fire.
THEOREM TimelyInvariant ==
    ASSUME Timely PROVE Spec => [](StructInv /\ TimelyInv)
<1>1. StructInv /\ TimelyInv /\ [Next]_vars => TimelyInv'
  BY NextTimely
<1>. QED
  BY InitStruct, NextStruct, InitTimely, <1>1, PTL DEF Spec


-----------------------------------------------------------------------------
(* The properties of a timely manager.                                     *)

\* When a callback of doTimer_StartSlicing, doTimer_Slicing, doTimer_SendFIN or
\* doTimer_Finish is due its connection has not been deleted by doTimer_Cleanup.
THEOREM TimersServeLiving ==
    ASSUME Timely PROVE Spec => []TimersHaveConnections
<1>1. ASSUME StructInv, TimelyInv PROVE TimersHaveConnections
  <2>1. SUFFICES ASSUME NEW i \in DOMAIN timers, timers[i].data # NoConn
                 PROVE  conn[timers[i].data].live
    BY DEF TimersHaveConnections
  <2>2. PICK e \in ToSet(timers) : e = timers[i]
    BY DEF ToSet
  <2>3. e.id # "cleanup"
    BY <1>1, <2>1, <2>2 DEF StructInv, TypeInv
  <2>4. Owned(e)
    BY <1>1, <2>3 DEF TimelyInv, OwnerInv
  <2>. QED
    BY <2>2, <2>4 DEF Owned
<1>2. StructInv /\ TimelyInv => TimersHaveConnections
  BY <1>1
<1>. QED
  BY <1>2, TimelyInvariant, PTL

\* The sequence of a measured connection is carried on by one callback: no second
\* is set up while one is pending, and none is lost before the FIN.
THEOREM SequencesCarriedOnce ==
    ASSUME Timely PROVE Spec => []OneCarrier
<1>1. ASSUME StructInv, TimelyInv PROVE OneCarrier
  <2>. SUFFICES ASSUME NEW s \in Slots, conn[s].live
                PROVE  Carriers(s) = IF conn[s].state \in {"active", "waiting"} THEN 1 ELSE 0
    BY DEF OneCarrier
  <2>. DEFINE Of == {i \in DOMAIN timers : timers[i].data = s /\ timers[i].id \in {"start", "slice", "fin"}}
              Now == {0 : x \in {s} \cap {dispatcher.event.data}}
  <2>1. Carriers(s) = Cardinality(Of \cup Now)
    BY DEF Carriers
  <2>2. OwnerInv
    BY <1>1 DEF TimelyInv
  <2>3. \A i \in DOMAIN timers : timers[i] \in ToSet(timers)
    BY DEF ToSet
  <2>4. \A e \in ToSet(timers) : \E i \in DOMAIN timers : e = timers[i]
    BY DEF ToSet
  <2>5. Now = IF s = dispatcher.event.data THEN {0} ELSE {}
    OBVIOUS
  <2>6. ASSUME NEW i \in Of PROVE conn[s].state \in {"active", "waiting"}
    <3>1. timers[i] \in ToSet(timers) /\ Carrying(timers[i]) /\ timers[i].data = s
      BY <2>3 DEF Carrying
    <3>2. Owned(timers[i])
      BY <2>2, <3>1 DEF OwnerInv, Carrying
    <3>. QED
      BY <3>1, <3>2 DEF Owned, Carrying
  <2>7. CASE s = dispatcher.event.data
    <3>1. Worked(s)
      BY <2>2, <2>7 DEF OwnerInv
    <3>2. Of = {}
      BY <2>3, <3>1 DEF Worked, Carrying
    <3>3. Of \cup Now = {0}
      BY <2>5, <2>7, <3>2
    <3>4. Carriers(s) = 1
      BY <2>1, <3>3, FS_Singleton
    <3>. QED
      BY <3>1, <3>4 DEF Worked
  <2>8. CASE s # dispatcher.event.data /\ conn[s].state \in {"active", "waiting"}
    <3>1. PICK e \in ToSet(timers) : Carrying(e) /\ e.data = s
      BY <2>2, <2>8 DEF OwnerInv, Carried
    <3>2. PICK i \in DOMAIN timers : e = timers[i]
      BY <2>4
    <3>3. i \in Of /\ \A k \in Of : k = i
      BY <2>2, <3>1, <3>2 DEF OwnerInv, Single, Carrying
    <3>4. Of \cup Now = {i}
      BY <2>5, <2>8, <3>3
    <3>5. Carriers(s) = 1
      BY <2>1, <3>4, FS_Singleton
    <3>. QED
      BY <2>8, <3>5
  <2>9. CASE s # dispatcher.event.data /\ conn[s].state \notin {"active", "waiting"}
    <3>1. Of \cup Now = {}
      BY <2>5, <2>6, <2>9
    <3>2. Carriers(s) = 0
      BY <2>1, <3>1, FS_EmptySet
    <3>. QED
      BY <2>9, <3>2
  <2>. QED
    BY <2>7, <2>8, <2>9
<1>2. StructInv /\ TimelyInv => OneCarrier
  BY <1>1
<1>. QED
  BY <1>2, TimelyInvariant, PTL

\* The order of the states.
LEMMA Ranks ==
    /\ Rank("none") = 1 /\ Rank("synack") = 2 /\ Rank("waitdata") = 3
    /\ Rank("active") = 4 /\ Rank("waiting") = 5 /\ Rank("waiting_fin_ack") = 6
<1>1. DOMAIN States = 1..6
  BY DEF States
<1>2. /\ States[1] = "none" /\ States[2] = "synack" /\ States[3] = "waitdata"
      /\ States[4] = "active" /\ States[5] = "waiting" /\ States[6] = "waiting_fin_ack"
  BY DEF States
<1>3. ASSUME NEW i \in 1..6, NEW k \in 1..6, States[i] = States[k] PROVE i = k
  <2>1. \A m \in 1..6 : m = 1 \/ m = 2 \/ m = 3 \/ m = 4 \/ m = 5 \/ m = 6
    OBVIOUS
  <2>. QED
    BY <1>2, <1>3, <2>1
<1>4. ASSUME NEW k \in 1..6, NEW state, States[k] = state PROVE Rank(state) = k
  <2>1. \E i \in DOMAIN States : States[i] = state
    BY <1>1, <1>4
  <2>2. Rank(state) \in 1..6 /\ States[Rank(state)] = state
    BY <1>1, <2>1 DEF Rank
  <2>. QED
    BY <1>3, <1>4, <2>2
<1>. QED
  BY <1>2, <1>4

\* A step of the state machine leads to the same state or a later one.
Ahead(state, next) == Rank(state) <= Rank(next)

LEMMA AheadSame == ASSUME NEW state \in ToSet(States) PROVE Ahead(state, state)
<1>1. state \in {"none", "synack", "waitdata", "active", "waiting", "waiting_fin_ack"}
  BY StateNames
<1>. QED
  BY <1>1, Ranks DEF Ahead

LEMMA HandledAhead ==
    ASSUME NEW state \in ToSet(States), NEW kind PROVE Ahead(state, HandledState(state, kind))
<1>1. CASE state = "synack"
  <2>1. HandledState(state, kind) \in {"synack", "waitdata"}
    BY <1>1 DEF HandledState
  <2>. QED
    BY <1>1, <2>1, Ranks DEF Ahead
<1>2. CASE state = "waitdata"
  <2>1. HandledState(state, kind) = "active"
    BY <1>2 DEF HandledState
  <2>. QED
    BY <1>2, <2>1, Ranks DEF Ahead
<1>3. CASE state \notin {"synack", "waitdata"}
  <2>1. HandledState(state, kind) = state
    BY <1>3 DEF HandledState
  <2>. QED
    BY <2>1, AheadSame
<1>. QED
  BY <1>1, <1>2, <1>3


LEMMA NextAhead ==
    ASSUME StructInv, OwnerInv, Next, NEW s \in Slots, conn[s].live, conn'[s].live
    PROVE  Ahead(conn[s].state, conn'[s].state)
<1>. USE DEF StructInv
<1>1. conn[s].state \in ToSet(States)
  BY DEF TypeInv, TypeOK, Connections
<1>2. CASE conn'[s].state = conn[s].state
  BY <1>1, <1>2, AheadSame
<1>3. CASE \E c \in Clients : Accept(c)
  <2>1. conn'[s] = conn[s]
    BY <1>3, AcceptConn
  <2>. QED
    BY <1>2, <2>1
<1>4. CASE HandleExisting
  <2>1. CASE s = inbound.conn
    <3>1. \/ conn'[s].state = conn[s].state
          \/ conn'[s].state = HandledState(conn[s].state, inbound.kind)
      BY <1>4, <2>1, HandleConn DEF Becomes
    <3>. QED
      BY <1>1, <1>2, <3>1, HandledAhead
  <2>2. CASE s # inbound.conn
    <3>1. conn'[s].state = conn[s].state
      BY <1>4, <2>2, HandleConn DEF Becomes
    <3>. QED
      BY <1>2, <3>1
  <2>. QED
    BY <2>1, <2>2
<1>5. CASE StartSlicing
  <2>1. Fires("start")
    BY <1>5 DEF StartSlicing
  <2>2. Owned(Head(timers)) /\ Head(timers).id = "start"
    BY <2>1, FiresOwned
  <2>3. conn'[s].state = IF s = Head(timers).data THEN "active" ELSE conn[s].state
    BY <1>5, StartConn DEF Becomes
  <2>4. conn'[s].state = conn[s].state
    BY <2>2, <2>3 DEF Owned
  <2>. QED
    BY <1>2, <2>4
<1>6. CASE Slice
  <2>1. Fires("slice")
    BY <1>6 DEF Slice
  <2>2. Owned(Head(timers)) /\ Head(timers).id = "slice"
    BY <2>1, FiresOwned
  <2>3. conn'[s].state = IF s = Head(timers).data THEN SlicedState(conn[s]) ELSE conn[s].state
    BY <1>6, SliceConn DEF Becomes
  <2>4. CASE s = Head(timers).data
    <3>1. conn[s].state = "active"
      BY <2>2, <2>4 DEF Owned
    <3>2. conn'[s].state \in {"active", "waiting"}
      BY <2>3, <2>4, <3>1 DEF SlicedState
    <3>. QED
      BY <3>1, <3>2, Ranks DEF Ahead
  <2>. QED
    BY <1>2, <2>3, <2>4
<1>7. CASE SendFIN
  <2>1. Fires("fin")
    BY <1>7 DEF SendFIN
  <2>2. Owned(Head(timers)) /\ Head(timers).id = "fin"
    BY <2>1, FiresOwned
  <2>3. CASE s = Head(timers).data
    <3>1. conn[s].state = "waiting"
      BY <2>2, <2>3 DEF Owned
    <3>2. conn'[s].state = "waiting_fin_ack"
      BY <1>7, <2>3, SendFINConn DEF Becomes
    <3>. QED
      BY <3>1, <3>2, Ranks DEF Ahead
  <2>4. CASE s # Head(timers).data
    <3>1. conn'[s].state = conn[s].state
      BY <1>7, <2>4, SendFINConn DEF Becomes
    <3>. QED
      BY <1>2, <3>1
  <2>. QED
    BY <2>3, <2>4
<1>8. CASE PurgeEntry
  <2>1. conn'[s] = conn[s]
    BY <1>8, PurgeConn
  <2>. QED
    BY <1>2, <2>1
<1>9. CASE Tick
  BY <1>2, <1>9, TickConn
<1>10. CASE (\E c \in Clients, kind \in Kinds : FindConnection(c, kind)) \/ TrafficEnds \/ SliceOfNothing
  BY <1>2, <1>10 DEF FindConnection, TrafficEnds, SliceOfNothing
<1>11. CASE Finish \/ PopulateOldList \/ RearmCleanup \/ WriteReport
  BY <1>2, <1>11 DEF Finish, PopulateOldList, RearmCleanup, WriteReport
<1>. QED
  BY <1>3, <1>4, <1>5, <1>6, <1>7, <1>8, <1>9, <1>10, <1>11 DEF Next, TimerThread

\* handleTCP_Existing of a late packet, doTimer_StartSlicing, doTimer_Slicing and
\* doTimer_SendFIN, on two threads, take a connection's state only forward.
THEOREM StatesOnlyAdvance ==
    ASSUME Timely PROVE Spec => StatesAdvance
<1>. DEFINE Forward == \A s \in Slots :
              conn[s].live /\ conn'[s].live /\ conn[s].session = conn'[s].session =>
                  Rank(conn[s].state) <= Rank(conn'[s].state)
<1>1. ASSUME StructInv, TimelyInv, Next PROVE Forward
  BY <1>1, NextAhead DEF TimelyInv, Ahead
<1>2. StructInv /\ TimelyInv /\ [Next]_vars => [Forward]_vars
  BY <1>1
<1>. QED
  BY <1>2, TimelyInvariant, PTL DEF Spec, StatesAdvance
=============================================================================
