------------------------- MODULE TimerManagerProofs -------------------------
(***************************************************************************)
(* Theorems about TimerManager, for any threads, modules, events, intervals *)
(* and horizon.                                                             *)
(***************************************************************************)
EXTENDS TimerManager, Integers, SequenceTheorems, FiniteSetTheorems,
        WellFoundedInduction, TLAPS

-----------------------------------------------------------------------------
(* Sequences and sets of numbers.                                           *)

\* A set of naturals has a least member.  This also stands for induction, which
\* is used as: no least counterexample.
LEMMA LeastNat ==
    ASSUME NEW T \in SUBSET Nat, T # {} PROVE \E n \in T : \A m \in T : n <= m
<1>1. \E n \in T : \A m \in T : ~ (<<m, n>> \in OpToRel(<, Nat))
  BY NatLessThanWellFounded, WFMin
<1>2. \A m, n \in Nat : <<m, n>> \in OpToRel(<, Nat) <=> m < n
  BY DEF OpToRel
<1>3. \E n \in T : \A m \in T : ~ (m < n)
  <2>1. \A m \in T : m \in Nat
    OBVIOUS
  <2>. QED
    BY <1>1, <1>2, <2>1, Zenon
<1>. QED
  BY <1>3

\* Popping takes out exactly the first element, if none is in there twice.
LEMMA PopProperties ==
    ASSUME NEW S, NEW s \in Seq(S), s # <<>>
    PROVE  /\ Head(s) \in S
           /\ Head(s) \in ToSet(s)
           /\ Tail(s) \in Seq(S)
           /\ IsInjective(s) => /\ IsInjective(Tail(s))
                               /\ ToSet(Tail(s)) = ToSet(s) \ {Head(s)}
<1>1. /\ Head(s) \in S /\ Head(s) = s[1]
      /\ Tail(s) \in Seq(S)
      /\ Len(s) \in Nat \ {0}
      /\ Len(Tail(s)) = Len(s) - 1
      /\ \A i \in 1..Len(Tail(s)) : Tail(s)[i] = s[i + 1]
  BY HeadTailProperties, EmptySeq
<1>2. DOMAIN s = 1..Len(s) /\ DOMAIN Tail(s) = 1..Len(s) - 1
  BY <1>1, LenProperties
<1>3. Head(s) \in ToSet(s)
  BY <1>1, <1>2 DEF ToSet
<1>4. ASSUME IsInjective(s) PROVE IsInjective(Tail(s))
  BY <1>1, <1>2, <1>4 DEF IsInjective
<1>5. ASSUME IsInjective(s) PROVE ToSet(Tail(s)) = ToSet(s) \ {Head(s)}
  <2>1. ASSUME NEW x \in ToSet(Tail(s)) PROVE x \in ToSet(s) \ {Head(s)}
    <3>1. PICK i \in 1..Len(s) - 1 : x = s[i + 1]
      BY <1>1, <1>2 DEF ToSet
    <3>. QED
      BY <3>1, <1>1, <1>2, <1>5 DEF ToSet, IsInjective
  <2>2. ASSUME NEW x \in ToSet(s), x # Head(s) PROVE x \in ToSet(Tail(s))
    <3>1. PICK i \in 1..Len(s) : x = s[i]
      BY <1>2 DEF ToSet
    <3>2. i - 1 \in 1..Len(s) - 1 /\ (i - 1) + 1 = i
      BY <3>1, <2>2, <1>1
    <3>3. Tail(s)[i - 1] = x
      BY <3>1, <3>2, <1>1
    <3>. QED
      BY <3>2, <3>3, <1>2 DEF ToSet
  <2>. QED
    BY <2>1, <2>2
<1>. QED
  BY <1>1, <1>3, <1>4, <1>5

\* Pushing adds exactly that element, and keeps the elements distinct if it is new.
LEMMA PushProperties ==
    ASSUME NEW S, NEW s \in Seq(S), NEW o \in S
    PROVE  /\ Append(s, o) \in Seq(S)
           /\ Append(s, o) # <<>>
           /\ ToSet(Append(s, o)) = ToSet(s) \cup {o}
           /\ IsInjective(s) /\ o \notin ToSet(s) => IsInjective(Append(s, o))
<1>1. /\ Append(s, o) \in Seq(S)
      /\ Append(s, o) # <<>>
      /\ Len(s) \in Nat
      /\ Len(Append(s, o)) = Len(s) + 1
      /\ \A i \in 1..Len(s) : Append(s, o)[i] = s[i]
      /\ Append(s, o)[Len(s) + 1] = o
  BY AppendProperties, LenProperties
<1>2. DOMAIN s = 1..Len(s) /\ DOMAIN Append(s, o) = 1..Len(s) + 1
  BY <1>1, LenProperties
<1>3. ToSet(Append(s, o)) = ToSet(s) \cup {o}
  <2>1. \A i \in 1..Len(s) + 1 : i \in 1..Len(s) \/ i = Len(s) + 1
    BY <1>1
  <2>. QED
    BY <1>1, <1>2, <2>1 DEF ToSet
<1>4. ASSUME IsInjective(s), o \notin ToSet(s) PROVE IsInjective(Append(s, o))
  BY <1>1, <1>2, <1>4 DEF IsInjective, ToSet
<1>. QED
  BY <1>1, <1>3, <1>4

\* An element between two sequences.
LEMMA BetweenProperties ==
    ASSUME NEW S, NEW front \in Seq(S), NEW back \in Seq(S), NEW e \in S
    PROVE  /\ front \o <<e>> \o back \in Seq(S)
           /\ Len(front \o <<e>> \o back) = Len(front) + 1 + Len(back)
           /\ \A k \in 1..Len(front) + 1 + Len(back) :
                 (front \o <<e>> \o back)[k] =
                     IF k <= Len(front) THEN front[k]
                     ELSE IF k = Len(front) + 1 THEN e ELSE back[k - Len(front) - 1]
<1>1. Len(front) \in Nat /\ Len(back) \in Nat
  BY LenProperties
<1>2. /\ front \o <<e>> \in Seq(S)
      /\ Len(front \o <<e>>) = Len(front) + 1
      /\ \A k \in 1..Len(front) + 1 :
            (front \o <<e>>)[k] = IF k <= Len(front) THEN front[k] ELSE e
  <2>1. <<e>> \in Seq(S) /\ Len(<<e>>) = 1 /\ <<e>>[1] = e
    OBVIOUS
  <2>. QED
    BY <1>1, <2>1, ConcatProperties
<1> DEFINE u == front \o <<e>>
<1>3. /\ u \o back \in Seq(S)
      /\ Len(u \o back) = Len(u) + Len(back)
      /\ \A k \in 1..Len(u) + Len(back) :
            (u \o back)[k] = IF k <= Len(u) THEN u[k] ELSE back[k - Len(u)]
  BY <1>2, ConcatProperties
<1> DEFINE t == u \o back
<1>. QED
  BY <1>1, <1>2, <1>3

\* The sequence with an element before place i, from what is before and behind it.
Parts(s, i, front, back) ==
    /\ Len(front) = i - 1 /\ \A k \in 1..i - 1 : front[k] = s[k]
    /\ Len(back) = Len(s) - i + 1 /\ \A k \in 1..Len(s) - i + 1 : back[k] = s[i + k - 1]

LEMMA InsertedBetween ==
    ASSUME NEW S, NEW s \in Seq(S), NEW i \in 1..Len(s) + 1, NEW e \in S,
           NEW front \in Seq(S), NEW back \in Seq(S), Parts(s, i, front, back)
    PROVE  /\ front \o <<e>> \o back \in Seq(S)
           /\ Len(front \o <<e>> \o back) = Len(s) + 1
           /\ \A k \in 1..Len(s) + 1 :
                 (front \o <<e>> \o back)[k]
                     = IF k < i THEN s[k] ELSE IF k = i THEN e ELSE s[k - 1]
<1>1. Len(s) \in Nat /\ i \in Nat /\ Len(front) + 1 + Len(back) = Len(s) + 1
  BY LenProperties DEF Parts
<1>2. ASSUME NEW k \in 1..Len(s) + 1
      PROVE  (front \o <<e>> \o back)[k]
                 = IF k < i THEN s[k] ELSE IF k = i THEN e ELSE s[k - 1]
  <2>1. (front \o <<e>> \o back)[k]
            = IF k <= Len(front) THEN front[k]
              ELSE IF k = Len(front) + 1 THEN e ELSE back[k - Len(front) - 1]
    BY <1>1, BetweenProperties
  <2>2. CASE k > i
    <3>1. k - Len(front) - 1 \in 1..Len(s) - i + 1 /\ i + (k - Len(front) - 1) - 1 = k - 1
      BY <1>1, <2>2 DEF Parts
    <3>. QED
      BY <1>1, <2>1, <2>2, <3>1 DEF Parts
  <2>3. CASE k <= i
    BY <1>1, <2>1, <2>3 DEF Parts
  <2>. QED
    BY <1>1, <2>2, <2>3
<1>3. /\ front \o <<e>> \o back \in Seq(S)
      /\ Len(front \o <<e>> \o back) = Len(front) + 1 + Len(back)
  BY BetweenProperties
<1>. QED
  BY <1>1, <1>2, <1>3

\* Inserting moves the elements from the place on up by one.
LEMMA InsertProperties ==
    ASSUME NEW S, NEW s \in Seq(S), NEW i \in 1..Len(s) + 1, NEW e \in S
    PROVE  /\ InsertAt(s, i, e) \in Seq(S)
           /\ DOMAIN InsertAt(s, i, e) = 1..Len(s) + 1
           /\ Len(InsertAt(s, i, e)) = Len(s) + 1
           /\ \A k \in 1..Len(s) + 1 :
                 InsertAt(s, i, e)[k] = IF k < i THEN s[k] ELSE IF k = i THEN e ELSE s[k - 1]
           /\ ToSet(InsertAt(s, i, e)) = ToSet(s) \cup {e}
           /\ IsInjective(s) /\ e \notin ToSet(s) => IsInjective(InsertAt(s, i, e))
<1>1. Len(s) \in Nat /\ DOMAIN s = 1..Len(s) /\ i \in Nat /\ \A k \in 1..Len(s) : s[k] \in S
  BY LenProperties, ElementOfSeq
<1>2. /\ SubSeq(s, 1, i - 1) \in Seq(S) /\ Len(SubSeq(s, 1, i - 1)) = i - 1
      /\ \A k \in 1..i - 1 : SubSeq(s, 1, i - 1)[k] = s[k]
  <2>1. \A k \in 1..i - 1 : s[k] \in S
    BY <1>1
  <2>. QED
    BY <1>1, <2>1, SubSeqProperties
<1>3. /\ SubSeq(s, i, Len(s)) \in Seq(S) /\ Len(SubSeq(s, i, Len(s))) = Len(s) - i + 1
      /\ \A k \in 1..Len(s) - i + 1 : SubSeq(s, i, Len(s))[k] = s[i + k - 1]
  <2>1. \A k \in i..Len(s) : s[k] \in S
    BY <1>1
  <2>. QED
    BY <1>1, <2>1, SubSeqProperties
<1>4. PICK front \in Seq(S), back \in Seq(S) :
        /\ front = SubSeq(s, 1, i - 1) /\ back = SubSeq(s, i, Len(s))
        /\ Parts(s, i, front, back)
  BY <1>2, <1>3 DEF Parts
<1>5. PICK t \in Seq(S) :
        /\ t = InsertAt(s, i, e) /\ Len(t) = Len(s) + 1
        /\ \A k \in 1..Len(s) + 1 : t[k] = IF k < i THEN s[k] ELSE IF k = i THEN e ELSE s[k - 1]
  <2>1. InsertAt(s, i, e) = front \o <<e>> \o back
    BY <1>4 DEF InsertAt
  <2>2. /\ front \o <<e>> \o back \in Seq(S)
        /\ Len(front \o <<e>> \o back) = Len(s) + 1
        /\ \A k \in 1..Len(s) + 1 :
              (front \o <<e>> \o back)[k]
                  = IF k < i THEN s[k] ELSE IF k = i THEN e ELSE s[k - 1]
    <3>1. Parts(s, i, front, back)
      BY <1>4
    <3>. QED
      BY <3>1, InsertedBetween
  <2>. QED
    BY <2>1, <2>2
<1>6. DOMAIN t = 1..Len(s) + 1
  BY <1>5, LenProperties
<1>7. ToSet(t) = ToSet(s) \cup {e}
  <2>1. ASSUME NEW k \in 1..Len(s) + 1 PROVE t[k] \in ToSet(s) \cup {e}
    <3>1. CASE k > i
      <4>1. k - 1 \in 1..Len(s) /\ t[k] = s[k - 1]
        BY <1>1, <1>5, <3>1
      <4>. QED
        BY <1>1, <4>1 DEF ToSet
    <3>2. CASE k < i
      <4>1. k \in 1..Len(s) /\ t[k] = s[k]
        BY <1>1, <1>5, <3>2
      <4>. QED
        BY <1>1, <4>1 DEF ToSet
    <3>3. CASE k = i
      BY <1>1, <1>5, <3>3
    <3>. QED
      BY <1>1, <3>1, <3>2, <3>3
  <2>2. ASSUME NEW k \in 1..Len(s) PROVE s[k] \in ToSet(t)
    <3>1. CASE k < i
      <4>1. k \in 1..Len(s) + 1 /\ t[k] = s[k]
        BY <1>1, <1>5, <3>1
      <4>. QED
        BY <1>6, <4>1 DEF ToSet
    <3>2. CASE k >= i
      <4>1. k + 1 \in 1..Len(s) + 1 /\ t[k + 1] = s[k]
        BY <1>1, <1>5, <3>2
      <4>. QED
        BY <1>6, <4>1 DEF ToSet
    <3>. QED
      BY <1>1, <3>1, <3>2
  <2>3. e \in ToSet(t)
    BY <1>1, <1>5, <1>6 DEF ToSet
  <2>. QED
    BY <1>1, <1>6, <2>1, <2>2, <2>3 DEF ToSet
<1>8. ASSUME IsInjective(s), e \notin ToSet(s) PROVE IsInjective(t)
  <2>1. \A k \in 1..Len(s) : s[k] # e
    BY <1>1, <1>8 DEF ToSet
  <2>2. \A j, k \in 1..Len(s) : s[j] = s[k] => j = k
    BY <1>1, <1>8 DEF IsInjective
  <2>3. SUFFICES ASSUME NEW j \in 1..Len(s) + 1, NEW k \in 1..Len(s) + 1, t[j] = t[k]
                 PROVE  j = k
    BY <1>6 DEF IsInjective
  <2>. QED
    BY <1>1, <1>5, <2>1, <2>2, <2>3
<1>. QED
  BY <1>5, <1>6, <1>7, <1>8

-----------------------------------------------------------------------------

\* No thread's loop began in the future.
CurrentInv == \A t \in TimerThreads : thread[t].currentTime <= now

\* The walk over the aggregators belongs to the thread that holds their list.
Walking == {"scan", "pop", "callback"}

MutexInv == \A t \in TimerThreads : thread[t].pc \in Walking => mutexList = t

\* A walk starts at the first aggregator, and a pop follows a look at the same one.
LookInv ==
    \A t \in TimerThreads :
        /\ thread[t].pc = "lock" => thread[t].j = 1
        /\ thread[t].pc \in {"pop", "callback"} =>
              thread[t].j <= Len(listTimers) /\ thread[t].expired

CallbackInv ==
    \A t \in TimerThreads : thread[t].event # NoEvent <=> thread[t].pc = "callback"

\* The deques are sorted.
Sorted(s, d) == \A i, k \in 1..Len(s) : i <= k => d[s[i]] <= d[s[k]]

SortedInv == \A m \in Modules : Sorted(aggregator[m], due)

Waiting(e) == \E m \in Modules : e \in ToSet(aggregator[m])

\* An event is in one place: nowhere twice, in no two places, and somewhere.
PlacesInv ==
    /\ \A m \in Modules : IsInjective(aggregator[m])
    /\ \A m, n \in Modules : \A e \in Events :
          e \in ToSet(aggregator[m]) /\ e \in ToSet(aggregator[n]) => m = n
    /\ \A e \in Events : Waiting(e) => e \notin free
    /\ \A t \in TimerThreads : \A e \in Events :
          thread[t].event = e => e \notin free /\ ~ Waiting(e)
    /\ \A e \in Events :
          e \in free \/ Waiting(e) \/ \E t \in TimerThreads : thread[t].event = e

\* A module adds events only after its aggregator joined the list.
RegisteredInv == \A m \in Modules : m \notin ToSet(listTimers) => aggregator[m] = <<>>

\* Event e of module m will not be slept through by t: t is on its way to a scan,
\* will not sleep after this one, has m still before it, or aims to wake in time.
Covers(t, m, e) ==
    LET th == thread[t] IN
    \/ th.pc \in {"unborn", "sample", "lock", "clear"}
    \/ th.pc \in Walking \cup {"finish"} /\ th.expired
    \/ th.pc \in Walking /\ \E k \in 1..Len(listTimers) : th.j <= k /\ listTimers[k] = m
    \/ /\ th.pc \in Walking \cup {"finish", "doze", "sleep"}
       /\ th.next > 0
       /\ th.currentTime + th.next <= due[e]

WakeInv ==
    ~changed /\ signals = {} =>
        \A m \in Modules : \A e \in ToSet(aggregator[m]) :
            \E t \in TimerThreads : Covers(t, m, e)

IInv ==
    /\ TypeOK
    /\ CurrentInv
    /\ MutexInv
    /\ LookInv
    /\ CallbackInv
    /\ SortedInv
    /\ PlacesInv
    /\ RegisteredInv
    /\ PopFindsExpired
    /\ WakeInv

-----------------------------------------------------------------------------
(* The deques.                                                             *)

LEMMA TimesAreNumbers == Times \subseteq Nat /\ Horizon \in Nat
BY TimeAssumption DEF Times

\* The front of a sorted deque is due first.
LEMMA FrontIsFirst ==
    ASSUME NEW s \in Seq(Events), NEW d \in [Events -> Times], Sorted(s, d),
           NEW e \in ToSet(s)
    PROVE  s # <<>> /\ Head(s) \in Events /\ Head(s) \in ToSet(s) /\ d[Head(s)] <= d[e]
<1>1. DOMAIN s = 1..Len(s) /\ Len(s) \in Nat
  BY LenProperties
<1>2. PICK i \in 1..Len(s) : s[i] = e
  BY <1>1 DEF ToSet
<1>3. s # <<>>
  BY <1>1, <1>2, EmptySeq
<1>4. Head(s) \in Events /\ Head(s) = s[1]
  BY <1>3, HeadTailProperties
<1>5. Head(s) \in ToSet(s)
  BY <1>3, PopProperties
<1>. QED
  BY <1>1, <1>2, <1>3, <1>4, <1>5 DEF Sorted

\* A deque stays sorted without its front.
LEMMA PopSorted ==
    ASSUME NEW s \in Seq(Events), NEW d, Sorted(s, d), s # <<>>
    PROVE  Sorted(Tail(s), d)
<1>1. /\ Len(s) \in Nat /\ Len(Tail(s)) = Len(s) - 1
      /\ \A i \in 1..Len(Tail(s)) : Tail(s)[i] = s[i + 1]
  BY HeadTailProperties, LenProperties
<1>. QED
  BY <1>1 DEF Sorted

\* Place at is behind all that is due no later than time, and before the rest.
Between(s, d, at, time) ==
    /\ \A k \in 1..at - 1 : d[s[k]] <= time
    /\ \A k \in at..Len(s) : time <= d[s[k]]

\* Inserted there, the event leaves the deque sorted.
LEMMA InsertSorted ==
    ASSUME NEW s \in Seq(Events), NEW d \in [Events -> Times], NEW c \in [Events -> Times],
           NEW e \in Events, NEW time \in Times, NEW at \in 1..Len(s) + 1,
           Sorted(s, d), e \notin ToSet(s), c = [d EXCEPT ![e] = time],
           Between(s, d, at, time)
    PROVE  Sorted(InsertAt(s, at, e), c)
<1>1. Len(s) \in Nat /\ DOMAIN s = 1..Len(s) /\ \A k \in 1..Len(s) : s[k] \in Events
  BY LenProperties, ElementOfSeq
<1>2. \A k \in 1..Len(s) : s[k] # e
  BY <1>1 DEF ToSet
<1>3. c[e] = time /\ \A k \in 1..Len(s) : c[s[k]] = d[s[k]] /\ d[s[k]] \in Times
  BY <1>1, <1>2
<1>4. PICK t \in Seq(Events) :
        /\ t = InsertAt(s, at, e) /\ Len(t) = Len(s) + 1
        /\ \A k \in 1..Len(s) + 1 :
              t[k] = IF k < at THEN s[k] ELSE IF k = at THEN e ELSE s[k - 1]
  <2>1. /\ InsertAt(s, at, e) \in Seq(Events)
        /\ Len(InsertAt(s, at, e)) = Len(s) + 1
        /\ \A k \in 1..Len(s) + 1 :
              InsertAt(s, at, e)[k] = IF k < at THEN s[k] ELSE IF k = at THEN e ELSE s[k - 1]
    BY InsertProperties
  <2>. QED
    BY <2>1
<1>5. SUFFICES ASSUME NEW i \in 1..Len(s) + 1, NEW k \in 1..Len(s) + 1, i <= k
               PROVE  c[t[i]] <= c[t[k]]
  BY <1>4 DEF Sorted
<1>6. CASE i < at /\ k < at
  <2>1. i \in 1..Len(s) /\ k \in 1..Len(s) /\ t[i] = s[i] /\ t[k] = s[k]
    BY <1>1, <1>4, <1>6
  <2>. QED
    BY <1>3, <1>5, <2>1 DEF Sorted
<1>7. CASE i < at /\ k = at
  <2>1. i \in 1..at - 1 /\ i \in 1..Len(s) /\ t[i] = s[i] /\ t[k] = e
    BY <1>1, <1>4, <1>7
  <2>. QED
    BY <1>3, <2>1 DEF Between
<1>8. CASE i < at /\ k > at
  <2>1. i \in 1..Len(s) /\ k - 1 \in 1..Len(s) /\ i <= k - 1 /\ t[i] = s[i] /\ t[k] = s[k - 1]
    BY <1>1, <1>4, <1>8
  <2>. QED
    BY <1>3, <2>1 DEF Sorted
<1>9. CASE i = at /\ k > at
  <2>1. k - 1 \in at..Len(s) /\ k - 1 \in 1..Len(s) /\ t[i] = e /\ t[k] = s[k - 1]
    BY <1>1, <1>4, <1>9
  <2>. QED
    BY <1>3, <2>1 DEF Between
<1>10. CASE i = at /\ k = at
  BY TimesAreNumbers, <1>3, <1>4, <1>10
<1>11. CASE i > at
  <2>1. i - 1 \in 1..Len(s) /\ k - 1 \in 1..Len(s) /\ i - 1 <= k - 1 /\ k > at
    BY <1>1, <1>5, <1>11
  <2>2. t[i] = s[i - 1] /\ t[k] = s[k - 1]
    BY <1>1, <1>4, <1>11, <2>1
  <2>. QED
    BY <1>3, <2>1, <2>2 DEF Sorted
<1>. QED
  BY <1>1, <1>5, <1>6, <1>7, <1>8, <1>9, <1>10, <1>11

\* addTimerEvent finds that place in a sorted deque.
LEMMA InsertPlace ==
    ASSUME NEW m \in Modules, NEW e \in Events, NEW time \in Times,
           NEW s \in Seq(Events), s = aggregator[m], due \in [Events -> Times],
           Sorted(s, due), Insert(m, e, time)
    PROVE  \E at \in 1..Len(s) + 1 :
              /\ Between(s, due, at, time)
              /\ aggregator' = [aggregator EXCEPT ![m] = InsertAt(s, at, e)]
<1>1. /\ Len(s) \in Nat /\ DOMAIN s = 1..Len(s)
      /\ \A k \in 1..Len(s) : s[k] \in Events /\ due[s[k]] \in Nat
      /\ time \in Nat
  BY TimesAreNumbers, LenProperties, ElementOfSeq
<1>2. PICK later \in SUBSET (1..Len(s)) : later = {i \in DOMAIN s : due[s[i]] > time}
  BY <1>1
<1>3. CASE later = {}
  <2>1. aggregator' = [aggregator EXCEPT ![m] = InsertAt(s, Len(s) + 1, e)]
    BY <1>2, <1>3 DEF Insert
  <2>2. Between(s, due, Len(s) + 1, time)
    BY <1>1, <1>2, <1>3 DEF Between
  <2>3. Len(s) + 1 \in 1..Len(s) + 1
    BY <1>1
  <2>. QED
    BY <2>1, <2>2, <2>3
<1>4. CASE later # {}
  <2>1. \E i \in later : \A k \in later : i <= k
    <3>1. later \in SUBSET Nat
      BY <1>1
    <3>. QED
      BY <1>4, <3>1, LeastNat
  <2>2. PICK at : at = CHOOSE i \in later : \A k \in later : i <= k
    OBVIOUS
  <2>3. at \in later /\ \A k \in later : at <= k
    BY <2>1, <2>2
  <2>4. aggregator' = [aggregator EXCEPT ![m] = InsertAt(s, at, e)]
    BY <1>2, <1>4, <2>2 DEF Insert
  <2>5. at \in 1..Len(s) /\ due[s[at]] > time
    BY <1>2, <2>3
  <2>6. ASSUME NEW k \in 1..at - 1 PROVE due[s[k]] <= time
    <3>1. k \in 1..Len(s) /\ k < at
      BY <1>1, <2>5
    <3>2. k \notin later
      BY <1>1, <2>3, <2>5, <3>1
    <3>. QED
      BY <1>1, <1>2, <3>1, <3>2
  <2>7. ASSUME NEW k \in at..Len(s) PROVE time <= due[s[k]]
    <3>1. k \in 1..Len(s) /\ due[s[at]] <= due[s[k]]
      BY <1>1, <2>5 DEF Sorted
    <3>. QED
      BY <1>1, <2>5, <3>1
  <2>8. Between(s, due, at, time) /\ at \in 1..Len(s) + 1
    BY <1>1, <2>5, <2>6, <2>7 DEF Between
  <2>. QED
    BY <2>4, <2>8
<1>. QED
  BY <1>3, <1>4

\* Another event's time does not matter to a deque.
LEMMA OtherSorted ==
    ASSUME NEW s \in Seq(Events), NEW d \in [Events -> Times], NEW time, NEW e \in Events,
           Sorted(s, d), e \notin ToSet(s)
    PROVE  Sorted(s, [d EXCEPT ![e] = time])
<1>1. /\ Len(s) \in Nat /\ DOMAIN s = 1..Len(s)
      /\ \A k \in 1..Len(s) : s[k] \in Events
  BY LenProperties, ElementOfSeq
<1>2. \A k \in 1..Len(s) : s[k] # e
  BY <1>1 DEF ToSet
<1>. QED
  BY <1>1, <1>2 DEF Sorted

\* Arming an event that waits nowhere adds it to the module's events, in order.
LEMMA ArmProperties ==
    ASSUME TypeOK, SortedInv, \A n \in Modules : IsInjective(aggregator[n]),
           NEW m \in Modules, NEW e \in Events, ~ Waiting(e), Arm(m, e)
    PROVE  /\ aggregator' \in [Modules -> Seq(Events)]
           /\ due' \in [Events -> Times]
           /\ \E time \in now..Horizon : due' = [due EXCEPT ![e] = time]
           /\ \A n \in Modules : Sorted(aggregator'[n], due')
           /\ \A n \in Modules : IsInjective(aggregator'[n])
           /\ ToSet(aggregator'[m]) = ToSet(aggregator[m]) \cup {e}
           /\ \A n \in Modules : n # m => aggregator'[n] = aggregator[n]
<1>1. PICK time \in now..Horizon : due' = [due EXCEPT ![e] = time] /\ Insert(m, e, time)
  <2>1. PICK interval \in Intervals :
          due' = [due EXCEPT ![e] = Later(now, interval)] /\ Insert(m, e, Later(now, interval))
    BY DEF Arm
  <2>2. Later(now, interval) \in now..Horizon
    BY TimeAssumption DEF Later, TypeOK, Times
  <2>. QED
    BY <2>1, <2>2
<1>2. time \in Times /\ due \in [Events -> Times] /\ aggregator \in [Modules -> Seq(Events)]
  BY TimeAssumption DEF TypeOK, Times
<1>3. PICK s \in Seq(Events) : s = aggregator[m]
  BY <1>2
<1>4. Sorted(s, due) /\ IsInjective(s) /\ e \notin ToSet(s)
  BY <1>3 DEF SortedInv, Waiting
<1>5. PICK at \in 1..Len(s) + 1 :
        /\ Between(s, due, at, time)
        /\ aggregator' = [aggregator EXCEPT ![m] = InsertAt(s, at, e)]
  BY <1>1, <1>2, <1>3, <1>4, InsertPlace
<1>6. PICK t : t = InsertAt(s, at, e)
  OBVIOUS
<1>7. t \in Seq(Events) /\ ToSet(t) = ToSet(s) \cup {e} /\ IsInjective(t)
  <2>1. /\ InsertAt(s, at, e) \in Seq(Events)
        /\ ToSet(InsertAt(s, at, e)) = ToSet(s) \cup {e}
        /\ IsInjective(s) /\ e \notin ToSet(s) => IsInjective(InsertAt(s, at, e))
    BY InsertProperties
  <2>. QED
    BY <1>4, <1>6, <2>1
<1>8. aggregator'[m] = t /\ \A n \in Modules : n # m => aggregator'[n] = aggregator[n]
  BY <1>2, <1>5, <1>6
<1>9. aggregator' \in [Modules -> Seq(Events)]
  BY <1>2, <1>5, <1>6, <1>7
<1>10. due' \in [Events -> Times]
  BY <1>1, <1>2
<1>11. Sorted(t, due')
  <2>1. Sorted(InsertAt(s, at, e), due')
    BY <1>1, <1>2, <1>4, <1>5, <1>10, InsertSorted
  <2>. QED
    BY <1>6, <2>1
<1>12. ASSUME NEW n \in Modules, n # m PROVE Sorted(aggregator[n], due')
  <2>1. aggregator[n] \in Seq(Events) /\ Sorted(aggregator[n], due) /\ e \notin ToSet(aggregator[n])
    BY <1>2 DEF SortedInv, Waiting
  <2>2. Sorted(aggregator[n], [due EXCEPT ![e] = time])
    BY <1>2, <2>1, OtherSorted
  <2>. QED
    BY <1>1, <2>2
<1>. QED
  BY <1>1, <1>3, <1>7, <1>8, <1>9, <1>10, <1>11, <1>12

-----------------------------------------------------------------------------
(* Type correctness.                                                       *)

LEMMA UnbornType == Unborn \in ThreadState
<1>1. 0 \in Times /\ 1 \in Nat \ {0}
  BY TimeAssumption DEF Times
<1>. QED
  BY <1>1 DEF Unborn, ThreadState

LEMMA InitInv == Init => IInv
<1>. SUFFICES ASSUME Init PROVE IInv
  OBVIOUS
<1>1. TypeOK
  <2>1. 0 \in Times
    BY TimeAssumption DEF Times
  <2>2. <<>> \in Seq(Modules) /\ <<>> \in Seq(Events)
    OBVIOUS
  <2>3. aggregator \in [Modules -> Seq(Events)]
    BY <2>2 DEF Init
  <2>4. thread \in [TimerThreads -> ThreadState]
    BY UnbornType DEF Init
  <2>. QED
    BY <2>1, <2>2, <2>3, <2>4 DEF Init, TypeOK
<1>2. CurrentInv /\ MutexInv /\ LookInv /\ CallbackInv /\ PopFindsExpired
  BY DEF Init, Unborn, CurrentInv, MutexInv, LookInv, CallbackInv, PopFindsExpired, Walking
<1>3. ToSet(<<>>) = {} /\ IsInjective(<<>>) /\ Len(<<>>) = 0
  BY DEF ToSet, IsInjective
<1>4. SortedInv
  BY <1>3 DEF Init, SortedInv, Sorted
<1>5. PlacesInv
  BY <1>3, NullAssumption DEF Init, Unborn, PlacesInv, Waiting
<1>6. RegisteredInv /\ WakeInv
  BY <1>3 DEF Init, RegisteredInv, WakeInv
<1>. QED
  BY <1>1, <1>2, <1>4, <1>5, <1>6 DEF IInv

\* What a thread walks to is a module, and its callback has an event.
LEMMA CallbackArms ==
    ASSUME IInv, NEW t \in TimerThreads, thread[t].pc = "callback"
    PROVE  /\ listTimers[thread[t].j] \in Modules
           /\ thread[t].event \in Events
           /\ ~ Waiting(thread[t].event)
           /\ thread[t].event \notin free
<1>1. thread[t] \in ThreadState /\ listTimers \in Seq(Modules)
  BY DEF IInv, TypeOK
<1>2. thread[t].j \in 1..Len(listTimers)
  BY <1>1, LenProperties DEF IInv, LookInv, ThreadState
<1>3. listTimers[thread[t].j] \in Modules
  BY <1>1, <1>2, ElementOfSeq
<1>4. thread[t].event \in Events
  BY <1>1 DEF IInv, CallbackInv, ThreadState
<1>. QED
  BY <1>3, <1>4 DEF IInv, PlacesInv

\* A thread about to pop finds a module's deque with something in it.
LEMMA PopFinds ==
    ASSUME IInv, NEW t \in TimerThreads, thread[t].pc = "pop",
           NEW m, m = listTimers[thread[t].j], NEW s, s = aggregator[m]
    PROVE  m \in Modules /\ s \in Seq(Events) /\ s # <<>>
<1>1. thread[t] \in ThreadState /\ listTimers \in Seq(Modules)
  BY DEF IInv, TypeOK
<1>2. thread[t].j \in 1..Len(listTimers)
  BY <1>1, LenProperties DEF IInv, LookInv, ThreadState
<1>3. m \in Modules
  BY <1>1, <1>2, ElementOfSeq
<1>. QED
  BY <1>3 DEF IInv, PopFindsExpired, TypeOK

\* The three things a look at the front of deque s can come to.
LookOutcome(old, new, s) ==
    /\ new \in ThreadState
    /\ old.pc = "scan" /\ new.currentTime = old.currentTime /\ new.event = old.event
    /\ \/ /\ s = <<>>
          /\ new.pc = "scan" /\ new.j = old.j + 1
          /\ new.expired = old.expired /\ new.next = old.next
       \/ /\ s # <<>> /\ due[Head(s)] <= old.currentTime
          /\ new.pc = "pop" /\ new.j = old.j /\ new.expired = TRUE
       \/ /\ s # <<>>
          /\ new.pc = "scan" /\ new.j = old.j + 1 /\ new.expired = old.expired
          /\ ~ old.expired => new.next > 0 /\ old.currentTime + new.next <= due[Head(s)]
          /\ old.next > 0 => new.next > 0 /\ new.next <= old.next

Looked(old, s, time) ==
    CASE s = <<>> -> [old EXCEPT !.j = @ + 1]
      [] s # <<>> /\ time <= old.currentTime -> [old EXCEPT !.pc = "pop", !.expired = TRUE]
      [] OTHER ->
            [old EXCEPT !.j = @ + 1,
                        !.next = IF ~old.expired /\ (@ = 0 \/ time - old.currentTime < @)
                                 THEN time - old.currentTime ELSE @]

LEMMA LookSteps ==
    ASSUME TypeOK, NEW t \in TimerThreads, Look(t),
           NEW s, s = aggregator[listTimers[thread[t].j]]
    PROVE  /\ listTimers[thread[t].j] \in Modules
           /\ s \in Seq(Events)
           /\ thread' = [thread EXCEPT ![t] = thread'[t]]
           /\ LookOutcome(thread[t], thread'[t], s)
<1>. USE TimesAreNumbers
<1>1. thread[t] \in ThreadState /\ thread \in [TimerThreads -> ThreadState]
  BY DEF TypeOK
<1>2. PICK n \in Nat : n = Len(listTimers)
  BY LenProperties DEF TypeOK
<1>3. listTimers[thread[t].j] \in Modules
  BY <1>1, <1>2, ElementOfSeq DEF Look, TypeOK, ThreadState
<1>4. s \in Seq(Events)
  BY <1>3 DEF TypeOK
<1>5. PICK old \in ThreadState : old = thread[t] /\ old.pc = "scan"
  BY <1>1 DEF Look
<1>6. PICK time : time = due[Head(s)]
  OBVIOUS
<1>7. s # <<>> => time \in Times
  BY <1>4, <1>6, HeadTailProperties DEF TypeOK
<1>8. thread' = [thread EXCEPT ![t] = Looked(old, s, time)]
  BY <1>5, <1>6 DEF Look, Looked
<1>9. PICK new : /\ new = Looked(old, s, time)
                 /\ new = thread'[t]
                 /\ thread' = [thread EXCEPT ![t] = new]
  BY <1>1, <1>8
<1>10. LookOutcome(old, new, s)
  <2>1. CASE s = <<>>
    <3>1. new = [old EXCEPT !.j = @ + 1]
      BY <1>9, <2>1 DEF Looked
    <3>. QED
      BY <1>5, <2>1, <3>1 DEF LookOutcome, ThreadState
  <2>2. CASE s # <<>> /\ time <= old.currentTime
    <3>1. new = [old EXCEPT !.pc = "pop", !.expired = TRUE]
      BY <1>9, <2>2 DEF Looked
    <3>. QED
      BY <1>5, <1>6, <2>2, <3>1 DEF LookOutcome, ThreadState
  <2>3. CASE s # <<>> /\ ~ (time <= old.currentTime)
    <3>1. PICK k : k = IF ~old.expired /\ (old.next = 0 \/ time - old.currentTime < old.next)
                       THEN time - old.currentTime ELSE old.next
      OBVIOUS
    <3>2. new = [old EXCEPT !.j = @ + 1, !.next = k]
      BY <1>9, <2>3, <3>1 DEF Looked
    <3>3. old.next \in 0..Horizon /\ old.currentTime \in 0..Horizon /\ time \in 0..Horizon
      BY <1>5, <1>7, <2>3 DEF ThreadState, Times
    <3>4. /\ k \in Times
          /\ ~ old.expired => k > 0 /\ old.currentTime + k <= time
          /\ old.next > 0 => k > 0 /\ k <= old.next
      BY <2>3, <3>1, <3>3 DEF Times
    <3>5. /\ new \in ThreadState /\ new.currentTime = old.currentTime
          /\ new.event = old.event /\ new.pc = "scan" /\ new.j = old.j + 1
          /\ new.expired = old.expired /\ new.next = k
      <4>1. PICK j \in Nat \ {0} : j = old.j + 1
        BY <1>5 DEF ThreadState
      <4>2. new = [old EXCEPT !.j = j, !.next = k]
        BY <3>2, <4>1
      <4>. QED
        BY <1>5, <3>4, <4>1, <4>2 DEF ThreadState
    <3>. QED
      BY <1>5, <1>6, <2>3, <3>4, <3>5 DEF LookOutcome
  <2>. QED
    BY <2>1, <2>2, <2>3
<1>. QED
  BY <1>3, <1>4, <1>5, <1>9, <1>10

\* The two ways a loop ends.
FinishOutcome(old, new) ==
    /\ new \in ThreadState
    /\ old.pc = "finish" /\ new.currentTime = old.currentTime /\ new.event = old.event
    /\ \/ new.pc = "sample"
       \/ new.pc = "doze" /\ ~ old.expired /\ new.next = old.next

LEMMA FinishSteps ==
    ASSUME TypeOK, CurrentInv, NEW t \in TimerThreads, FinishLoop(t)
    PROVE  /\ thread' = [thread EXCEPT ![t] = thread'[t]]
           /\ FinishOutcome(thread[t], thread'[t])
<1>1. /\ thread \in [TimerThreads -> ThreadState] /\ thread[t] \in ThreadState
      /\ thread[t].pc = "finish"
  BY DEF TypeOK, FinishLoop
<1>2. /\ now \in 0..Horizon /\ thread[t].currentTime \in 0..Horizon
      /\ thread[t].next \in 0..Horizon /\ thread[t].currentTime <= now
  BY <1>1 DEF CurrentInv, ThreadState, TypeOK, Times
<1>3. CASE thread[t].expired \/ now - thread[t].currentTime >= thread[t].next
  <2>1. /\ thread' = [thread EXCEPT ![t] = thread'[t]]
        /\ thread'[t] = [thread[t] EXCEPT !.pc = "sample"]
    BY <1>1, <1>3 DEF FinishLoop
  <2>. QED
    BY <1>1, <2>1 DEF FinishOutcome, ThreadState
<1>4. CASE ~ (thread[t].expired \/ now - thread[t].currentTime >= thread[t].next)
  <2>1. PICK w : w = thread[t].next - (now - thread[t].currentTime)
    OBVIOUS
  <2>2. w \in Times
    BY <1>2, <1>4, <2>1, TimesAreNumbers DEF Times
  <2>3. thread' = [thread EXCEPT ![t] = [thread[t] EXCEPT !.pc = "doze", !.wait = w]]
    BY <1>4, <2>1 DEF FinishLoop
  <2>4. thread'[t] = [thread[t] EXCEPT !.pc = "doze", !.wait = w]
    BY <1>1, <2>3
  <2>. QED
    BY <1>1, <1>4, <2>2, <2>3, <2>4 DEF FinishOutcome, ThreadState
<1>. QED
  BY <1>3, <1>4

LEMMA NextType == IInv /\ [Next]_vars => TypeOK'
<1>. SUFFICES ASSUME IInv, [Next]_vars PROVE TypeOK'
  OBVIOUS
<1>. USE TimesAreNumbers
<1>1. TypeOK /\ CurrentInv
  BY DEF IInv
<1>2. CASE Tick
  BY <1>1, <1>2 DEF Tick, TypeOK, Times
<1>3. ASSUME NEW m \in Modules, EnableTimers(m) PROVE TypeOK'
  <2>1. listTimers' \in Seq(Modules)
    BY <1>1, <1>3, AppendProperties DEF EnableTimers, TypeOK
  <2>. QED
    BY <1>1, <1>3, <2>1 DEF EnableTimers, TypeOK
<1>4. ASSUME NEW c \in Callers, NEW m \in Modules, NEW e \in Events, AddTimerEvent(c, m, e)
      PROVE  TypeOK'
  <2>1. ~ Waiting(e) /\ Arm(m, e)
    BY <1>4 DEF AddTimerEvent, IInv, PlacesInv
  <2>2. aggregator' \in [Modules -> Seq(Events)] /\ due' \in [Events -> Times]
    BY <1>1, <2>1, ArmProperties DEF IInv, PlacesInv
  <2>. QED
    BY <1>1, <1>4, <2>2 DEF AddTimerEvent, TypeOK
<1>5. ASSUME NEW x \in Callers \cup TimerThreads, SignalTimerChange(x) PROVE TypeOK'
  BY <1>1, <1>5 DEF SignalTimerChange, TypeOK
<1>6. ASSUME NEW t \in TimerThreads, Loop(t) PROVE TypeOK'
  <2>1. thread[t] \in ThreadState /\ thread \in [TimerThreads -> ThreadState] /\ now \in Times
    BY <1>1 DEF TypeOK
  <2>2. CASE Startup(t)
    BY <1>1, <2>1, <2>2 DEF Startup, TypeOK, ThreadState
  <2>3. CASE Sample(t)
    <3>1. [Unborn EXCEPT !.pc = "lock", !.currentTime = now] \in ThreadState
      BY <2>1, UnbornType DEF ThreadState
    <3>. QED
      BY <1>1, <2>1, <2>3, <3>1 DEF Sample, TypeOK
  <2>4. CASE LockList(t)
    BY <1>1, <2>1, <2>4 DEF LockList, TypeOK, ThreadState
  <2>5. CASE Look(t)
    <3>1. PICK s : s = aggregator[listTimers[thread[t].j]]
      OBVIOUS
    <3>2. thread' = [thread EXCEPT ![t] = thread'[t]] /\ LookOutcome(thread[t], thread'[t], s)
      BY <1>1, <2>5, <3>1, LookSteps
    <3>3. thread'[t] \in ThreadState
      BY <3>2 DEF LookOutcome
    <3>. QED
      BY <1>1, <2>1, <2>5, <3>2, <3>3 DEF Look, TypeOK
  <2>6. CASE PopTimer(t)
    <3>1. PICK m : m = listTimers[thread[t].j]
      OBVIOUS
    <3>2. PICK s : s = aggregator[m]
      OBVIOUS
    <3>3. m \in Modules /\ s \in Seq(Events) /\ s # <<>>
      BY <2>6, <3>1, <3>2, PopFinds DEF PopTimer
    <3>4. Head(s) \in Events /\ Tail(s) \in Seq(Events)
      BY <3>3, PopProperties
    <3>5. /\ aggregator' = [aggregator EXCEPT ![m] = Tail(s)]
          /\ thread' = [thread EXCEPT ![t].pc = "callback", ![t].event = Head(s)]
      BY <2>6, <3>1, <3>2 DEF PopTimer
    <3>6. thread' \in [TimerThreads -> ThreadState]
      BY <2>1, <3>4, <3>5 DEF ThreadState
    <3>7. aggregator' \in [Modules -> Seq(Events)]
      BY <1>1, <3>3, <3>4, <3>5 DEF TypeOK
    <3>. QED
      BY <1>1, <2>6, <3>6, <3>7 DEF PopTimer, TypeOK
  <2>7. CASE ProcessTimer(t)
    <3>1. thread'[t] \in ThreadState /\ thread' \in [TimerThreads -> ThreadState]
      BY <2>1, <2>7 DEF ProcessTimer, ThreadState
    <3>2. PICK m, e : m = listTimers[thread[t].j] /\ e = thread[t].event
      OBVIOUS
    <3>3. m \in Modules /\ e \in Events /\ ~ Waiting(e)
      BY <2>7, <3>2, CallbackArms DEF ProcessTimer
    <3>4. CASE Arm(m, e) /\ signals' = signals \cup {t} /\ free' = free
      <4>1. aggregator' \in [Modules -> Seq(Events)] /\ due' \in [Events -> Times]
        BY <1>1, <3>3, <3>4, ArmProperties DEF IInv, PlacesInv
      <4>. QED
        BY <1>1, <2>7, <3>1, <3>4, <4>1 DEF ProcessTimer, TypeOK
    <3>5. CASE free' = free \cup {e} /\ UNCHANGED <<aggregator, due, signals>>
      BY <1>1, <2>7, <3>1, <3>3, <3>5 DEF ProcessTimer, TypeOK
    <3>. QED
      BY <2>7, <3>2, <3>4, <3>5 DEF ProcessTimer
  <2>8. CASE UnlockList(t)
    BY <1>1, <2>1, <2>8 DEF UnlockList, TypeOK, ThreadState
  <2>9. CASE FinishLoop(t)
    <3>1. thread' = [thread EXCEPT ![t] = thread'[t]] /\ FinishOutcome(thread[t], thread'[t])
      BY <1>1, <2>9, FinishSteps
    <3>2. thread'[t] \in ThreadState
      BY <3>1 DEF FinishOutcome
    <3>. QED
      BY <1>1, <2>1, <2>9, <3>1, <3>2 DEF FinishLoop, TypeOK
  <2>10. CASE Doze(t)
    <3>1. Later(now, thread[t].wait) \in Times
      BY <2>1 DEF Later, ThreadState, Times
    <3>2. thread'[t] \in ThreadState
      BY <2>1, <2>10, <3>1 DEF Doze, ThreadState
    <3>. QED
      BY <1>1, <2>1, <2>10, <3>2 DEF Doze, TypeOK
  <2>11. CASE Wake(t)
    BY <1>1, <2>1, <2>11 DEF Wake, TypeOK, ThreadState
  <2>12. CASE ClearSignal(t)
    BY <1>1, <2>1, <2>12 DEF ClearSignal, TypeOK, ThreadState
  <2>. QED
    BY <1>6, <2>2, <2>3, <2>4, <2>5, <2>6, <2>7, <2>8, <2>9, <2>10, <2>11, <2>12 DEF Loop
<1>7. CASE UNCHANGED vars
  BY <1>1, <1>7 DEF TypeOK, vars
<1>. QED
  BY <1>2, <1>3, <1>4, <1>5, <1>6, <1>7 DEF Next

-----------------------------------------------------------------------------
(* The walk over the aggregators.                                          *)

WalkInv == CurrentInv /\ MutexInv /\ LookInv /\ CallbackInv

\* A thread that walks keeps the others out, and its list as it is.
LEMMA NextWalk == IInv /\ [Next]_vars => WalkInv'
<1>. SUFFICES ASSUME IInv, [Next]_vars PROVE WalkInv'
  OBVIOUS
<1>. USE TimesAreNumbers DEF WalkInv, CurrentInv, MutexInv, LookInv, CallbackInv, Walking
<1>1. TypeOK /\ WalkInv /\ TypeOK'
  BY NextType DEF IInv
<1>2. /\ now \in Nat /\ \A t \in TimerThreads : thread[t].currentTime \in Nat
      /\ thread \in [TimerThreads -> ThreadState]
  BY <1>1 DEF TypeOK, ThreadState
<1>3. CASE Tick
  BY <1>1, <1>2, <1>3 DEF Tick
<1>4. ASSUME NEW m \in Modules, EnableTimers(m) PROVE WalkInv'
  <2>1. mutexList \notin TimerThreads
    BY <1>4, NullAssumption DEF EnableTimers
  <2>. QED
    BY <1>1, <1>4, <2>1 DEF EnableTimers
<1>5. ASSUME NEW c \in Callers, NEW m \in Modules, NEW e \in Events, AddTimerEvent(c, m, e)
      PROVE  WalkInv'
  BY <1>1, <1>5 DEF AddTimerEvent
<1>6. ASSUME NEW x \in Callers \cup TimerThreads, SignalTimerChange(x) PROVE WalkInv'
  BY <1>1, <1>6 DEF SignalTimerChange
<1>7. ASSUME NEW t \in TimerThreads, Loop(t) PROVE WalkInv'
  <2>1. thread[t] \in ThreadState
    BY <1>1 DEF TypeOK
  <2>2. CASE Startup(t)
    BY <1>1, <1>2, <2>1, <2>2 DEF Startup, ThreadState
  <2>3. CASE Sample(t)
    BY <1>1, <1>2, <2>1, <2>3 DEF Sample, ThreadState, Unborn
  <2>4. CASE LockList(t)
    <3>1. \A u \in TimerThreads : thread[u].pc \notin Walking
      BY <1>1, <2>4, NullAssumption DEF LockList
    <3>. QED
      BY <1>1, <1>2, <2>1, <2>4, <3>1 DEF LockList, ThreadState
  <2>5. CASE Look(t)
    <3>1. PICK s : s = aggregator[listTimers[thread[t].j]]
      OBVIOUS
    <3>2. PICK old, new : old = thread[t] /\ new = thread'[t]
      OBVIOUS
    <3>3. thread' = [thread EXCEPT ![t] = new] /\ LookOutcome(old, new, s)
      BY <1>1, <2>5, <3>1, <3>2, LookSteps
    <3>4. /\ old.pc = "scan"
          /\ new.currentTime = old.currentTime /\ new.event = old.event
          /\ new.pc \in {"scan", "pop"}
          /\ new.pc = "pop" => new.expired /\ new.j = old.j
      BY <3>3 DEF LookOutcome
    <3>5. old.j <= Len(listTimers) /\ UNCHANGED <<now, listTimers, mutexList>>
      BY <2>5, <3>2 DEF Look
    <3>. QED
      BY <1>1, <1>2, <2>1, <3>2, <3>3, <3>4, <3>5
  <2>6. CASE PopTimer(t)
    <3>1. PICK m : m = listTimers[thread[t].j]
      OBVIOUS
    <3>2. PICK s : s = aggregator[m]
      OBVIOUS
    <3>3. m \in Modules /\ s \in Seq(Events) /\ s # <<>>
      BY <2>6, <3>1, <3>2, PopFinds DEF PopTimer
    <3>4. Head(s) # NoEvent
      BY <3>3, PopProperties, NullAssumption
    <3>5. thread' = [thread EXCEPT ![t].pc = "callback", ![t].event = Head(s)]
      BY <2>6, <3>1, <3>2 DEF PopTimer
    <3>. QED
      BY <1>1, <1>2, <2>1, <2>6, <3>4, <3>5 DEF PopTimer, ThreadState
  <2>7. CASE ProcessTimer(t)
    BY <1>1, <1>2, <2>1, <2>7 DEF ProcessTimer, ThreadState
  <2>8. CASE UnlockList(t)
    BY <1>1, <1>2, <2>1, <2>8 DEF UnlockList, ThreadState
  <2>9. CASE FinishLoop(t)
    <3>1. PICK old, new : old = thread[t] /\ new = thread'[t]
      OBVIOUS
    <3>2. thread' = [thread EXCEPT ![t] = new] /\ FinishOutcome(old, new)
      BY <1>1, <2>9, <3>1, FinishSteps
    <3>3. /\ old.pc = "finish"
          /\ new.currentTime = old.currentTime /\ new.event = old.event
          /\ new.pc \in {"sample", "doze"}
      BY <3>2 DEF FinishOutcome
    <3>4. UNCHANGED <<now, listTimers, mutexList>>
      BY <2>9 DEF FinishLoop
    <3>. QED
      BY <1>1, <1>2, <2>1, <3>1, <3>2, <3>3, <3>4
  <2>10. CASE Doze(t)
    BY <1>1, <1>2, <2>1, <2>10 DEF Doze, ThreadState
  <2>11. CASE Wake(t)
    BY <1>1, <1>2, <2>1, <2>11 DEF Wake, ThreadState
  <2>12. CASE ClearSignal(t)
    BY <1>1, <1>2, <2>1, <2>12 DEF ClearSignal, ThreadState
  <2>. QED
    BY <1>7, <2>2, <2>3, <2>4, <2>5, <2>6, <2>7, <2>8, <2>9, <2>10, <2>11, <2>12 DEF Loop
<1>8. CASE UNCHANGED vars
  BY <1>1, <1>8 DEF vars
<1>. QED
  BY <1>3, <1>4, <1>5, <1>6, <1>7, <1>8 DEF Next

-----------------------------------------------------------------------------
(* Where the events are.                                                   *)

DequeInv == SortedInv /\ PlacesInv /\ RegisteredInv

\* The steps that move no event.
Quiet ==
    /\ UNCHANGED <<listTimers, aggregator, due, free>>
    /\ \A t \in TimerThreads : thread'[t].event = thread[t].event

QuietStep(t) ==
    \/ Startup(t) \/ Sample(t) \/ LockList(t) \/ Look(t) \/ UnlockList(t) \/ FinishLoop(t)
    \/ Doze(t) \/ Wake(t) \/ ClearSignal(t)

LEMMA LoopQuiet == ASSUME IInv, NEW t \in TimerThreads, QuietStep(t) PROVE Quiet
<1>1. TypeOK /\ CurrentInv /\ thread[t] \in ThreadState /\ thread \in [TimerThreads -> ThreadState]
  BY DEF IInv, TypeOK
<1>2. CASE Sample(t)
  <2>1. thread[t].event = NoEvent
    BY <1>2 DEF Sample, IInv, CallbackInv
  <2>. QED
    BY <1>1, <1>2, <2>1 DEF Sample, Quiet, Unborn
<1>3. CASE Look(t)
  <2>1. PICK s : s = aggregator[listTimers[thread[t].j]]
    OBVIOUS
  <2>2. thread' = [thread EXCEPT ![t] = thread'[t]] /\ LookOutcome(thread[t], thread'[t], s)
    BY <1>1, <1>3, <2>1, LookSteps
  <2>3. thread'[t].event = thread[t].event
    BY <2>2 DEF LookOutcome
  <2>4. UNCHANGED <<listTimers, aggregator, due, free>>
    BY <1>3 DEF Look
  <2>. QED
    BY <1>1, <2>2, <2>3, <2>4 DEF Quiet
<1>4. CASE FinishLoop(t)
  <2>1. thread' = [thread EXCEPT ![t] = thread'[t]] /\ FinishOutcome(thread[t], thread'[t])
    BY <1>1, <1>4, FinishSteps
  <2>2. thread'[t].event = thread[t].event
    BY <2>1 DEF FinishOutcome
  <2>3. UNCHANGED <<listTimers, aggregator, due, free>>
    BY <1>4 DEF FinishLoop
  <2>. QED
    BY <1>1, <2>1, <2>2, <2>3 DEF Quiet
<1>5. CASE Startup(t) \/ LockList(t) \/ UnlockList(t) \/ Doze(t) \/ Wake(t) \/ ClearSignal(t)
  BY <1>1, <1>5 DEF Startup, LockList, UnlockList, Doze, Wake, ClearSignal, Quiet, ThreadState
<1>. QED
  BY <1>2, <1>3, <1>4, <1>5 DEF QuietStep

LEMMA QuietDeques == IInv /\ Quiet => DequeInv'
<1>. SUFFICES ASSUME IInv, Quiet PROVE DequeInv'
  OBVIOUS
<1>1. UNCHANGED <<listTimers, aggregator, due, free>>
  BY DEF Quiet
<1>2. SortedInv' /\ RegisteredInv'
  BY <1>1 DEF IInv, SortedInv, Sorted, RegisteredInv
<1>3. PlacesInv'
  BY <1>1 DEF IInv, Quiet, PlacesInv, Waiting
<1>. QED
  BY <1>2, <1>3 DEF DequeInv

\* Arming moves an event from where its arming thread has it to the aggregator.
LEMMA ArmDeques ==
    ASSUME IInv, NEW m \in Modules, NEW e \in Events, ~ Waiting(e), Arm(m, e),
           m \in ToSet(listTimers), listTimers' = listTimers, free' = free \ {e},
           \A u \in TimerThreads :
              thread'[u].event = IF thread[u].event = e THEN NoEvent ELSE thread[u].event
    PROVE  DequeInv'
<1>1. TypeOK /\ SortedInv /\ PlacesInv /\ RegisteredInv
  BY DEF IInv
<1>2. /\ \A n \in Modules : Sorted(aggregator'[n], due')
      /\ \A n \in Modules : IsInjective(aggregator'[n])
      /\ ToSet(aggregator'[m]) = ToSet(aggregator[m]) \cup {e}
      /\ \A n \in Modules : n # m => aggregator'[n] = aggregator[n]
  BY <1>1, ArmProperties DEF PlacesInv
<1>3. \A x : Waiting(x)' <=> Waiting(x) \/ x = e
  BY <1>2 DEF Waiting
<1>4. \A n \in Modules : \A x :
          x \in ToSet(aggregator'[n]) <=> x \in ToSet(aggregator[n]) \/ (n = m /\ x = e)
  BY <1>2
<1>5. SortedInv' /\ RegisteredInv'
  BY <1>1, <1>2 DEF SortedInv, RegisteredInv
<1>6. PlacesInv'
  <2>1. ASSUME NEW n \in Modules, NEW k \in Modules, NEW x \in Events,
               x \in ToSet(aggregator'[n]), x \in ToSet(aggregator'[k])
        PROVE  n = k
    BY <1>1, <1>4, <2>1 DEF PlacesInv, Waiting
  <2>2. ASSUME NEW x \in Events, Waiting(x)' PROVE x \notin free'
    BY <1>1, <1>3, <2>2 DEF PlacesInv
  <2>3. ASSUME NEW u \in TimerThreads, NEW x \in Events, thread'[u].event = x
        PROVE  x \notin free' /\ ~ Waiting(x)'
    BY <1>1, <1>3, <2>3, NullAssumption DEF PlacesInv
  <2>4. ASSUME NEW x \in Events
        PROVE  x \in free' \/ Waiting(x)' \/ \E u \in TimerThreads : thread'[u].event = x
    BY <1>1, <1>3, <2>4 DEF PlacesInv
  <2>. QED
    BY <1>2, <2>1, <2>2, <2>3, <2>4 DEF PlacesInv
<1>. QED
  BY <1>5, <1>6 DEF DequeInv

\* What popProcessTimer does: the front leaves its deque for the callback.
LEMMA PopSteps ==
    ASSUME IInv, NEW t \in TimerThreads, PopTimer(t), NEW m, m = listTimers[thread[t].j]
    PROVE  \E e \in Events :
              /\ m \in Modules /\ aggregator[m] # <<>> /\ e = Head(aggregator[m])
              /\ e \in ToSet(aggregator[m])
              /\ aggregator' = [aggregator EXCEPT ![m] = Tail(@)]
              /\ IsInjective(aggregator'[m])
              /\ ToSet(aggregator'[m]) = ToSet(aggregator[m]) \ {e}
              /\ Sorted(aggregator'[m], due)
              /\ thread[t].event = NoEvent /\ thread'[t].event = e
              /\ \A u \in TimerThreads : u # t => thread'[u].event = thread[u].event
<1>1. PICK s : s = aggregator[m]
  OBVIOUS
<1>2. m \in Modules /\ s \in Seq(Events) /\ s # <<>>
  BY <1>1, PopFinds DEF PopTimer
<1>3. IsInjective(s) /\ Sorted(s, due)
  BY <1>1, <1>2 DEF IInv, PlacesInv, SortedInv
<1>4. PICK e : e = Head(s)
  OBVIOUS
<1>5. PICK r : r = Tail(s)
  OBVIOUS
<1>6. e \in Events /\ e \in ToSet(s) /\ IsInjective(r) /\ ToSet(r) = ToSet(s) \ {e}
  BY <1>2, <1>3, <1>4, <1>5, PopProperties
<1>7. Sorted(r, due)
  BY <1>2, <1>3, <1>5, PopSorted
<1>8. /\ aggregator' = [aggregator EXCEPT ![m] = r]
      /\ thread' = [thread EXCEPT ![t].pc = "callback", ![t].event = e]
      /\ thread[t].pc = "pop"
  BY <1>1, <1>4, <1>5 DEF PopTimer
<1>9. aggregator'[m] = r
  BY <1>2, <1>8 DEF IInv, TypeOK
<1>10. thread[t].event = NoEvent
  BY <1>8 DEF IInv, CallbackInv
<1>11. thread'[t].event = e /\ \A u \in TimerThreads : u # t => thread'[u] = thread[u]
  BY <1>8 DEF IInv, TypeOK, ThreadState
<1>. QED
  BY <1>1, <1>2, <1>4, <1>5, <1>6, <1>7, <1>8, <1>9, <1>10, <1>11

LEMMA PopDeques == ASSUME IInv, NEW t \in TimerThreads, PopTimer(t) PROVE DequeInv'
<1>1. SortedInv /\ PlacesInv /\ RegisteredInv /\ aggregator \in [Modules -> Seq(Events)]
  BY DEF IInv, TypeOK
<1>2. UNCHANGED <<listTimers, due, free>>
  BY DEF PopTimer
<1>3. PICK m, e :
        /\ e \in Events /\ m \in Modules /\ aggregator[m] # <<>>
        /\ e \in ToSet(aggregator[m])
        /\ aggregator' = [aggregator EXCEPT ![m] = Tail(@)]
        /\ IsInjective(aggregator'[m])
        /\ ToSet(aggregator'[m]) = ToSet(aggregator[m]) \ {e}
        /\ Sorted(aggregator'[m], due)
        /\ thread[t].event = NoEvent /\ thread'[t].event = e
        /\ \A u \in TimerThreads : u # t => thread'[u].event = thread[u].event
  BY PopSteps
<1>4. \A n \in Modules : n # m => aggregator'[n] = aggregator[n]
  BY <1>1, <1>3
<1>5. \A n \in Modules : \A x :
          x \in ToSet(aggregator'[n]) <=> x \in ToSet(aggregator[n]) /\ ~ (n = m /\ x = e)
  BY <1>3, <1>4
<1>6. \A x \in Events : Waiting(x)' <=> Waiting(x) /\ x # e
  BY <1>1, <1>3, <1>5 DEF Waiting, PlacesInv
<1>7. SortedInv' /\ RegisteredInv'
  BY <1>1, <1>2, <1>3, <1>4 DEF SortedInv, RegisteredInv
<1>8. Waiting(e) /\ e \notin free
  BY <1>1, <1>3 DEF Waiting, PlacesInv
<1>9. PlacesInv'
  <2>1. \A n \in Modules : IsInjective(aggregator'[n])
    BY <1>1, <1>3, <1>4 DEF PlacesInv
  <2>2. ASSUME NEW n \in Modules, NEW k \in Modules, NEW x \in Events,
               x \in ToSet(aggregator'[n]), x \in ToSet(aggregator'[k])
        PROVE  n = k
    BY <1>1, <1>5, <2>2 DEF PlacesInv
  <2>3. \A x \in Events : Waiting(x)' => x \notin free'
    BY <1>1, <1>2, <1>6 DEF PlacesInv
  <2>4. ASSUME NEW u \in TimerThreads, NEW x \in Events, thread'[u].event = x
        PROVE  x \notin free' /\ ~ Waiting(x)'
    BY <1>1, <1>2, <1>3, <1>6, <1>8, <2>4 DEF PlacesInv
  <2>5. ASSUME NEW x \in Events
        PROVE  x \in free' \/ Waiting(x)' \/ \E u \in TimerThreads : thread'[u].event = x
    <3>1. CASE x = e
      BY <1>3, <3>1
    <3>2. CASE x # e /\ (x \in free \/ Waiting(x))
      BY <1>2, <1>6, <3>2
    <3>3. CASE \E u \in TimerThreads : thread[u].event = x
      BY <1>3, <3>3, NullAssumption
    <3>. QED
      BY <1>1, <3>1, <3>2, <3>3 DEF PlacesInv
  <2>. QED
    BY <2>1, <2>2, <2>3, <2>4, <2>5 DEF PlacesInv
<1>. QED
  BY <1>7, <1>9 DEF DequeInv

\* A callback has its event to itself.
LEMMA OneCallback ==
    ASSUME IInv, NEW t \in TimerThreads, thread[t].pc = "callback",
           NEW u \in TimerThreads, u # t
    PROVE  thread[u].event = NoEvent
BY DEF IInv, CallbackInv, MutexInv, Walking

\* What a callback leaves, apart from where its event goes.
LEMMA CallbackSteps ==
    ASSUME IInv, NEW t \in TimerThreads, ProcessTimer(t)
    PROVE  /\ thread'[t].event = NoEvent
           /\ \A u \in TimerThreads : u # t => thread'[u] = thread[u] /\ thread[u].event = NoEvent
           /\ listTimers[thread[t].j] \in ToSet(listTimers)
<1>1. /\ thread[t].pc = "callback"
      /\ thread' = [thread EXCEPT ![t].pc = "scan", ![t].event = NoEvent, ![t].j = @ + 1]
  BY DEF ProcessTimer
<1>2. thread[t] \in ThreadState /\ thread \in [TimerThreads -> ThreadState]
  BY DEF IInv, TypeOK
<1>3. thread'[t].event = NoEvent /\ \A u \in TimerThreads : u # t => thread'[u] = thread[u]
  BY <1>1, <1>2 DEF ThreadState
<1>4. thread[t].j \in 1..Len(listTimers) /\ DOMAIN listTimers = 1..Len(listTimers)
  BY <1>1, <1>2, LenProperties DEF IInv, LookInv, TypeOK, ThreadState
<1>5. listTimers[thread[t].j] \in ToSet(listTimers)
  BY <1>4 DEF ToSet
<1>. QED
  BY <1>1, <1>3, <1>5, OneCallback

LEMMA CallbackDeques == ASSUME IInv, NEW t \in TimerThreads, ProcessTimer(t) PROVE DequeInv'
<1>1. PICK m, e : m = listTimers[thread[t].j] /\ e = thread[t].event
  OBVIOUS
<1>2. m \in Modules /\ e \in Events /\ ~ Waiting(e) /\ e \notin free
  BY <1>1, CallbackArms DEF ProcessTimer
<1>3. /\ thread'[t].event = NoEvent
      /\ \A u \in TimerThreads : u # t => thread'[u] = thread[u] /\ thread[u].event = NoEvent
      /\ m \in ToSet(listTimers) /\ e # NoEvent
  BY <1>1, <1>2, CallbackSteps, NullAssumption
<1>4. listTimers' = listTimers
  BY DEF ProcessTimer
<1>5. CASE Arm(m, e) /\ free' = free
  <2>1. free' = free \ {e}
    BY <1>2, <1>5
  <2>2. \A u \in TimerThreads :
            thread'[u].event = IF thread[u].event = e THEN NoEvent ELSE thread[u].event
    BY <1>1, <1>3
  <2>. QED
    BY <1>2, <1>3, <1>4, <1>5, <2>1, <2>2, ArmDeques
<1>6. CASE free' = free \cup {e} /\ UNCHANGED <<aggregator, due>>
  <2>1. SortedInv' /\ RegisteredInv'
    BY <1>4, <1>6 DEF IInv, SortedInv, Sorted, RegisteredInv
  <2>2. PlacesInv'
    BY <1>1, <1>2, <1>3, <1>6, NullAssumption DEF IInv, PlacesInv, Waiting
  <2>. QED
    BY <2>1, <2>2 DEF DequeInv
<1>. QED
  BY <1>1, <1>5, <1>6 DEF ProcessTimer

LEMMA NextDeques == IInv /\ [Next]_vars => DequeInv'
<1>. SUFFICES ASSUME IInv, [Next]_vars PROVE DequeInv'
  OBVIOUS
<1>1. CASE Tick \/ (\E x \in Callers \cup TimerThreads : SignalTimerChange(x)) \/ UNCHANGED vars
  <2>1. Quiet
    BY <1>1 DEF Tick, SignalTimerChange, vars, Quiet
  <2>. QED
    BY <2>1, QuietDeques
<1>2. ASSUME NEW m \in Modules, EnableTimers(m) PROVE DequeInv'
  <2>1. /\ listTimers' = Append(listTimers, m) /\ listTimers \in Seq(Modules)
        /\ UNCHANGED <<aggregator, due, free, thread>>
    BY <1>2 DEF EnableTimers, IInv, TypeOK
  <2>2. ToSet(listTimers') = ToSet(listTimers) \cup {m}
    BY <2>1, PushProperties
  <2>. QED
    BY <2>1, <2>2 DEF IInv, DequeInv, SortedInv, Sorted, PlacesInv, Waiting, RegisteredInv
<1>3. ASSUME NEW c \in Callers, NEW m \in Modules, NEW e \in Events, AddTimerEvent(c, m, e)
      PROVE  DequeInv'
  <2>1. /\ Arm(m, e) /\ e \in free /\ free' = free \ {e} /\ m \in ToSet(listTimers)
        /\ UNCHANGED <<listTimers, thread>>
    BY <1>3 DEF AddTimerEvent
  <2>2. ~ Waiting(e) /\ \A u \in TimerThreads : thread[u].event # e
    BY <2>1 DEF IInv, PlacesInv
  <2>. QED
    BY <2>1, <2>2, ArmDeques
<1>4. ASSUME NEW t \in TimerThreads, Loop(t) PROVE DequeInv'
  <2>1. CASE QuietStep(t)
    BY <2>1, LoopQuiet, QuietDeques
  <2>. QED
    BY <1>4, <2>1, PopDeques, CallbackDeques DEF Loop, QuietStep
<1>. QED
  BY <1>1, <1>2, <1>3, <1>4 DEF Next

-----------------------------------------------------------------------------
(* A pop finds an expired event.                                           *)

\* An event added between the look and the pop leaves an expired one in front.
LEMMA ArmFront ==
    ASSUME IInv, NEW m \in Modules, NEW e \in Events, ~ Waiting(e), Arm(m, e),
           NEW u \in TimerThreads, thread[u].pc = "pop",
           NEW n, n = listTimers[thread[u].j]
    PROVE  aggregator'[n] # <<>> /\ due'[Head(aggregator'[n])] <= thread[u].currentTime
<1>1. PICK s : s = aggregator[n]
  OBVIOUS
<1>2. n \in Modules /\ s \in Seq(Events) /\ s # <<>>
  BY <1>1, PopFinds
<1>3. due[Head(s)] <= thread[u].currentTime
  BY <1>1 DEF IInv, PopFindsExpired
<1>4. PICK f : f = Head(s)
  OBVIOUS
<1>5. f \in Events /\ f \in ToSet(s)
  BY <1>2, <1>4, PopProperties
<1>6. f # e
  BY <1>1, <1>2, <1>5 DEF Waiting
<1>7. TypeOK /\ SortedInv /\ \A k \in Modules : IsInjective(aggregator[k])
  BY DEF IInv, PlacesInv
<1>8. /\ aggregator' \in [Modules -> Seq(Events)]
      /\ due' \in [Events -> Times]
      /\ \E time \in now..Horizon : due' = [due EXCEPT ![e] = time]
      /\ \A k \in Modules : Sorted(aggregator'[k], due')
      /\ ToSet(aggregator'[m]) = ToSet(aggregator[m]) \cup {e}
      /\ \A k \in Modules : k # m => aggregator'[k] = aggregator[k]
  BY <1>7, ArmProperties
<1>9. due'[f] = due[f] /\ due[f] \in Times
  BY <1>5, <1>6, <1>7, <1>8 DEF TypeOK
<1>10. PICK r \in Seq(Events) : r = aggregator'[n]
  BY <1>2, <1>8
<1>11. f \in ToSet(r) /\ Sorted(r, due')
  BY <1>1, <1>2, <1>5, <1>8, <1>10
<1>12. r # <<>> /\ Head(r) \in Events /\ due'[Head(r)] <= due'[f]
  BY <1>8, <1>10, <1>11, FrontIsFirst
<1>13. due'[Head(r)] \in Nat /\ due'[f] \in Nat /\ thread[u].currentTime \in Nat
  BY <1>5, <1>7, <1>8, <1>12, TimesAreNumbers DEF TypeOK, ThreadState
<1>. QED
  BY <1>3, <1>4, <1>9, <1>10, <1>12, <1>13

\* A thread pops from where it looked, and the mutex keeps other pops away meanwhile.
LEMMA LoopPop == ASSUME IInv, NEW t \in TimerThreads, Loop(t) PROVE PopFindsExpired'
<1>. SUFFICES ASSUME NEW u \in TimerThreads, thread'[u].pc = "pop"
              PROVE  LET deque == aggregator'[listTimers'[thread'[u].j]]
                     IN  deque # <<>> /\ due'[Head(deque)] <= thread'[u].currentTime
  BY DEF PopFindsExpired
<1>1. TypeOK /\ thread[t] \in ThreadState /\ thread \in [TimerThreads -> ThreadState]
  BY DEF IInv, TypeOK
<1>2. CASE Look(t)
  <2>1. PICK s : s = aggregator[listTimers[thread[t].j]]
    OBVIOUS
  <2>2. PICK old, new : old = thread[t] /\ new = thread'[t]
    OBVIOUS
  <2>3. thread' = [thread EXCEPT ![t] = new] /\ LookOutcome(old, new, s)
    BY <1>1, <1>2, <2>1, <2>2, LookSteps
  <2>4. UNCHANGED <<listTimers, aggregator, due>>
    BY <1>2 DEF Look
  <2>5. CASE u = t
    <3>1. /\ s # <<>> /\ due[Head(s)] <= old.currentTime
          /\ new.j = old.j /\ new.currentTime = old.currentTime
      BY <2>2, <2>3, <2>5 DEF LookOutcome
    <3>. QED
      BY <2>1, <2>2, <2>4, <2>5, <3>1
  <2>6. CASE u # t
    BY <1>1, <2>3, <2>4, <2>6 DEF IInv, PopFindsExpired
  <2>. QED
    BY <2>5, <2>6
<1>3. CASE PopTimer(t) \/ ProcessTimer(t)
  <2>1. /\ thread'[t].pc # "pop" /\ \A v \in TimerThreads : v # t => thread'[v] = thread[v]
        /\ thread[t].pc \in Walking
    BY <1>1, <1>3 DEF PopTimer, ProcessTimer, ThreadState, Walking
  <2>. QED
    BY <2>1 DEF IInv, MutexInv, Walking
<1>4. CASE QuietStep(t) /\ ~ Look(t)
  <2>1. UNCHANGED <<listTimers, aggregator, due>>
    BY <1>4, LoopQuiet DEF Quiet
  <2>2. thread'[t].pc # "pop" /\ \A v \in TimerThreads : v # t => thread'[v] = thread[v]
    <3>1. CASE FinishLoop(t)
      BY <1>1, <3>1, FinishSteps DEF FinishOutcome, IInv
    <3>2. CASE Sample(t)
      BY <1>1, <3>2 DEF Sample, ThreadState, Unborn
    <3>3. CASE Startup(t) \/ LockList(t) \/ UnlockList(t)
      BY <1>1, <3>3 DEF Startup, LockList, UnlockList, ThreadState
    <3>4. CASE Doze(t) \/ Wake(t) \/ ClearSignal(t)
      BY <1>1, <3>4 DEF Doze, Wake, ClearSignal, ThreadState
    <3>. QED
      BY <1>4, <3>1, <3>2, <3>3, <3>4 DEF QuietStep
  <2>. QED
    BY <2>1, <2>2 DEF IInv, PopFindsExpired
<1>. QED
  BY <1>2, <1>3, <1>4 DEF Loop, QuietStep

LEMMA NextPop == IInv /\ [Next]_vars => PopFindsExpired'
<1>. SUFFICES ASSUME IInv, [Next]_vars PROVE PopFindsExpired'
  OBVIOUS
<1>1. CASE Tick \/ (\E x \in Callers \cup TimerThreads : SignalTimerChange(x)) \/ UNCHANGED vars
  BY <1>1 DEF Tick, SignalTimerChange, vars, IInv, PopFindsExpired
<1>2. ASSUME NEW m \in Modules, EnableTimers(m) PROVE PopFindsExpired'
  BY <1>2, NullAssumption DEF EnableTimers, IInv, PopFindsExpired, MutexInv, Walking
<1>3. ASSUME NEW c \in Callers, NEW m \in Modules, NEW e \in Events, AddTimerEvent(c, m, e)
      PROVE  PopFindsExpired'
  <2>1. /\ Arm(m, e) /\ e \in free /\ UNCHANGED <<listTimers, thread>>
    BY <1>3 DEF AddTimerEvent
  <2>2. ~ Waiting(e)
    BY <2>1 DEF IInv, PlacesInv
  <2>3. ASSUME NEW u \in TimerThreads, thread[u].pc = "pop", NEW n, n = listTimers[thread[u].j]
        PROVE  aggregator'[n] # <<>> /\ due'[Head(aggregator'[n])] <= thread[u].currentTime
    BY <2>1, <2>2, <2>3, ArmFront
  <2>. QED
    BY <2>1, <2>3 DEF PopFindsExpired
<1>. QED
  BY <1>1, <1>2, <1>3, LoopPop DEF Next

-----------------------------------------------------------------------------
(* No insertion is slept through.                                          *)

\* A thread that covers an event goes on covering it while the event waits: what a
\* look leaves behind is due no earlier than the front it saw.
LEMMA CoversKept ==
    ASSUME IInv, NEW t \in TimerThreads, Loop(t), due' = due,
           NEW m \in Modules, NEW e \in ToSet(aggregator[m]), Covers(t, m, e)
    PROVE  Covers(t, m, e)'
<1>. USE TimesAreNumbers DEF Covers, Walking
<1>1. TypeOK /\ CurrentInv /\ thread \in [TimerThreads -> ThreadState]
  BY DEF IInv, TypeOK
<1>2. PICK old \in ThreadState : old = thread[t]
  BY <1>1
<1>3. aggregator[m] \in Seq(Events) /\ Sorted(aggregator[m], due) /\ due \in [Events -> Times]
  BY <1>1 DEF IInv, SortedInv, TypeOK
<1>4. e \in Events /\ due[e] \in Nat
  <2>1. Head(aggregator[m]) \in Events /\ DOMAIN aggregator[m] = 1..Len(aggregator[m])
    BY <1>3, FrontIsFirst, LenProperties
  <2>2. e \in Events
    BY <1>3, <2>1, ElementOfSeq DEF ToSet
  <2>. QED
    BY <1>3, <2>2
<1>5. CASE Startup(t) \/ Sample(t) \/ LockList(t) \/ Wake(t) \/ ClearSignal(t)
  <2>1. CASE Startup(t) \/ Sample(t) \/ Wake(t) \/ ClearSignal(t)
    <3>1. thread'[t].pc \in {"sample", "lock", "clear"}
      <4>1. CASE Sample(t)
        BY <1>1, <4>1 DEF Sample, Unborn
      <4>2. CASE Startup(t) \/ Wake(t) \/ ClearSignal(t)
        BY <1>1, <1>2, <4>2 DEF Startup, Wake, ClearSignal, ThreadState
      <4>. QED
        BY <2>1, <4>1, <4>2
    <3>. QED
      BY <3>1
  <2>2. CASE LockList(t)
    <3>1. thread'[t].pc = "scan" /\ thread'[t].j = 1 /\ listTimers' = listTimers
      BY <1>1, <1>2, <2>2 DEF LockList, ThreadState, IInv, LookInv
    <3>2. m \in ToSet(listTimers)
      <4>1. aggregator[m] # <<>>
        BY <1>3, FrontIsFirst
      <4>. QED
        BY <4>1 DEF IInv, RegisteredInv
    <3>3. PICK k \in 1..Len(listTimers) : listTimers[k] = m
      BY <1>1, <3>2, LenProperties DEF TypeOK, ToSet
    <3>. QED
      BY <3>1, <3>3
  <2>. QED
    BY <1>5, <2>1, <2>2
<1>6. CASE Look(t)
  <2>1. PICK s : s = aggregator[listTimers[old.j]]
    OBVIOUS
  <2>2. PICK new : new = thread'[t]
    OBVIOUS
  <2>3. LookOutcome(old, new, s) /\ s \in Seq(Events) /\ listTimers[old.j] \in Modules
    BY <1>1, <1>2, <1>6, <2>1, <2>2, LookSteps
  <2>4. UNCHANGED <<listTimers, aggregator>> /\ old.j \in 1..Len(listTimers)
    <3>1. Len(listTimers) \in Nat /\ old.j \in Nat \ {0}
      BY <1>1, <1>2, LenProperties DEF TypeOK, ThreadState
    <3>. QED
      BY <1>2, <1>6, <3>1 DEF Look
  <2>5. /\ old.next \in Nat /\ old.currentTime \in Nat /\ new.next \in Nat /\ new.j \in Nat
        /\ new.currentTime = old.currentTime /\ old.pc = "scan" /\ new.pc \in {"scan", "pop"}
    BY <1>2, <2>3 DEF LookOutcome, ThreadState
  <2>6. CASE old.expired \/ new.pc = "pop"
    <3>1. new.expired
      BY <2>3, <2>5, <2>6 DEF LookOutcome
    <3>. QED
      BY <2>2, <2>5, <3>1
  <2>7. CASE ~ old.expired /\ new.pc = "scan"
    <3>1. /\ new.j = old.j + 1
          /\ \/ s = <<>> /\ new.next = old.next
             \/ /\ s # <<>> /\ new.next > 0 /\ old.currentTime + new.next <= due[Head(s)]
                /\ old.next > 0 => new.next <= old.next
      BY <2>3, <2>7 DEF LookOutcome
    <3>2. CASE old.next > 0 /\ old.currentTime + old.next <= due[e]
      <4>1. new.next > 0 /\ old.currentTime + new.next <= due[e]
        BY <1>4, <2>5, <3>1, <3>2
      <4>. QED
        BY <2>2, <2>5, <4>1
    <3>3. ASSUME NEW k \in 1..Len(listTimers), old.j <= k, listTimers[k] = m
          PROVE  Covers(t, m, e)'
      <4>1. CASE k = old.j
        <5>1. s # <<>> /\ Head(s) \in Events /\ due[Head(s)] <= due[e] /\ s = aggregator[m]
          BY <1>3, <2>1, <3>3, <4>1, FrontIsFirst
        <5>2. new.next > 0 /\ old.currentTime + new.next <= due[Head(s)] /\ due[Head(s)] \in Nat
          BY <1>3, <3>1, <5>1
        <5>3. old.currentTime + new.next <= due[e]
          BY <1>4, <2>5, <5>1, <5>2
        <5>. QED
          BY <2>2, <2>5, <5>2, <5>3
      <4>2. CASE k # old.j
        <5>1. new.j <= k /\ k \in 1..Len(listTimers')
          BY <2>4, <2>5, <3>1, <3>3, <4>2
        <5>. QED
          BY <2>2, <2>4, <2>5, <3>3, <5>1
      <4>. QED
        BY <4>1, <4>2
    <3>. QED
      BY <1>2, <2>5, <2>7, <3>2, <3>3
  <2>. QED
    BY <2>5, <2>6, <2>7
<1>7. CASE PopTimer(t) \/ ProcessTimer(t)
  <2>1. old.expired
    BY <1>2, <1>7 DEF PopTimer, ProcessTimer, IInv, LookInv
  <2>2. thread'[t].pc \in Walking /\ thread'[t].expired
    <3>1. CASE PopTimer(t)
      <4>1. \E x : thread' = [thread EXCEPT ![t].pc = "callback", ![t].event = x]
        BY <3>1 DEF PopTimer
      <4>. QED
        BY <1>1, <1>2, <2>1, <4>1 DEF ThreadState
    <3>2. CASE ProcessTimer(t)
      <4>1. thread' = [thread EXCEPT ![t].pc = "scan", ![t].event = NoEvent, ![t].j = @ + 1]
        BY <3>2 DEF ProcessTimer
      <4>. QED
        BY <1>1, <1>2, <2>1, <4>1 DEF ThreadState
    <3>. QED
      BY <1>7, <3>1, <3>2
  <2>. QED
    BY <2>2
<1>8. CASE UnlockList(t)
  <2>1. /\ thread' = [thread EXCEPT ![t].pc = "finish"]
        /\ ~ \E k \in 1..Len(listTimers) : old.j <= k /\ listTimers[k] = m
        /\ old.pc = "scan"
    <3>1. Len(listTimers) \in Nat /\ old.j \in Nat
      BY <1>1, <1>2, LenProperties DEF TypeOK, ThreadState
    <3>. QED
      BY <1>2, <1>8, <3>1 DEF UnlockList
  <2>. QED
    BY <1>1, <1>2, <2>1 DEF ThreadState
<1>9. CASE FinishLoop(t)
  <2>1. PICK new : new = thread'[t]
    OBVIOUS
  <2>2. FinishOutcome(old, new)
    BY <1>1, <1>2, <1>9, <2>1, FinishSteps
  <2>3. old.pc = "finish" /\ new.currentTime = old.currentTime
        /\ (new.pc = "sample" \/ (new.pc = "doze" /\ ~ old.expired /\ new.next = old.next))
    BY <2>2 DEF FinishOutcome
  <2>. QED
    BY <1>2, <2>1, <2>3
<1>10. CASE Doze(t)
  BY <1>1, <1>2, <1>10 DEF Doze, ThreadState
<1>. QED
  BY <1>5, <1>6, <1>7, <1>8, <1>9, <1>10 DEF Loop

\* What a step of one thread leaves of the others.
LEMMA OthersKept ==
    ASSUME IInv, NEW t \in TimerThreads, Loop(t)
    PROVE  /\ listTimers' = listTimers
           /\ \A u \in TimerThreads : u # t => thread'[u] = thread[u]
<1>1. TypeOK /\ CurrentInv /\ thread \in [TimerThreads -> ThreadState]
  BY DEF IInv, TypeOK
<1>2. CASE Look(t)
  BY <1>1, <1>2, LookSteps DEF Look
<1>3. CASE FinishLoop(t)
  <2>1. thread' = [thread EXCEPT ![t] = thread'[t]]
    BY <1>1, <1>3, FinishSteps
  <2>2. listTimers' = listTimers
    BY <1>3 DEF FinishLoop
  <2>. QED
    BY <1>1, <2>1, <2>2
<1>4. CASE Startup(t) \/ Sample(t) \/ LockList(t)
  BY <1>1, <1>4 DEF Startup, Sample, LockList
<1>5. CASE PopTimer(t) \/ ProcessTimer(t) \/ UnlockList(t)
  BY <1>1, <1>5 DEF PopTimer, ProcessTimer, UnlockList
<1>6. CASE Doze(t) \/ Wake(t) \/ ClearSignal(t)
  BY <1>1, <1>6 DEF Doze, Wake, ClearSignal
<1>. QED
  BY <1>2, <1>3, <1>4, <1>5, <1>6 DEF Loop

LEMMA NextWake == IInv /\ [Next]_vars => WakeInv'
<1>. SUFFICES ASSUME IInv, [Next]_vars, ~ changed', signals' = {},
                     NEW m \in Modules, NEW e \in ToSet(aggregator'[m])
              PROVE  \E t \in TimerThreads : Covers(t, m, e)'
  BY DEF WakeInv
<1>1. CASE Tick \/ UNCHANGED vars
  <2>1. UNCHANGED <<listTimers, aggregator, due, thread, changed, signals>>
    BY <1>1 DEF Tick, vars
  <2>2. PICK t \in TimerThreads : Covers(t, m, e)
    BY <2>1 DEF IInv, WakeInv
  <2>. QED
    BY <2>1, <2>2 DEF Covers
<1>2. ASSUME NEW n \in Modules, EnableTimers(n) PROVE \E t \in TimerThreads : Covers(t, m, e)'
  <2>1. UNCHANGED <<aggregator, due, thread, changed, signals>>
    BY <1>2 DEF EnableTimers
  <2>2. PICK t \in TimerThreads : Covers(t, m, e)
    BY <2>1 DEF IInv, WakeInv
  <2>3. thread[t].pc \notin Walking
    BY <1>2, NullAssumption DEF EnableTimers, IInv, MutexInv
  <2>. QED
    BY <2>1, <2>2, <2>3 DEF Covers
<1>3. ASSUME NEW c \in Callers, NEW n \in Modules, NEW x \in Events, AddTimerEvent(c, n, x)
      PROVE  FALSE
  BY <1>3 DEF AddTimerEvent
<1>4. ASSUME NEW x \in Callers \cup TimerThreads, SignalTimerChange(x) PROVE FALSE
  BY <1>4 DEF SignalTimerChange
<1>5. ASSUME NEW t \in TimerThreads, Loop(t) PROVE \E u \in TimerThreads : Covers(u, m, e)'
  <2>1. CASE ClearSignal(t)
    <3>1. thread'[t].pc = "sample"
      BY <2>1 DEF ClearSignal, IInv, TypeOK, ThreadState
    <3>. QED
      BY <3>1 DEF Covers
  <2>2. CASE ~ ClearSignal(t)
    <3>1. due' = due /\ signals' = signals /\ changed' = changed /\ e \in ToSet(aggregator[m])
      <4>1. CASE PopTimer(t)
        <5>1. UNCHANGED <<due, signals, changed>>
          BY <4>1 DEF PopTimer
        <5>2. PICK n, x : /\ n \in Modules
                          /\ aggregator' = [aggregator EXCEPT ![n] = Tail(@)]
                          /\ ToSet(aggregator'[n]) = ToSet(aggregator[n]) \ {x}
          BY <4>1, PopSteps
        <5>3. m # n => aggregator'[m] = aggregator[m]
          BY <5>2 DEF IInv, TypeOK
        <5>. QED
          BY <5>1, <5>2, <5>3
      <4>2. CASE ProcessTimer(t)
        BY <4>2 DEF ProcessTimer
      <4>3. CASE QuietStep(t)
        <5>1. UNCHANGED <<aggregator, due>>
          BY <4>3, LoopQuiet DEF Quiet
        <5>2. UNCHANGED <<signals, changed>>
          BY <2>2, <4>3 DEF QuietStep, Startup, Sample, LockList, Look, UnlockList, FinishLoop,
                            Doze, Wake
        <5>. QED
          BY <5>1, <5>2
      <4>. QED
        BY <1>5, <4>1, <4>2, <4>3 DEF Loop, QuietStep
    <3>2. PICK u \in TimerThreads : Covers(u, m, e)
      BY <3>1 DEF IInv, WakeInv
    <3>3. CASE u = t
      BY <1>5, <3>1, <3>2, <3>3, CoversKept
    <3>4. CASE u # t
      <4>1. thread'[u] = thread[u] /\ listTimers' = listTimers
        BY <1>5, <3>4, OthersKept
      <4>. QED
        BY <3>1, <3>2, <4>1 DEF Covers
    <3>. QED
      BY <3>3, <3>4
  <2>. QED
    BY <2>1, <2>2
<1>. QED
  BY <1>1, <1>2, <1>3, <1>4, <1>5 DEF Next

-----------------------------------------------------------------------------
(* The theorems.                                                           *)

\* The invariant is kept by every step.
LEMMA Inductive == Spec => []IInv
<1>1. Init => IInv
  BY InitInv
<1>2. IInv /\ [Next]_vars => IInv'
  BY NextType, NextWalk, NextDeques, NextPop, NextWake DEF IInv, WalkInv, DequeInv
<1>. QED
  BY <1>1, <1>2, PTL DEF Spec

\* The state of the timers is always of its type; in particular a thread's wait
\* never goes below zero, where the code's unsigned difference would wrap around.
THEOREM TypeCorrect == Spec => []TypeOK
<1>1. IInv => TypeOK
  BY DEF IInv
<1>. QED
  BY <1>1, Inductive, PTL

\* popProcessTimer finds a non-empty deque with an expired event in front.
THEOREM PopsExpired == Spec => []PopFindsExpired
<1>1. IInv => PopFindsExpired
  BY DEF IInv
<1>. QED
  BY <1>1, Inductive, PTL

\* No event is slept through, however many threads share the flag.
THEOREM WakesInTime == Spec => []NoLostWakeup
<1>1. IInv => NoLostWakeup
  <2>. SUFFICES ASSUME IInv, \A t \in TimerThreads : Asleep(t), ~ changed, signals = {},
                       NEW m \in ToSet(listTimers), NEW e \in ToSet(aggregator[m])
                PROVE  \E t \in TimerThreads : thread[t].currentTime + thread[t].next <= due[e]
    BY DEF NoLostWakeup
  <2>1. m \in Modules
    BY LenProperties, ElementOfSeq DEF IInv, TypeOK, ToSet
  <2>2. PICK t \in TimerThreads : Covers(t, m, e)
    BY <2>1 DEF IInv, WakeInv
  <2>3. thread[t].pc \in {"doze", "sleep"}
    BY DEF Asleep
  <2>. QED
    BY <2>2, <2>3 DEF Covers, Walking
<1>. QED
  BY <1>1, Inductive, PTL

\* Every event is in one place.
THEOREM EventsInOnePlace == Spec => []OnePlace
<1>1. IInv => OnePlace
  <2>. SUFFICES ASSUME IInv, NEW e \in Events
                PROVE  \E x : {"pool" : y \in {e} \cap free}
                          \cup {t \in TimerThreads : thread[t].event = e}
                          \cup UNION {{<<m, i>> : i \in {k \in DOMAIN aggregator[m] :
                                                           aggregator[m][k] = e}} :
                                         m \in Modules} = {x}
    BY FS_Singleton DEF OnePlace
  <2>1. PICK A, B, C :
          /\ A = {"pool" : y \in {e} \cap free}
          /\ B = {t \in TimerThreads : thread[t].event = e}
          /\ C = UNION {{<<m, i>> : i \in {k \in DOMAIN aggregator[m] : aggregator[m][k] = e}} :
                           m \in Modules}
    OBVIOUS
  <2>2. /\ e \in free <=> "pool" \in A
        /\ A \subseteq {"pool"}
    BY <2>1
  <2>3. \A x \in C : \E m \in Modules : \E i \in DOMAIN aggregator[m] :
                        x = <<m, i>> /\ aggregator[m][i] = e
    BY <2>1
  <2>4. \A m \in Modules : \A i \in DOMAIN aggregator[m] : aggregator[m][i] = e => <<m, i>> \in C
    BY <2>1
  <2>5. Waiting(e) <=> \E m \in Modules : \E i \in DOMAIN aggregator[m] : aggregator[m][i] = e
    BY DEF Waiting, ToSet
  <2>6. CASE e \in free
    <3>1. B = {}
      BY <2>1, <2>6 DEF IInv, PlacesInv
    <3>2. C = {}
      BY <2>3, <2>5, <2>6 DEF IInv, PlacesInv
    <3>3. A = {"pool"}
      BY <2>2, <2>6
    <3>. QED
      BY <2>1, <3>1, <3>2, <3>3
  <2>7. CASE Waiting(e)
    <3>1. A = {}
      BY <2>2, <2>7 DEF IInv, PlacesInv
    <3>2. B = {}
      BY <2>1, <2>7 DEF IInv, PlacesInv
    <3>. PICK m \in Modules : \E i \in DOMAIN aggregator[m] : aggregator[m][i] = e
      BY <2>5, <2>7
    <3>3. PICK i \in DOMAIN aggregator[m] : aggregator[m][i] = e
      OBVIOUS
    <3>4. ASSUME NEW n \in Modules, NEW k \in DOMAIN aggregator[n], aggregator[n][k] = e
          PROVE  n = m /\ k = i
      <4>1. n = m
        BY <3>3, <3>4 DEF IInv, PlacesInv, ToSet
      <4>. QED
        BY <3>3, <3>4, <4>1 DEF IInv, PlacesInv, IsInjective
    <3>5. C = {<<m, i>>}
      BY <2>3, <2>4, <3>3, <3>4
    <3>. QED
      BY <2>1, <3>1, <3>2, <3>5
  <2>8. CASE \E t \in TimerThreads : thread[t].event = e
    <3>1. PICK t \in TimerThreads : thread[t].event = e
      BY <2>8
    <3>2. e \notin free /\ ~ Waiting(e)
      BY <3>1 DEF IInv, PlacesInv
    <3>3. A = {} /\ C = {}
      BY <2>2, <2>3, <2>5, <3>2
    <3>4. thread[t].pc = "callback"
      BY <3>1, NullAssumption DEF IInv, CallbackInv
    <3>5. \A u \in TimerThreads : u # t => thread[u].event # e
      BY <3>4, OneCallback, NullAssumption
    <3>6. B = {t}
      BY <2>1, <3>1, <3>5
    <3>. QED
      BY <2>1, <3>3, <3>6
  <2>. QED
    BY <2>6, <2>7, <2>8 DEF IInv, PlacesInv
<1>. QED
  BY <1>1, Inductive, PTL

-----------------------------------------------------------------------------
(* TimerManager implements TimerService.                                   *)

\* What the service calls pending and called.
Pending == [m \in Modules |-> ToSet(aggregator[m])]
Called == {thread[t].event : t \in TimerThreads} \ {NoEvent}

\* A step that moves no event, and lets no time pass, is a stutter of the service.
LEMMA QuietServes ==
    ASSUME Quiet, now' = now PROVE UNCHANGED <<now, due, Pending, Called>>
BY DEF Quiet, Pending, Called

\* Arming is the service's Add: the event is no longer called, and waits once.
LEMMA ArmServes ==
    ASSUME IInv, NEW m \in Modules, NEW e \in Events, ~ Waiting(e), Arm(m, e), now' = now,
           \A u \in TimerThreads :
              thread'[u].event = IF thread[u].event = e THEN NoEvent ELSE thread[u].event
    PROVE  \E time \in 0..Horizon : Service!Add(m, e, time)
<1>1. /\ aggregator' \in [Modules -> Seq(Events)]
      /\ \E time \in now..Horizon : due' = [due EXCEPT ![e] = time]
      /\ ToSet(aggregator'[m]) = ToSet(aggregator[m]) \cup {e}
      /\ \A n \in Modules : n # m => aggregator'[n] = aggregator[n]
  BY ArmProperties DEF IInv, PlacesInv
<1>2. PICK time \in now..Horizon : due' = [due EXCEPT ![e] = time]
  BY <1>1
<1>3. time \in 0..Horizon
  BY TimesAreNumbers DEF IInv, TypeOK, Times
<1>4. Pending' = [Pending EXCEPT ![m] = @ \cup {e}]
  BY <1>1 DEF Pending
<1>5. Called' = Called \ {e}
  BY DEF Called
<1>6. \A n \in Modules : e \notin Pending[n]
  BY DEF Waiting, Pending
<1>7. Service!Add(m, e, time)
  BY <1>2, <1>4, <1>5, <1>6 DEF Service!Add, Pending, Called
<1>. QED
  BY <1>3, <1>7

\* A pop is the service's Dispatch: of an event that is due, and due first.
LEMMA PopServes ==
    ASSUME IInv, NEW t \in TimerThreads, PopTimer(t)
    PROVE  \E m \in Modules, e \in Events : Service!Dispatch(m, e)
<1>1. PICK m : m = listTimers[thread[t].j]
  OBVIOUS
<1>2. PICK e \in Events :
        /\ m \in Modules /\ aggregator[m] # <<>> /\ e = Head(aggregator[m])
        /\ e \in ToSet(aggregator[m])
        /\ aggregator' = [aggregator EXCEPT ![m] = Tail(@)]
        /\ ToSet(aggregator'[m]) = ToSet(aggregator[m]) \ {e}
        /\ thread[t].event = NoEvent /\ thread'[t].event = e
        /\ \A u \in TimerThreads : u # t => thread'[u].event = thread[u].event
  BY <1>1, PopSteps
<1>3. due[e] <= now
  <2>1. due[e] <= thread[t].currentTime /\ thread[t].currentTime <= now
    BY <1>1, <1>2 DEF PopTimer, IInv, PopFindsExpired, CurrentInv
  <2>2. due[e] \in Nat /\ thread[t].currentTime \in Nat /\ now \in Nat
    BY TimesAreNumbers DEF IInv, TypeOK, ThreadState
  <2>. QED
    BY <2>1, <2>2
<1>4. ASSUME NEW f \in Pending[m] PROVE due[e] <= due[f]
  <2>1. f \in ToSet(aggregator[m]) /\ aggregator[m] \in Seq(Events) /\ Sorted(aggregator[m], due)
    BY <1>2 DEF Pending, IInv, TypeOK, SortedInv
  <2>. QED
    BY <1>2, <2>1, FrontIsFirst DEF IInv, TypeOK
<1>5. Pending' = [Pending EXCEPT ![m] = @ \ {e}]
  <2>1. \A n \in Modules : n # m => aggregator'[n] = aggregator[n]
    BY <1>2 DEF IInv, TypeOK
  <2>2. \A n \in Modules : ToSet(aggregator'[n]) =
            IF n = m THEN ToSet(aggregator[m]) \ {e} ELSE ToSet(aggregator[n])
    <3>1. m \in Modules /\ ToSet(aggregator'[m]) = ToSet(aggregator[m]) \ {e}
      BY <1>2
    <3>. QED
      BY <2>1, <3>1, Zenon
  <2>. QED
    BY <2>2 DEF Pending
<1>6. Called' = Called \cup {e}
  BY <1>2, NullAssumption DEF Called
<1>7. e \in Pending[m] /\ UNCHANGED <<now, due>>
  BY <1>2 DEF Pending, PopTimer
<1>8. Service!Dispatch(m, e)
  BY <1>3, <1>4, <1>5, <1>6, <1>7 DEF Service!Dispatch, Pending, Called
<1>. QED
  BY <1>2, <1>8

\* A callback ends in the service's Done, or in its Add.
LEMMA CallbackServes == ASSUME IInv, NEW t \in TimerThreads, ProcessTimer(t) PROVE Service!Next
<1>1. PICK m, e : m = listTimers[thread[t].j] /\ e = thread[t].event
  OBVIOUS
<1>2. m \in Modules /\ e \in Events /\ ~ Waiting(e) /\ e # NoEvent
  BY <1>1, CallbackArms, NullAssumption DEF ProcessTimer
<1>3. /\ thread'[t].event = NoEvent
      /\ \A u \in TimerThreads : u # t => thread'[u] = thread[u] /\ thread[u].event = NoEvent
  BY CallbackSteps
<1>4. now' = now
  BY DEF ProcessTimer
<1>5. \A u \in TimerThreads :
          thread'[u].event = IF thread[u].event = e THEN NoEvent ELSE thread[u].event
  BY <1>1, <1>2, <1>3
<1>6. CASE Arm(m, e)
  BY <1>2, <1>4, <1>5, <1>6, ArmServes DEF Service!Next
<1>7. CASE UNCHANGED <<aggregator, due>>
  <2>1. e \in Called /\ Called' = Called \ {e}
    BY <1>1, <1>2, <1>5 DEF Called
  <2>2. Service!Done(e)
    BY <1>4, <1>7, <2>1 DEF Service!Done, Called
  <2>. QED
    BY <1>2, <2>2 DEF Service!Next
<1>. QED
  BY <1>1, <1>6, <1>7 DEF ProcessTimer

LEMMA NextServes == IInv /\ [Next]_vars => [Service!Next]_(Service!vars)
<1>. SUFFICES ASSUME IInv, [Next]_vars PROVE Service!Next \/ UNCHANGED Service!vars
  OBVIOUS
<1>1. ASSUME UNCHANGED <<now, due, Pending, Called>> PROVE UNCHANGED Service!vars
  BY <1>1 DEF Service!vars, Pending, Called
<1>2. CASE Tick
  <2>1. Quiet /\ now' = now + 1
    BY <1>2 DEF Tick, Quiet
  <2>2. UNCHANGED <<due, Pending, Called>>
    BY <2>1 DEF Quiet, Pending, Called
  <2>3. Service!Tick
    BY <2>1, <2>2 DEF Service!Tick, Pending, Called
  <2>. QED
    BY <2>3 DEF Service!Next
<1>3. CASE (\E x \in Callers \cup TimerThreads : SignalTimerChange(x)) \/ UNCHANGED vars
  <2>1. Quiet /\ now' = now
    BY <1>3 DEF SignalTimerChange, vars, Quiet
  <2>. QED
    BY <1>1, <2>1, QuietServes
<1>4. ASSUME NEW m \in Modules, EnableTimers(m) PROVE UNCHANGED Service!vars
  BY <1>1, <1>4 DEF EnableTimers, Pending, Called
<1>5. ASSUME NEW c \in Callers, NEW m \in Modules, NEW e \in Events, AddTimerEvent(c, m, e)
      PROVE  Service!Next
  <2>1. Arm(m, e) /\ e \in free /\ UNCHANGED <<now, thread>>
    BY <1>5 DEF AddTimerEvent
  <2>2. ~ Waiting(e) /\ \A u \in TimerThreads : thread[u].event # e
    BY <2>1 DEF IInv, PlacesInv
  <2>3. \E time \in 0..Horizon : Service!Add(m, e, time)
    BY <2>1, <2>2, ArmServes
  <2>. QED
    BY <2>3 DEF Service!Next
<1>6. ASSUME NEW t \in TimerThreads, Loop(t) PROVE Service!Next \/ UNCHANGED Service!vars
  <2>1. CASE PopTimer(t)
    BY <2>1, PopServes DEF Service!Next
  <2>2. CASE ProcessTimer(t)
    BY <2>2, CallbackServes
  <2>3. CASE QuietStep(t)
    <3>1. now' = now
      BY <2>3 DEF QuietStep, Startup, Sample, LockList, Look, UnlockList, FinishLoop, Doze, Wake,
                  ClearSignal
    <3>. QED
      BY <1>1, <2>3, <3>1, LoopQuiet, QuietServes
  <2>. QED
    BY <1>6, <2>1, <2>2, <2>3 DEF Loop, QuietStep
<1>. QED
  BY <1>2, <1>3, <1>4, <1>5, <1>6 DEF Next

\* Each event is dispatched once, in time order per module, never early: what the
\* timers do is what TimerService promises.
THEOREM TimersServe == Spec => ImplementsService
<1>1. Init => Service!Init
  BY DEF Init, Service!Init, Unborn, ToSet
<1>2. IInv /\ [Next]_vars => [Service!Next]_(Service!vars)
  BY NextServes
<1>. QED
  BY <1>1, <1>2, Inductive, PTL DEF Spec, ImplementsService, Service!Spec

=============================================================================
