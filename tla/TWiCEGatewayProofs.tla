------------------------- MODULE TWiCEGatewayProofs -------------------------
(***************************************************************************)
(* Theorems about TWiCEGateway, for any packets, addresses, sizes of the    *)
(* window and of the table, and any times of expiry.                        *)
(***************************************************************************)
EXTENDS TWiCEGateway, SequenceTheorems, FiniteSetTheorems, TLAPS

TypeInv ==
    /\ pool \in [Addresses -> Payloads \cup {None}]
    /\ refs \in [Addresses -> Nat]
    /\ table \in [Slots -> Entry \cup {None}]
    /\ entries \in Nat /\ clock \in Nat /\ crashed \in BOOLEAN
    /\ search \in Search \cup {None}

\* The clone of the packet at hand is only ever deleted under an entry of the
\* table that was made for it.
CloneInv ==
    search # None /\ pool[search.at] = None =>
        \E s \in Slots : table[s] # None /\ table[s].at = search.at

\* What the search looks at, and what is left to look at, end with the packet.
WindowInv ==
    search # None => search.offset + search.dist + Window + search.left = Len(search.in)

IInv == TypeInv /\ WindowInv /\ CloneInv

-----------------------------------------------------------------------------
(* The table.                                                              *)

LEMMA Numbers ==
    /\ Window \in Nat \ {0} /\ TableSize \in Nat \ {0} /\ IGap \in Nat \ {0} /\ PGap \in Nat \ {0}
    /\ IExpiry \in Nat /\ PExpiry \in Nat /\ BExpiry \in Nat /\ HitAdjust \in Nat
    /\ MinSize \in Nat /\ MaxTime \in Nat
  BY TWiCEAssumption

LEMMA NoneApart ==
    /\ None \notin Payloads
    /\ \A e \in Entry : e # None
    /\ \A q \in Search : q # None
  BY TWiCEAssumption

\* Every window of a packet has a slot of the table.
LEMMA ChecksumSlot ==
    ASSUME NEW p, NEW i \in Nat, NEW w, w = WindowOf(p, i)
    PROVE  Checksum(w) \in {0, 1} /\ Checksum(w) % TableSize \in Slots
<1>1. Window \in Nat /\ TableSize \in Nat \ {0}
  BY Numbers
<1>2. PICK T : T = {p[k] : k \in (i + 1)..(i + Window)}
  OBVIOUS
<1>3. \A k \in (i + 1)..(i + Window) : p[k] \in T
  BY <1>2
<1>4. i + 1 \in Int /\ i + Window \in Int
  BY <1>1
<1>5. w \in Seq(T)
  BY <1>3, <1>4, SubSeqProperties DEF WindowOf
<1>6. DOMAIN w = 1..Len(w) /\ Len(w) \in Nat
  BY <1>5, LenProperties
<1>7. IsFiniteSet(DOMAIN w)
  BY <1>6, FS_Interval
<1>8. PICK n \in Nat : n = Cardinality({k \in DOMAIN w : w[k] = 1})
  BY <1>7, FS_Subset, FS_CardinalityType
<1>9. n % 2 \in {0, 1}
  OBVIOUS
<1>10. PICK v \in {0, 1} : v = Checksum(w)
  BY <1>8, <1>9 DEF Checksum
<1>11. v % TableSize \in 0..(TableSize - 1)
  BY <1>1
<1>. QED
  BY <1>10, <1>11 DEF Slots

LEMMA ExpiryNat == ASSUME NEW dist \in Nat PROVE Expiry(dist) \in Nat
<1>1. Expiry(dist) \in {IExpiry, PExpiry, BExpiry}
  BY Numbers DEF Expiry
<1>. QED
  BY <1>1, Numbers

\* The packet at hand.
LEMMA Searching ==
    ASSUME TypeInv, search # None
    PROVE  /\ search \in Search
           /\ search.in \in Payloads /\ search.at \in Addresses
           /\ search.offset \in Nat /\ search.dist \in Nat /\ search.left \in Nat
           /\ Len(search.in) \in Nat
<1>1. search \in Search
  BY DEF TypeInv
<1>2. /\ search.in \in Payloads /\ search.at \in Addresses
      /\ search.offset \in Nat /\ search.dist \in Nat /\ search.left \in Nat
  BY <1>1 DEF Search
<1>3. search.in \in Seq({0, 1})
  BY <1>2, TWiCEAssumption
<1>. QED
  BY <1>1, <1>2, <1>3, LenProperties


-----------------------------------------------------------------------------
(* The search.                                                             *)

\* A search of the packet p, cloned at a, whose windows end with it.
Within(q, p, a) ==
    /\ q \in Search /\ q.in = p /\ q.at = a
    /\ q.offset + q.dist + Window + q.left = Len(p)

LEMMA BeginProperties ==
    ASSUME NEW p \in Payloads, NEW a \in Addresses, NEW offset \in Nat,
           NEW q, q = Begin(p, a, offset)
    PROVE  q = None \/ Within(q, p, a)
<1>1. Window \in Nat /\ Len(p) \in Nat
  <2>1. p \in Seq({0, 1})
    BY TWiCEAssumption
  <2>. QED
    BY <2>1, Numbers, LenProperties
<1>2. CASE Len(p) - offset < Window
  BY <1>2 DEF Begin
<1>3. CASE ~ (Len(p) - offset < Window)
  <2>1. PICK n \in Nat : n = Len(p) - offset - Window
    BY <1>1, <1>3
  <2>2. q = [in |-> p, at |-> a, offset |-> offset, dist |-> 0, left |-> n]
    BY <1>3, <2>1 DEF Begin
  <2>3. /\ q \in Search /\ q.in = p /\ q.at = a
        /\ q.offset = offset /\ q.dist = 0 /\ q.left = n
    BY <2>2 DEF Search
  <2>4. offset + 0 + Window + n = Len(p)
    BY <1>1, <2>1
  <2>. QED
    BY <2>3, <2>4 DEF Within
<1>. QED
  BY <1>2, <1>3

LEMMA MoveOnProperties ==
    ASSUME TypeInv, WindowInv, search # None, NEW n \in Nat, NEW q, q = MoveOn(n)
    PROVE  q = None \/ Within(q, search.in, search.at)
<1>1. PICK r \in Search : r = search /\ r.in \in Payloads /\ r.at \in Addresses
  BY Searching
<1>2. PICK o \in Nat, d \in Nat, l \in Nat : o = r.offset /\ d = r.dist /\ l = r.left
  BY <1>1, Searching
<1>3. o + d + Window + l = Len(r.in) /\ Window \in Nat
  BY <1>1, <1>2, Numbers DEF WindowInv
<1>4. CASE l < n
  BY <1>1, <1>2, <1>4 DEF MoveOn
<1>5. CASE ~ (l < n)
  <2>1. PICK e \in Nat, m \in Nat : e = d + n /\ m = l - n
    BY <1>5
  <2>2. q = [r EXCEPT !.dist = e, !.left = m]
    BY <1>1, <1>2, <1>5, <2>1 DEF MoveOn
  <2>3. /\ q \in Search /\ q.in = r.in /\ q.at = r.at
        /\ q.offset = o /\ q.dist = e /\ q.left = m
    BY <1>2, <2>2 DEF Search
  <2>4. o + e + Window + m = Len(r.in)
    BY <1>3, <2>1
  <2>. QED
    BY <1>1, <2>3, <2>4 DEF Within
<1>. QED
  BY <1>4, <1>5

\* A match is at least a window wide.
LEMMA WidthNat ==
    ASSUME NEW p, NEW q, NEW i, NEW j, NEW width \in RightBounds(p, q, i, j)
    PROVE  width \in Nat
<1>1. Window \in Nat
  BY Numbers
<1>2. PICK n : width = Window + n /\ \E limit : n \in 0..limit
  BY DEF RightBounds
<1>3. n \in Nat
  BY <1>2
<1>. QED
  BY <1>1, <1>2, <1>3

\* What the table has for the window looked at.
LEMMA FoundProperties ==
    ASSUME TypeInv, IsFound
    PROVE  \E s \in Slots : /\ table[s] = Found /\ Found \in Entry
                            /\ Found.value % TableSize = s
<1>1. search # None /\ Found # None
      /\ Found.value = Checksum(WindowOf(search.in, search.offset + search.dist))
  BY DEF IsFound
<1>2. search.offset + search.dist \in Nat
  BY <1>1, Searching
<1>3. Found.value % TableSize \in Slots
  BY <1>1, <1>2, ChecksumSlot
<1>4. Found = table[Found.value % TableSize]
  BY <1>1 DEF Found
<1>5. table[Found.value % TableSize] \in Entry \cup {None}
  BY <1>3 DEF TypeInv
<1>. QED
  BY <1>1, <1>3, <1>4, <1>5

-----------------------------------------------------------------------------
(* What a turn of the search does to the table and the pool.               *)

\* The slot gets an entry made for the packet at hand; the others keep theirs.
MadeFor(s, e) ==
    /\ e \in Entry /\ e.at = search.at
    /\ table' = [table EXCEPT ![s] = e]

LEMMA NewEntryProperties ==
    ASSUME TypeInv, search # None, NEW v \in {0, 1}, NEW e, e = NewEntry(v)
    PROVE  /\ e \in Entry /\ e.at = search.at
           /\ e.expiry \in Nat /\ e.expiry >= clock
<1>0. search.offset + search.dist \in Nat /\ Expiry(search.dist) \in Nat
  <2>1. search.offset \in Nat /\ search.dist \in Nat
    BY Searching
  <2>. QED
    BY <2>1, ExpiryNat
<1>1. PICK o \in Nat, x \in Nat : o = search.offset + search.dist /\ x = Expiry(search.dist)
  BY <1>0
<1>2. PICK a \in Addresses : a = search.at
  BY Searching
<1>3. PICK c \in Nat : c = clock
  BY DEF TypeInv
<1>4. e = [value |-> v, offset |-> o, at |-> a, expiry |-> c + x, hits |-> 0]
  BY <1>1, <1>2, <1>3 DEF NewEntry
<1>5. c + x \in Nat /\ c + x >= c
  BY <1>1, <1>3
<1>6. e \in Entry /\ e.at = a /\ e.expiry = c + x
  BY <1>4, <1>5 DEF Entry
<1>. QED
  BY <1>2, <1>3, <1>5, <1>6

\* Whether to make an entry: the slot is empty, or what is in it has expired.
LEMMA MissProperties ==
    ASSUME TypeInv, Miss
    PROVE  \/ UNCHANGED <<pool, refs, table, entries>>
           \/ \E s \in Slots, e \in Entry :
                 /\ MadeFor(s, e) /\ pool' = pool
                 /\ entries' = entries + 1 /\ refs' = [refs EXCEPT ![search.at] = @ + 1]
           \/ \E s \in Slots, e \in Entry :
                 /\ MadeFor(s, e) /\ table[s] # None /\ table[s].expiry < clock /\ table[s] # e
                 /\ pool' = Purged(search.at) /\ UNCHANGED <<refs, entries>>
<1>1. search # None
  BY DEF Miss
<1>2. PICK w : w = WindowOf(search.in, search.offset + search.dist)
  OBVIOUS
<1>3. search.offset + search.dist \in Nat
  BY <1>1, Searching
<1>4. PICK v \in {0, 1} : v = Checksum(w) /\ v % TableSize \in Slots
  BY <1>2, <1>3, ChecksumSlot
<1>5. PICK s \in Slots : s = v % TableSize
  BY <1>4
<1>6. ConsiderCache(s, v)
  BY <1>2, <1>4, <1>5 DEF Miss
<1>7. PICK e \in Entry : e = NewEntry(v) /\ e.at = search.at /\ e.expiry \in Nat /\ e.expiry >= clock
  BY <1>1, NewEntryProperties
<1>8. CASE table[s] = None
  <2>1. Create(s, v)
    BY <1>6, <1>8 DEF ConsiderCache
  <2>2. /\ MadeFor(s, e) /\ pool' = pool
        /\ entries' = entries + 1 /\ refs' = [refs EXCEPT ![search.at] = @ + 1]
    BY <1>7, <2>1 DEF Create, MadeFor
  <2>. QED
    BY <2>2
<1>9. CASE table[s] # None /\ table[s].expiry < clock
  <2>1. Replace(s, v)
    BY <1>6, <1>9 DEF ConsiderCache
  <2>2. MadeFor(s, e) /\ pool' = Purged(search.at) /\ UNCHANGED <<refs, entries>>
    BY <1>7, <2>1 DEF Replace, MadeFor
  <2>3. table[s] # e
    <3>1. table[s] \in Entry /\ clock \in Nat
      BY <1>9 DEF TypeInv
    <3>2. table[s].expiry \in Nat
      BY <3>1 DEF Entry
    <3>. QED
      BY <1>7, <1>9, <3>1, <3>2
  <2>. QED
    BY <1>9, <2>2, <2>3
<1>10. CASE table[s] # None /\ ~ (table[s].expiry < clock)
  BY <1>6, <1>10 DEF ConsiderCache
<1>. QED
  BY <1>8, <1>9, <1>10


-----------------------------------------------------------------------------
(* The inductive invariant.                                                *)

\* What is searched after a step: nothing, the same packet as before with its
\* windows ending with it, or one that has just been cloned.
SearchNext ==
    \/ search' = None
    \/ UNCHANGED search
    \/ search # None /\ Within(search', search.in, search.at)
    \/ \E p \in Payloads, a \in Addresses :
          Within(search', p, a) /\ pool' = [pool EXCEPT ![a] = p]

LEMMA NextSearch == ASSUME TypeInv, WindowInv, Next PROVE SearchNext
<1>1. CASE \E p \in Payloads : Arrive(p)
  <2>1. PICK p \in Payloads, a \in Addresses : CreateCloneInPool(p, a) /\ search' = Begin(p, a, 0)
    BY <1>1 DEF Arrive
  <2>2. search' = None \/ Within(search', p, a)
    BY <2>1, BeginProperties
  <2>. QED
    BY <2>1, <2>2 DEF SearchNext, CreateCloneInPool
<1>2. CASE Miss
  <2>1. search # None /\ search' = MoveOn(1)
    BY <1>2 DEF Miss
  <2>. QED
    BY <2>1, MoveOnProperties DEF SearchNext
<1>3. CASE IntraHit
  <2>1. PICK n \in Nat : search # None /\ search' = MoveOn(n)
    BY <1>3, Numbers DEF IntraHit, IsMatch, IsFound
  <2>. QED
    BY <2>1, MoveOnProperties DEF SearchNext
<1>4. CASE Hit
  <2>1. search # None
    BY <1>4 DEF Hit, IsMatch, IsFound
  <2>2. PICK i \in Nat : i = search.offset + search.dist
    BY <2>1, Searching
  <2>3. PICK width : /\ width \in RightBounds(search.in, pool[Found.at], i, Found.offset)
                     /\ search' = SearchOn(i, width)
    BY <1>4, <2>2 DEF Hit
  <2>4. width \in Nat
    BY <2>3, WidthNat
  <2>5. search' = None \/ search' = Begin(search.in, search.at, i + width)
    BY <2>3 DEF SearchOn
  <2>6. search.in \in Payloads /\ search.at \in Addresses /\ i + width \in Nat
    BY <2>1, <2>4, Searching
  <2>. QED
    BY <2>1, <2>5, <2>6, BeginProperties DEF SearchNext
<1>5. CASE Crash \/ Tick
  BY <1>5 DEF Crash, Tick, SearchNext
<1>. QED
  BY <1>1, <1>2, <1>3, <1>4, <1>5 DEF Next

\* A hit changes only how long its entry lives and how often it was used.
LEMMA HitTable ==
    ASSUME TypeInv, Hit
    PROVE  /\ table' \in [Slots -> Entry \cup {None}]
           /\ \A s \in Slots : /\ table'[s] = None <=> table[s] = None
                               /\ table[s] # None => table'[s].at = table[s].at
<1>1. PICK s \in Slots : table[s] = Found /\ Found \in Entry /\ Found.value % TableSize = s
  BY FoundProperties DEF Hit, IsMatch
<1>2. table' = [table EXCEPT ![s].expiry = @ + HitAdjust, ![s].hits = @ + 1]
  BY <1>1 DEF Hit
<1>3. PICK e \in Entry : e = table[s]
  BY <1>1
<1>4. PICK x \in Nat, h \in Nat : x = e.expiry + HitAdjust /\ h = e.hits + 1
  BY Numbers DEF Entry
<1>5. PICK f : f = [e EXCEPT !.expiry = x, !.hits = h]
  OBVIOUS
<1>6. f \in Entry /\ f.at = e.at
  BY <1>5 DEF Entry
<1>7. table \in [Slots -> Entry \cup {None}]
  BY DEF TypeInv
<1>8. table' = [table EXCEPT ![s] = f]
  BY <1>2, <1>3, <1>4, <1>5, <1>7
<1>9. e # None /\ f # None
  BY <1>6, NoneApart
<1>. QED
  BY <1>3, <1>6, <1>7, <1>8, <1>9

LEMMA PurgedProperties ==
    ASSUME TypeInv, NEW a \in Addresses
    PROVE  /\ Purged(a) \in [Addresses -> Payloads \cup {None}]
           /\ \A b \in Addresses : b # a => Purged(a)[b] = pool[b]
  BY DEF TypeInv, Purged

LEMMA NextTyped == ASSUME TypeInv, WindowInv, Next PROVE TypeInv'
<1>1. search' \in Search \cup {None}
  BY NextSearch DEF SearchNext, Within, TypeInv
<1>2. ASSUME NEW s \in Slots, NEW e \in Entry, MadeFor(s, e)
      PROVE  table' \in [Slots -> Entry \cup {None}]
  BY <1>2 DEF MadeFor, TypeInv
<1>3. CASE \E p \in Payloads : Arrive(p)
  <2>1. PICK p \in Payloads, a \in Addresses : CreateCloneInPool(p, a)
    BY <1>3 DEF Arrive
  <2>2. pool' \in [Addresses -> Payloads \cup {None}] /\ refs' \in [Addresses -> Nat]
    BY <2>1 DEF CreateCloneInPool, TypeInv
  <2>3. UNCHANGED <<table, entries, clock, crashed>>
    BY <1>3 DEF Arrive
  <2>. QED
    BY <1>1, <2>2, <2>3 DEF TypeInv
<1>4. CASE Miss
  <2>1. UNCHANGED <<clock, crashed>>
    BY <1>4 DEF Miss
  <2>2. CASE UNCHANGED <<pool, refs, table, entries>>
    BY <1>1, <2>1, <2>2 DEF TypeInv
  <2>3. CASE \E s \in Slots, e \in Entry :
                /\ MadeFor(s, e) /\ pool' = pool
                /\ entries' = entries + 1 /\ refs' = [refs EXCEPT ![search.at] = @ + 1]
    <3>1. table' \in [Slots -> Entry \cup {None}]
      BY <1>2, <2>3
    <3>2. entries' = entries + 1 /\ pool' = pool /\ refs' = [refs EXCEPT ![search.at] = @ + 1]
      BY <2>3
    <3>3. refs' \in [Addresses -> Nat] /\ entries' \in Nat
      <4>1. refs \in [Addresses -> Nat] /\ entries \in Nat
        BY DEF TypeInv
      <4>2. PICK a \in Addresses : a = search.at
        BY <1>4, Searching DEF Miss
      <4>3. refs' = [refs EXCEPT ![a] = refs[a] + 1]
        BY <3>2, <4>2
      <4>4. refs' \in [Addresses -> Nat]
        BY <4>1, <4>3
      <4>. QED
        BY <3>2, <4>1, <4>4
    <3>. QED
      BY <1>1, <2>1, <3>1, <3>2, <3>3 DEF TypeInv
  <2>4. CASE \E s \in Slots, e \in Entry :
                /\ MadeFor(s, e) /\ table[s] # None /\ table[s].expiry < clock /\ table[s] # e
                /\ pool' = Purged(search.at) /\ UNCHANGED <<refs, entries>>
    <3>1. table' \in [Slots -> Entry \cup {None}] /\ UNCHANGED <<refs, entries>>
      BY <1>2, <2>4
    <3>2. search # None
      BY <1>4 DEF Miss
    <3>3. pool' \in [Addresses -> Payloads \cup {None}]
      BY <2>4, <3>2, Searching, PurgedProperties
    <3>. QED
      BY <1>1, <2>1, <3>1, <3>3 DEF TypeInv
  <2>. QED
    BY <1>4, <2>2, <2>3, <2>4, MissProperties
<1>5. CASE IntraHit \/ Crash
  BY <1>1, <1>5 DEF IntraHit, Crash, TypeInv
<1>6. CASE Hit
  <2>1. UNCHANGED <<pool, refs, entries, clock, crashed>>
    BY <1>6 DEF Hit
  <2>. QED
    BY <1>1, <1>6, <2>1, HitTable DEF TypeInv
<1>7. CASE Tick
  BY <1>1, <1>7 DEF Tick, TypeInv
<1>. QED
  BY <1>3, <1>4, <1>5, <1>6, <1>7 DEF Next

LEMMA NextWindow == ASSUME TypeInv, WindowInv, Next PROVE WindowInv'
  BY NextSearch DEF SearchNext, Within, WindowInv


LEMMA NextClone == ASSUME TypeInv, WindowInv, CloneInv, Next PROVE CloneInv'
<1>. SUFFICES ASSUME search' # None, pool'[search'.at] = None
              PROVE  \E s \in Slots : table'[s] # None /\ table'[s].at = search'.at
  BY DEF CloneInv
<1>1. CASE \E p \in Payloads : Arrive(p)
  <2>1. PICK p \in Payloads, a \in Addresses :
            CreateCloneInPool(p, a) /\ search' = Begin(p, a, 0)
    BY <1>1 DEF Arrive
  <2>2. search'.at = a
    BY <2>1, BeginProperties DEF Within
  <2>3. pool'[a] = p
    BY <2>1 DEF CreateCloneInPool, TypeInv
  <2>. QED
    BY <2>2, <2>3, NoneApart
<1>2. ASSUME ~ (\E p \in Payloads : Arrive(p)) PROVE search # None /\ search'.at = search.at
  <2>1. CASE Miss
    <3>1. search # None /\ search' = MoveOn(1)
      BY <2>1 DEF Miss
    <3>. QED
      BY <3>1, MoveOnProperties DEF Within
  <2>2. CASE IntraHit
    <3>1. PICK n \in Nat : search # None /\ search' = MoveOn(n)
      BY <2>2, Numbers DEF IntraHit, IsMatch, IsFound
    <3>. QED
      BY <3>1, MoveOnProperties DEF Within
  <2>3. CASE Hit
    <3>1. search # None /\ pool' = pool
      BY <2>3 DEF Hit, IsMatch, IsFound
    <3>2. CASE UNCHANGED search \/ Within(search', search.in, search.at)
      BY <3>1, <3>2 DEF Within
    <3>3. PICK i \in Nat : i = search.offset + search.dist
      BY <3>1, Searching
    <3>4. PICK width : /\ width \in RightBounds(search.in, pool[Found.at], i, Found.offset)
                       /\ search' = SearchOn(i, width)
      BY <2>3, <3>3 DEF Hit
    <3>5. search' = Begin(search.in, search.at, i + width) /\ i + width \in Nat
      BY <3>4, WidthNat DEF SearchOn
    <3>6. search.in \in Payloads /\ search.at \in Addresses
      BY <3>1, Searching
    <3>7. Within(search', search.in, search.at)
      BY <3>5, <3>6, BeginProperties
    <3>. QED
      BY <3>2, <3>7
  <2>4. CASE Crash \/ Tick
    BY <2>4 DEF Crash, Tick
  <2>. QED
    BY <1>2, <2>1, <2>2, <2>3, <2>4 DEF Next
<1>3. ASSUME NEW s \in Slots, NEW e \in Entry, MadeFor(s, e), ~ (\E p \in Payloads : Arrive(p))
      PROVE  \E t \in Slots : table'[t] # None /\ table'[t].at = search'.at
  <2>1. table'[s] = e /\ e.at = search.at
    BY <1>3 DEF MadeFor, TypeInv
  <2>. QED
    BY <1>2, <1>3, <2>1, NoneApart
<1>4. ASSUME ~ (\E p \in Payloads : Arrive(p)), pool' = pool,
             \A s \in Slots : table[s] # None => table'[s] # None /\ table'[s].at = table[s].at
      PROVE  \E t \in Slots : table'[t] # None /\ table'[t].at = search'.at
  <2>1. search # None /\ search'.at = search.at
    BY <1>2, <1>4
  <2>2. PICK s \in Slots : table[s] # None /\ table[s].at = search.at
    BY <1>4, <2>1 DEF CloneInv
  <2>. QED
    BY <1>4, <2>1, <2>2
<1>5. CASE Miss /\ ~ (\E p \in Payloads : Arrive(p))
  <2>1. CASE UNCHANGED <<pool, refs, table, entries>>
    BY <1>4, <1>5, <2>1
  <2>2. CASE \E s \in Slots, e \in Entry : MadeFor(s, e)
    BY <1>3, <1>5, <2>2
  <2>. QED
    BY <1>5, <2>1, <2>2, MissProperties
<1>6. CASE Hit /\ ~ (\E p \in Payloads : Arrive(p))
  <2>1. pool' = pool
    BY <1>6 DEF Hit
  <2>. QED
    BY <1>4, <1>6, <2>1, HitTable
<1>7. CASE (IntraHit \/ Crash \/ Tick) /\ ~ (\E p \in Payloads : Arrive(p))
  <2>1. pool' = pool /\ table' = table
    BY <1>7 DEF IntraHit, Crash, Tick
  <2>. QED
    BY <1>4, <1>7, <2>1
<1>. QED
  BY <1>1, <1>5, <1>6, <1>7 DEF Next

LEMMA InitInv == Init => IInv
<1>. SUFFICES ASSUME Init PROVE IInv
  OBVIOUS
<1>1. TypeInv
  BY DEF Init, TypeInv
<1>2. WindowInv /\ CloneInv
  BY DEF Init, WindowInv, CloneInv
<1>. QED
  BY <1>1, <1>2 DEF IInv

LEMMA NextInv == IInv /\ [Next]_vars => IInv'
<1>. SUFFICES ASSUME IInv, [Next]_vars PROVE IInv'
  OBVIOUS
<1>1. CASE Next
  BY <1>1, NextTyped, NextWindow, NextClone DEF IInv
<1>2. CASE UNCHANGED vars
  <2>1. TypeInv'
    BY <1>2 DEF vars, IInv, TypeInv
  <2>2. WindowInv' /\ CloneInv'
    BY <1>2 DEF vars, IInv, WindowInv, CloneInv
  <2>. QED
    BY <2>1, <2>2 DEF IInv
<1>. QED
  BY <1>1, <1>2

THEOREM Invariant == Spec => []IInv
<1>. QED
  BY InitInv, NextInv, PTL DEF Spec

-----------------------------------------------------------------------------
(* The properties.                                                         *)

\* The window that attemptFindHit looks at, after a hit or a repetition in the
\* packet as after a miss, ends before the packet does.
THEOREM WindowStaysInside == Spec => []WindowInsidePacket
<1>1. ASSUME IInv PROVE WindowInsidePacket
  <2>1. SUFFICES ASSUME search # None PROVE search.left >= 0
    BY <1>1 DEF WindowInsidePacket, IInv, WindowInv
  <2>2. search.left \in Nat
    BY <1>1, <2>1, Searching DEF IInv
  <2>. QED
    BY <2>2
<1>2. IInv => WindowInsidePacket
  BY <1>1
<1>. QED
  BY <1>2, Invariant, PTL

\* A step that leaves an entry without its packet replaces an expired one.
Replaces == \E s \in Slots : table[s] # None /\ table[s].expiry < clock /\ table'[s] # table[s]

LEMMA NextDangling ==
    ASSUME IInv, Next, Dangling = {}, Dangling' # {} PROVE Replaces
<1>. USE DEF IInv
<1>1. PICK t \in Slots : table'[t] # None /\ pool'[table'[t].at] = None
  BY DEF Dangling
<1>2. \A s \in Slots : table[s] # None => pool[table[s].at] # None /\ table[s].at \in Addresses
  <2>1. \A s \in Slots : table[s] # None => table[s] \in Entry
    BY DEF TypeInv
  <2>. QED
    BY <2>1 DEF Dangling, Entry
<1>3. CASE \E p \in Payloads : Arrive(p)
  <2>1. PICK p \in Payloads, a \in Addresses : CreateCloneInPool(p, a) /\ table' = table
    BY <1>3 DEF Arrive
  <2>2. \A b \in Addresses : pool'[b] = IF b = a THEN p ELSE pool[b]
    BY <2>1 DEF CreateCloneInPool, TypeInv
  <2>. QED
    BY <1>1, <1>2, <2>1, <2>2, NoneApart
<1>4. CASE Miss
  <2>1. CASE UNCHANGED <<pool, refs, table, entries>>
    BY <1>1, <1>2, <2>1
  <2>2. CASE \E s \in Slots, e \in Entry : MadeFor(s, e) /\ pool' = pool
    <3>1. PICK s \in Slots, e \in Entry : MadeFor(s, e) /\ pool' = pool
      BY <2>2
    <3>2. search # None
      BY <1>4 DEF Miss
    <3>3. pool[search.at] # None
      BY <1>2, <3>2 DEF CloneInv
    <3>4. table'[t] = IF t = s THEN e ELSE table[t]
      BY <3>1 DEF MadeFor, TypeInv
    <3>. QED
      BY <1>1, <1>2, <3>1, <3>3, <3>4 DEF MadeFor
  <2>3. CASE \E s \in Slots, e \in Entry :
                MadeFor(s, e) /\ table[s] # None /\ table[s].expiry < clock /\ table[s] # e
    <3>1. PICK s \in Slots, e \in Entry :
              MadeFor(s, e) /\ table[s] # None /\ table[s].expiry < clock /\ table[s] # e
      BY <2>3
    <3>2. table'[s] = e
      BY <3>1 DEF MadeFor, TypeInv
    <3>. QED
      BY <3>1, <3>2 DEF Replaces
  <2>. QED
    BY <1>4, <2>1, <2>2, <2>3, MissProperties
<1>5. CASE Hit
  <2>1. pool' = pool
    BY <1>5 DEF Hit
  <2>. QED
    BY <1>1, <1>2, <1>5, <2>1, HitTable
<1>6. CASE IntraHit \/ Crash \/ Tick
  <2>1. pool' = pool /\ table' = table
    BY <1>6 DEF IntraHit, Crash, Tick
  <2>. QED
    BY <1>1, <1>2, <2>1
<1>. QED
  BY <1>3, <1>4, <1>5, <1>6 DEF Next

\* Only removeCacheEntry, which takes the reference of the packet at hand for
\* that of the expired entry's, leaves an entry of the table without its packet.
THEOREM OnlyReplacementDangles == Spec => ReplacementAloneDangles
<1>. DEFINE A == Dangling = {} /\ Dangling' # {} =>
                    \E s \in Slots : /\ table[s] # None /\ table[s].expiry < clock
                                    /\ table'[s] # table[s]
<1>1. ASSUME IInv, Next PROVE A
  BY <1>1, NextDangling DEF Replaces
<1>2. IInv /\ [Next]_vars => [A]_vars
  BY <1>1
<1>. QED
  BY <1>2, Invariant, PTL DEF Spec, ReplacementAloneDangles
=============================================================================
