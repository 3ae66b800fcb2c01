------------------------ MODULE PacketPipelineProofs ------------------------
(***************************************************************************)
(* Theorems about PacketPipeline, for any adapters, packets and chains.     *)
(***************************************************************************)
EXTENDS PacketPipeline, Integers, SequenceTheorems, FiniteSetTheorems, TLAPS

-----------------------------------------------------------------------------
(* Sequences.                                                               *)

\* Popping takes out exactly the first element, if none is in there twice.
LEMMA PopProperties ==
    ASSUME NEW S, NEW s \in Seq(S), s # <<>>
    PROVE  /\ Head(s) \in S
           /\ Head(s) \in ToSet(s)
           /\ Tail(s) \in Seq(S)
           /\ IsInjective(s) => /\ IsInjective(Tail(s))
                               /\ ToSet(Tail(s)) = ToSet(s) \ {Head(s)}
<1>1. /\ Head(s) \in S /\ Head(s) = s[1]
      /\ Tail(s) \in Seq(S)
      /\ Len(s) \in Nat \ {0}
      /\ Len(Tail(s)) = Len(s) - 1
      /\ \A i \in 1..Len(Tail(s)) : Tail(s)[i] = s[i + 1]
  BY HeadTailProperties, EmptySeq
<1>2. DOMAIN s = 1..Len(s) /\ DOMAIN Tail(s) = 1..Len(s) - 1
  BY <1>1, LenProperties
<1>3. Head(s) \in ToSet(s)
  BY <1>1, <1>2 DEF ToSet
<1>4. ASSUME IsInjective(s) PROVE IsInjective(Tail(s))
  BY <1>1, <1>2, <1>4 DEF IsInjective
<1>5. ASSUME IsInjective(s) PROVE ToSet(Tail(s)) = ToSet(s) \ {Head(s)}
  <2>1. ASSUME NEW x \in ToSet(Tail(s)) PROVE x \in ToSet(s) \ {Head(s)}
    <3>1. PICK i \in 1..Len(s) - 1 : x = s[i + 1]
      BY <1>1, <1>2 DEF ToSet
    <3>. QED
      BY <3>1, <1>1, <1>2, <1>5 DEF ToSet, IsInjective
  <2>2. ASSUME NEW x \in ToSet(s), x # Head(s) PROVE x \in ToSet(Tail(s))
    <3>1. PICK i \in 1..Len(s) : x = s[i]
      BY <1>2 DEF ToSet
    <3>2. i - 1 \in 1..Len(s) - 1 /\ (i - 1) + 1 = i
      BY <3>1, <2>2, <1>1
    <3>3. Tail(s)[i - 1] = x
      BY <3>1, <3>2, <1>1
    <3>. QED
      BY <3>2, <3>3, <1>2 DEF ToSet
  <2>. QED
    BY <2>1, <2>2
<1>. QED
  BY <1>1, <1>3, <1>4, <1>5

\* Pushing adds exactly that element, and keeps the elements distinct if it is new.
LEMMA PushProperties ==
    ASSUME NEW S, NEW s \in Seq(S), NEW o \in S
    PROVE  /\ Append(s, o) \in Seq(S)
           /\ Append(s, o) # <<>>
           /\ ToSet(Append(s, o)) = ToSet(s) \cup {o}
           /\ IsInjective(s) /\ o \notin ToSet(s) => IsInjective(Append(s, o))
<1>1. /\ Append(s, o) \in Seq(S)
      /\ Append(s, o) # <<>>
      /\ Len(s) \in Nat
      /\ Len(Append(s, o)) = Len(s) + 1
      /\ \A i \in 1..Len(s) : Append(s, o)[i] = s[i]
      /\ Append(s, o)[Len(s) + 1] = o
  BY AppendProperties, LenProperties
<1>2. DOMAIN s = 1..Len(s) /\ DOMAIN Append(s, o) = 1..Len(s) + 1
  BY <1>1, LenProperties
<1>3. ToSet(Append(s, o)) = ToSet(s) \cup {o}
  <2>1. \A i \in 1..Len(s) + 1 : i \in 1..Len(s) \/ i = Len(s) + 1
    BY <1>1
  <2>. QED
    BY <1>1, <1>2, <2>1 DEF ToSet
<1>4. ASSUME IsInjective(s), o \notin ToSet(s) PROVE IsInjective(Append(s, o))
  BY <1>1, <1>2, <1>4 DEF IsInjective, ToSet
<1>. QED
  BY <1>1, <1>3, <1>4

-----------------------------------------------------------------------------

WorkerState ==
    [pc : {"priority", "plain", "chain"}, packet : Packets \cup {NoPacket},
     next : Nat \ {0}, seeking : BOOLEAN]

Typed ==
    /\ enabled \in [Adapters -> BOOLEAN]
    /\ free \subseteq Packets
    /\ queue \in [Workers -> [Classes -> Seq(Packets)]]
    /\ worker \in [Workers -> WorkerState]
    /\ resume \in [Packets -> Modules \cup {NoModule}]
    /\ kept \in [Taps -> Seq(Packets)]

\* A worker has a packet just when it is in its chain.
ChainInv == \A w \in Workers : worker[w].packet # NoPacket <=> worker[w].pc = "chain"

\* The places a packet can be, and what is in each.
Places ==
    {<<"pool", NoModule, NoModule>>}
    \cup {<<"queue", w, c>> : w \in Workers, c \in Classes}
    \cup {<<"worker", w, NoModule>> : w \in Workers}
    \cup {<<"tap", t, NoModule>> : t \in Taps}

At(p, x) ==
    \/ x[1] = "pool" /\ p \in free
    \/ x[1] = "queue" /\ p \in ToSet(queue[x[2]][x[3]])
    \/ x[1] = "worker" /\ p = worker[x[2]].packet
    \/ x[1] = "tap" /\ p \in ToSet(kept[x[2]])

\* Every packet is at one place, and at one position there.
PlaceInv ==
    /\ \A p \in Packets : \E x \in Places : At(p, x)
    /\ \A p \in Packets : \A x, y \in Places : At(p, x) /\ At(p, y) => x = y
    /\ \A w \in Workers, c \in Classes : IsInjective(queue[w][c])
    /\ \A t \in Taps : IsInjective(kept[t])

IInv == Typed /\ ChainInv /\ PlaceInv

-----------------------------------------------------------------------------
(* What a packet's place says about its past.                              *)

\* The modules that saw the packet since it left the pool.
SeenBy(p) == {trail[p][j].module : j \in DOMAIN trail[p]}

\* The packet's way through w's chain led to the n-th module, and before it
\* comes to an output chain no module of any output chain saw it.
Reached(p, w, n) ==
    /\ SeenBy(p) \cap ToSet(Chain[w]) = {Chain[w][l] : l \in 1..n}
    /\ w[2] = "in" =>
          \A v \in Workers : v[2] = "out" => SeenBy(p) \cap ToSet(Chain[v]) = {}

\* The packet is to resume after a module of w's chain, the last that saw it.
Resumes(p, w, first) ==
    \E r \in first..Len(Chain[w]) : resume[p] = Chain[w][r] /\ Reached(p, w, r)

Fits(p, x) ==
    /\ x[1] = "pool" => resume[p] = NoModule /\ trail[p] = <<>>
    /\ x[1] = "queue" /\ x[3] = "plain" => resume[p] = NoModule /\ Reached(p, x[2], 0)
    /\ x[1] = "queue" /\ x[3] = "priority" => Resumes(p, x[2], 1)
    /\ x[1] = "worker" =>
          IF worker[x[2]].seeking THEN Resumes(p, x[2], worker[x[2]].next)
          ELSE resume[p] = NoModule /\ Reached(p, x[2], worker[x[2]].next - 1)
    /\ x[1] = "tap" =>
          /\ resume[p] = NoModule
          /\ \E r \in DOMAIN Chain[Home(x[2])] :
                Chain[Home(x[2])][r] = x[2] /\ Reached(p, Home(x[2]), r)

Trails == trail \in [Packets -> Seq([module : Modules, stays : BOOLEAN])]

HistoryInv == \A p \in Packets : \A x \in Places : At(p, x) => Fits(p, x)

OrderInv == Trails /\ HistoryInv /\ VisitedInOrder

-----------------------------------------------------------------------------
(* Moving a packet.                                                        *)

\* The four kinds of places, and what it means to be there.
LEMMA PlaceKinds ==
    /\ <<"pool", NoModule, NoModule>> \in Places
    /\ \A p : At(p, <<"pool", NoModule, NoModule>>) <=> p \in free
    /\ \A w \in Workers, c \in Classes :
          /\ <<"queue", w, c>> \in Places
          /\ \A p : At(p, <<"queue", w, c>>) <=> p \in ToSet(queue[w][c])
    /\ \A w \in Workers :
          /\ <<"worker", w, NoModule>> \in Places
          /\ \A p : At(p, <<"worker", w, NoModule>>) <=> p = worker[w].packet
    /\ \A t \in Taps :
          /\ <<"tap", t, NoModule>> \in Places
          /\ \A p : At(p, <<"tap", t, NoModule>>) <=> p \in ToSet(kept[t])
<1>1. \A p : At(p, <<"pool", NoModule, NoModule>>) <=> p \in free
  BY DEF At
<1>2. \A w \in Workers, c \in Classes : \A p :
          At(p, <<"queue", w, c>>) <=> p \in ToSet(queue[w][c])
  BY DEF At
<1>3. \A w \in Workers : \A p : At(p, <<"worker", w, NoModule>>) <=> p = worker[w].packet
  BY DEF At
<1>4. \A t \in Taps : \A p : At(p, <<"tap", t, NoModule>>) <=> p \in ToSet(kept[t])
  BY DEF At
<1>. QED
  BY <1>1, <1>2, <1>3, <1>4 DEF Places

\* A packet that is in one place is in no other.
LEMMA Elsewhere ==
    ASSUME PlaceInv, NEW p \in Packets
    PROVE  /\ p \in free =>
                 /\ \A v \in Workers, d \in Classes : p \notin ToSet(queue[v][d])
                 /\ \A v \in Workers : worker[v].packet # p
                 /\ \A u \in Taps : p \notin ToSet(kept[u])
           /\ \A w \in Workers, c \in Classes : p \in ToSet(queue[w][c]) =>
                 /\ p \notin free
                 /\ \A v \in Workers, d \in Classes :
                       p \in ToSet(queue[v][d]) => v = w /\ d = c
                 /\ \A v \in Workers : worker[v].packet # p
                 /\ \A u \in Taps : p \notin ToSet(kept[u])
           /\ \A w \in Workers : worker[w].packet = p =>
                 /\ p \notin free
                 /\ \A v \in Workers, d \in Classes : p \notin ToSet(queue[v][d])
                 /\ \A v \in Workers : worker[v].packet = p => v = w
                 /\ \A u \in Taps : p \notin ToSet(kept[u])
           /\ \A t \in Taps : p \in ToSet(kept[t]) =>
                 /\ p \notin free
                 /\ \A v \in Workers, d \in Classes : p \notin ToSet(queue[v][d])
                 /\ \A v \in Workers : worker[v].packet # p
                 /\ \A u \in Taps : p \in ToSet(kept[u]) => u = t
<1>1. \A x, y \in Places : At(p, x) /\ At(p, y) => x = y
  BY DEF PlaceInv
<1>2. ASSUME p \in free
      PROVE  /\ \A v \in Workers, d \in Classes : p \notin ToSet(queue[v][d])
             /\ \A v \in Workers : worker[v].packet # p
             /\ \A u \in Taps : p \notin ToSet(kept[u])
  BY <1>1, <1>2, PlaceKinds
<1>3. ASSUME NEW w \in Workers, NEW c \in Classes, p \in ToSet(queue[w][c])
      PROVE  /\ \A v \in Workers, d \in Classes : p \in ToSet(queue[v][d]) => v = w /\ d = c
             /\ \A v \in Workers : worker[v].packet # p
             /\ \A u \in Taps : p \notin ToSet(kept[u])
  BY <1>1, <1>3, PlaceKinds
<1>4. ASSUME NEW w \in Workers, worker[w].packet = p
      PROVE  /\ \A v \in Workers : worker[v].packet = p => v = w
             /\ \A u \in Taps : p \notin ToSet(kept[u])
  BY <1>1, <1>4, PlaceKinds
<1>5. ASSUME NEW t \in Taps, p \in ToSet(kept[t])
      PROVE  \A u \in Taps : p \in ToSet(kept[u]) => u = t
  BY <1>1, <1>5, PlaceKinds
<1>. QED
  BY <1>2, <1>3, <1>4, <1>5

\* The packet is at place y afterwards, and every other packet where it was.
Shift(p, y) ==
    /\ \A q \in Packets :
          q \in free' <=> IF q = p THEN y = <<"pool", NoModule, NoModule>> ELSE q \in free
    /\ \A q \in Packets : \A w \in Workers, c \in Classes :
          q \in ToSet(queue'[w][c])
              <=> IF q = p THEN y = <<"queue", w, c>> ELSE q \in ToSet(queue[w][c])
    /\ \A q \in Packets : \A w \in Workers :
          q = worker'[w].packet
              <=> IF q = p THEN y = <<"worker", w, NoModule>> ELSE q = worker[w].packet
    /\ \A q \in Packets : \A t \in Taps :
          q \in ToSet(kept'[t])
              <=> IF q = p THEN y = <<"tap", t, NoModule>> ELSE q \in ToSet(kept[t])

LEMMA ShiftAt ==
    ASSUME NEW p \in Packets, NEW y \in Places, Shift(p, y)
    PROVE  \A q \in Packets : \A z \in Places : At(q, z)' <=> IF q = p THEN z = y ELSE At(q, z)
<1>. SUFFICES ASSUME NEW q \in Packets, NEW z \in Places
              PROVE  At(q, z)' <=> IF q = p THEN z = y ELSE At(q, z)
  OBVIOUS
<1>1. CASE z = <<"pool", NoModule, NoModule>>
  BY <1>1 DEF Shift, At
<1>2. ASSUME NEW w \in Workers, NEW c \in Classes, z = <<"queue", w, c>>
      PROVE  At(q, z)' <=> IF q = p THEN z = y ELSE At(q, z)
  BY <1>2 DEF Shift, At
<1>3. ASSUME NEW w \in Workers, z = <<"worker", w, NoModule>>
      PROVE  At(q, z)' <=> IF q = p THEN z = y ELSE At(q, z)
  BY <1>3 DEF Shift, At
<1>4. ASSUME NEW t \in Taps, z = <<"tap", t, NoModule>>
      PROVE  At(q, z)' <=> IF q = p THEN z = y ELSE At(q, z)
  BY <1>4 DEF Shift, At
<1>. QED
  BY <1>1, <1>2, <1>3, <1>4 DEF Places

LEMMA ShiftPlaces ==
    ASSUME PlaceInv, NEW p \in Packets, NEW y \in Places, Shift(p, y),
           \A w \in Workers, c \in Classes : IsInjective(queue'[w][c]),
           \A t \in Taps : IsInjective(kept'[t])
    PROVE  PlaceInv'
<1>1. \A q \in Packets : \A z \in Places : At(q, z)' <=> IF q = p THEN z = y ELSE At(q, z)
  BY ShiftAt
<1>2. \A q \in Packets : \E z \in Places : At(q, z)'
  BY <1>1 DEF PlaceInv
<1>3. \A q \in Packets : \A z, v \in Places : At(q, z)' /\ At(q, v)' => z = v
  BY <1>1 DEF PlaceInv
<1>4. Places' = Places
  BY DEF Places, Workers, Taps, Modules
<1>. QED
  BY <1>2, <1>3, <1>4 DEF PlaceInv

-----------------------------------------------------------------------------
(* What the operations of the steps do.                                    *)

LEMMA ModuleType ==
    ASSUME Typed, NEW w \in Workers, AtModule(w)
    PROVE  worker[w].next \in 1..Len(Chain[w]) /\ Module(w) \in Modules
<1>1. Chain[w] \in Seq(Modules) /\ worker[w] \in WorkerState
  BY ChainAssumption DEF Typed
<1>2. worker[w].next \in 1..Len(Chain[w])
  BY <1>1, LenProperties DEF AtModule, WorkerState
<1>. QED
  BY <1>1, <1>2, ElementOfSeq DEF Module

\* A tap's module has a worker.
LEMMA HomeIsWorker ==
    ASSUME NEW t \in Taps
    PROVE  Home(t) \in Workers /\ t \in ToSet(Chain[Home(t)]) /\ Home(t)[1] \in Adapters
<1>1. \E w \in Workers : t \in ToSet(Chain[w])
  BY DEF Taps, Modules
<1>2. Home(t) \in Workers /\ t \in ToSet(Chain[Home(t)])
  BY <1>1 DEF Home
<1>. QED
  BY <1>2 DEF Workers

\* The packet is in one queue more, or in one less, and the others stay.
Joins(p, w, c) ==
    /\ queue' \in [Workers -> [Classes -> Seq(Packets)]]
    /\ \A v \in Workers, d \in Classes :
          /\ IsInjective(queue'[v][d])
          /\ \A q : q \in ToSet(queue'[v][d])
                       <=> q \in ToSet(queue[v][d]) \/ (q = p /\ v = w /\ d = c)

Leaves(p, w, c) ==
    /\ queue' \in [Workers -> [Classes -> Seq(Packets)]]
    /\ \A v \in Workers, d \in Classes :
          /\ IsInjective(queue'[v][d])
          /\ \A q : q \in ToSet(queue'[v][d])
                       <=> q \in ToSet(queue[v][d]) /\ ~ (q = p /\ v = w /\ d = c)

\* Queueing adds the packet to one queue.
LEMMA AddQueueSteps ==
    ASSUME Typed, PlaceInv, NEW w \in Workers, NEW p \in Packets, NEW marker,
           AddQueue(w, p, marker),
           \A v \in Workers, d \in Classes : p \notin ToSet(queue[v][d])
    PROVE  \E c \in Classes :
              /\ c = (IF marker = NoModule THEN "plain" ELSE "priority")
              /\ queue' = [queue EXCEPT ![w][c] = Append(@, p)]
              /\ Joins(p, w, c)
<1>1. PICK c \in Classes : /\ c = (IF marker = NoModule THEN "plain" ELSE "priority")
                           /\ queue' = [queue EXCEPT ![w][c] = Append(@, p)]
  BY DEF AddQueue, Classes
<1>2. PICK s : s = queue[w][c]
  OBVIOUS
<1>3. PICK r : r = Append(s, p)
  OBVIOUS
<1>4. s \in Seq(Packets) /\ IsInjective(s) /\ p \notin ToSet(s)
  BY <1>2 DEF Typed, PlaceInv
<1>5. r \in Seq(Packets) /\ IsInjective(r) /\ ToSet(r) = ToSet(s) \cup {p}
  BY <1>3, <1>4, PushProperties
<1>6. queue' = [queue EXCEPT ![w][c] = r]
  BY <1>1, <1>2, <1>3
<1>7. queue' \in [Workers -> [Classes -> Seq(Packets)]]
  BY <1>5, <1>6 DEF Typed
<1>8. ASSUME NEW v \in Workers, NEW d \in Classes
      PROVE  /\ IsInjective(queue'[v][d])
             /\ \A q : q \in ToSet(queue'[v][d])
                          <=> q \in ToSet(queue[v][d]) \/ (q = p /\ v = w /\ d = c)
  <2>1. CASE v = w /\ d = c
    <3>1. queue'[v][d] = r
      BY <1>6, <2>1 DEF Typed
    <3>. QED
      BY <1>2, <1>5, <2>1, <3>1
  <2>2. CASE ~ (v = w /\ d = c)
    <3>1. queue'[v][d] = queue[v][d]
      BY <1>6, <2>2 DEF Typed
    <3>. QED
      BY <2>2, <3>1 DEF PlaceInv
  <2>. QED
    BY <2>1, <2>2
<1>9. Joins(p, w, c)
  BY <1>7, <1>8 DEF Joins
<1>. QED
  BY <1>1, <1>9

\* Taking hands the first packet of a queue to the worker.
LEMMA TakeSteps ==
    ASSUME Typed, PlaceInv, NEW w \in Workers, NEW c \in Classes, queue[w][c] # <<>>, Take(w, c)
    PROVE  \E p \in Packets :
              /\ p = Head(queue[w][c]) /\ p \in ToSet(queue[w][c])
              /\ queue' = [queue EXCEPT ![w][c] = Tail(@)]
              /\ Leaves(p, w, c)
              /\ worker' = [worker EXCEPT ![w] =
                               [pc |-> "chain", packet |-> p, next |-> 1,
                                seeking |-> resume[p] # NoModule]]
              /\ worker' \in [Workers -> WorkerState]
<1>1. PICK s : s = queue[w][c]
  OBVIOUS
<1>2. PICK r, p : r = Tail(s) /\ p = Head(s)
  OBVIOUS
<1>3. s \in Seq(Packets) /\ IsInjective(s) /\ s # <<>>
  BY <1>1 DEF Typed, PlaceInv
<1>4. /\ p \in Packets /\ p \in ToSet(s) /\ r \in Seq(Packets)
      /\ IsInjective(r) /\ ToSet(r) = ToSet(s) \ {p}
  BY <1>2, <1>3, PopProperties
<1>5. queue' = [queue EXCEPT ![w][c] = r]
  BY <1>1, <1>2 DEF Take
<1>6. queue' \in [Workers -> [Classes -> Seq(Packets)]]
  BY <1>4, <1>5 DEF Typed
<1>7. ASSUME NEW v \in Workers, NEW d \in Classes
      PROVE  /\ IsInjective(queue'[v][d])
             /\ \A q : q \in ToSet(queue'[v][d])
                          <=> q \in ToSet(queue[v][d]) /\ ~ (q = p /\ v = w /\ d = c)
  <2>1. CASE v = w /\ d = c
    <3>1. queue'[v][d] = r
      BY <1>5, <2>1 DEF Typed
    <3>. QED
      BY <1>1, <1>4, <2>1, <3>1
  <2>2. CASE ~ (v = w /\ d = c)
    <3>1. queue'[v][d] = queue[v][d]
      BY <1>5, <2>2 DEF Typed
    <3>. QED
      BY <2>2, <3>1 DEF PlaceInv
  <2>. QED
    BY <2>1, <2>2
<1>8. worker' = [worker EXCEPT ![w] = [pc |-> "chain", packet |-> p, next |-> 1,
                                       seeking |-> resume[p] # NoModule]]
  BY <1>1, <1>2 DEF Take
<1>9. worker' \in [Workers -> WorkerState]
  BY <1>4, <1>8 DEF Typed, WorkerState
<1>10. queue' = [queue EXCEPT ![w][c] = Tail(@)]
  BY DEF Take
<1>11. Leaves(p, w, c)
  BY <1>6, <1>7 DEF Leaves
<1>. QED
  BY <1>1, <1>2, <1>4, <1>8, <1>9, <1>10, <1>11

LEMMA FinishSteps ==
    ASSUME Typed, ChainInv, NEW w \in Workers, Finish(w)
    PROVE  /\ worker' \in [Workers -> WorkerState]
           /\ \A v \in Workers :
                 worker'[v].packet = IF v = w THEN NoPacket ELSE worker[v].packet
           /\ ChainInv'
<1>1. PICK idle : idle = Idle
  OBVIOUS
<1>2. idle \in WorkerState /\ idle.packet = NoPacket /\ idle.pc # "chain"
  BY <1>1 DEF Idle, WorkerState
<1>3. worker' = [worker EXCEPT ![w] = idle]
  BY <1>1 DEF Finish
<1>4. worker' \in [Workers -> WorkerState]
  BY <1>2, <1>3 DEF Typed
<1>5. \A v \in Workers : worker'[v] = IF v = w THEN idle ELSE worker[v]
  BY <1>3 DEF Typed
<1>6. ChainInv'
  BY <1>2, <1>5 DEF ChainInv
<1>. QED
  BY <1>2, <1>4, <1>5, <1>6

\* A worker in its chain has a packet.
LEMMA InHand ==
    ASSUME Typed, ChainInv, NEW w \in Workers, worker[w].pc = "chain"
    PROVE  worker[w].packet \in Packets
<1>1. worker[w].packet # NoPacket
  BY DEF ChainInv
<1>. QED
  BY <1>1 DEF Typed, WorkerState

\* A step that moves no packet keeps the places.
LEMMA StayPlaces ==
    ASSUME PlaceInv, UNCHANGED <<free, queue, kept>>,
           \A w \in Workers : worker'[w].packet = worker[w].packet
    PROVE  PlaceInv'
<1>1. \A q : \A z \in Places : At(q, z)' <=> At(q, z)
  <2>. SUFFICES ASSUME NEW q, NEW z \in Places
                PROVE  At(q, z)' <=> At(q, z)
    OBVIOUS
  <2>1. ASSUME NEW w \in Workers, z = <<"worker", w, NoModule>>
        PROVE  At(q, z)' <=> At(q, z)
    BY <2>1 DEF At
  <2>2. CASE z[1] # "worker"
    BY <2>2 DEF At
  <2>3. z[1] = "worker" => \E w \in Workers : z = <<"worker", w, NoModule>>
    BY DEF Places
  <2>. QED
    BY <2>1, <2>2, <2>3
<1>2. Places' = Places
  BY DEF Places, Workers, Taps, Modules
<1>3. \A q \in Packets : \E z \in Places : At(q, z)'
  BY <1>1 DEF PlaceInv
<1>4. \A q \in Packets : \A z, v \in Places : At(q, z)' /\ At(q, v)' => z = v
  BY <1>1 DEF PlaceInv
<1>. QED
  BY <1>2, <1>3, <1>4 DEF PlaceInv

-----------------------------------------------------------------------------
(* The moves, one lemma for each pair of places.                           *)

\* Capture and writeBackViaTap: from the pool to a queue.
LEMMA PoolToQueue ==
    ASSUME IInv, NEW w \in Workers, NEW p \in free, AddQueue(w, p, resume[p]),
           free' = free \ {p}, UNCHANGED <<enabled, worker, resume, kept>>
    PROVE  /\ IInv'
           /\ \E c \in Classes :
                 /\ c = (IF resume[p] = NoModule THEN "plain" ELSE "priority")
                 /\ Shift(p, <<"queue", w, c>>)
<1>1. p \in Packets
  BY DEF IInv, Typed
<1>2. /\ \A v \in Workers, d \in Classes : p \notin ToSet(queue[v][d])
      /\ \A v \in Workers : worker[v].packet # p
      /\ \A u \in Taps : p \notin ToSet(kept[u])
  BY <1>1, Elsewhere DEF IInv
<1>3. PICK c \in Classes : /\ c = (IF resume[p] = NoModule THEN "plain" ELSE "priority")
                           /\ Joins(p, w, c)
  <2>1. PICK m : m = resume[p]
    OBVIOUS
  <2>2. AddQueue(w, p, m)
    BY <2>1
  <2>. QED
    BY <1>1, <1>2, <2>1, <2>2, AddQueueSteps DEF IInv
<1>4. Shift(p, <<"queue", w, c>>)
  <2>1. \A v \in Workers, d \in Classes :
           <<"queue", w, c>> = <<"queue", v, d>> <=> v = w /\ d = c
    OBVIOUS
  <2>2. \A q \in Packets : \A v \in Workers, d \in Classes :
           q \in ToSet(queue'[v][d])
              <=> IF q = p THEN v = w /\ d = c ELSE q \in ToSet(queue[v][d])
    <3>. SUFFICES ASSUME NEW q \in Packets, NEW v \in Workers, NEW d \in Classes
                  PROVE  q \in ToSet(queue'[v][d])
                            <=> IF q = p THEN v = w /\ d = c ELSE q \in ToSet(queue[v][d])
      OBVIOUS
    <3>1. q \in ToSet(queue'[v][d]) <=> q \in ToSet(queue[v][d]) \/ (q = p /\ v = w /\ d = c)
      BY <1>3, Zenon DEF Joins
    <3>2. q = p => q \notin ToSet(queue[v][d])
      BY <1>2
    <3>. QED
      BY <3>1, <3>2
  <2>. QED
    BY <1>2, <2>1, <2>2 DEF Shift
<1>5. PlaceInv'
  <2>1. <<"queue", w, c>> \in Places
    BY PlaceKinds
  <2>. QED
    BY <1>1, <1>3, <1>4, <2>1, ShiftPlaces DEF IInv, PlaceInv, Joins
<1>6. Typed' /\ ChainInv'
  BY <1>3 DEF IInv, Typed, ChainInv, Joins
<1>. QED
  BY <1>3, <1>4, <1>5, <1>6 DEF IInv

\* A poll that finds a packet: from a queue to the worker.
LEMMA QueueToWorker ==
    ASSUME IInv, NEW w \in Workers, NEW c \in Classes, queue[w][c] # <<>>, Take(w, c),
           worker[w].pc # "chain", UNCHANGED <<enabled, free, resume, kept>>
    PROVE  /\ IInv'
           /\ \E p \in Packets :
                 /\ p = Head(queue[w][c]) /\ p \in ToSet(queue[w][c])
                 /\ Shift(p, <<"worker", w, NoModule>>)
                 /\ worker' = [worker EXCEPT ![w] = [pc |-> "chain", packet |-> p, next |-> 1,
                                                     seeking |-> resume[p] # NoModule]]
<1>1. PICK p \in Packets :
         /\ p = Head(queue[w][c]) /\ p \in ToSet(queue[w][c])
         /\ queue' = [queue EXCEPT ![w][c] = Tail(@)]
         /\ Leaves(p, w, c)
         /\ worker' = [worker EXCEPT ![w] = [pc |-> "chain", packet |-> p, next |-> 1,
                                             seeking |-> resume[p] # NoModule]]
         /\ worker' \in [Workers -> WorkerState]
  BY TakeSteps DEF IInv
<1>2. /\ p \notin free
      /\ \A v \in Workers, d \in Classes : p \in ToSet(queue[v][d]) => v = w /\ d = c
      /\ \A v \in Workers : worker[v].packet # p
      /\ \A u \in Taps : p \notin ToSet(kept[u])
  BY <1>1, Elsewhere DEF IInv
<1>3. \A v \in Workers : v # w => worker'[v] = worker[v]
  BY <1>1 DEF IInv, Typed
<1>4. worker'[w].packet = p /\ worker'[w].pc = "chain"
  BY <1>1 DEF IInv, Typed
<1>5. worker[w].packet = NoPacket
  BY DEF IInv, ChainInv
<1>6. Shift(p, <<"worker", w, NoModule>>)
  <2>1. \A q \in Packets : \A v \in Workers :
           q = worker'[v].packet
              <=> IF q = p THEN v = w ELSE q = worker[v].packet
    BY <1>2, <1>3, <1>4, <1>5, NullAssumption
  <2>2. \A q \in Packets : \A v \in Workers, d \in Classes :
           q \in ToSet(queue'[v][d])
              <=> IF q = p THEN FALSE ELSE q \in ToSet(queue[v][d])
    <3>. SUFFICES ASSUME NEW q \in Packets, NEW v \in Workers, NEW d \in Classes
                  PROVE  q \in ToSet(queue'[v][d])
                            <=> IF q = p THEN FALSE ELSE q \in ToSet(queue[v][d])
      OBVIOUS
    <3>1. q \in ToSet(queue'[v][d])
             <=> q \in ToSet(queue[v][d]) /\ ~ (q = p /\ v = w /\ d = c)
      BY <1>1, Zenon DEF Leaves
    <3>2. q = p /\ q \in ToSet(queue[v][d]) => v = w /\ d = c
      BY <1>2
    <3>. QED
      BY <3>1, <3>2
  <2>. QED
    BY <1>2, <2>1, <2>2 DEF Shift
<1>7. PlaceInv'
  <2>1. <<"worker", w, NoModule>> \in Places
    BY PlaceKinds
  <2>. QED
    BY <1>1, <1>6, <2>1, ShiftPlaces DEF IInv, PlaceInv, Leaves
<1>8. ChainInv'
  BY <1>1, <1>3, <1>4, NullAssumption DEF IInv, ChainInv
<1>. QED
  <2>1. IInv'
    BY <1>1, <1>7, <1>8 DEF IInv, Typed, Leaves
  <2>. QED
    BY <1>1, <1>6, <2>1

\* Consumed, or left over at the end of the chain: from the worker to the pool.
LEMMA WorkerToPool ==
    ASSUME IInv, NEW w \in Workers, worker[w].pc = "chain", Release(worker[w].packet),
           Finish(w), UNCHANGED <<enabled, queue, kept>>
    PROVE  IInv' /\ Shift(worker[w].packet, <<"pool", NoModule, NoModule>>)
<1>1. PICK p \in Packets : p = worker[w].packet
  BY InHand DEF IInv
<1>2. /\ \A v \in Workers, d \in Classes : p \notin ToSet(queue[v][d])
      /\ \A v \in Workers : worker[v].packet = p => v = w
      /\ \A u \in Taps : p \notin ToSet(kept[u])
  BY <1>1, Elsewhere DEF IInv
<1>3. /\ worker' \in [Workers -> WorkerState]
      /\ \A v \in Workers :
            worker'[v].packet = IF v = w THEN NoPacket ELSE worker[v].packet
      /\ ChainInv'
  BY FinishSteps DEF IInv
<1>4. free' = free \cup {p} /\ resume' = [resume EXCEPT ![p] = NoModule]
  BY <1>1 DEF Release
<1>5. Shift(p, <<"pool", NoModule, NoModule>>)
  <2>1. \A q \in Packets : \A v \in Workers :
           q = worker'[v].packet <=> IF q = p THEN FALSE ELSE q = worker[v].packet
    BY <1>1, <1>2, <1>3, NullAssumption
  <2>. QED
    BY <1>2, <1>4, <2>1 DEF Shift
<1>6. PlaceInv'
  BY <1>5, PlaceKinds, ShiftPlaces DEF IInv, PlaceInv
<1>7. Typed'
  BY <1>3, <1>4 DEF IInv, Typed
<1>. QED
  BY <1>1, <1>3, <1>5, <1>6, <1>7 DEF IInv

\* A module that moves the packet to another worker.
LEMMA WorkerToQueue ==
    ASSUME IInv, NEW w \in Workers, NEW v \in Workers, worker[w].pc = "chain",
           NEW marker, AddQueue(v, worker[w].packet, marker), Finish(w),
           UNCHANGED <<enabled, free, resume, kept>>
    PROVE  /\ IInv'
           /\ \E c \in Classes :
                 /\ c = (IF marker = NoModule THEN "plain" ELSE "priority")
                 /\ Shift(worker[w].packet, <<"queue", v, c>>)
<1>1. PICK p \in Packets : p = worker[w].packet
  BY InHand DEF IInv
<1>2. /\ p \notin free
      /\ \A x \in Workers, d \in Classes : p \notin ToSet(queue[x][d])
      /\ \A x \in Workers : worker[x].packet = p => x = w
      /\ \A u \in Taps : p \notin ToSet(kept[u])
  BY <1>1, Elsewhere DEF IInv
<1>3. PICK c \in Classes : /\ c = (IF marker = NoModule THEN "plain" ELSE "priority")
                           /\ Joins(p, v, c)
  <2>1. AddQueue(v, p, marker)
    BY <1>1
  <2>. QED
    BY <1>2, <2>1, AddQueueSteps DEF IInv
<1>4. /\ worker' \in [Workers -> WorkerState]
      /\ \A x \in Workers :
            worker'[x].packet = IF x = w THEN NoPacket ELSE worker[x].packet
      /\ ChainInv'
  BY FinishSteps DEF IInv
<1>5. Shift(p, <<"queue", v, c>>)
  <2>1. \A x \in Workers, d \in Classes :
           <<"queue", v, c>> = <<"queue", x, d>> <=> x = v /\ d = c
    OBVIOUS
  <2>2. \A q \in Packets : \A x \in Workers, d \in Classes :
           q \in ToSet(queue'[x][d])
              <=> IF q = p THEN x = v /\ d = c ELSE q \in ToSet(queue[x][d])
    <3>. SUFFICES ASSUME NEW q \in Packets, NEW x \in Workers, NEW d \in Classes
                  PROVE  q \in ToSet(queue'[x][d])
                            <=> IF q = p THEN x = v /\ d = c ELSE q \in ToSet(queue[x][d])
      OBVIOUS
    <3>1. q \in ToSet(queue'[x][d]) <=> q \in ToSet(queue[x][d]) \/ (q = p /\ x = v /\ d = c)
      BY <1>3, Zenon DEF Joins
    <3>2. q = p => q \notin ToSet(queue[x][d])
      BY <1>2
    <3>. QED
      BY <3>1, <3>2
  <2>3. \A q \in Packets : \A x \in Workers :
           q = worker'[x].packet <=> IF q = p THEN FALSE ELSE q = worker[x].packet
    BY <1>1, <1>2, <1>4, NullAssumption
  <2>. QED
    BY <1>2, <2>1, <2>2, <2>3 DEF Shift
<1>6. PlaceInv'
  <2>1. <<"queue", v, c>> \in Places
    BY PlaceKinds
  <2>. QED
    BY <1>3, <1>5, <2>1, ShiftPlaces DEF IInv, PlaceInv, Joins
<1>7. Typed'
  BY <1>3, <1>4 DEF IInv, Typed, Joins
<1>. QED
  BY <1>1, <1>3, <1>4, <1>5, <1>6, <1>7 DEF IInv

\* A tap's module that keeps the packet.
LEMMA WorkerToTap ==
    ASSUME IInv, NEW w \in Workers, NEW t \in Taps, worker[w].pc = "chain",
           kept' = [kept EXCEPT ![t] = Append(@, worker[w].packet)], Finish(w),
           UNCHANGED <<enabled, free, queue, resume>>
    PROVE  IInv' /\ Shift(worker[w].packet, <<"tap", t, NoModule>>)
<1>1. PICK p \in Packets : p = worker[w].packet
  BY InHand DEF IInv
<1>2. /\ p \notin free
      /\ \A x \in Workers, d \in Classes : p \notin ToSet(queue[x][d])
      /\ \A x \in Workers : worker[x].packet = p => x = w
      /\ \A u \in Taps : p \notin ToSet(kept[u])
  BY <1>1, Elsewhere DEF IInv
<1>3. PICK s : s = kept[t]
  OBVIOUS
<1>4. PICK r : r = Append(s, p)
  OBVIOUS
<1>5. s \in Seq(Packets) /\ IsInjective(s) /\ p \notin ToSet(s)
  BY <1>2, <1>3 DEF IInv, Typed, PlaceInv
<1>6. r \in Seq(Packets) /\ IsInjective(r) /\ ToSet(r) = ToSet(s) \cup {p}
  BY <1>4, <1>5, PushProperties
<1>7. kept' = [kept EXCEPT ![t] = r]
  BY <1>1, <1>3, <1>4
<1>8. kept' \in [Taps -> Seq(Packets)] /\ kept'[t] = r
  BY <1>6, <1>7 DEF IInv, Typed
<1>9. \A u \in Taps : u # t => kept'[u] = kept[u]
  BY <1>7 DEF IInv, Typed
<1>10. /\ worker' \in [Workers -> WorkerState]
       /\ \A x \in Workers :
             worker'[x].packet = IF x = w THEN NoPacket ELSE worker[x].packet
       /\ ChainInv'
  BY FinishSteps DEF IInv
<1>11. Shift(p, <<"tap", t, NoModule>>)
  <2>1. \A q \in Packets : \A u \in Taps :
           q \in ToSet(kept'[u]) <=> IF q = p THEN u = t ELSE q \in ToSet(kept[u])
    <3>. SUFFICES ASSUME NEW q \in Packets, NEW u \in Taps
                  PROVE  q \in ToSet(kept'[u]) <=> IF q = p THEN u = t ELSE q \in ToSet(kept[u])
      OBVIOUS
    <3>1. CASE u = t
      BY <1>3, <1>5, <1>6, <1>8, <3>1
    <3>2. CASE u # t
      <4>1. kept'[u] = kept[u]
        BY <1>9, <3>2
      <4>2. q = p => q \notin ToSet(kept[u])
        BY <1>2
      <4>. QED
        BY <3>2, <4>1, <4>2
    <3>. QED
      BY <3>1, <3>2
  <2>2. \A q \in Packets : \A x \in Workers :
           q = worker'[x].packet <=> IF q = p THEN FALSE ELSE q = worker[x].packet
    BY <1>1, <1>2, <1>10, NullAssumption
  <2>. QED
    BY <1>2, <2>1, <2>2 DEF Shift
<1>12. PlaceInv'
  <2>1. \A u \in Taps : IsInjective(kept'[u])
    BY <1>6, <1>8, <1>9 DEF IInv, PlaceInv
  <2>. QED
    BY <1>11, <2>1, PlaceKinds, ShiftPlaces DEF IInv, PlaceInv
<1>13. Typed'
  BY <1>8, <1>10 DEF IInv, Typed
<1>. QED
  BY <1>1, <1>10, <1>11, <1>12, <1>13 DEF IInv

\* resumePostTap: from a tap's module to a queue of its worker.
LEMMA TapToQueue ==
    ASSUME IInv, NEW t \in Taps, ResumePostTap(t)
    PROVE  /\ IInv'
           /\ \E p \in Packets :
                 /\ p = Head(kept[t]) /\ p \in ToSet(kept[t])
                 /\ resume' = [resume EXCEPT ![p] = t]
                 /\ Shift(p, <<"queue", Home(t), "priority">>)
<1>1. PICK s : s = kept[t]
  OBVIOUS
<1>2. PICK r, p : r = Tail(s) /\ p = Head(s)
  OBVIOUS
<1>3. s \in Seq(Packets) /\ IsInjective(s) /\ s # <<>>
  BY <1>1 DEF IInv, Typed, PlaceInv, ResumePostTap
<1>4. /\ p \in Packets /\ p \in ToSet(s) /\ r \in Seq(Packets)
      /\ IsInjective(r) /\ ToSet(r) = ToSet(s) \ {p}
  BY <1>2, <1>3, PopProperties
<1>5. /\ kept' = [kept EXCEPT ![t] = r]
      /\ resume' = [resume EXCEPT ![p] = t]
      /\ AddQueue(Home(t), p, t)
      /\ UNCHANGED <<enabled, free, worker>>
  BY <1>1, <1>2 DEF ResumePostTap
<1>6. kept' \in [Taps -> Seq(Packets)] /\ kept'[t] = r
  BY <1>4, <1>5 DEF IInv, Typed
<1>7. \A u \in Taps : u # t => kept'[u] = kept[u]
  BY <1>5 DEF IInv, Typed
<1>8. /\ p \notin free
      /\ \A x \in Workers, d \in Classes : p \notin ToSet(queue[x][d])
      /\ \A x \in Workers : worker[x].packet # p
      /\ \A u \in Taps : p \in ToSet(kept[u]) => u = t
  BY <1>1, <1>4, Elsewhere DEF IInv
<1>9. PICK v \in Workers : v = Home(t)
  BY HomeIsWorker
<1>10. PICK c \in Classes : c = "priority" /\ Joins(p, v, c)
  <2>1. t # NoModule
    BY NullAssumption DEF Taps
  <2>. QED
    BY <2>1, <1>4, <1>5, <1>8, <1>9, AddQueueSteps DEF IInv
<1>11. Shift(p, <<"queue", v, c>>)
  <2>1. \A x \in Workers, d \in Classes :
           <<"queue", v, c>> = <<"queue", x, d>> <=> x = v /\ d = c
    OBVIOUS
  <2>2. \A q \in Packets : \A x \in Workers, d \in Classes :
           q \in ToSet(queue'[x][d])
              <=> IF q = p THEN x = v /\ d = c ELSE q \in ToSet(queue[x][d])
    <3>. SUFFICES ASSUME NEW q \in Packets, NEW x \in Workers, NEW d \in Classes
                  PROVE  q \in ToSet(queue'[x][d])
                            <=> IF q = p THEN x = v /\ d = c ELSE q \in ToSet(queue[x][d])
      OBVIOUS
    <3>1. q \in ToSet(queue'[x][d]) <=> q \in ToSet(queue[x][d]) \/ (q = p /\ x = v /\ d = c)
      BY <1>10, Zenon DEF Joins
    <3>2. q = p => q \notin ToSet(queue[x][d])
      BY <1>8
    <3>. QED
      BY <3>1, <3>2
  <2>3. \A q \in Packets : \A u \in Taps :
           q \in ToSet(kept'[u]) <=> IF q = p THEN FALSE ELSE q \in ToSet(kept[u])
    <3>. SUFFICES ASSUME NEW q \in Packets, NEW u \in Taps
                  PROVE  q \in ToSet(kept'[u]) <=> IF q = p THEN FALSE ELSE q \in ToSet(kept[u])
      OBVIOUS
    <3>1. CASE u = t
      BY <1>1, <1>4, <1>6, <3>1
    <3>2. CASE u # t
      BY <1>7, <1>8, <3>2
    <3>. QED
      BY <3>1, <3>2
  <2>. QED
    BY <1>5, <1>8, <2>1, <2>2, <2>3 DEF Shift
<1>12. PlaceInv'
  <2>1. <<"queue", v, c>> \in Places
    BY PlaceKinds
  <2>2. \A u \in Taps : IsInjective(kept'[u])
    BY <1>4, <1>6, <1>7 DEF IInv, PlaceInv
  <2>. QED
    BY <1>4, <1>10, <1>11, <2>1, <2>2, ShiftPlaces DEF IInv, PlaceInv, Joins
<1>13. Typed'
  <2>1. t \in Modules
    BY DEF Taps
  <2>. QED
    BY <1>4, <1>5, <1>6, <1>10, <2>1 DEF IInv, Typed, Joins
<1>14. ChainInv'
  BY <1>5 DEF IInv, ChainInv
<1>. QED
  <2>1. IInv'
    BY <1>12, <1>13, <1>14 DEF IInv
  <2>2. p = Head(kept[t]) /\ p \in ToSet(kept[t])
    BY <1>1, <1>2, <1>4
  <2>3. Shift(p, <<"queue", Home(t), "priority">>)
    BY <1>9, <1>10, <1>11
  <2>. QED
    BY <1>4, <1>5, <2>1, <2>2, <2>3

\* Steps of a worker that keep its packet: passing over a module and an empty poll.
LEMMA WorkerStays ==
    ASSUME IInv, NEW w \in Workers, NEW s \in WorkerState,
           worker' = [worker EXCEPT ![w] = s], s.packet = worker[w].packet,
           s.pc = "chain" <=> worker[w].pc = "chain",
           resume' \in [Packets -> Modules \cup {NoModule}],
           UNCHANGED <<enabled, free, queue, kept>>
    PROVE  IInv'
<1>1. \A v \in Workers : worker'[v] = IF v = w THEN s ELSE worker[v]
  BY DEF IInv, Typed
<1>2. worker' \in [Workers -> WorkerState]
  BY DEF IInv, Typed
<1>3. \A v \in Workers : worker'[v].packet = worker[v].packet
  BY <1>1
<1>4. PlaceInv'
  BY <1>3, StayPlaces DEF IInv
<1>5. ChainInv'
  BY <1>1 DEF IInv, ChainInv
<1>. QED
  BY <1>2, <1>4, <1>5 DEF IInv, Typed

-----------------------------------------------------------------------------
(* The invariant.                                                          *)

LEMMA InitInv ==
    ASSUME Init
    PROVE  IInv
<1>1. Idle \in WorkerState /\ Idle.packet = NoPacket /\ Idle.pc # "chain"
  BY DEF Idle, WorkerState
<1>2. Typed
  BY <1>1 DEF Init, Typed
<1>3. ChainInv
  BY <1>1 DEF Init, ChainInv
<1>4. IsInjective(<<>>) /\ ToSet(<<>>) = {}
  BY DEF IsInjective, ToSet
<1>5. /\ \A w \in Workers, c \in Classes : queue[w][c] = <<>>
      /\ \A t \in Taps : kept[t] = <<>>
      /\ \A w \in Workers : worker[w].packet = NoPacket
      /\ free = Packets
  BY <1>1 DEF Init
<1>6. \A p \in Packets : \A x \in Places : At(p, x) <=> x = <<"pool", NoModule, NoModule>>
  <2>. SUFFICES ASSUME NEW p \in Packets, NEW x \in Places
                PROVE  At(p, x) <=> x = <<"pool", NoModule, NoModule>>
    OBVIOUS
  <2>1. CASE x = <<"pool", NoModule, NoModule>>
    BY <1>5, <2>1 DEF At
  <2>2. ASSUME NEW w \in Workers, NEW c \in Classes, x = <<"queue", w, c>>
        PROVE  ~ At(p, x)
    BY <1>4, <1>5, <2>2 DEF At
  <2>3. ASSUME NEW w \in Workers, x = <<"worker", w, NoModule>>
        PROVE  ~ At(p, x)
    BY <1>5, <2>3, NullAssumption DEF At
  <2>4. ASSUME NEW t \in Taps, x = <<"tap", t, NoModule>>
        PROVE  ~ At(p, x)
    BY <1>4, <1>5, <2>4 DEF At
  <2>. QED
    BY <2>1, <2>2, <2>3, <2>4 DEF Places
<1>7. PlaceInv
  BY <1>4, <1>5, <1>6, PlaceKinds DEF PlaceInv
<1>. QED
  BY <1>2, <1>3, <1>7 DEF IInv

\* What the threads do at a module, or at the end of the chain.
LEMMA SeekKeeps ==
    ASSUME IInv, NEW w \in Workers, Seek(w)
    PROVE  IInv'
<1>1. /\ AtModule(w) /\ worker[w].pc = "chain" /\ worker[w].packet \in Packets
      /\ worker[w] \in WorkerState
  BY InHand DEF IInv, Typed, Seek, AtModule
<1>2. PICK b \in BOOLEAN : b = ~ (Module(w) = resume[worker[w].packet])
  OBVIOUS
<1>3. PICK s : s = [pc |-> "chain", packet |-> worker[w].packet,
                    next |-> worker[w].next + 1, seeking |-> b]
  OBVIOUS
<1>4. s \in WorkerState /\ s.packet = worker[w].packet /\ s.pc = "chain"
  BY <1>1, <1>3 DEF WorkerState
<1>5. worker' = [worker EXCEPT ![w] = s]
  <2>1. worker' = [worker EXCEPT ![w].next = @ + 1, ![w].seeking = b]
    BY <1>2 DEF Seek
  <2>2. [worker[w] EXCEPT !.next = @ + 1, !.seeking = b] = s
    <3>1. PICK r : r = [worker[w] EXCEPT !.next = @ + 1]
      OBVIOUS
    <3>2. r = [pc |-> "chain", packet |-> worker[w].packet,
               next |-> worker[w].next + 1, seeking |-> worker[w].seeking]
      BY <1>1, <3>1 DEF WorkerState
    <3>3. [r EXCEPT !.seeking = b] = s
      BY <1>3, <3>2
    <3>. QED
      BY <1>1, <3>1, <3>3
  <2>. QED
    BY <2>1, <2>2 DEF IInv, Typed
<1>6. resume' \in [Packets -> Modules \cup {NoModule}]
  BY <1>1 DEF IInv, Typed, Seek
<1>. QED
  BY <1>1, <1>4, <1>5, <1>6, WorkerStays DEF Seek

LEMMA PassByKeeps ==
    ASSUME IInv, NEW w \in Workers, PassBy(w)
    PROVE  IInv'
<1>1. worker[w].pc = "chain" /\ worker[w] \in WorkerState
  BY DEF IInv, Typed, PassBy, Offer, AtModule
<1>2. PICK s : s = [worker[w] EXCEPT !.next = @ + 1]
  OBVIOUS
<1>3. s \in WorkerState /\ s.packet = worker[w].packet /\ s.pc = "chain"
  BY <1>1, <1>2 DEF WorkerState
<1>4. worker' = [worker EXCEPT ![w] = s]
  BY <1>2 DEF PassBy
<1>5. resume' \in [Packets -> Modules \cup {NoModule}]
  BY DEF IInv, Typed, PassBy
<1>. QED
  BY <1>1, <1>3, <1>4, <1>5, WorkerStays DEF PassBy

LEMMA PollKeeps ==
    ASSUME IInv, NEW w \in Workers, PollPriority(w) \/ PollPlain(w)
    PROVE  IInv'
<1>1. worker[w] \in WorkerState /\ worker[w].pc # "chain" /\ worker[w].packet = NoPacket
  BY DEF IInv, Typed, ChainInv, PollPriority, PollPlain
<1>2. resume' \in [Packets -> Modules \cup {NoModule}]
  BY DEF IInv, Typed, PollPriority, PollPlain
<1>3. CASE PollPriority(w) /\ queue[w]["priority"] # <<>>
  <2>1. Take(w, "priority") /\ UNCHANGED <<enabled, free, resume, kept>>
    BY <1>3 DEF PollPriority
  <2>. QED
    BY <1>1, <1>3, <2>1, QueueToWorker DEF Classes
<1>4. CASE PollPriority(w) /\ queue[w]["priority"] = <<>>
  <2>1. PICK s : s = [worker[w] EXCEPT !.pc = "plain"]
    OBVIOUS
  <2>2. s \in WorkerState /\ s.packet = worker[w].packet /\ s.pc # "chain"
    BY <1>1, <2>1 DEF WorkerState
  <2>3. worker' = [worker EXCEPT ![w] = s] /\ UNCHANGED <<enabled, free, queue, kept>>
    BY <1>4, <2>1 DEF PollPriority
  <2>. QED
    BY <1>1, <1>2, <2>2, <2>3, WorkerStays
<1>5. CASE PollPlain(w) /\ queue[w]["plain"] # <<>>
  <2>1. Take(w, "plain") /\ UNCHANGED <<enabled, free, resume, kept>>
    BY <1>5 DEF PollPlain
  <2>. QED
    BY <1>1, <1>5, <2>1, QueueToWorker DEF Classes
<1>6. CASE PollPlain(w) /\ queue[w]["plain"] = <<>>
  <2>1. PICK s : s = Idle
    OBVIOUS
  <2>2. s \in WorkerState /\ s.packet = worker[w].packet /\ s.pc # "chain"
    BY <1>1, <2>1 DEF WorkerState, Idle
  <2>3. worker' = [worker EXCEPT ![w] = s] /\ UNCHANGED <<enabled, free, queue, kept>>
    BY <1>6, <2>1 DEF PollPlain, Finish
  <2>. QED
    BY <1>1, <1>2, <2>2, <2>3, WorkerStays
<1>. QED
  BY <1>3, <1>4, <1>5, <1>6

LEMMA LeaveKeeps ==
    ASSUME IInv, NEW w \in Workers,
           Consume(w) \/ ChainEnd(w) \/ Passthrough(w) \/ Keep(w)
    PROVE  IInv'
<1>1. worker[w].pc = "chain"
  BY DEF Consume, ChainEnd, Passthrough, Keep, Offer, AtModule
<1>2. CASE Consume(w) \/ ChainEnd(w)
  BY <1>1, <1>2, WorkerToPool DEF Consume, ChainEnd
<1>3. CASE Passthrough(w)
  <2>1. AtModule(w) /\ Kind[Module(w)] = "pass"
    BY <1>3 DEF Passthrough, Offer
  <2>2. Module(w) \in {m \in Modules : Kind[m] = "pass"}
    BY <2>1, ModuleType DEF IInv
  <2>3. PICK v \in Workers : v = <<Target[Module(w)], "out">>
    BY <2>2, KindAssumption DEF Workers
  <2>4. PICK marker : marker = resume[worker[w].packet]
    OBVIOUS
  <2>5. AddQueue(v, worker[w].packet, marker) /\ Finish(w) /\ UNCHANGED <<enabled, free, resume, kept>>
    BY <1>3, <2>3, <2>4 DEF Passthrough
  <2>. QED
    BY <1>1, <2>5, WorkerToQueue
<1>4. CASE Keep(w)
  <2>1. AtModule(w) /\ Kind[Module(w)] = "tap"
    BY <1>4 DEF Keep, Offer
  <2>2. PICK t \in Taps : t = Module(w)
    BY <2>1, ModuleType DEF IInv, Taps
  <2>3. /\ kept' = [kept EXCEPT ![t] = Append(@, worker[w].packet)]
        /\ Finish(w) /\ UNCHANGED <<enabled, free, queue, resume>>
    BY <1>4, <2>2 DEF Keep
  <2>. QED
    BY <1>1, <2>3, WorkerToTap
<1>. QED
  BY <1>2, <1>3, <1>4

LEMMA StartKeeps ==
    ASSUME IInv,
           \/ \E a \in Adapters : SetFlagEnabled(a)
           \/ \E a \in Adapters, p \in Packets : Capture(a, p)
           \/ \E t \in Taps, p \in Packets : WriteBackViaTap(t, p)
    PROVE  IInv'
<1>1. ASSUME NEW a \in Adapters, SetFlagEnabled(a)
      PROVE  IInv'
  <2>1. PlaceInv'
    BY <1>1, StayPlaces DEF IInv, SetFlagEnabled
  <2>2. Typed' /\ ChainInv'
    BY <1>1 DEF IInv, Typed, ChainInv, SetFlagEnabled
  <2>. QED
    BY <2>1, <2>2 DEF IInv
<1>2. ASSUME NEW a \in Adapters, NEW p \in Packets, Capture(a, p)
      PROVE  IInv'
  <2>1. PICK w \in Workers : w = <<a, "in">>
    BY DEF Workers
  <2>2. /\ AddQueue(w, p, resume[p]) /\ p \in free /\ free' = free \ {p}
        /\ UNCHANGED <<enabled, worker, resume, kept>>
    BY <1>2, <2>1 DEF Capture
  <2>. QED
    BY <2>2, PoolToQueue
<1>3. ASSUME NEW t \in Taps, NEW p \in Packets, WriteBackViaTap(t, p)
      PROVE  IInv'
  <2>1. PICK w \in Workers : w = <<Home(t)[1], "out">>
    BY HomeIsWorker DEF Workers
  <2>2. /\ AddQueue(w, p, resume[p]) /\ p \in free /\ free' = free \ {p}
        /\ UNCHANGED <<enabled, worker, resume, kept>>
    BY <1>3, <2>1 DEF WriteBackViaTap
  <2>. QED
    BY <2>2, PoolToQueue
<1>. QED
  BY <1>1, <1>2, <1>3

LEMMA Inductive ==
    ASSUME IInv, [Next]_vars
    PROVE  IInv'
<1>1. CASE UNCHANGED vars
  <2>1. PlaceInv'
    BY <1>1, StayPlaces DEF IInv, vars
  <2>2. Typed' /\ ChainInv'
    BY <1>1 DEF IInv, Typed, ChainInv, vars
  <2>. QED
    BY <2>1, <2>2 DEF IInv
<1>2. ASSUME NEW w \in Workers, Work(w)
      PROVE  IInv'
  BY <1>2, PollKeeps, SeekKeeps, PassByKeeps, LeaveKeeps DEF Work
<1>3. ASSUME NEW t \in Taps, ResumePostTap(t)
      PROVE  IInv'
  BY <1>3, TapToQueue
<1>. QED
  BY <1>1, <1>2, <1>3, StartKeeps DEF Next

LEMMA Invariance == Spec => []IInv
<1>1. Init => IInv
  BY InitInv
<1>2. IInv /\ [Next]_vars => IInv'
  BY Inductive
<1>. QED
  BY <1>1, <1>2, PTL DEF Spec

-----------------------------------------------------------------------------
(* The theorems.                                                           *)

\* Every packet is in exactly one place: the pool, a position of one queue, the
\* hands of one worker, or a position among those one tap's module keeps.
THEOREM PacketsInOnePlace == Spec => []OnePlace
<1>1. IInv => OnePlace
  <2>. SUFFICES ASSUME IInv, NEW p \in Packets
                PROVE  \E x : Whereabouts(p) = {x}
    BY FS_Singleton DEF OnePlace
  <2>1. Whereabouts(p)
           = (IF p \in free THEN {"pool"} ELSE {}) \cup InQueues(p) \cup InHands(p) \cup InTaps(p)
    <3>1. {"pool" : x \in {p} \cap free} = IF p \in free THEN {"pool"} ELSE {}
      OBVIOUS
    <3>. QED
      BY <3>1 DEF Whereabouts
  <2>2. /\ \A x \in InQueues(p) : \E w \in Workers, c \in Classes : \E i \in DOMAIN queue[w][c] :
              x = <<<<w, c>>, i>> /\ queue[w][c][i] = p
        /\ \A w \in Workers, c \in Classes : \A i \in DOMAIN queue[w][c] :
              queue[w][c][i] = p => <<<<w, c>>, i>> \in InQueues(p)
    <3>1. \A x \in InQueues(p) : \E y \in Workers \X Classes : \E i \in DOMAIN queue[y[1]][y[2]] :
             x = <<y, i>> /\ queue[y[1]][y[2]][i] = p
      BY DEF InQueues
    <3>2. \A y \in Workers \X Classes : \A i \in DOMAIN queue[y[1]][y[2]] :
             queue[y[1]][y[2]][i] = p => <<y, i>> \in InQueues(p)
      BY DEF InQueues
    <3>3. \A w \in Workers, c \in Classes :
             <<w, c>> \in Workers \X Classes /\ <<w, c>>[1] = w /\ <<w, c>>[2] = c
      OBVIOUS
    <3>4. \A y \in Workers \X Classes : \E w \in Workers, c \in Classes : y = <<w, c>>
      OBVIOUS
    <3>5. ASSUME NEW w \in Workers, NEW c \in Classes, NEW i \in DOMAIN queue[w][c],
                 queue[w][c][i] = p
          PROVE  <<<<w, c>>, i>> \in InQueues(p)
      <4>1. PICK y : y = <<w, c>>
        OBVIOUS
      <4>2. y \in Workers \X Classes /\ y[1] = w /\ y[2] = c
        BY <3>3, <4>1
      <4>. QED
        BY <3>2, <3>5, <4>1, <4>2
    <3>6. ASSUME NEW x \in InQueues(p)
          PROVE  \E w \in Workers, c \in Classes : \E i \in DOMAIN queue[w][c] :
                    x = <<<<w, c>>, i>> /\ queue[w][c][i] = p
      <4>1. PICK y \in Workers \X Classes, w \in Workers, c \in Classes :
               /\ \E i \in DOMAIN queue[y[1]][y[2]] : x = <<y, i>> /\ queue[y[1]][y[2]][i] = p
               /\ y = <<w, c>> /\ y[1] = w /\ y[2] = c
        BY <3>1, <3>3, <3>4
      <4>. QED
        BY <4>1
    <3>. QED
      BY <3>5, <3>6
  <2>3. /\ \A x \in InTaps(p) : \E t \in Taps : \E i \in DOMAIN kept[t] :
              x = <<t, i>> /\ kept[t][i] = p
        /\ \A t \in Taps : \A i \in DOMAIN kept[t] : kept[t][i] = p => <<t, i>> \in InTaps(p)
    BY DEF InTaps
  <2>4. \A w \in Workers, c \in Classes :
           p \in ToSet(queue[w][c]) <=> \E i \in DOMAIN queue[w][c] : queue[w][c][i] = p
    BY DEF ToSet
  <2>5. \A t \in Taps : p \in ToSet(kept[t]) <=> \E i \in DOMAIN kept[t] : kept[t][i] = p
    BY DEF ToSet
  <2>6. CASE p \in free
    <3>1. /\ \A v \in Workers, d \in Classes : p \notin ToSet(queue[v][d])
          /\ \A v \in Workers : worker[v].packet # p
          /\ \A u \in Taps : p \notin ToSet(kept[u])
      BY <2>6, Elsewhere DEF IInv
    <3>2. InQueues(p) = {} /\ InHands(p) = {} /\ InTaps(p) = {}
      BY <2>2, <2>3, <2>4, <2>5, <3>1 DEF InHands
    <3>. QED
      BY <2>1, <2>6, <3>2
  <2>7. ASSUME NEW w \in Workers, NEW c \in Classes, p \in ToSet(queue[w][c])
         PROVE  \E x : Whereabouts(p) = {x}
    <3>1. /\ p \notin free
          /\ \A v \in Workers, d \in Classes : p \in ToSet(queue[v][d]) => v = w /\ d = c
          /\ \A v \in Workers : worker[v].packet # p
          /\ \A u \in Taps : p \notin ToSet(kept[u])
      BY <2>7, Elsewhere DEF IInv
    <3>2. InHands(p) = {} /\ InTaps(p) = {}
      BY <2>3, <2>5, <3>1 DEF InHands
    <3>3. PICK i \in DOMAIN queue[w][c] : queue[w][c][i] = p
      BY <2>4, <2>7
    <3>4. ASSUME NEW v \in Workers, NEW d \in Classes, NEW k \in DOMAIN queue[v][d],
                 queue[v][d][k] = p
          PROVE  v = w /\ d = c /\ k = i
      <4>1. v = w /\ d = c
        BY <2>4, <3>1, <3>4
      <4>. QED
        BY <3>3, <3>4, <4>1 DEF IInv, PlaceInv, IsInjective
    <3>5. InQueues(p) = {<<<<w, c>>, i>>}
      BY <2>2, <3>3, <3>4
    <3>. QED
      BY <2>1, <3>1, <3>2, <3>5
  <2>8. ASSUME NEW w \in Workers, worker[w].packet = p
         PROVE  \E x : Whereabouts(p) = {x}
    <3>1. /\ p \notin free
          /\ \A v \in Workers, d \in Classes : p \notin ToSet(queue[v][d])
          /\ \A v \in Workers : worker[v].packet = p => v = w
          /\ \A u \in Taps : p \notin ToSet(kept[u])
      BY <2>8, Elsewhere DEF IInv
    <3>2. InQueues(p) = {} /\ InTaps(p) = {}
      BY <2>2, <2>3, <2>4, <2>5, <3>1
    <3>3. InHands(p) = {w}
      BY <2>8, <3>1 DEF InHands
    <3>. QED
      BY <2>1, <3>1, <3>2, <3>3
  <2>9. ASSUME NEW t \in Taps, p \in ToSet(kept[t])
         PROVE  \E x : Whereabouts(p) = {x}
    <3>1. /\ p \notin free
          /\ \A v \in Workers, d \in Classes : p \notin ToSet(queue[v][d])
          /\ \A v \in Workers : worker[v].packet # p
          /\ \A u \in Taps : p \in ToSet(kept[u]) => u = t
      BY <2>9, Elsewhere DEF IInv
    <3>2. InQueues(p) = {} /\ InHands(p) = {}
      BY <2>2, <2>4, <3>1 DEF InHands
    <3>3. PICK i \in DOMAIN kept[t] : kept[t][i] = p
      BY <2>5, <2>9
    <3>4. ASSUME NEW u \in Taps, NEW k \in DOMAIN kept[u], kept[u][k] = p
          PROVE  u = t /\ k = i
      <4>1. u = t
        BY <2>5, <3>1, <3>4
      <4>. QED
        BY <3>3, <3>4, <4>1 DEF IInv, PlaceInv, IsInjective
    <3>5. InTaps(p) = {<<t, i>>}
      BY <2>3, <3>3, <3>4
    <3>. QED
      BY <2>1, <3>1, <3>2, <3>5
  <2>10. \/ p \in free
         \/ \E w \in Workers, c \in Classes : p \in ToSet(queue[w][c])
         \/ \E w \in Workers : worker[w].packet = p
         \/ \E t \in Taps : p \in ToSet(kept[t])
    <3>1. PICK x \in Places : At(p, x)
      BY DEF IInv, PlaceInv
    <3>. QED
      BY <3>1 DEF Places, At
  <2>. QED
    BY <2>6, <2>7, <2>8, <2>9, <2>10
<1>. QED
  BY <1>1, Invariance, PTL

-----------------------------------------------------------------------------
(* The order in which the modules see a packet.                            *)

\* Nothing about the packets other than p changes.
Rest(p) ==
    /\ \A q \in Packets : q # p => trail'[q] = trail[q] /\ resume'[q] = resume[q]
    /\ \A w \in Workers : worker[w].packet \in Packets /\ worker[w].packet # p
                             => worker'[w] = worker[w]

\* A module is on one chain, at one position.
LEMMA ChainPositions ==
    /\ \A v, w \in Workers : \A i \in DOMAIN Chain[v], j \in DOMAIN Chain[w] :
          Chain[v][i] = Chain[w][j] => v = w /\ i = j
    /\ \A w \in Workers : DOMAIN Chain[w] = 1..Len(Chain[w]) /\ Len(Chain[w]) \in Nat
    /\ \A w \in Workers : \A i \in DOMAIN Chain[w] :
          Chain[w][i] \in Modules /\ Chain[w][i] # NoModule /\ Chain[w][i] \in ToSet(Chain[w])
    /\ \A v, w \in Workers : \A m : m \in ToSet(Chain[v]) /\ m \in ToSet(Chain[w]) => v = w
<1>1. \A w \in Workers : Chain[w] \in Seq(Modules)
  BY ChainAssumption
<1>2. \A w \in Workers : DOMAIN Chain[w] = 1..Len(Chain[w]) /\ Len(Chain[w]) \in Nat
  BY <1>1, LenProperties
<1>3. \A w \in Workers : \A i \in DOMAIN Chain[w] :
         Chain[w][i] \in Modules /\ Chain[w][i] # NoModule /\ Chain[w][i] \in ToSet(Chain[w])
  BY <1>1, <1>2, ElementOfSeq, NullAssumption DEF ToSet
<1>4. \A v, w \in Workers : \A m : m \in ToSet(Chain[v]) /\ m \in ToSet(Chain[w]) => v = w
  BY ChainAssumption DEF ToSet
<1>. QED
  BY <1>2, <1>3, <1>4, ChainAssumption

\* A packet no step touches still fits its place.
LEMMA FitsStays ==
    ASSUME NEW q \in Packets, NEW x \in Places, At(q, x), Fits(q, x),
           trail'[q] = trail[q], resume'[q] = resume[q],
           \A w \in Workers : worker[w].packet = q => worker'[w] = worker[w]
    PROVE  Fits(q, x)'
<1>1. SeenBy(q)' = SeenBy(q)
  BY DEF SeenBy
<1>2. \A w, n : Reached(q, w, n)' <=> Reached(q, w, n)
  BY <1>1 DEF Reached, Workers
<1>3. \A w, n : Resumes(q, w, n)' <=> Resumes(q, w, n)
  BY <1>2 DEF Resumes
<1>4. CASE x[1] = "worker"
  <2>1. PICK w \in Workers : x[2] = w
    BY <1>4 DEF Places
  <2>2. worker'[w] = worker[w]
    BY <1>4, <2>1 DEF At
  <2>. QED
    BY <1>2, <1>3, <1>4, <2>1, <2>2 DEF Fits
<1>5. CASE x[1] # "worker"
  <2>1. Home(x[2])' = Home(x[2])
    BY DEF Home, Workers
  <2>. QED
    BY <1>2, <1>3, <1>5 DEF Fits, Home, Workers
<1>. QED
  BY <1>4, <1>5

LEMMA ShiftHistory ==
    ASSUME HistoryInv, NEW p \in Packets, NEW y \in Places, Shift(p, y), Rest(p), Fits(p, y)'
    PROVE  HistoryInv'
<1>1. \A q \in Packets : \A z \in Places : At(q, z)' <=> IF q = p THEN z = y ELSE At(q, z)
  BY ShiftAt
<1>2. ASSUME NEW q \in Packets, NEW z \in Places, At(q, z)'
      PROVE  Fits(q, z)'
  <2>1. CASE q = p
    BY <1>1, <1>2, <2>1
  <2>2. CASE q # p
    <3>1. At(q, z) /\ Fits(q, z)
      BY <1>1, <1>2, <2>2 DEF HistoryInv
    <3>2. /\ trail'[q] = trail[q] /\ resume'[q] = resume[q]
          /\ \A w \in Workers : worker[w].packet = q => worker'[w] = worker[w]
      BY <2>2 DEF Rest
    <3>. QED
      BY <3>1, <3>2, FitsStays
  <2>. QED
    BY <2>1, <2>2
<1>3. Places' = Places
  BY DEF Places, Workers, Taps, Modules
<1>. QED
  BY <1>2, <1>3 DEF HistoryInv

\* A step that touches no packet.
LEMMA QuietHistory ==
    ASSUME HistoryInv, UNCHANGED <<free, queue, kept, trail, resume>>,
           \A w \in Workers : /\ worker'[w].packet = worker[w].packet
                              /\ worker[w].packet \in Packets => worker'[w] = worker[w]
    PROVE  HistoryInv'
<1>1. ASSUME NEW q \in Packets, NEW z \in Places, At(q, z)'
      PROVE  Fits(q, z)'
  <2>1. At(q, z)
    <3>1. ASSUME NEW w \in Workers, z = <<"worker", w, NoModule>>
          PROVE  At(q, z)
      BY <1>1, <3>1 DEF At
    <3>2. CASE z[1] # "worker"
      BY <1>1, <3>2 DEF At
    <3>3. z[1] = "worker" => \E w \in Workers : z = <<"worker", w, NoModule>>
      BY DEF Places
    <3>. QED
      BY <3>1, <3>2, <3>3
  <2>2. Fits(q, z)
    BY <2>1 DEF HistoryInv
  <2>. QED
    BY <2>1, <2>2, FitsStays
<1>2. Places' = Places
  BY DEF Places, Workers, Taps, Modules
<1>. QED
  BY <1>1, <1>2 DEF HistoryInv

\* What a packet's place says of it, place by place.
LEMMA FitsAt ==
    ASSUME HistoryInv, NEW p \in Packets
    PROVE  /\ p \in free => resume[p] = NoModule /\ trail[p] = <<>>
           /\ \A w \in Workers : p \in ToSet(queue[w]["plain"]) =>
                 resume[p] = NoModule /\ Reached(p, w, 0)
           /\ \A w \in Workers : p \in ToSet(queue[w]["priority"]) => Resumes(p, w, 1)
           /\ \A w \in Workers : p = worker[w].packet =>
                 IF worker[w].seeking THEN Resumes(p, w, worker[w].next)
                 ELSE resume[p] = NoModule /\ Reached(p, w, worker[w].next - 1)
           /\ \A t \in Taps : p \in ToSet(kept[t]) =>
                 /\ resume[p] = NoModule
                 /\ \E r \in DOMAIN Chain[Home(t)] : Chain[Home(t)][r] = t /\ Reached(p, Home(t), r)
<1>1. \A x \in Places : At(p, x) => Fits(p, x)
  BY DEF HistoryInv
<1>2. p \in free => resume[p] = NoModule /\ trail[p] = <<>>
  <2>1. p \in free => Fits(p, <<"pool", NoModule, NoModule>>)
    BY <1>1, PlaceKinds
  <2>. QED
    BY <2>1 DEF Fits
<1>3. ASSUME NEW w \in Workers, p \in ToSet(queue[w]["plain"])
      PROVE  resume[p] = NoModule /\ Reached(p, w, 0)
  <2>1. Fits(p, <<"queue", w, "plain">>)
    BY <1>1, <1>3, PlaceKinds DEF Classes
  <2>. QED
    BY <2>1 DEF Fits
<1>4. ASSUME NEW w \in Workers, p \in ToSet(queue[w]["priority"])
      PROVE  Resumes(p, w, 1)
  <2>1. Fits(p, <<"queue", w, "priority">>)
    BY <1>1, <1>4, PlaceKinds DEF Classes
  <2>. QED
    BY <2>1 DEF Fits
<1>5. ASSUME NEW w \in Workers, p = worker[w].packet
      PROVE  IF worker[w].seeking THEN Resumes(p, w, worker[w].next)
             ELSE resume[p] = NoModule /\ Reached(p, w, worker[w].next - 1)
  <2>1. Fits(p, <<"worker", w, NoModule>>)
    BY <1>1, <1>5, PlaceKinds
  <2>. QED
    BY <2>1 DEF Fits
<1>6. ASSUME NEW t \in Taps, p \in ToSet(kept[t])
      PROVE  /\ resume[p] = NoModule
             /\ \E r \in DOMAIN Chain[Home(t)] : Chain[Home(t)][r] = t /\ Reached(p, Home(t), r)
  <2>1. Fits(p, <<"tap", t, NoModule>>)
    BY <1>1, <1>6, PlaceKinds
  <2>. QED
    BY <2>1 DEF Fits
<1>. QED
  BY <1>2, <1>3, <1>4, <1>5, <1>6

\* A visit lengthens the trail of the packet in hand by the module.
LEMMA VisitSteps ==
    ASSUME Typed, Trails, NEW w \in Workers, NEW p \in Packets, p = worker[w].packet,
           AtModule(w), NEW b \in BOOLEAN, Visit(w, b)
    PROVE  /\ Trails'
           /\ \A q \in Packets : q # p => trail'[q] = trail[q]
           /\ Len(trail'[p]) = Len(trail[p]) + 1 /\ Len(trail[p]) \in Nat
           /\ DOMAIN trail[p] = 1..Len(trail[p]) /\ DOMAIN trail'[p] = 1..Len(trail'[p])
           /\ \A i \in 1..Len(trail[p]) : trail'[p][i] = trail[p][i]
           /\ trail'[p][Len(trail[p]) + 1].module = Module(w)
           /\ SeenBy(p)' = SeenBy(p) \cup {Module(w)}
<1>1. PICK s : s = trail[p]
  OBVIOUS
<1>2. PICK e : e = [module |-> Module(w), stays |-> b]
  OBVIOUS
<1>3. PICK r : r = Append(s, e)
  OBVIOUS
<1>4. e \in [module : Modules, stays : BOOLEAN] /\ e.module = Module(w)
  BY <1>2, ModuleType
<1>5. s \in Seq([module : Modules, stays : BOOLEAN])
  BY <1>1 DEF Trails
<1>6. r \in Seq([module : Modules, stays : BOOLEAN])
  BY <1>3, <1>4, <1>5, AppendProperties
<1>7. /\ Len(r) = Len(s) + 1 /\ Len(s) \in Nat /\ DOMAIN s = 1..Len(s) /\ DOMAIN r = 1..Len(r)
      /\ \A i \in 1..Len(s) : r[i] = s[i]
      /\ r[Len(s) + 1] = e
  BY <1>3, <1>4, <1>5, <1>6, AppendProperties, LenProperties
<1>8. trail' = [trail EXCEPT ![p] = r]
  BY <1>1, <1>2, <1>3 DEF Visit
<1>9. trail'[p] = r /\ \A q \in Packets : q # p => trail'[q] = trail[q]
  BY <1>8 DEF Trails
<1>10. Trails'
  <2>1. trail' \in [Packets -> Seq([module : Modules, stays : BOOLEAN])]
    BY <1>6, <1>8 DEF Trails
  <2>. QED
    BY <2>1 DEF Trails, Modules, Workers
<1>11. SeenBy(p)' = SeenBy(p) \cup {Module(w)}
  <2>1. SeenBy(p)' = {r[j].module : j \in 1..Len(r)} /\ SeenBy(p) = {s[j].module : j \in 1..Len(s)}
    BY <1>1, <1>7, <1>9 DEF SeenBy
  <2>2. 1..Len(r) = (1..Len(s)) \cup {Len(s) + 1}
    BY <1>7
  <2>3. {r[j].module : j \in 1..Len(r)} = {s[j].module : j \in 1..Len(s)} \cup {e.module}
    BY <1>7, <2>2
  <2>. QED
    BY <1>4, <2>1, <2>3
<1>. QED
  BY <1>1, <1>4, <1>7, <1>9, <1>10, <1>11

LEMMA VisitReached ==
    ASSUME Typed, Trails, NEW w \in Workers, NEW p \in Packets, p = worker[w].packet,
           AtModule(w), NEW b \in BOOLEAN, Visit(w, b),
           NEW k, k = worker[w].next, Reached(p, w, k - 1)
    PROVE  /\ Reached(p, w, k)'
           /\ \A v \in Workers : w[2] = "in" /\ v[2] = "out" => Reached(p, v, 0)'
<1>1. PICK m : m = Module(w)
  OBVIOUS
<1>2. k \in 1..Len(Chain[w]) /\ m = Chain[w][k] /\ m \in ToSet(Chain[w])
  <2>1. k \in 1..Len(Chain[w]) /\ m = Chain[w][k]
    BY <1>1, ModuleType DEF Module
  <2>. QED
    BY <2>1, ChainPositions
<1>3. PICK S, T : S = SeenBy(p) /\ T = SeenBy(p)'
  OBVIOUS
<1>4. T = S \cup {m}
  BY <1>1, <1>3, VisitSteps
<1>5. /\ S \cap ToSet(Chain[w]) = {Chain[w][l] : l \in 1..(k - 1)}
      /\ w[2] = "in" => \A v \in Workers : v[2] = "out" => S \cap ToSet(Chain[v]) = {}
  BY <1>1, <1>3 DEF Reached
<1>6. T \cap ToSet(Chain[w]) = {Chain[w][l] : l \in 1..k}
  <2>1. 1..k = (1..(k - 1)) \cup {k}
    BY <1>2, ChainPositions
  <2>2. {Chain[w][l] : l \in 1..k} = {Chain[w][l] : l \in 1..(k - 1)} \cup {Chain[w][k]}
    BY <2>1
  <2>3. T \cap ToSet(Chain[w]) = (S \cap ToSet(Chain[w])) \cup {m}
    BY <1>2, <1>4
  <2>. QED
    BY <1>2, <1>5, <2>2, <2>3
<1>7. w[2] = "in" => \A v \in Workers : v[2] = "out" => T \cap ToSet(Chain[v]) = {}
  <2>. SUFFICES ASSUME w[2] = "in", NEW v \in Workers, v[2] = "out"
                PROVE  T \cap ToSet(Chain[v]) = {}
    OBVIOUS
  <2>1. v # w
    OBVIOUS
  <2>2. m \notin ToSet(Chain[v])
    BY <1>2, <2>1, ChainPositions
  <2>. QED
    BY <1>4, <1>5, <2>2
<1>8. Reached(p, w, k)'
  BY <1>3, <1>6, <1>7 DEF Reached, Workers
<1>9. ASSUME NEW v \in Workers, w[2] = "in", v[2] = "out"
       PROVE  Reached(p, v, 0)'
  BY <1>3, <1>7, <1>9 DEF Reached, Workers
<1>. QED
  BY <1>8, <1>9

\* A visit in the right place keeps all trails in order.
LEMMA VisitOrder ==
    ASSUME Typed, Trails, VisitedInOrder, NEW w \in Workers, NEW p \in Packets,
           p = worker[w].packet, AtModule(w), NEW b \in BOOLEAN, Visit(w, b),
           Reached(p, w, worker[w].next - 1)
    PROVE  VisitedInOrder'
<1>1. /\ \A q \in Packets : q # p => trail'[q] = trail[q]
      /\ Len(trail'[p]) = Len(trail[p]) + 1 /\ Len(trail[p]) \in Nat
      /\ DOMAIN trail[p] = 1..Len(trail[p]) /\ DOMAIN trail'[p] = 1..Len(trail'[p])
      /\ \A i \in 1..Len(trail[p]) : trail'[p][i] = trail[p][i]
      /\ trail'[p][Len(trail[p]) + 1].module = Module(w)
  BY VisitSteps
<1>. SUFFICES ASSUME NEW v \in Workers, NEW q \in Packets, NEW i \in DOMAIN trail'[q],
                     NEW k \in DOMAIN Chain[v], trail'[q][i].module = Chain[v][k]
              PROVE  SeenBefore(q, i)' \cap ToSet(Chain[v]) = {Chain[v][l] : l \in 1..(k - 1)}
  BY DEF VisitedInOrder, Workers
<1>2. CASE q # p
  <2>1. trail'[q] = trail[q]
    BY <1>1, <1>2
  <2>2. SeenBefore(q, i)' = SeenBefore(q, i)
    BY <2>1 DEF SeenBefore
  <2>. QED
    BY <2>1, <2>2 DEF VisitedInOrder
<1>3. CASE q = p
  <2>1. PICK n : n = Len(trail[p]) /\ n \in Nat /\ i \in 1..(n + 1)
    BY <1>1, <1>3
  <2>2. SeenBefore(q, i)' = SeenBefore(q, i)
    <3>1. \A j \in 1..(i - 1) : trail'[q][j] = trail[q][j]
      BY <1>1, <1>3, <2>1
    <3>. QED
      BY <3>1 DEF SeenBefore
  <2>3. CASE i \in 1..n
    <3>1. i \in DOMAIN trail[q] /\ trail[q][i].module = Chain[v][k]
      BY <1>1, <1>3, <2>1, <2>3
    <3>. QED
      BY <2>2, <3>1 DEF VisitedInOrder
  <2>4. CASE i = n + 1
    <3>1. Chain[v][k] = Module(w)
      BY <1>1, <1>3, <2>1, <2>4
    <3>2. worker[w].next \in 1..Len(Chain[w])
      BY ModuleType
    <3>3. worker[w].next \in DOMAIN Chain[w] /\ Chain[v][k] = Chain[w][worker[w].next]
      BY <3>1, <3>2, ChainPositions DEF Module
    <3>4. v = w /\ k = worker[w].next
      BY <3>3, ChainPositions
    <3>5. SeenBefore(q, i) = SeenBy(p)
      <4>1. 1..(i - 1) = DOMAIN trail[p]
        BY <1>1, <2>1, <2>4
      <4>. QED
        BY <1>3, <4>1 DEF SeenBefore, SeenBy
    <3>. QED
      BY <2>2, <3>4, <3>5 DEF Reached
  <2>. QED
    BY <2>1, <2>3, <2>4
<1>. QED
  BY <1>2, <1>3

\* The trails of the other packets do not matter when one comes back to the pool.
LEMMA ReleaseOrder ==
    ASSUME Trails, VisitedInOrder, NEW p \in Packets, trail' = [trail EXCEPT ![p] = <<>>]
    PROVE  /\ Trails' /\ VisitedInOrder' /\ trail'[p] = <<>>
           /\ \A q \in Packets : q # p => trail'[q] = trail[q]
<1>1. trail'[p] = <<>> /\ \A q \in Packets : q # p => trail'[q] = trail[q]
  BY DEF Trails
<1>2. Trails'
  <2>1. <<>> \in Seq([module : Modules, stays : BOOLEAN])
    OBVIOUS
  <2>2. trail' \in [Packets -> Seq([module : Modules, stays : BOOLEAN])]
    BY <2>1 DEF Trails
  <2>. QED
    BY <2>2 DEF Trails, Modules, Workers
<1>3. ASSUME NEW v \in Workers, NEW q \in Packets, NEW i \in DOMAIN trail'[q],
             NEW k \in DOMAIN Chain[v], trail'[q][i].module = Chain[v][k]
      PROVE  SeenBefore(q, i)' \cap ToSet(Chain[v]) = {Chain[v][l] : l \in 1..(k - 1)}
  <2>1. q # p /\ trail'[q] = trail[q]
    BY <1>1
  <2>2. SeenBefore(q, i)' = SeenBefore(q, i)
    BY <2>1 DEF SeenBefore
  <2>. QED
    BY <1>3, <2>1, <2>2 DEF VisitedInOrder
<1>. QED
  BY <1>1, <1>2, <1>3 DEF VisitedInOrder, Workers

LEMMA SameOrder ==
    ASSUME Trails, VisitedInOrder, UNCHANGED trail
    PROVE  Trails' /\ VisitedInOrder'
<1>1. \A q, i : SeenBefore(q, i)' = SeenBefore(q, i)
  BY DEF SeenBefore
<1>. QED
  BY <1>1 DEF Trails, VisitedInOrder, Modules, Workers

-----------------------------------------------------------------------------
(* One lemma for each action that moves a packet or changes its trail.     *)

\* A packet from the pool has been nowhere.
LEMMA FreshOrder ==
    ASSUME IInv, OrderInv, NEW w \in Workers, NEW p \in free, AddQueue(w, p, resume[p]),
           free' = free \ {p}, UNCHANGED <<enabled, worker, resume, kept, trail>>
    PROVE  OrderInv'
<1>1. p \in Packets
  BY DEF IInv, Typed
<1>2. resume[p] = NoModule /\ trail[p] = <<>>
  BY <1>1, FitsAt DEF OrderInv
<1>3. Shift(p, <<"queue", w, "plain">>)
  BY <1>2, PoolToQueue
<1>4. Reached(p, w, 0)'
  <2>1. SeenBy(p)' = {}
    BY <1>2 DEF SeenBy
  <2>2. {Chain[w][l] : l \in 1..0} = {}
    OBVIOUS
  <2>. QED
    BY <2>1, <2>2 DEF Reached
<1>5. Fits(p, <<"queue", w, "plain">>)'
  BY <1>2, <1>4 DEF Fits
<1>6. Rest(p)
  BY DEF Rest
<1>7. <<"queue", w, "plain">> \in Places
  BY PlaceKinds DEF Classes
<1>8. HistoryInv'
  BY <1>1, <1>3, <1>5, <1>6, <1>7, ShiftHistory DEF OrderInv
<1>. QED
  BY <1>8, SameOrder DEF OrderInv

\* A packet a worker takes resumes just when it was marked.
LEMMA TakeOrder ==
    ASSUME IInv, OrderInv, NEW w \in Workers, NEW c \in Classes, queue[w][c] # <<>>, Take(w, c),
           worker[w].pc # "chain", UNCHANGED <<enabled, free, resume, kept, trail>>
    PROVE  OrderInv'
<1>1. PICK p \in Packets :
         /\ p \in ToSet(queue[w][c])
         /\ Shift(p, <<"worker", w, NoModule>>)
         /\ worker' = [worker EXCEPT ![w] = [pc |-> "chain", packet |-> p, next |-> 1,
                                             seeking |-> resume[p] # NoModule]]
  BY QueueToWorker
<1>2. PICK s : s = [pc |-> "chain", packet |-> p, next |-> 1, seeking |-> resume[p] # NoModule]
  OBVIOUS
<1>3. s.next = 1 /\ (s.seeking <=> resume[p] # NoModule)
  BY <1>2
<1>4. worker'[w] = s /\ \A v \in Workers : v # w => worker'[v] = worker[v]
  BY <1>1, <1>2 DEF IInv, Typed
<1>5. Rest(p)
  <2>1. worker[w].packet \notin Packets
    BY NullAssumption DEF IInv, ChainInv
  <2>. QED
    BY <1>4, <2>1 DEF Rest
<1>6. \A n : (Reached(p, w, n)' <=> Reached(p, w, n)) /\ (Resumes(p, w, n)' <=> Resumes(p, w, n))
  BY DEF Reached, Resumes, SeenBy, Workers
<1>7. Fits(p, <<"worker", w, NoModule>>)'
  <2>1. CASE c = "plain"
    <3>1. resume[p] = NoModule /\ Reached(p, w, 0)
      BY <1>1, <2>1, FitsAt DEF OrderInv
    <3>2. ~ s.seeking /\ s.next - 1 = 0
      BY <1>3, <3>1
    <3>. QED
      BY <1>4, <1>6, <3>1, <3>2 DEF Fits
  <2>2. CASE c = "priority"
    <3>1. Resumes(p, w, 1)
      BY <1>1, <2>2, FitsAt DEF OrderInv
    <3>2. resume[p] # NoModule
      BY <3>1, ChainPositions DEF Resumes
    <3>3. s.seeking /\ s.next = 1
      BY <1>3, <3>2
    <3>. QED
      BY <1>4, <1>6, <3>1, <3>3 DEF Fits
  <2>. QED
    BY <2>1, <2>2 DEF Classes
<1>8. HistoryInv'
  BY <1>1, <1>5, <1>7, PlaceKinds, ShiftHistory DEF OrderInv
<1>. QED
  BY <1>8, SameOrder DEF OrderInv

\* A packet that goes back to the pool forgets its way.
LEMMA ReleasedOrder ==
    ASSUME IInv, OrderInv, NEW w \in Workers, worker[w].pc = "chain",
           Release(worker[w].packet), Finish(w), UNCHANGED <<enabled, queue, kept>>
    PROVE  OrderInv'
<1>1. PICK p \in Packets : p = worker[w].packet
  BY InHand DEF IInv
<1>2. /\ resume' = [resume EXCEPT ![p] = NoModule]
      /\ trail' = [trail EXCEPT ![p] = <<>>]
  BY <1>1 DEF Release
<1>3. /\ Trails' /\ VisitedInOrder' /\ trail'[p] = <<>>
      /\ \A q \in Packets : q # p => trail'[q] = trail[q]
  BY <1>2, ReleaseOrder DEF OrderInv
<1>4. Shift(p, <<"pool", NoModule, NoModule>>)
  BY <1>1, WorkerToPool
<1>5. resume'[p] = NoModule /\ \A q \in Packets : q # p => resume'[q] = resume[q]
  BY <1>2 DEF IInv, Typed
<1>6. Rest(p)
  <2>1. \A v \in Workers : v # w => worker'[v] = worker[v]
    BY DEF Finish, IInv, Typed
  <2>. QED
    BY <1>1, <1>3, <1>5, <2>1 DEF Rest
<1>7. Fits(p, <<"pool", NoModule, NoModule>>)'
  BY <1>3, <1>5 DEF Fits
<1>8. HistoryInv'
  BY <1>4, <1>6, <1>7, PlaceKinds, ShiftHistory DEF OrderInv
<1>. QED
  BY <1>3, <1>8 DEF OrderInv

\* A packet in hand and not seeking has seen just the modules before the next.
LEMMA OfferedAt ==
    ASSUME IInv, OrderInv, NEW w \in Workers, NEW kinds, Offer(w, kinds)
    PROVE  \E p \in Packets : \E k \in 1..Len(Chain[w]) :
              /\ p = worker[w].packet /\ k = worker[w].next
              /\ AtModule(w) /\ Module(w) = Chain[w][k] /\ Kind[Module(w)] \in kinds
              /\ ~ worker[w].seeking /\ resume[p] = NoModule /\ Reached(p, w, k - 1)
<1>1. AtModule(w) /\ ~ worker[w].seeking /\ Kind[Module(w)] \in kinds
  BY DEF Offer
<1>2. PICK p \in Packets : p = worker[w].packet
  BY <1>1, InHand DEF IInv, AtModule
<1>3. PICK k \in 1..Len(Chain[w]) : k = worker[w].next
  BY <1>1, ModuleType DEF IInv
<1>4. resume[p] = NoModule /\ Reached(p, w, k - 1)
  BY <1>1, <1>2, <1>3, FitsAt DEF OrderInv
<1>. QED
  BY <1>1, <1>2, <1>3, <1>4 DEF Module

\* A passthrough's packet comes fresh to the chain of the other side.
LEMMA PassthroughOrder ==
    ASSUME IInv, OrderInv, NEW w \in Workers, Passthrough(w)
    PROVE  OrderInv'
<1>1. PICK p \in Packets : \E k \in 1..Len(Chain[w]) :
              /\ p = worker[w].packet /\ k = worker[w].next
              /\ AtModule(w) /\ Module(w) = Chain[w][k] /\ Kind[Module(w)] \in {"pass"}
              /\ ~ worker[w].seeking /\ resume[p] = NoModule /\ Reached(p, w, k - 1)
  BY OfferedAt DEF Passthrough
<1>2. PICK k \in 1..Len(Chain[w]) :
              /\ p = worker[w].packet /\ k = worker[w].next
              /\ AtModule(w) /\ Module(w) = Chain[w][k] /\ Kind[Module(w)] = "pass"
              /\ resume[p] = NoModule /\ Reached(p, w, k - 1)
  BY <1>1
<1>3. w[2] = "in"
  <2>1. Module(w) \in ToSet(Chain[w])
    BY <1>2, ChainPositions
  <2>. QED
    BY <1>2, <2>1, PassAssumption
<1>4. PICK v \in Workers : v = <<Target[Module(w)], "out">> /\ v[2] = "out"
  <2>1. Module(w) \in {m \in Modules : Kind[m] = "pass"}
    BY <1>2, ModuleType DEF IInv
  <2>2. PICK a \in Adapters : a = Target[Module(w)]
    BY <2>1, KindAssumption
  <2>3. <<a, "out">> \in Workers /\ <<a, "out">>[2] = "out"
    BY DEF Workers
  <2>. QED
    BY <2>2, <2>3
<1>5. /\ AddQueue(v, worker[w].packet, NoModule) /\ Visit(w, FALSE) /\ Finish(w)
      /\ UNCHANGED <<enabled, free, resume, kept>> /\ worker[w].pc = "chain"
  BY <1>2, <1>4 DEF Passthrough, AtModule
<1>6. Shift(p, <<"queue", v, "plain">>)
  BY <1>2, <1>5, WorkerToQueue
<1>7. Trails' /\ \A q \in Packets : q # p => trail'[q] = trail[q]
  BY <1>2, <1>5, VisitSteps DEF IInv, OrderInv
<1>8. VisitedInOrder'
  BY <1>2, <1>5, VisitOrder DEF IInv, OrderInv
<1>9. Reached(p, v, 0)'
  BY <1>2, <1>3, <1>4, <1>5, VisitReached DEF IInv, OrderInv
<1>10. Rest(p)
  <2>1. \A x \in Workers : x # w => worker'[x] = worker[x]
    BY <1>5 DEF Finish, IInv, Typed
  <2>. QED
    BY <1>2, <1>5, <1>7, <2>1 DEF Rest
<1>11. Fits(p, <<"queue", v, "plain">>)'
  BY <1>2, <1>5, <1>9 DEF Fits
<1>12. HistoryInv'
  <2>1. <<"queue", v, "plain">> \in Places
    BY PlaceKinds DEF Classes
  <2>. QED
    BY <1>6, <1>10, <1>11, <2>1, ShiftHistory DEF OrderInv
<1>. QED
  BY <1>7, <1>8, <1>12 DEF OrderInv

\* A tap's module keeps a packet that has seen the chain up to the tap.
LEMMA KeepOrder ==
    ASSUME IInv, OrderInv, NEW w \in Workers, Keep(w)
    PROVE  OrderInv'
<1>1. PICK p \in Packets : \E k \in 1..Len(Chain[w]) :
              /\ p = worker[w].packet /\ k = worker[w].next
              /\ AtModule(w) /\ Module(w) = Chain[w][k] /\ Kind[Module(w)] \in {"tap"}
              /\ ~ worker[w].seeking /\ resume[p] = NoModule /\ Reached(p, w, k - 1)
  BY OfferedAt DEF Keep
<1>2. PICK k \in 1..Len(Chain[w]) :
              /\ p = worker[w].packet /\ k = worker[w].next
              /\ AtModule(w) /\ Module(w) = Chain[w][k] /\ Kind[Module(w)] = "tap"
              /\ resume[p] = NoModule /\ Reached(p, w, k - 1)
  BY <1>1
<1>3. PICK t \in Taps : t = Module(w)
  BY <1>2, ModuleType DEF IInv, Taps
<1>4. Home(t) = w /\ k \in DOMAIN Chain[w]
  <2>1. k \in DOMAIN Chain[w]
    BY <1>2, ChainPositions
  <2>2. t \in ToSet(Chain[w])
    BY <1>2, <1>3, <2>1, ChainPositions
  <2>3. Home(t) \in Workers /\ t \in ToSet(Chain[Home(t)])
    BY HomeIsWorker
  <2>4. Home(t) = w
    BY <2>2, <2>3, ChainPositions
  <2>. QED
    BY <2>1, <2>4
<1>5. /\ kept' = [kept EXCEPT ![t] = Append(@, worker[w].packet)]
      /\ Visit(w, TRUE) /\ Finish(w)
      /\ UNCHANGED <<enabled, free, queue, resume>> /\ worker[w].pc = "chain"
  BY <1>2, <1>3 DEF Keep, AtModule
<1>6. Shift(p, <<"tap", t, NoModule>>)
  BY <1>2, <1>5, WorkerToTap
<1>7. Trails' /\ \A q \in Packets : q # p => trail'[q] = trail[q]
  BY <1>2, <1>5, VisitSteps DEF IInv, OrderInv
<1>8. VisitedInOrder'
  BY <1>2, <1>5, VisitOrder DEF IInv, OrderInv
<1>9. Reached(p, w, k)'
  BY <1>2, <1>5, VisitReached DEF IInv, OrderInv
<1>10. Rest(p)
  <2>1. \A x \in Workers : x # w => worker'[x] = worker[x]
    BY <1>5 DEF Finish, IInv, Typed
  <2>. QED
    BY <1>2, <1>5, <1>7, <2>1 DEF Rest
<1>11. Fits(p, <<"tap", t, NoModule>>)'
  <2>1. Home(t)' = Home(t)
    BY DEF Home, Workers
  <2>2. resume'[p] = NoModule /\ Chain[w][k] = t
    BY <1>2, <1>3, <1>5
  <2>. QED
    BY <1>4, <1>9, <2>1, <2>2 DEF Fits
<1>12. HistoryInv'
  BY <1>6, <1>10, <1>11, PlaceKinds, ShiftHistory DEF OrderInv
<1>. QED
  BY <1>7, <1>8, <1>12 DEF OrderInv

\* resumePostTap marks the packet with the last module that saw it.
LEMMA ResumeOrder ==
    ASSUME IInv, OrderInv, NEW t \in Taps, ResumePostTap(t)
    PROVE  OrderInv'
<1>1. PICK p \in Packets :
         /\ p \in ToSet(kept[t]) /\ resume' = [resume EXCEPT ![p] = t]
         /\ Shift(p, <<"queue", Home(t), "priority">>)
  BY TapToQueue
<1>2. UNCHANGED <<worker, trail>>
  BY DEF ResumePostTap
<1>3. PICK v \in Workers : v = Home(t)
  BY HomeIsWorker
<1>4. PICK r \in DOMAIN Chain[v] : Chain[v][r] = t /\ Reached(p, v, r)
  BY <1>1, <1>3, FitsAt DEF OrderInv
<1>5. resume'[p] = t /\ \A q \in Packets : q # p => resume'[q] = resume[q]
  BY <1>1 DEF IInv, Typed
<1>6. Rest(p)
  BY <1>2, <1>5 DEF Rest
<1>7. Reached(p, v, r)'
  BY <1>2, <1>4 DEF Reached, SeenBy, Workers
<1>8. Resumes(p, v, 1)'
  BY <1>4, <1>5, <1>7, ChainPositions DEF Resumes
<1>9. Fits(p, <<"queue", v, "priority">>)'
  BY <1>8 DEF Fits
<1>10. HistoryInv'
  <2>1. <<"queue", v, "priority">> \in Places
    BY PlaceKinds DEF Classes
  <2>. QED
    BY <1>1, <1>3, <1>6, <1>9, <2>1, ShiftHistory DEF OrderInv
<1>. QED
  BY <1>2, <1>10, SameOrder DEF OrderInv

\* A packet that is passed by is one module further.
LEMMA PassByOrder ==
    ASSUME IInv, OrderInv, NEW w \in Workers, PassBy(w)
    PROVE  OrderInv'
<1>1. PICK p \in Packets : \E k \in 1..Len(Chain[w]) :
              /\ p = worker[w].packet /\ k = worker[w].next /\ AtModule(w)
              /\ ~ worker[w].seeking /\ resume[p] = NoModule /\ Reached(p, w, k - 1)
  <2>1. Offer(w, {"look", "tap", "purge", "pass", "write"})
    BY DEF PassBy
  <2>. QED
    BY <2>1, OfferedAt
<1>2. PICK k \in 1..Len(Chain[w]) :
              /\ p = worker[w].packet /\ k = worker[w].next /\ AtModule(w)
              /\ ~ worker[w].seeking /\ resume[p] = NoModule /\ Reached(p, w, k - 1)
  BY <1>1
<1>3. /\ Visit(w, FALSE) /\ worker' = [worker EXCEPT ![w].next = @ + 1]
      /\ UNCHANGED <<enabled, free, queue, resume, kept>>
  BY DEF PassBy
<1>4. k \in Nat
  BY <1>2, ChainPositions
<1>5. /\ worker'[w].packet = p /\ worker'[w].next = k + 1
      /\ worker'[w].seeking = worker[w].seeking
      /\ \A x \in Workers : x # w => worker'[x] = worker[x]
  BY <1>2, <1>3 DEF IInv, Typed, WorkerState
<1>6. Trails' /\ \A q \in Packets : q # p => trail'[q] = trail[q]
  BY <1>2, <1>3, VisitSteps DEF IInv, OrderInv
<1>7. VisitedInOrder'
  BY <1>2, <1>3, VisitOrder DEF IInv, OrderInv
<1>8. Reached(p, w, k)'
  BY <1>2, <1>3, VisitReached DEF IInv, OrderInv
<1>9. Rest(p)
  BY <1>2, <1>3, <1>5, <1>6 DEF Rest
<1>10. Shift(p, <<"worker", w, NoModule>>)
  <2>1. /\ p \notin free
        /\ \A v \in Workers, d \in Classes : p \notin ToSet(queue[v][d])
        /\ \A v \in Workers : worker[v].packet = p => v = w
        /\ \A u \in Taps : p \notin ToSet(kept[u])
    BY <1>2, Elsewhere DEF IInv
  <2>2. \A q \in Packets : \A x \in Workers :
           q = worker'[x].packet <=> IF q = p THEN x = w ELSE q = worker[x].packet
    BY <1>2, <1>5, <2>1
  <2>. QED
    BY <1>3, <2>1, <2>2 DEF Shift
<1>11. Fits(p, <<"worker", w, NoModule>>)'
  <2>1. resume'[p] = NoModule /\ ~ worker'[w].seeking /\ worker'[w].next - 1 = k
    BY <1>2, <1>3, <1>4, <1>5
  <2>. QED
    BY <1>8, <2>1 DEF Fits
<1>12. HistoryInv'
  BY <1>9, <1>10, <1>11, PlaceKinds, ShiftHistory DEF OrderInv
<1>. QED
  BY <1>6, <1>7, <1>12 DEF OrderInv

\* The loop leaves the packet at the module after the one it resumes after.
LEMMA SeekOrder ==
    ASSUME IInv, OrderInv, NEW w \in Workers, Seek(w)
    PROVE  OrderInv'
<1>1. AtModule(w) /\ worker[w].seeking /\ UNCHANGED <<enabled, free, queue, kept, trail>>
  BY DEF Seek
<1>2. PICK p \in Packets : p = worker[w].packet
  BY <1>1, InHand DEF IInv, AtModule
<1>3. PICK k \in 1..Len(Chain[w]) : k = worker[w].next /\ Module(w) = Chain[w][k]
  BY <1>1, ModuleType DEF IInv, Module
<1>4. k \in Nat /\ k \in DOMAIN Chain[w]
  BY <1>3, ChainPositions
<1>5. Resumes(p, w, k)
  BY <1>1, <1>2, <1>3, FitsAt DEF OrderInv
<1>6. PICK r \in k..Len(Chain[w]) : resume[p] = Chain[w][r] /\ Reached(p, w, r)
  BY <1>5 DEF Resumes
<1>7. r \in DOMAIN Chain[w] /\ r \in Nat
  BY <1>3, <1>6, ChainPositions
<1>8. Module(w) = resume[p] <=> k = r
  BY <1>3, <1>4, <1>6, <1>7, ChainPositions
<1>9. PICK b \in BOOLEAN : b <=> Module(w) # resume[p]
  OBVIOUS
<1>10. /\ worker'[w].packet = p /\ worker'[w].next = k + 1 /\ (worker'[w].seeking <=> k # r)
       /\ \A x \in Workers : x # w => worker'[x] = worker[x]
  <2>1. worker' = [worker EXCEPT ![w].next = @ + 1, ![w].seeking = b]
    BY <1>2, <1>9 DEF Seek
  <2>2. PICK o : o = worker[w] /\ o \in WorkerState
    BY DEF IInv, Typed
  <2>3. PICK s : s = [o EXCEPT !.next = @ + 1]
    OBVIOUS
  <2>4. s.packet = p /\ s.next = k + 1 /\ s = [s EXCEPT !.packet = p]
    BY <1>2, <1>3, <2>2, <2>3 DEF WorkerState
  <2>5. PICK n : n = [s EXCEPT !.seeking = b]
    OBVIOUS
  <2>6. s \in WorkerState
    BY <2>2, <2>3 DEF WorkerState
  <2>7. n.packet = p /\ n.next = k + 1 /\ n.seeking = b
    BY <2>4, <2>5, <2>6 DEF WorkerState
  <2>8. worker' = [worker EXCEPT ![w] = n]
    BY <2>1, <2>2, <2>3, <2>5 DEF IInv, Typed
  <2>9. worker'[w] = n /\ \A x \in Workers : x # w => worker'[x] = worker[x]
    BY <2>8 DEF IInv, Typed
  <2>. QED
    BY <1>8, <1>9, <2>7, <2>9
<1>11. /\ resume'[p] = IF k = r THEN NoModule ELSE resume[p]
       /\ \A q \in Packets : q # p => resume'[q] = resume[q]
  BY <1>2, <1>8 DEF Seek, IInv, Typed
<1>12. \A n : Reached(p, w, n)' <=> Reached(p, w, n)
  BY <1>1 DEF Reached, SeenBy, Workers
<1>13. Fits(p, <<"worker", w, NoModule>>)'
  <2>1. CASE k = r
    <3>1. resume'[p] = NoModule /\ ~ worker'[w].seeking /\ worker'[w].next - 1 = r
      BY <1>4, <1>10, <1>11, <2>1
    <3>2. Reached(p, w, r)'
      BY <1>6, <1>12
    <3>. QED
      BY <3>1, <3>2 DEF Fits
  <2>2. CASE k # r
    <3>1. resume'[p] = Chain[w][r] /\ worker'[w].seeking /\ worker'[w].next = k + 1
      BY <1>6, <1>10, <1>11, <2>2
    <3>2. r \in (k + 1)..Len(Chain[w])
      BY <1>4, <1>6, <1>7, <2>2, ChainPositions
    <3>3. Reached(p, w, r)'
      BY <1>6, <1>12
    <3>4. Resumes(p, w, k + 1)'
      BY <3>1, <3>2, <3>3 DEF Resumes
    <3>. QED
      BY <3>1, <3>4 DEF Fits
  <2>. QED
    BY <2>1, <2>2
<1>14. Rest(p)
  BY <1>1, <1>2, <1>10, <1>11 DEF Rest
<1>15. Shift(p, <<"worker", w, NoModule>>)
  <2>1. /\ p \notin free
        /\ \A v \in Workers, d \in Classes : p \notin ToSet(queue[v][d])
        /\ \A v \in Workers : worker[v].packet = p => v = w
        /\ \A u \in Taps : p \notin ToSet(kept[u])
    BY <1>2, Elsewhere DEF IInv
  <2>2. \A q \in Packets : \A x \in Workers :
           q = worker'[x].packet <=> IF q = p THEN x = w ELSE q = worker[x].packet
    BY <1>2, <1>10, <2>1
  <2>. QED
    BY <1>1, <2>1, <2>2 DEF Shift
<1>16. HistoryInv'
  BY <1>13, <1>14, <1>15, PlaceKinds, ShiftHistory DEF OrderInv
<1>. QED
  BY <1>1, <1>16, SameOrder DEF OrderInv

\* Steps that touch no packet.
LEMMA QuietOrder ==
    ASSUME IInv, OrderInv, UNCHANGED <<free, queue, kept, trail, resume>>,
           \A w \in Workers : /\ worker'[w].packet = worker[w].packet
                              /\ worker[w].packet \in Packets => worker'[w] = worker[w]
    PROVE  OrderInv'
  BY QuietHistory, SameOrder DEF OrderInv

LEMMA PollOrder ==
    ASSUME IInv, OrderInv, NEW w \in Workers, PollPriority(w) \/ PollPlain(w)
    PROVE  OrderInv'
<1>1. worker[w] \in WorkerState /\ worker[w].pc # "chain" /\ worker[w].packet = NoPacket
  BY DEF IInv, Typed, ChainInv, PollPriority, PollPlain
<1>2. UNCHANGED <<enabled, free, resume, kept, trail>>
  BY DEF PollPriority, PollPlain
<1>3. CASE PollPriority(w) /\ queue[w]["priority"] # <<>>
  <2>1. Take(w, "priority")
    BY <1>3 DEF PollPriority
  <2>. QED
    BY <1>1, <1>2, <1>3, <2>1, TakeOrder DEF Classes
<1>4. CASE PollPlain(w) /\ queue[w]["plain"] # <<>>
  <2>1. Take(w, "plain")
    BY <1>4 DEF PollPlain
  <2>. QED
    BY <1>1, <1>2, <1>4, <2>1, TakeOrder DEF Classes
<1>5. CASE \/ PollPriority(w) /\ queue[w]["priority"] = <<>>
           \/ PollPlain(w) /\ queue[w]["plain"] = <<>>
  <2>1. PICK s : s = IF PollPriority(w) /\ queue[w]["priority"] = <<>>
                     THEN [worker[w] EXCEPT !.pc = "plain"] ELSE Idle
    OBVIOUS
  <2>2. s.packet = NoPacket
    BY <1>1, <2>1 DEF Idle, WorkerState
  <2>3. worker' = [worker EXCEPT ![w] = s] /\ UNCHANGED queue
    BY <1>5, <2>1 DEF PollPriority, PollPlain, Finish
  <2>4. \A v \in Workers : worker'[v] = IF v = w THEN s ELSE worker[v]
    BY <2>3 DEF IInv, Typed
  <2>5. \A v \in Workers : /\ worker'[v].packet = worker[v].packet
                           /\ worker[v].packet \in Packets => worker'[v] = worker[v]
    BY <1>1, <2>2, <2>4, NullAssumption
  <2>. QED
    BY <1>2, <2>3, <2>5, QuietOrder
<1>. QED
  BY <1>3, <1>4, <1>5

LEMMA OrderInductive ==
    ASSUME IInv, OrderInv, [Next]_vars
    PROVE  OrderInv'
<1>1. ASSUME NEW w \in Workers, Work(w)
      PROVE  OrderInv'
  <2>1. CASE PollPriority(w) \/ PollPlain(w)
    BY <2>1, PollOrder
  <2>2. CASE Seek(w) \/ PassBy(w) \/ Passthrough(w) \/ Keep(w)
    BY <2>2, SeekOrder, PassByOrder, PassthroughOrder, KeepOrder
  <2>3. CASE Consume(w) \/ ChainEnd(w)
    <3>1. worker[w].pc = "chain"
      BY <2>3 DEF Consume, ChainEnd, Offer, AtModule
    <3>. QED
      BY <2>3, <3>1, ReleasedOrder DEF Consume, ChainEnd
  <2>. QED
    BY <1>1, <2>1, <2>2, <2>3 DEF Work
<1>2. ASSUME NEW a \in Adapters, NEW p \in Packets, Capture(a, p)
      PROVE  OrderInv'
  <2>1. PICK w \in Workers : w = <<a, "in">>
    BY DEF Workers
  <2>2. /\ AddQueue(w, p, resume[p]) /\ p \in free /\ free' = free \ {p}
        /\ UNCHANGED <<enabled, worker, resume, kept, trail>>
    BY <1>2, <2>1 DEF Capture
  <2>. QED
    BY <2>2, FreshOrder
<1>3. ASSUME NEW t \in Taps, NEW p \in Packets, WriteBackViaTap(t, p)
      PROVE  OrderInv'
  <2>1. PICK w \in Workers : w = <<Home(t)[1], "out">>
    BY HomeIsWorker DEF Workers
  <2>2. /\ AddQueue(w, p, resume[p]) /\ p \in free /\ free' = free \ {p}
        /\ UNCHANGED <<enabled, worker, resume, kept, trail>>
    BY <1>3, <2>1 DEF WriteBackViaTap
  <2>. QED
    BY <2>2, FreshOrder
<1>4. ASSUME NEW t \in Taps, ResumePostTap(t)
      PROVE  OrderInv'
  BY <1>4, ResumeOrder
<1>5. CASE (\E a \in Adapters : SetFlagEnabled(a)) \/ UNCHANGED vars
  BY <1>5, QuietOrder DEF SetFlagEnabled, vars
<1>. QED
  BY <1>1, <1>2, <1>3, <1>4, <1>5 DEF Next

LEMMA InitOrder == Init => IInv /\ OrderInv
<1>. SUFFICES ASSUME Init
             PROVE  OrderInv
  BY InitInv
<1>1. \A p \in Packets : trail[p] = <<>> /\ resume[p] = NoModule
  BY DEF Init
<1>2. Trails
  <2>1. <<>> \in Seq([module : Modules, stays : BOOLEAN])
    OBVIOUS
  <2>. QED
    BY <2>1 DEF Init, Trails
<1>3. VisitedInOrder
  BY <1>1 DEF VisitedInOrder
<1>4. ASSUME NEW p \in Packets, NEW x \in Places, At(p, x)
      PROVE  Fits(p, x)
  <2>1. <<"pool", NoModule, NoModule>> \in Places /\ At(p, <<"pool", NoModule, NoModule>>)
    BY PlaceKinds DEF Init
  <2>2. x = <<"pool", NoModule, NoModule>>
    BY <1>4, <2>1, InitInv DEF IInv, PlaceInv
  <2>. QED
    BY <1>1, <2>2 DEF Fits
<1>. QED
  BY <1>2, <1>3, <1>4 DEF OrderInv, HistoryInv

\* However often a packet stops at taps and comes back, the modules of a chain see
\* it in the configured order, none twice and none left out, up to the chain's end.
THEOREM ModulesSeeInOrder == Spec => []SeenInOrder
<1>1. Init => IInv /\ OrderInv
  BY InitOrder
<1>2. IInv /\ OrderInv /\ [Next]_vars => IInv' /\ OrderInv'
  BY Inductive, OrderInductive
<1>3. ASSUME IInv, OrderInv PROVE SeenInOrder
  <2>1. ASSUME NEW w \in Workers, worker[w].pc = "chain", worker[w].next > Len(Chain[w])
        PROVE  ToSet(Chain[w]) \subseteq SeenBy(worker[w].packet)
    <3>1. PICK p \in Packets : p = worker[w].packet
      BY <1>3, <2>1 DEF IInv, Typed, ChainInv, WorkerState
    <3>2. worker[w].next \in Nat
      BY <1>3 DEF IInv, Typed, WorkerState
    <3>3. DOMAIN Chain[w] = 1..Len(Chain[w]) /\ Len(Chain[w]) \in Nat
      BY ChainPositions
    <3>4. ~ worker[w].seeking
      BY <1>3, <2>1, <3>1, <3>2, <3>3, FitsAt DEF OrderInv, Resumes
    <3>5. Reached(p, w, worker[w].next - 1)
      BY <1>3, <3>1, <3>4, FitsAt DEF OrderInv
    <3>6. \A k \in DOMAIN Chain[w] : k \in 1..(worker[w].next - 1)
      BY <2>1, <3>2, <3>3
    <3>7. \A m \in ToSet(Chain[w]) : \E k \in DOMAIN Chain[w] : m = Chain[w][k]
      BY DEF ToSet
    <3>. QED
      BY <3>1, <3>5, <3>6, <3>7 DEF Reached
  <2>. QED
    BY <1>3, <2>1 DEF SeenInOrder, OrderInv, SeenBy
<1>. QED
  BY <1>1, <1>2, <1>3, PTL DEF Spec

-----------------------------------------------------------------------------
(* Who is before whom.                                                     *)

\* p stands before q in the queue.
Before(s, p, q) == \E i, j \in DOMAIN s : i < j /\ s[i] = p /\ s[j] = q

LEMMA BeforeAppend ==
    ASSUME NEW s \in Seq(Packets), NEW m \in Packets
    PROVE  /\ \A p, q : Before(s, p, q) => Before(Append(s, m), p, q)
           /\ \A p \in ToSet(s) : Before(Append(s, m), p, m)
<1>1. PICK r : r = Append(s, m)
  OBVIOUS
<1>2. PICK n : n = Len(s)
  OBVIOUS
<1>3. /\ n \in Nat /\ DOMAIN s = 1..n /\ DOMAIN r = 1..(n + 1) /\ r[n + 1] = m
      /\ \A i \in 1..n : r[i] = s[i]
  BY <1>1, <1>2, AppendProperties, LenProperties
<1>4. \A i \in 1..n : i < n + 1 /\ i \in 1..(n + 1) /\ n + 1 \in 1..(n + 1)
  BY <1>3
<1>5. ASSUME NEW p, NEW q, Before(s, p, q) PROVE Before(r, p, q)
  <2>1. PICK i \in 1..n, j \in 1..n : i < j /\ s[i] = p /\ s[j] = q
    BY <1>3, <1>5 DEF Before
  <2>2. r[i] = p /\ r[j] = q /\ i \in DOMAIN r /\ j \in DOMAIN r
    BY <1>3, <1>4, <2>1
  <2>. QED
    BY <2>1, <2>2 DEF Before
<1>6. ASSUME NEW p \in ToSet(s) PROVE Before(r, p, m)
  <2>1. PICK i \in 1..n : s[i] = p
    BY <1>3 DEF ToSet
  <2>2. r[i] = p /\ i \in DOMAIN r /\ n + 1 \in DOMAIN r /\ i < n + 1 /\ r[n + 1] = m
    BY <1>3, <1>4, <2>1
  <2>. QED
    BY <2>2 DEF Before
<1>. QED
  BY <1>1, <1>5, <1>6

LEMMA BeforeTail ==
    ASSUME NEW s \in Seq(Packets), s # <<>>, IsInjective(s)
    PROVE  /\ \A p, q : Before(s, p, q) /\ p # Head(s) => Before(Tail(s), p, q)
           /\ \A p : ~ Before(s, p, Head(s))
<1>1. PICK r, h : r = Tail(s) /\ h = Head(s)
  OBVIOUS
<1>2. PICK n : n = Len(s)
  OBVIOUS
<1>3. /\ n \in Nat \ {0} /\ DOMAIN s = 1..n /\ DOMAIN r = 1..(n - 1) /\ h = s[1]
      /\ \A i \in 1..(n - 1) : r[i] = s[i + 1]
  BY <1>1, <1>2, HeadTailProperties, EmptySeq, LenProperties
<1>4. ASSUME NEW p, NEW q, Before(s, p, q), p # h PROVE Before(r, p, q)
  <2>1. PICK i \in 1..n, j \in 1..n : i < j /\ s[i] = p /\ s[j] = q
    BY <1>3, <1>4 DEF Before
  <2>2. i # 1
    BY <1>3, <1>4, <2>1
  <2>3. /\ i - 1 \in 1..(n - 1) /\ j - 1 \in 1..(n - 1) /\ i - 1 < j - 1
        /\ (i - 1) + 1 = i /\ (j - 1) + 1 = j
    BY <1>3, <2>1, <2>2
  <2>4. r[i - 1] = p /\ r[j - 1] = q
    BY <1>3, <2>1, <2>3
  <2>. QED
    BY <1>3, <2>3, <2>4 DEF Before
<1>5. ASSUME NEW p, Before(s, p, h) PROVE FALSE
  <2>1. PICK i \in 1..n, j \in 1..n : i < j /\ s[i] = p /\ s[j] = h
    BY <1>3, <1>5 DEF Before
  <2>2. 1 \in 1..n
    BY <1>3
  <2>3. j = 1
    BY <1>3, <2>1, <2>2 DEF IsInjective
  <2>. QED
    BY <1>3, <2>1, <2>3
<1>. QED
  BY <1>1, <1>4, <1>5

-----------------------------------------------------------------------------
(* Two packets on the same road.                                           *)

\* The places of packets in flight, the worker each belongs to, how far it is
\* on the way through the worker's chain, and who waits there.
Stations == {x \in Places : x[1] # "pool"}
Area(x) == IF x[1] = "tap" THEN Home(x[2]) ELSE x[2]
Stage(x) ==
    IF x[1] = "worker" THEN 4 ELSE IF x[1] = "tap" THEN 2 ELSE IF x[3] = "plain" THEN 1 ELSE 3
Line(x) ==
    IF x[1] = "tap" THEN kept[x[2]] ELSE IF x[1] = "queue" THEN queue[x[2]][x[3]] ELSE <<>>

\* A packet at x is further than one at y, or before it in the same line.
Ahead(p, x, q, y) ==
    /\ Area(x)[2] = "in" => Area(y)[2] = "in"
    /\ Area(x) = Area(y) => Stage(x) > Stage(y) \/ (x = y /\ Before(Line(x), p, q))

\* The packet does not come to the module any more.
Past(p, x, m) == m \in SeenBy(p) \/ (Area(x)[2] = "out" /\ Area(x) # Home(m))

\* p is ahead of q unless a tap kept p that did not keep q, and has left behind
\* it the taps that kept q alone.
Precedes(p, x, q, y) ==
    StoppedAt(p) \subseteq StoppedAt(q) =>
        /\ Ahead(p, x, q, y)
        /\ \A t \in StoppedAt(q) \ StoppedAt(p) : Past(p, x, t)

RoadInv ==
    \A a \in Adapters : \A p, q \in Packets : p # q /\ <<p, q>> \in arrivals[a] =>
        \A x, y \in Stations : At(p, x) /\ At(q, y) => Precedes(p, x, q, y)

\* A captured packet is in the chain for incoming packets of its adapter, or in
\* a chain for outgoing ones.
InLane(p, a) ==
    /\ p \in Packets /\ p \notin free
    /\ \A x \in Stations : At(p, x) => Area(x) = <<a, "in">> \/ Area(x)[2] = "out"

LaneInv ==
    /\ arrivals \in [Adapters -> SUBSET (Packets \X Packets)]
    /\ \A a \in Adapters : \A p, q \in Packets : <<p, q>> \in arrivals[a] =>
          InLane(p, a) /\ InLane(q, a)

\* The modules that saw the packet are of the chain where it is, or of a chain
\* for incoming packets that lies behind it.
Within(p, x) ==
    \A v \in Workers : \A m \in ToSet(Chain[v]) :
        m \in SeenBy(p) => v = Area(x) \/ (v[2] = "in" /\ Area(x)[2] = "out")

WithinInv == \A p \in Packets : \A x \in Stations : At(p, x) => Within(p, x)

\* A packet that is kept, or waits to resume, was stopped by that tap.
StopInv ==
    \A p \in Packets :
        /\ \A t \in Taps : p \in ToSet(kept[t]) => t \in StoppedAt(p)
        /\ \A w \in Workers : p \in ToSet(queue[w]["priority"]) => resume[p] \in StoppedAt(p)

WayInv == LaneInv /\ WithinInv /\ StopInv /\ RoadInv

LEMMA StationKinds ==
    /\ \A w \in Workers, c \in Classes :
          /\ <<"queue", w, c>> \in Stations /\ Area(<<"queue", w, c>>) = w
          /\ Stage(<<"queue", w, c>>) = IF c = "plain" THEN 1 ELSE 3
          /\ Line(<<"queue", w, c>>) = queue[w][c]
    /\ \A w \in Workers :
          /\ <<"worker", w, NoModule>> \in Stations /\ Area(<<"worker", w, NoModule>>) = w
          /\ Stage(<<"worker", w, NoModule>>) = 4 /\ Line(<<"worker", w, NoModule>>) = <<>>
    /\ \A t \in Taps :
          /\ <<"tap", t, NoModule>> \in Stations /\ Area(<<"tap", t, NoModule>>) = Home(t)
          /\ Stage(<<"tap", t, NoModule>>) = 2 /\ Line(<<"tap", t, NoModule>>) = kept[t]
    /\ \A x \in Stations :
          \/ \E w \in Workers, c \in Classes : x = <<"queue", w, c>>
          \/ \E w \in Workers : x = <<"worker", w, NoModule>>
          \/ \E t \in Taps : x = <<"tap", t, NoModule>>
<1>1. \A w \in Workers, c \in Classes :
          /\ <<"queue", w, c>> \in Stations /\ Area(<<"queue", w, c>>) = w
          /\ Stage(<<"queue", w, c>>) = IF c = "plain" THEN 1 ELSE 3
          /\ Line(<<"queue", w, c>>) = queue[w][c]
  BY DEF Stations, Places, Area, Stage, Line
<1>2. \A w \in Workers :
          /\ <<"worker", w, NoModule>> \in Stations /\ Area(<<"worker", w, NoModule>>) = w
          /\ Stage(<<"worker", w, NoModule>>) = 4 /\ Line(<<"worker", w, NoModule>>) = <<>>
  BY DEF Stations, Places, Area, Stage, Line
<1>3. \A t \in Taps :
          /\ <<"tap", t, NoModule>> \in Stations /\ Area(<<"tap", t, NoModule>>) = Home(t)
          /\ Stage(<<"tap", t, NoModule>>) = 2 /\ Line(<<"tap", t, NoModule>>) = kept[t]
  BY DEF Stations, Places, Area, Stage, Line
<1>4. \A x \in Stations :
          \/ \E w \in Workers, c \in Classes : x = <<"queue", w, c>>
          \/ \E w \in Workers : x = <<"worker", w, NoModule>>
          \/ \E t \in Taps : x = <<"tap", t, NoModule>>
  BY DEF Stations, Places
<1>. QED
  BY <1>1, <1>2, <1>3, <1>4

\* Area and stage determine the station, but for which tap it is.
LEMMA StationStages ==
    ASSUME NEW x \in Stations
    PROVE  /\ x \in Places /\ Area(x) \in Workers /\ Area(x)[2] \in {"in", "out"}
           /\ Stage(x) \in 1..4
           /\ Stage(x) = 1 => x = <<"queue", Area(x), "plain">>
           /\ Stage(x) = 2 => \E t \in Taps : x = <<"tap", t, NoModule>> /\ Area(x) = Home(t)
           /\ Stage(x) = 3 => x = <<"queue", Area(x), "priority">>
           /\ Stage(x) = 4 => x = <<"worker", Area(x), NoModule>>
<1>1. x \in Places
  BY DEF Stations
<1>2. \A w \in Workers : w[2] \in {"in", "out"}
  BY DEF Workers
<1>3. ASSUME NEW w \in Workers, NEW c \in Classes, x = <<"queue", w, c>>
      PROVE  /\ Area(x) = w /\ Stage(x) \in {1, 3}
             /\ Stage(x) = 1 => c = "plain"
             /\ Stage(x) = 3 => c = "priority"
  <2>1. Area(x) = w /\ Stage(x) = (IF c = "plain" THEN 1 ELSE 3)
    BY <1>3, StationKinds
  <2>. QED
    BY <2>1 DEF Classes
<1>4. ASSUME NEW w \in Workers, x = <<"worker", w, NoModule>>
      PROVE  Area(x) = w /\ Stage(x) = 4
  BY <1>4, StationKinds
<1>5. ASSUME NEW t \in Taps, x = <<"tap", t, NoModule>>
      PROVE  Area(x) = Home(t) /\ Stage(x) = 2 /\ Home(t) \in Workers
  BY <1>5, StationKinds, HomeIsWorker
<1>6. CASE \E w \in Workers, c \in Classes : x = <<"queue", w, c>>
  BY <1>1, <1>2, <1>3, <1>6
<1>7. CASE \E w \in Workers : x = <<"worker", w, NoModule>>
  BY <1>1, <1>2, <1>4, <1>7
<1>8. CASE \E t \in Taps : x = <<"tap", t, NoModule>>
  BY <1>1, <1>2, <1>5, <1>8
<1>. QED
  BY <1>6, <1>7, <1>8, StationKinds

\* Stations do not change.
LEMMA SameStations ==
    /\ Stations' = Stations
    /\ \A x : Area(x)' = Area(x) /\ Stage(x)' = Stage(x)
    /\ \A m : Home(m)' = Home(m)
<1>1. \A m : Home(m)' = Home(m)
  BY DEF Home, Workers
<1>2. Stations' = Stations
  BY DEF Stations, Places, Workers, Taps, Modules
<1>3. \A x : Area(x)' = Area(x)
  BY <1>1 DEF Area
<1>4. \A x : Stage(x)' = Stage(x)
  BY DEF Stage
<1>. QED
  BY <1>1, <1>2, <1>3, <1>4

\* Each station holds what its kind says.
LEMMA StationAt ==
    ASSUME NEW x \in Stations, NEW p, At(p, x)
    PROVE  /\ Stage(x) = 1 => p \in ToSet(queue[Area(x)]["plain"])
           /\ Stage(x) = 2 =>
                 \E t \in Taps : /\ x = <<"tap", t, NoModule>> /\ Area(x) = Home(t)
                                 /\ p \in ToSet(kept[t])
           /\ Stage(x) = 3 => p \in ToSet(queue[Area(x)]["priority"])
           /\ Stage(x) = 4 => p = worker[Area(x)].packet
<1>1. CASE Stage(x) = 1
  BY <1>1, StationStages, PlaceKinds DEF Classes
<1>2. CASE Stage(x) = 2
  <2>1. PICK t \in Taps : x = <<"tap", t, NoModule>> /\ Area(x) = Home(t)
    BY <1>2, StationStages
  <2>2. p \in ToSet(kept[t])
    BY <2>1, PlaceKinds
  <2>. QED
    BY <1>2, <2>1, <2>2
<1>3. CASE Stage(x) = 3
  BY <1>3, StationStages, PlaceKinds DEF Classes
<1>4. CASE Stage(x) = 4
  BY <1>4, StationStages, PlaceKinds
<1>. QED
  BY <1>1, <1>2, <1>3, <1>4, StationStages

\* The order of the packets other than m stays, in the queues and at the taps.
QueueLines(m) ==
    \A w \in Workers, c \in Classes : \A p, q \in Packets \ {m} :
        Before(queue[w][c], p, q) => Before(queue'[w][c], p, q)

KeptLines(m) ==
    \A t \in Taps : \A p, q \in Packets \ {m} :
        Before(kept[t], p, q) => Before(kept'[t], p, q)

LEMMA LinesStay ==
    ASSUME NEW m, QueueLines(m), KeptLines(m), NEW x \in Stations,
           NEW p \in Packets \ {m}, NEW q \in Packets \ {m}, Before(Line(x), p, q)
    PROVE  Before(Line(x), p, q)'
<1>1. ASSUME NEW w \in Workers, NEW c \in Classes, x = <<"queue", w, c>>
      PROVE  Before(Line(x), p, q)'
  BY <1>1 DEF Line, QueueLines, Before
<1>2. ASSUME NEW t \in Taps, x = <<"tap", t, NoModule>>
      PROVE  Before(Line(x), p, q)'
  BY <1>2 DEF Line, KeptLines, Before
<1>3. ASSUME NEW w \in Workers, x = <<"worker", w, NoModule>>
      PROVE  Before(Line(x), p, q)'
  <2>1. Line(x) = <<>>
    BY <1>3 DEF Line
  <2>2. DOMAIN <<>> = {}
    OBVIOUS
  <2>. QED
    BY <2>1, <2>2 DEF Before
<1>. QED
  BY <1>1, <1>2, <1>3, StationKinds

\* What a step that moves only m must show of m, for all to stay in order.
Unmoved(m) ==
    /\ \A q \in Packets : q # m => trail'[q] = trail[q] /\ resume'[q] = resume[q]
    /\ arrivals' \in [Adapters -> SUBSET (Packets \X Packets)]
    /\ \A a \in Adapters : \A p, q \in Packets \ {m} :
          <<p, q>> \in arrivals'[a] => <<p, q>> \in arrivals[a]

MovedLane(m, y) ==
    \A a \in Adapters : \A q \in Packets :
        <<m, q>> \in arrivals'[a] \/ <<q, m>> \in arrivals'[a] =>
            /\ y \in Stations /\ (Area(y) = <<a, "in">> \/ Area(y)[2] = "out")
            /\ q # m => InLane(q, a)

MovedRoad(m, y) ==
    \A a \in Adapters : \A q \in Packets : q # m =>
        \A z \in Stations : At(q, z) =>
            /\ <<m, q>> \in arrivals'[a] => Precedes(m, y, q, z)'
            /\ <<q, m>> \in arrivals'[a] => Precedes(q, z, m, y)'

LEMMA SameTrail ==
    ASSUME NEW q, trail'[q] = trail[q]
    PROVE  SeenBy(q)' = SeenBy(q) /\ StoppedAt(q)' = StoppedAt(q)
  BY DEF SeenBy, StoppedAt

LEMMA ShiftLane ==
    ASSUME LaneInv, NEW m \in Packets, NEW y \in Places, Shift(m, y), Unmoved(m), MovedLane(m, y)
    PROVE  LaneInv'
<1>1. \A q \in Packets : \A z \in Places : At(q, z)' <=> IF q = m THEN z = y ELSE At(q, z)
  BY ShiftAt
<1>2. ASSUME NEW a \in Adapters, NEW q \in Packets, q # m, InLane(q, a)
      PROVE  InLane(q, a)'
  <2>1. q \notin free'
    BY <1>2 DEF Shift, InLane
  <2>2. ASSUME NEW x \in Stations, At(q, x)'
        PROVE  Area(x) = <<a, "in">> \/ Area(x)[2] = "out"
    <3>1. At(q, x)
      BY <1>1, <1>2, <2>2 DEF Stations
    <3>. QED
      BY <1>2, <3>1 DEF InLane
  <2>. QED
    BY <2>1, <2>2, SameStations DEF InLane
<1>3. ASSUME NEW a \in Adapters, y \in Stations, Area(y) = <<a, "in">> \/ Area(y)[2] = "out"
      PROVE  InLane(m, a)'
  <2>1. m \notin free'
    <3>1. y # <<"pool", NoModule, NoModule>>
      BY <1>3 DEF Stations
    <3>. QED
      BY <3>1 DEF Shift
  <2>2. \A x \in Stations : At(m, x)' => x = y
    BY <1>1 DEF Stations
  <2>. QED
    BY <1>3, <2>1, <2>2, SameStations DEF InLane
<1>4. ASSUME NEW a \in Adapters, NEW p \in Packets, NEW q \in Packets, <<p, q>> \in arrivals'[a]
      PROVE  InLane(p, a)' /\ InLane(q, a)'
  <2>1. CASE p # m /\ q # m
    <3>1. <<p, q>> \in arrivals[a]
      BY <1>4, <2>1 DEF Unmoved
    <3>. QED
      BY <1>2, <2>1, <3>1 DEF LaneInv
  <2>2. CASE p = m /\ q # m
    BY <1>2, <1>3, <1>4, <2>2 DEF MovedLane
  <2>3. CASE p # m /\ q = m
    BY <1>2, <1>3, <1>4, <2>3 DEF MovedLane
  <2>4. CASE p = m /\ q = m
    BY <1>3, <1>4, <2>4 DEF MovedLane
  <2>. QED
    BY <2>1, <2>2, <2>3, <2>4
<1>. QED
  BY <1>4 DEF LaneInv, Unmoved

LEMMA ShiftWithin ==
    ASSUME WithinInv, NEW m \in Packets, NEW y \in Places, Shift(m, y), Unmoved(m),
           y \in Stations => Within(m, y)'
    PROVE  WithinInv'
<1>1. \A q \in Packets : \A z \in Places : At(q, z)' <=> IF q = m THEN z = y ELSE At(q, z)
  BY ShiftAt
<1>2. ASSUME NEW q \in Packets, NEW x \in Stations, At(q, x)'
      PROVE  Within(q, x)'
  <2>1. CASE q = m
    BY <1>1, <1>2, <2>1 DEF Stations
  <2>2. CASE q # m
    <3>1. Within(q, x)
      BY <1>1, <1>2, <2>2 DEF Stations, WithinInv
    <3>2. SeenBy(q)' = SeenBy(q)
      BY <2>2, SameTrail DEF Unmoved
    <3>. QED
      BY <3>1, <3>2, SameStations DEF Within, Workers
  <2>. QED
    BY <2>1, <2>2
<1>. QED
  BY <1>2, SameStations DEF WithinInv

LEMMA ShiftStop ==
    ASSUME StopInv, NEW m \in Packets, NEW y \in Places, Shift(m, y), Unmoved(m),
           \A t \in Taps : y = <<"tap", t, NoModule>> => t \in StoppedAt(m)',
           \A w \in Workers : y = <<"queue", w, "priority">> => resume'[m] \in StoppedAt(m)'
    PROVE  StopInv'
<1>1. ASSUME NEW q \in Packets, NEW t \in Taps, q \in ToSet(kept'[t])
      PROVE  t \in StoppedAt(q)'
  <2>1. CASE q = m
    BY <1>1, <2>1 DEF Shift
  <2>2. CASE q # m
    <3>1. q \in ToSet(kept[t])
      BY <1>1, <2>2 DEF Shift
    <3>2. StoppedAt(q)' = StoppedAt(q)
      BY <2>2, SameTrail DEF Unmoved
    <3>. QED
      BY <3>1, <3>2 DEF StopInv
  <2>. QED
    BY <2>1, <2>2
<1>2. ASSUME NEW q \in Packets, NEW w \in Workers, q \in ToSet(queue'[w]["priority"])
      PROVE  resume'[q] \in StoppedAt(q)'
  <2>0. "priority" \in Classes
    BY DEF Classes
  <2>1. CASE q = m
    BY <1>2, <2>0, <2>1 DEF Shift
  <2>2. CASE q # m
    <3>1. q \in ToSet(queue[w]["priority"])
      BY <1>2, <2>0, <2>2 DEF Shift
    <3>2. StoppedAt(q)' = StoppedAt(q) /\ resume'[q] = resume[q]
      BY <2>2, SameTrail DEF Unmoved
    <3>. QED
      BY <3>1, <3>2 DEF StopInv
  <2>. QED
    BY <2>1, <2>2
<1>. QED
  BY <1>1, <1>2 DEF StopInv, Taps, Workers, Modules

LEMMA ShiftRoad ==
    ASSUME RoadInv, NEW m \in Packets, NEW y \in Places, Shift(m, y), Unmoved(m),
           QueueLines(m), KeptLines(m), MovedRoad(m, y)
    PROVE  RoadInv'
<1>1. \A q \in Packets : \A z \in Places : At(q, z)' <=> IF q = m THEN z = y ELSE At(q, z)
  BY ShiftAt
<1>2. ASSUME NEW a \in Adapters, NEW p \in Packets, NEW q \in Packets, p # q,
             <<p, q>> \in arrivals'[a], NEW x \in Stations, NEW z \in Stations,
             At(p, x)', At(q, z)'
      PROVE  Precedes(p, x, q, z)'
  <2>1. CASE p # m /\ q # m
    <3>1. At(p, x) /\ At(q, z) /\ <<p, q>> \in arrivals[a]
      BY <1>1, <1>2, <2>1 DEF Stations, Unmoved
    <3>2. Precedes(p, x, q, z)
      BY <1>2, <3>1 DEF RoadInv
    <3>3. /\ SeenBy(p)' = SeenBy(p) /\ StoppedAt(p)' = StoppedAt(p)
          /\ StoppedAt(q)' = StoppedAt(q)
      BY <2>1, SameTrail DEF Unmoved
    <3>4. \A t : Past(p, x, t)' <=> Past(p, x, t)
      BY <3>3, SameStations DEF Past
    <3>5. Ahead(p, x, q, z) => Ahead(p, x, q, z)'
      <4>1. Before(Line(x), p, q) => Before(Line(x), p, q)'
        BY <2>1, LinesStay
      <4>. QED
        BY <4>1, SameStations DEF Ahead
    <3>. QED
      BY <3>2, <3>3, <3>4, <3>5 DEF Precedes
  <2>2. CASE p = m
    <3>1. x = y /\ q # m /\ At(q, z)
      BY <1>1, <1>2, <2>2 DEF Stations
    <3>. QED
      BY <1>2, <2>2, <3>1 DEF MovedRoad
  <2>3. CASE q = m
    <3>1. z = y /\ p # m /\ At(p, x)
      BY <1>1, <1>2, <2>3 DEF Stations
    <3>. QED
      BY <1>2, <2>3, <3>1 DEF MovedRoad
  <2>. QED
    BY <2>1, <2>2, <2>3
<1>. QED
  BY <1>2, SameStations DEF RoadInv

LEMMA ShiftWay ==
    ASSUME WayInv, NEW m \in Packets, NEW y \in Places, Shift(m, y), Unmoved(m),
           QueueLines(m), KeptLines(m), MovedLane(m, y), MovedRoad(m, y),
           y \in Stations => Within(m, y)',
           \A t \in Taps : y = <<"tap", t, NoModule>> => t \in StoppedAt(m)',
           \A w \in Workers : y = <<"queue", w, "priority">> => resume'[m] \in StoppedAt(m)'
    PROVE  WayInv'
<1>1. LaneInv'
  BY ShiftLane DEF WayInv
<1>2. WithinInv'
  BY ShiftWithin DEF WayInv
<1>3. StopInv'
  BY ShiftStop DEF WayInv
<1>4. RoadInv'
  BY ShiftRoad DEF WayInv
<1>. QED
  BY <1>1, <1>2, <1>3, <1>4 DEF WayInv

\* Most steps leave the history of captures alone, and move the packet within
\* the chain or to a chain for outgoing packets.
LEMMA SameArrivals ==
    ASSUME WayInv, NEW m \in Packets, UNCHANGED arrivals,
           \A q \in Packets : q # m => trail'[q] = trail[q] /\ resume'[q] = resume[q]
    PROVE  Unmoved(m)
  BY DEF Unmoved, WayInv, LaneInv

LEMMA SameLane ==
    ASSUME WayInv, NEW m \in Packets, UNCHANGED arrivals,
           NEW x \in Stations, At(m, x), NEW y \in Stations, Area(y) = Area(x) \/ Area(y)[2] = "out"
    PROVE  MovedLane(m, y)
<1>1. ASSUME NEW a \in Adapters, NEW q \in Packets,
             <<m, q>> \in arrivals[a] \/ <<q, m>> \in arrivals[a]
      PROVE  InLane(m, a) /\ InLane(q, a)
  BY <1>1 DEF WayInv, LaneInv
<1>. QED
  BY <1>1 DEF MovedLane, InLane

\* What a pair of packets does when the second or the first of them moves.
LEMMA RoadFromPair ==
    ASSUME WayInv, NEW m \in Packets, UNCHANGED arrivals,
           NEW x \in Stations, At(m, x), NEW y,
           \A a \in Adapters : \A q \in Packets \ {m} : \A z \in Stations :
               At(q, z) /\ InLane(q, a) /\ InLane(m, a) =>
                   /\ Precedes(m, x, q, z) => Precedes(m, y, q, z)'
                   /\ Precedes(q, z, m, x) => Precedes(q, z, m, y)'
    PROVE  MovedRoad(m, y)
<1>1. ASSUME NEW a \in Adapters, NEW q \in Packets, q # m, NEW z \in Stations, At(q, z),
             <<m, q>> \in arrivals[a]
      PROVE  Precedes(m, y, q, z)'
  <2>1. Precedes(m, x, q, z)
    BY <1>1 DEF WayInv, RoadInv
  <2>2. InLane(m, a) /\ InLane(q, a)
    BY <1>1 DEF WayInv, LaneInv
  <2>. QED
    BY <1>1, <2>1, <2>2
<1>2. ASSUME NEW a \in Adapters, NEW q \in Packets, q # m, NEW z \in Stations, At(q, z),
             <<q, m>> \in arrivals[a]
      PROVE  Precedes(q, z, m, y)'
  <2>1. Precedes(q, z, m, x)
    BY <1>2 DEF WayInv, RoadInv
  <2>2. InLane(m, a) /\ InLane(q, a)
    BY <1>2 DEF WayInv, LaneInv
  <2>. QED
    BY <1>2, <2>1, <2>2
<1>. QED
  BY <1>1, <1>2 DEF MovedRoad

-----------------------------------------------------------------------------
(* The lines after a step.                                                 *)

LEMMA PushLines ==
    ASSUME Typed, NEW w \in Workers, NEW c \in Classes, NEW m \in Packets,
           queue' = [queue EXCEPT ![w][c] = Append(@, m)]
    PROVE  QueueLines(m) /\ \A q \in ToSet(queue[w][c]) : Before(queue'[w][c], q, m)
<1>1. PICK s : s = queue[w][c] /\ s \in Seq(Packets)
  BY DEF Typed
<1>2. PICK r : r = Append(s, m)
  OBVIOUS
<1>3. queue' = [queue EXCEPT ![w][c] = r]
  BY <1>1, <1>2
<1>4. queue'[w][c] = r /\ \A v \in Workers, d \in Classes :
         ~ (v = w /\ d = c) => queue'[v][d] = queue[v][d]
  BY <1>3 DEF Typed
<1>5. /\ \A p, q : Before(s, p, q) => Before(r, p, q)
      /\ \A p \in ToSet(s) : Before(r, p, m)
  BY <1>1, <1>2, BeforeAppend
<1>. QED
  BY <1>1, <1>4, <1>5 DEF QueueLines

LEMMA TailLines ==
    ASSUME IInv, NEW w \in Workers, NEW c \in Classes, queue[w][c] # <<>>,
           queue' = [queue EXCEPT ![w][c] = Tail(@)]
    PROVE  /\ QueueLines(Head(queue[w][c]))
           /\ \A q : ~ Before(queue[w][c], q, Head(queue[w][c]))
<1>1. PICK s : s = queue[w][c] /\ s \in Seq(Packets) /\ IsInjective(s) /\ s # <<>>
  BY DEF IInv, Typed, PlaceInv
<1>2. PICK r : r = Tail(s)
  OBVIOUS
<1>3. queue' = [queue EXCEPT ![w][c] = r]
  BY <1>1, <1>2
<1>4. queue'[w][c] = r /\ \A v \in Workers, d \in Classes :
         ~ (v = w /\ d = c) => queue'[v][d] = queue[v][d]
  BY <1>3 DEF IInv, Typed
<1>5. PICK h : h = Head(s)
  OBVIOUS
<1>6. /\ \A p, q : Before(s, p, q) /\ p # h => Before(r, p, q)
      /\ \A q : ~ Before(s, q, h)
  BY <1>1, <1>2, <1>5, BeforeTail
<1>7. QueueLines(h)
  BY <1>1, <1>4, <1>6 DEF QueueLines
<1>. QED
  BY <1>1, <1>5, <1>6, <1>7

LEMMA PushKept ==
    ASSUME Typed, NEW t \in Taps, NEW m \in Packets, kept' = [kept EXCEPT ![t] = Append(@, m)]
    PROVE  KeptLines(m) /\ \A q \in ToSet(kept[t]) : Before(kept'[t], q, m)
<1>1. PICK s : s = kept[t] /\ s \in Seq(Packets)
  BY DEF Typed
<1>2. PICK r : r = Append(s, m)
  OBVIOUS
<1>3. kept' = [kept EXCEPT ![t] = r]
  BY <1>1, <1>2
<1>4. kept'[t] = r /\ \A u \in Taps : u # t => kept'[u] = kept[u]
  BY <1>3 DEF Typed
<1>5. /\ \A p, q : Before(s, p, q) => Before(r, p, q)
      /\ \A p \in ToSet(s) : Before(r, p, m)
  BY <1>1, <1>2, BeforeAppend
<1>. QED
  BY <1>1, <1>4, <1>5 DEF KeptLines

LEMMA TailKept ==
    ASSUME IInv, NEW t \in Taps, kept[t] # <<>>, kept' = [kept EXCEPT ![t] = Tail(@)]
    PROVE  KeptLines(Head(kept[t])) /\ \A q : ~ Before(kept[t], q, Head(kept[t]))
<1>1. PICK s : s = kept[t] /\ s \in Seq(Packets) /\ IsInjective(s) /\ s # <<>>
  BY DEF IInv, Typed, PlaceInv
<1>2. PICK r : r = Tail(s)
  OBVIOUS
<1>3. kept' = [kept EXCEPT ![t] = r]
  BY <1>1, <1>2
<1>4. kept'[t] = r /\ \A u \in Taps : u # t => kept'[u] = kept[u]
  BY <1>3 DEF IInv, Typed
<1>5. PICK h : h = Head(s)
  OBVIOUS
<1>6. /\ \A p, q : Before(s, p, q) /\ p # h => Before(r, p, q)
      /\ \A q : ~ Before(s, q, h)
  BY <1>1, <1>2, <1>5, BeforeTail
<1>7. KeptLines(h)
  BY <1>1, <1>4, <1>6 DEF KeptLines
<1>. QED
  BY <1>1, <1>5, <1>6, <1>7

LEMMA NoLineMoves == /\ UNCHANGED queue => \A m : QueueLines(m)
                     /\ UNCHANGED kept => \A m : KeptLines(m)
  BY DEF QueueLines, KeptLines

-----------------------------------------------------------------------------
(* One lemma for each kind of step.                                        *)

LEMMA VisitStops ==
    ASSUME Typed, Trails, NEW w \in Workers, NEW p \in Packets, p = worker[w].packet,
           AtModule(w), NEW b \in BOOLEAN, Visit(w, b)
    PROVE  StoppedAt(p)' = IF b THEN StoppedAt(p) \cup {Module(w)} ELSE StoppedAt(p)
<1>1. PICK s : s = trail[p]
  OBVIOUS
<1>2. PICK e : e = [module |-> Module(w), stays |-> b]
  OBVIOUS
<1>3. PICK r : r = Append(s, e)
  OBVIOUS
<1>4. e \in [module : Modules, stays : BOOLEAN] /\ e.module = Module(w) /\ e.stays = b
  BY <1>2, ModuleType
<1>5. s \in Seq([module : Modules, stays : BOOLEAN])
  BY <1>1 DEF Trails
<1>6. r \in Seq([module : Modules, stays : BOOLEAN])
  BY <1>3, <1>4, <1>5, AppendProperties
<1>7. PICK n : n = Len(s)
  OBVIOUS
<1>8. /\ n \in Nat /\ DOMAIN s = 1..n /\ DOMAIN r = (1..n) \cup {n + 1}
      /\ \A i \in 1..n : r[i] = s[i]
      /\ r[n + 1] = e
  <2>1. /\ Len(r) = n + 1 /\ n \in Nat /\ DOMAIN s = 1..n /\ DOMAIN r = 1..Len(r)
        /\ \A i \in 1..n : r[i] = s[i]
        /\ r[n + 1] = e
    BY <1>3, <1>4, <1>5, <1>6, <1>7, AppendProperties, LenProperties
  <2>2. 1..(n + 1) = (1..n) \cup {n + 1}
    BY <2>1
  <2>. QED
    BY <2>1, <2>2
<1>9. trail' = [trail EXCEPT ![p] = r]
  BY <1>1, <1>2, <1>3 DEF Visit
<1>10. trail'[p] = r
  BY <1>9 DEF Trails
<1>11. PICK M, N : /\ M = {s[i].module : i \in {j \in DOMAIN s : s[j].stays}}
                   /\ N = {r[i].module : i \in {j \in DOMAIN r : r[j].stays}}
  OBVIOUS
<1>12. StoppedAt(p) = M /\ StoppedAt(p)' = N
  BY <1>1, <1>10, <1>11 DEF StoppedAt
<1>13. CASE b = TRUE
  <2>1. {j \in DOMAIN r : r[j].stays} = {j \in DOMAIN s : s[j].stays} \cup {n + 1}
    BY <1>4, <1>8, <1>13
  <2>2. N = M \cup {e.module}
    BY <1>8, <1>11, <2>1
  <2>. QED
    BY <1>4, <1>12, <1>13, <2>2
<1>14. CASE b = FALSE
  <2>1. {j \in DOMAIN r : r[j].stays} = {j \in DOMAIN s : s[j].stays}
    BY <1>4, <1>8, <1>14
  <2>2. N = M
    BY <1>8, <1>11, <2>1
  <2>. QED
    BY <1>12, <1>14, <2>2
<1>. QED
  BY <1>13, <1>14

LEMMA StoppedSeen == \A p : StoppedAt(p) \subseteq SeenBy(p)
  BY DEF StoppedAt, SeenBy

\* A tap belongs to the chain it is in.
LEMMA HomeOfModule ==
    ASSUME NEW w \in Workers, NEW m \in ToSet(Chain[w])
    PROVE  Home(m) = w
<1>1. \E v \in Workers : m \in ToSet(Chain[v])
  OBVIOUS
<1>2. Home(m) \in Workers /\ m \in ToSet(Chain[Home(m)])
  BY <1>1 DEF Home
<1>. QED
  BY <1>2, ChainPositions

\* A packet is at one station, and alone if that is a worker.
LEMMA AtStation ==
    ASSUME IInv, NEW p \in Packets, NEW x \in Stations, At(p, x)
    PROVE  /\ p \notin free
           /\ \A y \in Stations : At(p, y) => y = x
           /\ \A q \in Packets : Stage(x) = 4 /\ At(q, x) => q = p
<1>1. p \notin free
  BY PlaceKinds DEF IInv, PlaceInv, Stations
<1>2. \A y \in Stations : At(p, y) => y = x
  BY DEF IInv, PlaceInv, Stations
<1>3. \A q \in Packets : Stage(x) = 4 /\ At(q, x) => q = p
  BY StationAt
<1>. QED
  BY <1>1, <1>2, <1>3

\* A packet taken from a queue leads its chain.
LEMMA TakeWay ==
    ASSUME IInv, OrderInv, WayInv, NEW w \in Workers, NEW c \in Classes, queue[w][c] # <<>>,
           Take(w, c), worker[w].pc # "chain",
           UNCHANGED <<enabled, free, resume, kept, trail, arrivals>>
    PROVE  WayInv'
<1>1. PICK m \in Packets :
         /\ m = Head(queue[w][c]) /\ m \in ToSet(queue[w][c])
         /\ Shift(m, <<"worker", w, NoModule>>)
  BY QueueToWorker
<1>2. PICK x, y : x = <<"queue", w, c>> /\ y = <<"worker", w, NoModule>>
  OBVIOUS
<1>3. /\ x \in Stations /\ Area(x) = w /\ Stage(x) = (IF c = "plain" THEN 1 ELSE 3)
      /\ Line(x) = queue[w][c]
      /\ y \in Stations /\ Area(y) = w /\ Stage(y) = 4
  BY <1>2, StationKinds
<1>4. At(m, x)
  BY <1>1, <1>2, PlaceKinds
<1>5. QueueLines(m) /\ KeptLines(m) /\ \A q : ~ Before(Line(x), q, m)
  <2>1. queue' = [queue EXCEPT ![w][c] = Tail(@)]
    BY DEF Take
  <2>. QED
    BY <1>1, <1>3, <2>1, TailLines, NoLineMoves
<1>6. \A p : SeenBy(p)' = SeenBy(p) /\ StoppedAt(p)' = StoppedAt(p)
  BY DEF SeenBy, StoppedAt
<1>7. ASSUME NEW q \in Packets, NEW z \in Stations, At(q, z), Area(z) = w
      PROVE  Stage(z) \in {1, 2, 3}
  <2>1. worker[w].packet = NoPacket
    BY DEF IInv, ChainInv
  <2>2. Stage(z) # 4
    BY <1>7, <2>1, StationAt, NullAssumption
  <2>. QED
    BY <2>2, StationStages
<1>8. \A p : \A t : Past(p, y, t)' <=> Past(p, x, t)
  BY <1>3, <1>6, SameStations DEF Past
<1>9. ASSUME NEW q \in Packets \ {m}, NEW z \in Stations, At(q, z), Precedes(m, x, q, z)
      PROVE  Precedes(m, y, q, z)'
  <2>. SUFFICES ASSUME StoppedAt(m) \subseteq StoppedAt(q)
                PROVE  Ahead(m, y, q, z)'
    BY <1>6, <1>8, <1>9 DEF Precedes
  <2>1. Ahead(m, x, q, z)
    BY <1>9 DEF Precedes
  <2>2. Area(z) = w => Stage(y) > Stage(z)
    BY <1>3, <1>7, <1>9
  <2>. QED
    BY <1>3, <2>1, <2>2, SameStations DEF Ahead
<1>10. ASSUME NEW q \in Packets \ {m}, NEW z \in Stations, At(q, z), Precedes(q, z, m, x)
       PROVE  Precedes(q, z, m, y)'
  <2>. SUFFICES ASSUME StoppedAt(q) \subseteq StoppedAt(m)
                PROVE  Ahead(q, z, m, y)'
    <3>1. \A t : Past(q, z, t)' <=> Past(q, z, t)
      BY <1>6, SameStations DEF Past
    <3>. QED
      BY <1>6, <1>10, <3>1 DEF Precedes
  <2>1. Ahead(q, z, m, x)
    BY <1>10 DEF Precedes
  <2>2. Area(z) # w
    <3>. SUFFICES ASSUME Area(z) = w PROVE FALSE
      OBVIOUS
    <3>1. Stage(z) > Stage(x) /\ Stage(z) \in {1, 2, 3}
      BY <1>3, <1>5, <1>7, <1>10, <2>1 DEF Ahead
    <3>2. c = "plain"
      BY <1>3, <3>1
    <3>3. SeenBy(m) \cap ToSet(Chain[w]) = {}
      <4>1. Reached(m, w, 0)
        BY <1>1, <3>2, FitsAt DEF OrderInv
      <4>. QED
        BY <4>1 DEF Reached
    <3>4. \E t \in StoppedAt(q) : t \in ToSet(Chain[w])
      <4>1. CASE Stage(z) = 2
        <5>1. PICK t \in Taps : Area(z) = Home(t) /\ q \in ToSet(kept[t])
          BY <1>10, <4>1, StationAt
        <5>2. t \in StoppedAt(q) /\ t \in ToSet(Chain[w])
          BY <5>1, HomeIsWorker DEF WayInv, StopInv
        <5>. QED
          BY <5>2
      <4>2. CASE Stage(z) = 3
        <5>1. q \in ToSet(queue[w]["priority"])
          BY <1>10, <4>2, StationAt
        <5>2. resume[q] \in StoppedAt(q)
          BY <5>1 DEF WayInv, StopInv
        <5>3. Resumes(q, w, 1)
          BY <5>1, FitsAt DEF OrderInv
        <5>4. resume[q] \in ToSet(Chain[w])
          BY <5>3, ChainPositions DEF Resumes
        <5>. QED
          BY <5>2, <5>4
      <4>. QED
        BY <1>3, <3>1, <3>2, <4>1, <4>2
    <3>. QED
      BY <3>3, <3>4, StoppedSeen
  <2>. QED
    BY <1>3, <2>1, <2>2, SameStations DEF Ahead
<1>11. MovedRoad(m, y)
  BY <1>3, <1>4, <1>9, <1>10, RoadFromPair
<1>12. Within(m, y)'
  <2>1. Within(m, x)
    BY <1>3, <1>4 DEF WayInv, WithinInv
  <2>. QED
    BY <1>3, <1>6, <2>1, SameStations DEF Within, Workers
<1>13. Unmoved(m) /\ MovedLane(m, y)
  BY <1>3, <1>4, SameArrivals, SameLane
<1>14. y \in Places
  BY <1>2, PlaceKinds
<1>. QED
  BY <1>1, <1>2, <1>5, <1>11, <1>12, <1>13, <1>14, ShiftWay

\* A packet that is passed through comes last in its new chain, and from an
\* earlier one.
LEMMA PassthroughWay ==
    ASSUME IInv, OrderInv, WayInv, NEW w \in Workers, Passthrough(w)
    PROVE  WayInv'
<1>1. PICK m \in Packets, k \in 1..Len(Chain[w]) :
              /\ m = worker[w].packet /\ k = worker[w].next
              /\ AtModule(w) /\ Module(w) = Chain[w][k] /\ Kind[Module(w)] = "pass"
              /\ resume[m] = NoModule
  <2>1. Offer(w, {"pass"})
    BY DEF Passthrough
  <2>. QED
    BY <2>1, OfferedAt
<1>2. Module(w) \in ToSet(Chain[w]) /\ w[2] = "in"
  <2>1. Module(w) \in ToSet(Chain[w])
    BY <1>1, ChainPositions
  <2>. QED
    BY <1>1, <2>1, PassAssumption
<1>3. PICK v \in Workers : v = <<Target[Module(w)], "out">> /\ v[2] = "out"
  <2>1. Module(w) \in {n \in Modules : Kind[n] = "pass"}
    BY <1>1, ModuleType DEF IInv
  <2>2. PICK a \in Adapters : a = Target[Module(w)]
    BY <2>1, KindAssumption
  <2>3. <<a, "out">> \in Workers /\ <<a, "out">>[2] = "out"
    BY DEF Workers
  <2>. QED
    BY <2>2, <2>3
<1>4. /\ AddQueue(v, worker[w].packet, NoModule) /\ Visit(w, FALSE) /\ Finish(w)
      /\ UNCHANGED <<enabled, free, resume, kept, arrivals>> /\ worker[w].pc = "chain"
  BY <1>1, <1>3 DEF Passthrough, AtModule
<1>5. PICK x, y : x = <<"worker", w, NoModule>> /\ y = <<"queue", v, "plain">>
  OBVIOUS
<1>6. /\ x \in Stations /\ Area(x) = w /\ Stage(x) = 4
      /\ y \in Stations /\ Area(y) = v /\ Stage(y) = 1 /\ Line(y) = queue[v]["plain"]
  BY <1>5, StationKinds DEF Classes
<1>7. Shift(m, y) /\ At(m, x)
  BY <1>1, <1>4, <1>5, WorkerToQueue, PlaceKinds
<1>8. QueueLines(m) /\ KeptLines(m) /\ \A q \in ToSet(queue[v]["plain"]) : Before(queue'[v]["plain"], q, m)
  <2>1. queue' = [queue EXCEPT ![v]["plain"] = Append(@, m)]
    BY <1>1, <1>4 DEF AddQueue
  <2>. QED
    BY <1>4, <2>1, PushLines, NoLineMoves DEF IInv, Classes
<1>9. /\ SeenBy(m)' = SeenBy(m) \cup {Module(w)} /\ StoppedAt(m)' = StoppedAt(m)
      /\ \A q \in Packets : q # m => trail'[q] = trail[q]
  <2>1. StoppedAt(m)' = IF FALSE THEN StoppedAt(m) \cup {Module(w)} ELSE StoppedAt(m)
    BY <1>1, <1>4, VisitStops DEF IInv, OrderInv
  <2>. QED
    BY <1>1, <1>4, <2>1, VisitSteps DEF IInv, OrderInv
<1>10. \A q \in Packets : q # m => SeenBy(q)' = SeenBy(q) /\ StoppedAt(q)' = StoppedAt(q)
  BY <1>9, SameTrail
<1>11. ASSUME NEW q \in Packets \ {m}, NEW z \in Stations, At(q, z), Precedes(m, x, q, z)
       PROVE  Precedes(m, y, q, z)'
  <2>. SUFFICES ASSUME StoppedAt(m) \subseteq StoppedAt(q)
                PROVE  /\ Ahead(m, y, q, z)'
                       /\ \A t \in StoppedAt(q) \ StoppedAt(m) : Past(m, y, t)'
    BY <1>9, <1>10 DEF Precedes
  <2>1. Ahead(m, x, q, z) /\ \A t \in StoppedAt(q) \ StoppedAt(m) : Past(m, x, t)
    BY <1>11 DEF Precedes
  <2>2. Area(z)[2] = "in" /\ Area(z) # v
    BY <1>2, <1>3, <1>6, <2>1 DEF Ahead
  <2>3. \A t : Past(m, x, t) => t \in SeenBy(m)
    BY <1>2, <1>6 DEF Past
  <2>4. Ahead(m, y, q, z)'
    BY <1>3, <1>6, <2>2, SameStations DEF Ahead
  <2>. QED
    BY <1>9, <2>1, <2>3, <2>4 DEF Past
<1>12. ASSUME NEW a \in Adapters, NEW q \in Packets \ {m}, NEW z \in Stations, At(q, z),
              InLane(q, a), InLane(m, a), Precedes(q, z, m, x)
       PROVE  Precedes(q, z, m, y)'
  <2>. SUFFICES ASSUME StoppedAt(q) \subseteq StoppedAt(m)
                PROVE  Ahead(q, z, m, y)'
    <3>1. \A t : Past(q, z, t)' <=> Past(q, z, t)
      BY <1>10, SameStations DEF Past
    <3>. QED
      BY <1>9, <1>10, <1>12, <3>1 DEF Precedes
  <2>1. Ahead(q, z, m, x)
    BY <1>12 DEF Precedes
  <2>2. Area(z)[2] = "out"
    <3>. SUFFICES ASSUME Area(z)[2] = "in" PROVE FALSE
      BY StationStages
    <3>1. Area(z) = <<a, "in">> /\ w = <<a, "in">>
      BY <1>2, <1>6, <1>7, <1>12 DEF InLane
    <3>2. Stage(z) > Stage(x) \/ z = x
      BY <1>6, <2>1, <3>1 DEF Ahead
    <3>3. Stage(z) \in 1..4
      BY StationStages
    <3>4. z = x
      BY <1>6, <3>2, <3>3
    <3>. QED
      BY <1>6, <1>7, <1>12, <3>4, AtStation
  <2>3. ASSUME Area(z) = v
        PROVE  Stage(z) > 1 \/ (z = y /\ Before(queue'[v]["plain"], q, m))
    <3>1. CASE Stage(z) = 1
      <4>1. z = y /\ q \in ToSet(queue[v]["plain"])
        BY <1>5, <1>12, <2>3, <3>1, StationStages, StationAt
      <4>. QED
        BY <1>8, <4>1
    <3>2. CASE Stage(z) # 1
      BY <3>2, StationStages
    <3>. QED
      BY <3>1, <3>2
  <2>4. Line(y)' = queue'[v]["plain"]
    BY <1>5 DEF Line
  <2>. QED
    <3>1. Area(z)[2] # "in"
      BY <2>2
    <3>2. Area(z) = v => Stage(z) > 1 \/ (z = y /\ Before(Line(z)', q, m))
      BY <2>3, <2>4
    <3>. QED
      BY <1>6, <3>1, <3>2, SameStations DEF Ahead, Before
<1>13. MovedRoad(m, y)
  BY <1>4, <1>6, <1>7, <1>11, <1>12, RoadFromPair
<1>14. Within(m, y)'
  <2>1. Within(m, x)
    BY <1>6, <1>7 DEF WayInv, WithinInv
  <2>2. ASSUME NEW u \in Workers, NEW n \in ToSet(Chain[u]), n \in SeenBy(m) \cup {Module(w)}
        PROVE  u[2] = "in"
    <3>1. CASE n = Module(w)
      BY <1>2, <2>2, <3>1, ChainPositions
    <3>2. CASE n \in SeenBy(m)
      BY <1>2, <1>6, <2>1, <2>2, <3>2 DEF Within
    <3>. QED
      BY <2>2, <3>1, <3>2
  <2>. QED
    BY <1>3, <1>6, <1>9, <2>2, SameStations DEF Within, Workers
<1>15. Unmoved(m) /\ MovedLane(m, y)
  BY <1>3, <1>4, <1>6, <1>7, <1>9, SameArrivals, SameLane
<1>16. y \in Places
  BY <1>6 DEF Stations
<1>17. \A t \in Taps : y # <<"tap", t, NoModule>>
  BY <1>5
<1>18. \A u \in Workers : y # <<"queue", u, "priority">>
  BY <1>5
<1>. QED
  BY <1>7, <1>8, <1>13, <1>14, <1>15, <1>16, <1>17, <1>18, ShiftWay

\* A packet that saw a module saw those before it in the chain.
LEMMA SawAllBefore ==
    ASSUME Trails, VisitedInOrder, NEW w \in Workers, NEW q \in Packets,
           NEW k \in DOMAIN Chain[w], Chain[w][k] \in SeenBy(q), NEW l \in 1..(k - 1)
    PROVE  Chain[w][l] \in SeenBy(q)
<1>1. PICK i \in DOMAIN trail[q] : trail[q][i].module = Chain[w][k]
  BY DEF SeenBy
<1>2. SeenBefore(q, i) \cap ToSet(Chain[w]) = {Chain[w][j] : j \in 1..(k - 1)}
  BY <1>1 DEF VisitedInOrder
<1>3. Chain[w][l] \in SeenBefore(q, i)
  BY <1>2
<1>. QED
  <2>1. PICK j \in 1..(i - 1) : Chain[w][l] = trail[q][j].module
    BY <1>3 DEF SeenBefore
  <2>2. DOMAIN trail[q] = 1..Len(trail[q]) /\ Len(trail[q]) \in Nat
    BY LenProperties DEF Trails
  <2>3. j \in DOMAIN trail[q]
    BY <2>2
  <2>. QED
    BY <2>1, <2>3 DEF SeenBy

\* What a packet's station says of the modules of its chain that it saw, when
\* the packet is at a tap.
LEMMA KeptReached ==
    ASSUME OrderInv, NEW w \in Workers, NEW t \in Taps, Home(t) = w,
           NEW q \in Packets, q \in ToSet(kept[t]),
           NEW k \in DOMAIN Chain[w], Chain[w][k] \in SeenBy(q)
    PROVE  \E l \in DOMAIN Chain[w] : Chain[w][l] = t /\ k <= l
<1>1. PICK l \in DOMAIN Chain[w] : Chain[w][l] = t /\ Reached(q, w, l)
  BY FitsAt DEF OrderInv
<1>2. Chain[w][k] \in {Chain[w][j] : j \in 1..l}
  BY <1>1, ChainPositions DEF Reached
<1>3. PICK j \in 1..l : Chain[w][k] = Chain[w][j]
  BY <1>2
<1>4. DOMAIN Chain[w] = 1..Len(Chain[w]) /\ Len(Chain[w]) \in Nat
  BY ChainPositions
<1>5. j \in DOMAIN Chain[w]
  BY <1>4
<1>6. k = j
  BY <1>3, <1>5, ChainPositions
<1>. QED
  BY <1>1, <1>4, <1>6

\* A tap stops a packet behind all that it stopped before.
LEMMA KeepWay ==
    ASSUME IInv, OrderInv, WayInv, NEW w \in Workers, Keep(w)
    PROVE  WayInv'
<1>1. PICK m \in Packets, k \in 1..Len(Chain[w]) :
              /\ m = worker[w].packet /\ k = worker[w].next
              /\ AtModule(w) /\ Module(w) = Chain[w][k] /\ Kind[Module(w)] = "tap"
              /\ resume[m] = NoModule /\ Reached(m, w, k - 1)
  <2>1. Offer(w, {"tap"})
    BY DEF Keep
  <2>. QED
    BY <2>1, OfferedAt
<1>2. PICK t \in Taps : t = Module(w)
  BY <1>1, ModuleType DEF IInv, Taps
<1>3. /\ k \in DOMAIN Chain[w] /\ t = Chain[w][k] /\ t \in ToSet(Chain[w]) /\ Home(t) = w
      /\ DOMAIN Chain[w] = 1..Len(Chain[w]) /\ Len(Chain[w]) \in Nat
  <2>1. /\ k \in DOMAIN Chain[w] /\ t = Chain[w][k] /\ t \in ToSet(Chain[w])
        /\ DOMAIN Chain[w] = 1..Len(Chain[w]) /\ Len(Chain[w]) \in Nat
    BY <1>1, <1>2, ChainPositions
  <2>. QED
    BY <2>1, HomeOfModule
<1>4. /\ kept' = [kept EXCEPT ![t] = Append(@, m)]
      /\ Visit(w, TRUE) /\ Finish(w)
      /\ UNCHANGED <<enabled, free, queue, resume, arrivals>> /\ worker[w].pc = "chain"
  BY <1>1, <1>2 DEF Keep, AtModule
<1>5. PICK x, y : x = <<"worker", w, NoModule>> /\ y = <<"tap", t, NoModule>>
  OBVIOUS
<1>6. /\ x \in Stations /\ Area(x) = w /\ Stage(x) = 4
      /\ y \in Stations /\ Area(y) = w /\ Stage(y) = 2 /\ Line(y) = kept[t]
  BY <1>3, <1>5, StationKinds
<1>7. Shift(m, y) /\ At(m, x)
  BY <1>1, <1>4, <1>5, WorkerToTap, PlaceKinds
<1>8. QueueLines(m) /\ KeptLines(m) /\ \A q \in ToSet(kept[t]) : Before(kept'[t], q, m)
  BY <1>4, PushKept, NoLineMoves DEF IInv
<1>9. /\ SeenBy(m)' = SeenBy(m) \cup {t} /\ StoppedAt(m)' = StoppedAt(m) \cup {t}
      /\ \A q \in Packets : q # m => trail'[q] = trail[q]
  <2>1. StoppedAt(m)' = IF TRUE THEN StoppedAt(m) \cup {Module(w)} ELSE StoppedAt(m)
    BY <1>1, <1>4, VisitStops DEF IInv, OrderInv
  <2>. QED
    BY <1>1, <1>2, <1>4, <2>1, VisitSteps DEF IInv, OrderInv
<1>10. \A q \in Packets : q # m => SeenBy(q)' = SeenBy(q) /\ StoppedAt(q)' = StoppedAt(q)
  BY <1>9, SameTrail
<1>11. /\ t \notin SeenBy(m)
       /\ \A l \in DOMAIN Chain[w] : Chain[w][l] \in SeenBy(m) => l \in 1..(k - 1)
  <2>1. SeenBy(m) \cap ToSet(Chain[w]) = {Chain[w][l] : l \in 1..(k - 1)}
    BY <1>1 DEF Reached
  <2>2. ASSUME NEW l \in DOMAIN Chain[w], Chain[w][l] \in SeenBy(m)
        PROVE  l \in 1..(k - 1)
    <3>1. PICK j \in 1..(k - 1) : Chain[w][l] = Chain[w][j]
      BY <2>1, <2>2, ChainPositions
    <3>2. j \in DOMAIN Chain[w]
      BY <1>3
    <3>3. l = j
      BY <3>1, <3>2, ChainPositions
    <3>. QED
      BY <3>3
  <2>3. k \notin 1..(k - 1)
    BY <1>3
  <2>. QED
    BY <1>3, <2>2, <2>3
<1>12. Within(m, x)
  BY <1>6, <1>7 DEF WayInv, WithinInv
<1>13. ASSUME NEW q \in Packets \ {m}, NEW z \in Stations, At(q, z), Precedes(m, x, q, z)
       PROVE  Precedes(m, y, q, z)'
  <2>. SUFFICES ASSUME StoppedAt(m) \cup {t} \subseteq StoppedAt(q)
                PROVE  FALSE
    BY <1>9, <1>10 DEF Precedes
  <2>1. t \in StoppedAt(q) \ StoppedAt(m)
    BY <1>11, StoppedSeen
  <2>2. Past(m, x, t)
    BY <1>13, <2>1 DEF Precedes
  <2>. QED
    BY <1>3, <1>6, <1>11, <2>2 DEF Past
<1>14. ASSUME NEW q \in Packets \ {m}, NEW z \in Stations, At(q, z), Area(z) = w
       PROVE  Stage(z) \in {1, 2, 3}
  <2>1. Stage(z) # 4
    <3>. SUFFICES ASSUME Stage(z) = 4 PROVE FALSE
      OBVIOUS
    <3>1. z = x
      BY <1>5, <1>14, StationStages
    <3>. QED
      BY <1>6, <1>7, <1>14, <3>1, AtStation
  <2>. QED
    BY <2>1, StationStages
<1>15. Line(y)' = kept'[t]
  BY <1>5 DEF Line
\* A packet that this tap did not stop is out of this chain.
<1>16. ASSUME NEW a \in Adapters, NEW q \in Packets \ {m}, NEW z \in Stations, At(q, z),
              InLane(q, a), InLane(m, a), Precedes(q, z, m, x),
              StoppedAt(q) \subseteq StoppedAt(m) \cup {t}, t \notin StoppedAt(q)
       PROVE  /\ Ahead(q, z, m, y)'
              /\ \A n \in (StoppedAt(m) \cup {t}) \ StoppedAt(q) : Past(q, z, n)
  <2>1. Ahead(q, z, m, x) /\ \A n \in StoppedAt(m) \ StoppedAt(q) : Past(q, z, n)
    BY <1>16 DEF Precedes
  <2>2. Area(z) # w
    <3>. SUFFICES ASSUME Area(z) = w PROVE FALSE
      OBVIOUS
    <3>1. Stage(z) > 4 \/ z = x
      BY <1>6, <2>1 DEF Ahead
    <3>2. Stage(z) \in {1, 2, 3}
      BY <1>14, <1>16
    <3>. QED
      BY <1>6, <3>1, <3>2
  <2>3. Area(z)[2] = "out"
    <3>. SUFFICES ASSUME Area(z)[2] = "in" PROVE FALSE
      BY StationStages
    <3>1. Area(z) = <<a, "in">>
      BY <1>16 DEF InLane
    <3>2. w[2] = "in"
      BY <1>6, <2>1 DEF Ahead
    <3>3. w = <<a, "in">>
      BY <1>6, <1>7, <1>16, <3>2 DEF InLane
    <3>. QED
      BY <2>2, <3>1, <3>3
  <2>4. Past(q, z, t)
    BY <1>3, <2>2, <2>3 DEF Past
  <2>5. Ahead(q, z, m, y)'
    BY <1>6, <2>2, <2>3, SameStations DEF Ahead
  <2>. QED
    BY <2>1, <2>4, <2>5
\* One that it stopped is out of this chain, or behind the tap, or kept by it.
<1>17. ASSUME NEW a \in Adapters, NEW q \in Packets \ {m}, NEW z \in Stations, At(q, z),
              InLane(q, a), InLane(m, a),
              StoppedAt(q) \subseteq StoppedAt(m) \cup {t}, t \in StoppedAt(q)
       PROVE  /\ Ahead(q, z, m, y)'
              /\ \A n \in (StoppedAt(m) \cup {t}) \ StoppedAt(q) : Past(q, z, n)
  <2>1. t \in SeenBy(q) /\ Chain[w][k] \in SeenBy(q)
    BY <1>3, <1>17, StoppedSeen
  <2>2. Within(q, z)
    BY <1>17 DEF WayInv, WithinInv
  <2>3. w = Area(z) \/ (w[2] = "in" /\ Area(z)[2] = "out")
    BY <1>3, <2>1, <2>2 DEF Within
  <2>4. ASSUME Area(z) = w
        PROVE  Stage(z) > 2 \/ (z = y /\ Before(kept'[t], q, m))
    <3>1. Stage(z) # 1
      <4>. SUFFICES ASSUME Stage(z) = 1 PROVE FALSE
        OBVIOUS
      <4>1. q \in ToSet(queue[w]["plain"])
        BY <1>17, <2>4, StationAt
      <4>2. Reached(q, w, 0)
        BY <4>1, FitsAt DEF OrderInv
      <4>. QED
        BY <1>3, <2>1, <4>2 DEF Reached
    <3>2. ASSUME Stage(z) = 2
          PROVE  z = y /\ Before(kept'[t], q, m)
      <4>1. PICK u \in Taps : z = <<"tap", u, NoModule>> /\ Home(u) = w /\ q \in ToSet(kept[u])
        BY <1>17, <2>4, <3>2, StationAt
      <4>2. PICK l \in DOMAIN Chain[w] : Chain[w][l] = u /\ k <= l
        BY <1>3, <2>1, <4>1, KeptReached
      <4>3. u \in StoppedAt(q)
        BY <4>1 DEF WayInv, StopInv
      <4>4. u = t
        <5>. SUFFICES ASSUME u # t PROVE FALSE
          OBVIOUS
        <5>1. Chain[w][l] \in SeenBy(m)
          BY <1>17, <4>2, <4>3, StoppedSeen
        <5>2. l \in 1..(k - 1)
          BY <1>11, <5>1
        <5>. QED
          BY <1>3, <4>2, <5>2
      <4>. QED
        BY <1>5, <1>8, <4>1, <4>4
    <3>3. Stage(z) \in {1, 2, 3}
      BY <1>14, <1>17, <2>4
    <3>. QED
      BY <3>1, <3>2, <3>3
  <2>5. Ahead(q, z, m, y)'
    <3>1. Area(z)[2] = "in" => w[2] = "in"
      BY <2>3
    <3>2. Area(z) = w => Stage(z) > 2 \/ (z = y /\ Before(Line(z)', q, m))
      BY <1>15, <2>4
    <3>. QED
      BY <1>6, <3>1, <3>2, SameStations DEF Ahead, Before
  <2>6. ASSUME NEW n \in StoppedAt(m), n \notin StoppedAt(q)
        PROVE  Past(q, z, n)
    <3>1. n \in SeenBy(m)
      BY StoppedSeen
    <3>2. PICK u \in Workers : n \in ToSet(Chain[u])
      <4>1. n \in Modules
        <5>1. PICK i \in DOMAIN trail[m] : n = trail[m][i].module
          BY DEF StoppedAt
        <5>2. trail[m] \in Seq([module : Modules, stays : BOOLEAN])
          BY DEF OrderInv, Trails
        <5>3. trail[m][i] \in [module : Modules, stays : BOOLEAN]
          BY <5>2, ElementOfSeq, LenProperties
        <5>. QED
          BY <5>1, <5>3
      <4>. QED
        BY <4>1 DEF Modules
    <3>3. u = w \/ (u[2] = "in" /\ w[2] = "out")
      BY <1>6, <1>12, <3>1, <3>2 DEF Within
    <3>4. CASE u = w
      <4>1. PICK l \in DOMAIN Chain[w] : n = Chain[w][l]
        BY <3>2, <3>4 DEF ToSet
      <4>2. l \in 1..(k - 1)
        BY <1>11, <3>1, <4>1
      <4>3. n \in SeenBy(q)
        BY <1>3, <2>1, <4>1, <4>2, SawAllBefore DEF OrderInv
      <4>. QED
        BY <4>3 DEF Past
    <3>5. CASE u[2] = "in" /\ w[2] = "out"
      <4>1. Area(z) = w
        BY <2>3, <3>5
      <4>2. Home(n) = u
        BY <3>2, HomeOfModule
      <4>. QED
        BY <3>5, <4>1, <4>2 DEF Past
    <3>. QED
      BY <3>3, <3>4, <3>5
  <2>. QED
    BY <1>17, <2>5, <2>6
<1>18. ASSUME NEW a \in Adapters, NEW q \in Packets \ {m}, NEW z \in Stations, At(q, z),
              InLane(q, a), InLane(m, a), Precedes(q, z, m, x)
       PROVE  Precedes(q, z, m, y)'
  <2>. SUFFICES ASSUME StoppedAt(q) \subseteq StoppedAt(m) \cup {t}
                PROVE  /\ Ahead(q, z, m, y)'
                       /\ \A n \in (StoppedAt(m) \cup {t}) \ StoppedAt(q) : Past(q, z, n)
    <3>1. \A n : Past(q, z, n)' <=> Past(q, z, n)
      BY <1>10, SameStations DEF Past
    <3>. QED
      BY <1>9, <1>10, <3>1 DEF Precedes
  <2>. QED
    BY <1>16, <1>17, <1>18
<1>19. MovedRoad(m, y)
  BY <1>4, <1>6, <1>7, <1>13, <1>18, RoadFromPair
<1>20. Within(m, y)'
  <2>1. \A u \in Workers : t \in ToSet(Chain[u]) => u = w
    BY <1>3, ChainPositions
  <2>2. \A u \in Workers : \A n \in ToSet(Chain[u]) :
           n \in SeenBy(m) \cup {t} => u = w \/ (u[2] = "in" /\ w[2] = "out")
    BY <1>6, <1>12, <2>1 DEF Within
  <2>. QED
    BY <1>6, <1>9, <2>2, SameStations DEF Within, Workers
<1>21. Unmoved(m) /\ MovedLane(m, y)
  BY <1>4, <1>6, <1>7, <1>9, SameArrivals, SameLane
<1>22. y \in Places
  BY <1>6 DEF Stations
<1>23. \A u \in Taps : y = <<"tap", u, NoModule>> => u \in StoppedAt(m)'
  BY <1>5, <1>9
<1>24. \A u \in Workers : y # <<"queue", u, "priority">>
  BY <1>5
<1>. QED
  BY <1>7, <1>8, <1>19, <1>20, <1>21, <1>22, <1>23, <1>24, ShiftWay

\* A packet that resumes comes last among those that resume, and was first of
\* those its tap kept.
LEMMA ResumeWay ==
    ASSUME IInv, OrderInv, WayInv, NEW t \in Taps, ResumePostTap(t)
    PROVE  WayInv'
<1>1. PICK m \in Packets :
         /\ m = Head(kept[t]) /\ m \in ToSet(kept[t])
         /\ resume' = [resume EXCEPT ![m] = t]
         /\ Shift(m, <<"queue", Home(t), "priority">>)
  BY TapToQueue
<1>2. PICK w \in Workers : w = Home(t)
  BY HomeIsWorker
<1>3. PICK x, y : x = <<"tap", t, NoModule>> /\ y = <<"queue", w, "priority">>
  OBVIOUS
<1>4. /\ x \in Stations /\ Area(x) = w /\ Stage(x) = 2 /\ Line(x) = kept[t]
      /\ y \in Stations /\ Area(y) = w /\ Stage(y) = 3 /\ Line(y) = queue[w]["priority"]
  BY <1>2, <1>3, StationKinds DEF Classes
<1>5. /\ kept[t] # <<>> /\ kept' = [kept EXCEPT ![t] = Tail(@)]
      /\ queue' = [queue EXCEPT ![w]["priority"] = Append(@, m)]
      /\ UNCHANGED <<enabled, free, worker, trail, arrivals>>
  <2>1. t # NoModule
    BY NullAssumption DEF Taps
  <2>. QED
    BY <1>1, <1>2, <2>1 DEF ResumePostTap, AddQueue
<1>6. Shift(m, y) /\ At(m, x)
  BY <1>1, <1>2, <1>3, PlaceKinds
<1>7. KeptLines(m) /\ \A q : ~ Before(kept[t], q, m)
  BY <1>1, <1>5, TailKept
<1>8. QueueLines(m) /\ \A q \in ToSet(queue[w]["priority"]) : Before(queue'[w]["priority"], q, m)
  BY <1>5, PushLines DEF IInv, Classes
<1>9. \A p : SeenBy(p)' = SeenBy(p) /\ StoppedAt(p)' = StoppedAt(p)
  BY <1>5 DEF SeenBy, StoppedAt
<1>10. \A p : \A n : Past(p, y, n)' <=> Past(p, x, n)
  BY <1>4, <1>9, SameStations DEF Past
<1>11. Line(y)' = queue'[w]["priority"]
  BY <1>3 DEF Line
<1>12. ASSUME NEW q \in Packets \ {m}, NEW z \in Stations, At(q, z), Precedes(m, x, q, z)
       PROVE  Precedes(m, y, q, z)'
  <2>. SUFFICES ASSUME StoppedAt(m) \subseteq StoppedAt(q)
                PROVE  Ahead(m, y, q, z)'
    BY <1>9, <1>10, <1>12 DEF Precedes
  <2>1. Ahead(m, x, q, z)
    BY <1>12 DEF Precedes
  <2>2. Area(z) = w => Stage(y) > Stage(z)
    <3>1. Area(z) = w => 2 > Stage(z) \/ z = x
      BY <1>4, <2>1 DEF Ahead
    <3>2. Stage(z) \in 1..4
      BY StationStages
    <3>. QED
      BY <1>4, <3>1, <3>2
  <2>. QED
    BY <1>4, <2>1, <2>2, SameStations DEF Ahead
<1>13. ASSUME NEW q \in Packets \ {m}, NEW z \in Stations, At(q, z), Precedes(q, z, m, x)
       PROVE  Precedes(q, z, m, y)'
  <2>. SUFFICES ASSUME StoppedAt(q) \subseteq StoppedAt(m)
                PROVE  Ahead(q, z, m, y)'
    <3>1. \A n : Past(q, z, n)' <=> Past(q, z, n)
      BY <1>9, SameStations DEF Past
    <3>. QED
      BY <1>9, <1>13, <3>1 DEF Precedes
  <2>1. Ahead(q, z, m, x)
    BY <1>13 DEF Precedes
  <2>2. ASSUME Area(z) = w
        PROVE  Stage(z) > 3 \/ (z = y /\ Before(Line(z)', q, m))
    <3>1. Stage(z) > 2
      <4>1. Stage(z) > 2 \/ (z = x /\ Before(Line(z), q, m))
        BY <1>4, <2>1, <2>2 DEF Ahead
      <4>2. z = x => ~ Before(Line(z), q, m)
        BY <1>4, <1>7
      <4>. QED
        BY <4>1, <4>2
    <3>2. CASE Stage(z) = 3
      <4>1. z = y /\ q \in ToSet(queue[w]["priority"])
        BY <1>3, <1>13, <2>2, <3>2, StationStages, StationAt
      <4>. QED
        BY <1>8, <1>11, <4>1
    <3>3. Stage(z) \in 1..4
      BY StationStages
    <3>. QED
      BY <3>1, <3>2, <3>3
  <2>. QED
    <3>1. Area(z)[2] = "in" => w[2] = "in"
      BY <1>4, <2>1 DEF Ahead
    <3>. QED
      BY <1>4, <2>2, <3>1, SameStations DEF Ahead, Before
<1>14. MovedRoad(m, y)
  BY <1>4, <1>5, <1>6, <1>12, <1>13, RoadFromPair
<1>15. Within(m, y)'
  <2>1. Within(m, x)
    BY <1>4, <1>6 DEF WayInv, WithinInv
  <2>. QED
    BY <1>4, <1>9, <2>1, SameStations DEF Within, Workers
<1>16. resume'[m] = t /\ \A q \in Packets : q # m => resume'[q] = resume[q]
  BY <1>1 DEF IInv, Typed
<1>17. Unmoved(m) /\ MovedLane(m, y)
  BY <1>4, <1>5, <1>6, <1>16, SameArrivals, SameLane
<1>18. resume'[m] \in StoppedAt(m)'
  <2>1. t \in StoppedAt(m)
    BY <1>1 DEF WayInv, StopInv
  <2>. QED
    BY <1>9, <1>16, <2>1
<1>19. y \in Places
  BY <1>4 DEF Stations
<1>20. \A u \in Taps : y # <<"tap", u, NoModule>>
  BY <1>3
<1>. QED
  BY <1>6, <1>7, <1>8, <1>14, <1>15, <1>17, <1>18, <1>19, <1>20, ShiftWay

\* Steps within a worker's chain leave every packet where it is, and at most add
\* a module of the chain to those that saw the worker's packet.
LEMMA StayWay ==
    ASSUME IInv, WayInv, UNCHANGED <<free, queue, kept, arrivals>>,
           \A w \in Workers : worker'[w].packet = worker[w].packet,
           \A p \in Packets : StoppedAt(p)' = StoppedAt(p),
           \A p \in Packets : \A w \in Workers : p \in ToSet(queue[w]["priority"]) =>
               resume'[p] = resume[p],
           \A p \in Packets : \A x \in Stations : At(p, x) =>
               /\ SeenBy(p) \subseteq SeenBy(p)'
               /\ SeenBy(p)' \subseteq SeenBy(p) \cup ToSet(Chain[Area(x)])
    PROVE  WayInv'
<1>1. \A p \in Packets : \A x \in Stations : At(p, x)' <=> At(p, x)
  <2>. SUFFICES ASSUME NEW p \in Packets, NEW x \in Stations
                PROVE  At(p, x)' <=> At(p, x)
    OBVIOUS
  <2>1. ASSUME NEW w \in Workers, x = <<"worker", w, NoModule>>
        PROVE  At(p, x)' <=> At(p, x)
    BY <2>1 DEF At
  <2>2. CASE x[1] # "worker"
    BY <2>2 DEF At
  <2>3. x[1] = "worker" => \E w \in Workers : x = <<"worker", w, NoModule>>
    BY StationKinds
  <2>. QED
    BY <2>1, <2>2, <2>3
<1>2. LaneInv'
  <2>1. \A p, a : InLane(p, a) => InLane(p, a)'
    BY <1>1, SameStations DEF InLane
  <2>. QED
    BY <2>1 DEF LaneInv, WayInv
<1>3. WithinInv'
  <2>1. ASSUME NEW p \in Packets, NEW x \in Stations, At(p, x)
        PROVE  Within(p, x)'
    <3>1. Within(p, x) /\ Area(x) \in Workers
      BY <2>1, StationStages DEF WayInv, WithinInv
    <3>2. \A v \in Workers : \A n \in ToSet(Chain[v]) : n \in ToSet(Chain[Area(x)]) => v = Area(x)
      BY <3>1, ChainPositions
    <3>3. SeenBy(p)' \subseteq SeenBy(p) \cup ToSet(Chain[Area(x)])
      BY <2>1
    <3>. QED
      BY <3>1, <3>2, <3>3, SameStations DEF Within, Workers
  <2>. QED
    BY <1>1, <2>1, SameStations DEF WithinInv
<1>4. StopInv'
  BY DEF WayInv, StopInv, Taps, Workers, Modules
<1>5. RoadInv'
  <2>1. ASSUME NEW a \in Adapters, NEW p \in Packets, NEW q \in Packets, p # q,
               <<p, q>> \in arrivals[a], NEW x \in Stations, NEW y \in Stations, At(p, x), At(q, y)
        PROVE  Precedes(p, x, q, y)'
    <3>1. Precedes(p, x, q, y)
      BY <2>1 DEF WayInv, RoadInv
    <3>2. \A n : Past(p, x, n) => Past(p, x, n)'
      BY <2>1, SameStations DEF Past
    <3>3. Ahead(p, x, q, y)' <=> Ahead(p, x, q, y)
      <4>1. Line(x)' = Line(x)
        BY DEF Line
      <4>. QED
        BY <4>1, SameStations DEF Ahead, Before
    <3>. QED
      BY <3>1, <3>2, <3>3 DEF Precedes
  <2>. QED
    BY <1>1, <2>1, SameStations DEF RoadInv
<1>. QED
  BY <1>2, <1>3, <1>4, <1>5 DEF WayInv

LEMMA PassByWay ==
    ASSUME IInv, OrderInv, WayInv, NEW w \in Workers, PassBy(w)
    PROVE  WayInv'
<1>1. PICK m \in Packets : m = worker[w].packet /\ AtModule(w)
  <2>1. Offer(w, {"look", "tap", "purge", "pass", "write"})
    BY DEF PassBy
  <2>. QED
    BY <2>1, OfferedAt
<1>2. /\ Visit(w, FALSE) /\ worker' = [worker EXCEPT ![w].next = @ + 1]
      /\ UNCHANGED <<enabled, free, queue, resume, kept, arrivals>>
  BY DEF PassBy
<1>3. \A v \in Workers : worker'[v].packet = worker[v].packet
  BY <1>2 DEF IInv, Typed, WorkerState
<1>4. /\ SeenBy(m)' = SeenBy(m) \cup {Module(w)} /\ StoppedAt(m)' = StoppedAt(m)
      /\ \A q \in Packets : q # m => trail'[q] = trail[q]
  <2>1. StoppedAt(m)' = IF FALSE THEN StoppedAt(m) \cup {Module(w)} ELSE StoppedAt(m)
    BY <1>1, <1>2, VisitStops DEF IInv, OrderInv
  <2>. QED
    BY <1>1, <1>2, <2>1, VisitSteps DEF IInv, OrderInv
<1>5. \A q \in Packets : q # m => SeenBy(q)' = SeenBy(q) /\ StoppedAt(q)' = StoppedAt(q)
  BY <1>4, SameTrail
<1>6. Module(w) \in ToSet(Chain[w])
  <2>1. worker[w].next \in 1..Len(Chain[w])
    BY <1>1, ModuleType DEF IInv
  <2>. QED
    BY <2>1, ChainPositions DEF Module
<1>7. \A x \in Stations : At(m, x) => Area(x) = w
  <2>1. PICK y : y = <<"worker", w, NoModule>>
    OBVIOUS
  <2>2. y \in Stations /\ Area(y) = w /\ At(m, y)
    BY <1>1, <2>1, StationKinds, PlaceKinds
  <2>. QED
    BY <2>2, AtStation
<1>8. ASSUME NEW p \in Packets, NEW x \in Stations, At(p, x)
      PROVE  /\ SeenBy(p) \subseteq SeenBy(p)'
             /\ SeenBy(p)' \subseteq SeenBy(p) \cup ToSet(Chain[Area(x)])
  BY <1>4, <1>5, <1>6, <1>7, <1>8
<1>9. \A p \in Packets : StoppedAt(p)' = StoppedAt(p)
  BY <1>4, <1>5
<1>. QED
  BY <1>2, <1>3, <1>8, <1>9, StayWay

\* The steps that add nothing to a trail and unmark at most the packet in hand.
LEMMA QuietWay ==
    ASSUME IInv, WayInv, UNCHANGED <<free, queue, kept, trail, arrivals>>,
           \A w \in Workers : worker'[w].packet = worker[w].packet,
           \A p \in Packets : resume'[p] = resume[p] \/ \E w \in Workers : worker[w].packet = p
    PROVE  WayInv'
<1>1. \A p : SeenBy(p)' = SeenBy(p) /\ StoppedAt(p)' = StoppedAt(p)
  BY DEF SeenBy, StoppedAt
<1>2. \A p \in Packets : \A w \in Workers : p \in ToSet(queue[w]["priority"]) =>
         resume'[p] = resume[p]
  BY Elsewhere DEF IInv, Classes
<1>. QED
  BY <1>1, <1>2, StayWay

LEMMA SeekWay ==
    ASSUME IInv, WayInv, NEW w \in Workers, Seek(w)
    PROVE  WayInv'
<1>1. PICK m \in Packets : m = worker[w].packet
  BY InHand DEF IInv, Seek, AtModule
<1>2. \A v \in Workers : worker'[v].packet = worker[v].packet
  <2>1. PICK b : worker' = [worker EXCEPT ![w].next = @ + 1, ![w].seeking = b]
    BY DEF Seek
  <2>2. PICK o : o = worker[w] /\ o \in WorkerState
    BY DEF IInv, Typed
  <2>3. PICK s : s = [o EXCEPT !.next = @ + 1, !.seeking = b]
    OBVIOUS
  <2>4. s.packet = o.packet
    BY <2>2, <2>3 DEF WorkerState
  <2>5. worker' = [worker EXCEPT ![w] = s]
    BY <2>1, <2>2, <2>3 DEF IInv, Typed
  <2>6. worker'[w] = s /\ \A v \in Workers : v # w => worker'[v] = worker[v]
    BY <2>5 DEF IInv, Typed
  <2>. QED
    BY <2>2, <2>4, <2>6
<1>3. \A p \in Packets : resume'[p] = resume[p] \/ \E v \in Workers : worker[v].packet = p
  <2>1. resume' = [resume EXCEPT ![m] = NoModule] \/ resume' = resume
    BY <1>1 DEF Seek
  <2>. QED
    BY <1>1, <2>1 DEF IInv, Typed
<1>. QED
  BY <1>2, <1>3, QuietWay DEF Seek

LEMMA PollWay ==
    ASSUME IInv, OrderInv, WayInv, NEW w \in Workers, PollPriority(w) \/ PollPlain(w)
    PROVE  WayInv'
<1>1. worker[w] \in WorkerState /\ worker[w].pc # "chain" /\ worker[w].packet = NoPacket
  BY DEF IInv, Typed, ChainInv, PollPriority, PollPlain
<1>2. UNCHANGED <<enabled, free, resume, kept, trail, arrivals>>
  BY DEF PollPriority, PollPlain
<1>3. CASE PollPriority(w) /\ queue[w]["priority"] # <<>>
  <2>1. Take(w, "priority")
    BY <1>3 DEF PollPriority
  <2>. QED
    BY <1>1, <1>2, <1>3, <2>1, TakeWay DEF Classes
<1>4. CASE PollPlain(w) /\ queue[w]["plain"] # <<>>
  <2>1. Take(w, "plain")
    BY <1>4 DEF PollPlain
  <2>. QED
    BY <1>1, <1>2, <1>4, <2>1, TakeWay DEF Classes
<1>5. CASE \/ PollPriority(w) /\ queue[w]["priority"] = <<>>
           \/ PollPlain(w) /\ queue[w]["plain"] = <<>>
  <2>1. PICK s : s = IF PollPriority(w) /\ queue[w]["priority"] = <<>>
                     THEN [worker[w] EXCEPT !.pc = "plain"] ELSE Idle
    OBVIOUS
  <2>2. s.packet = NoPacket
    BY <1>1, <2>1 DEF Idle, WorkerState
  <2>3. worker' = [worker EXCEPT ![w] = s] /\ UNCHANGED queue
    BY <1>5, <2>1 DEF PollPriority, PollPlain, Finish
  <2>4. \A v \in Workers : worker'[v].packet = worker[v].packet
    BY <1>1, <2>2, <2>3 DEF IInv, Typed
  <2>. QED
    BY <1>2, <2>3, <2>4, QuietWay
<1>. QED
  BY <1>3, <1>4, <1>5

\* A packet back in the pool was captured by nobody.
LEMMA ReleasedWay ==
    ASSUME IInv, OrderInv, WayInv, NEW w \in Workers, worker[w].pc = "chain",
           Release(worker[w].packet), Finish(w), UNCHANGED <<enabled, queue, kept>>
    PROVE  WayInv'
<1>1. PICK m \in Packets : m = worker[w].packet
  BY InHand DEF IInv
<1>2. PICK y : y = <<"pool", NoModule, NoModule>>
  OBVIOUS
<1>3. y \in Places /\ y \notin Stations
  BY <1>2, PlaceKinds DEF Stations
<1>4. Shift(m, y)
  BY <1>1, <1>2, WorkerToPool
<1>5. /\ resume' = [resume EXCEPT ![m] = NoModule] /\ trail' = [trail EXCEPT ![m] = <<>>]
      /\ arrivals' = [a \in Adapters |-> arrivals[a] \cap ((Packets \ {m}) \X (Packets \ {m}))]
  BY <1>1 DEF Release
<1>6. \A q \in Packets : q # m => trail'[q] = trail[q] /\ resume'[q] = resume[q]
  BY <1>5 DEF IInv, Typed, OrderInv, Trails
<1>7. arrivals' \in [Adapters -> SUBSET (Packets \X Packets)]
  BY <1>5 DEF WayInv, LaneInv
<1>8. \A a \in Adapters : \A p, q : <<p, q>> \in arrivals'[a] =>
         <<p, q>> \in arrivals[a] /\ p # m /\ q # m
  BY <1>5
<1>9. Unmoved(m) /\ MovedLane(m, y) /\ MovedRoad(m, y)
  BY <1>6, <1>7, <1>8 DEF Unmoved, MovedLane, MovedRoad
<1>10. \A t \in Taps : y # <<"tap", t, NoModule>>
  BY <1>2
<1>11. \A v \in Workers : y # <<"queue", v, "priority">>
  BY <1>2
<1>. QED
  BY <1>3, <1>4, <1>9, <1>10, <1>11, NoLineMoves, ShiftWay

\* What a packet from the pool brings to a queue.
LEMMA FreshWay ==
    ASSUME IInv, OrderInv, WayInv, NEW w \in Workers, NEW m \in free, AddQueue(w, m, resume[m]),
           free' = free \ {m}, UNCHANGED <<enabled, worker, resume, kept, trail>>,
           arrivals' \in [Adapters -> SUBSET (Packets \X Packets)],
           \A a \in Adapters : \A p, q \in Packets : <<p, q>> \in arrivals'[a] =>
               \/ <<p, q>> \in arrivals[a]
               \/ q = m /\ w = <<a, "in">> /\ (p = m \/ <<p, p>> \in arrivals[a])
    PROVE  WayInv'
<1>1. m \in Packets
  BY DEF IInv, Typed
<1>2. resume[m] = NoModule /\ trail[m] = <<>>
  BY <1>1, FitsAt DEF OrderInv
<1>3. PICK y : y = <<"queue", w, "plain">>
  OBVIOUS
<1>4. y \in Stations /\ y \in Places /\ Area(y) = w /\ Stage(y) = 1
  BY <1>3, StationKinds, StationStages DEF Classes
<1>5. Shift(m, y)
  BY <1>2, <1>3, PoolToQueue
<1>6. /\ queue' = [queue EXCEPT ![w]["plain"] = Append(@, m)]
      /\ QueueLines(m) /\ KeptLines(m)
      /\ \A q \in ToSet(queue[w]["plain"]) : Before(queue'[w]["plain"], q, m)
  <2>1. queue' = [queue EXCEPT ![w]["plain"] = Append(@, m)]
    BY <1>2 DEF AddQueue
  <2>. QED
    BY <1>1, <2>1, PushLines, NoLineMoves DEF IInv, Classes
<1>7. SeenBy(m)' = {} /\ StoppedAt(m)' = {}
  BY <1>2 DEF SeenBy, StoppedAt
<1>8. \A a \in Adapters : \A q \in Packets :
         <<m, q>> \notin arrivals[a] /\ <<q, m>> \notin arrivals[a]
  BY <1>1 DEF WayInv, LaneInv, InLane
<1>9. \A a \in Adapters : \A q \in Packets :
         <<m, q>> \in arrivals'[a] \/ <<q, m>> \in arrivals'[a] =>
             w = <<a, "in">> /\ (q # m => <<q, m>> \in arrivals'[a] /\ InLane(q, a))
  <2>. SUFFICES ASSUME NEW a \in Adapters, NEW q \in Packets,
                       <<m, q>> \in arrivals'[a] \/ <<q, m>> \in arrivals'[a]
                PROVE  w = <<a, "in">> /\ (q # m => <<q, m>> \in arrivals'[a] /\ InLane(q, a))
    OBVIOUS
  <2>1. CASE <<m, q>> \in arrivals'[a]
    BY <1>1, <1>8, <2>1
  <2>2. CASE <<q, m>> \in arrivals'[a]
    <3>1. w = <<a, "in">> /\ (q = m \/ <<q, q>> \in arrivals[a])
      BY <1>1, <1>8, <2>2
    <3>. QED
      BY <2>2, <3>1 DEF WayInv, LaneInv
  <2>. QED
    BY <2>1, <2>2
<1>10. Unmoved(m)
  BY DEF Unmoved
<1>11. MovedLane(m, y)
  BY <1>4, <1>9 DEF MovedLane
<1>12. ASSUME NEW a \in Adapters, NEW q \in Packets, q # m, NEW z \in Stations, At(q, z)
       PROVE  /\ <<m, q>> \notin arrivals'[a]
              /\ <<q, m>> \in arrivals'[a] => Precedes(q, z, m, y)'
  <2>1. <<m, q>> \notin arrivals'[a]
    BY <1>1, <1>8, <1>12
  <2>2. ASSUME <<q, m>> \in arrivals'[a]
        PROVE  Precedes(q, z, m, y)'
    <3>1. w[2] = "in"
      <4>1. w = <<a, "in">>
        BY <1>9, <2>2, Zenon
      <4>. QED
        BY <4>1
    <3>2. ASSUME Area(z) = w
          PROVE  Stage(z) > 1 \/ (z = y /\ Before(Line(z)', q, m))
      <4>1. CASE Stage(z) = 1
        <5>1. z = y /\ q \in ToSet(queue[w]["plain"])
          BY <1>3, <1>12, <3>2, <4>1, StationStages, StationAt
        <5>2. Line(y)' = queue'[w]["plain"]
          BY <1>3 DEF Line
        <5>. QED
          BY <1>6, <5>1, <5>2
      <4>2. CASE Stage(z) # 1
        BY <4>2, StationStages
      <4>. QED
        BY <4>1, <4>2
    <3>3. Ahead(q, z, m, y)'
      BY <1>4, <3>1, <3>2, SameStations DEF Ahead, Before
    <3>. QED
      BY <1>7, <3>3 DEF Precedes
  <2>. QED
    BY <2>1, <2>2
<1>13. MovedRoad(m, y)
  BY <1>12 DEF MovedRoad
<1>14. Within(m, y)'
  BY <1>7 DEF Within
<1>15. \A t \in Taps : y # <<"tap", t, NoModule>>
  BY <1>3
<1>16. \A v \in Workers : y # <<"queue", v, "priority">>
  BY <1>3
<1>. QED
  BY <1>1, <1>4, <1>5, <1>6, <1>10, <1>11, <1>13, <1>14, <1>15, <1>16, ShiftWay

LEMMA WayInductive ==
    ASSUME IInv, OrderInv, WayInv, [Next]_vars
    PROVE  WayInv'
<1>0. arrivals \in [Adapters -> SUBSET (Packets \X Packets)]
  BY DEF WayInv, LaneInv
<1>1. ASSUME NEW w \in Workers, Work(w)
      PROVE  WayInv'
  <2>1. CASE PollPriority(w) \/ PollPlain(w)
    BY <2>1, PollWay
  <2>2. CASE Seek(w) \/ PassBy(w) \/ Passthrough(w) \/ Keep(w)
    BY <2>2, SeekWay, PassByWay, PassthroughWay, KeepWay
  <2>3. CASE Consume(w) \/ ChainEnd(w)
    <3>1. worker[w].pc = "chain"
      BY <2>3 DEF Consume, ChainEnd, Offer, AtModule
    <3>. QED
      BY <2>3, <3>1, ReleasedWay DEF Consume, ChainEnd
  <2>. QED
    BY <1>1, <2>1, <2>2, <2>3 DEF Work
<1>2. ASSUME NEW a \in Adapters, NEW m \in Packets, Capture(a, m)
      PROVE  WayInv'
  <2>1. PICK w \in Workers : w = <<a, "in">>
    BY DEF Workers
  <2>2. /\ AddQueue(w, m, resume[m]) /\ m \in free /\ free' = free \ {m}
        /\ UNCHANGED <<enabled, worker, resume, kept, trail>>
    BY <1>2, <2>1 DEF Capture
  <2>3. PICK N : N = {<<q, m>> : q \in Captured(a) \cup {m}}
    OBVIOUS
  <2>4. arrivals' = [arrivals EXCEPT ![a] = @ \cup N]
    BY <1>2, <2>3 DEF Capture
  <2>5. N \subseteq Packets \X Packets
    <3>. SUFFICES ASSUME NEW e \in N
                  PROVE  e \in Packets \X Packets
      OBVIOUS
    <3>1. PICK q \in Captured(a) \cup {m} : e = <<q, m>>
      BY <2>3
    <3>2. q \in Packets
      BY <3>1 DEF Captured
    <3>. QED
      BY <3>1, <3>2
  <2>6. arrivals' \in [Adapters -> SUBSET (Packets \X Packets)]
    BY <1>0, <2>4, <2>5
  <2>7. ASSUME NEW b \in Adapters, NEW p \in Packets, NEW q \in Packets, <<p, q>> \in arrivals'[b]
        PROVE  \/ <<p, q>> \in arrivals[b]
               \/ q = m /\ w = <<b, "in">> /\ (p = m \/ <<p, p>> \in arrivals[b])
    <3>1. CASE b = a
      <4>1. <<p, q>> \in arrivals[b] \/ <<p, q>> \in N
        BY <1>0, <2>4, <2>7, <3>1
      <4>2. CASE <<p, q>> \in N
        <5>1. q = m /\ p \in Captured(a) \cup {m}
          BY <2>3, <4>2
        <5>. QED
          BY <2>1, <3>1, <5>1 DEF Captured
      <4>. QED
        BY <4>1, <4>2
    <3>2. CASE b # a
      BY <1>0, <2>4, <2>7, <3>2
    <3>. QED
      BY <3>1, <3>2
  <2>. QED
    BY <2>2, <2>6, <2>7, FreshWay
<1>3. ASSUME NEW t \in Taps, NEW m \in Packets, WriteBackViaTap(t, m)
      PROVE  WayInv'
  <2>1. PICK w \in Workers : w = <<Home(t)[1], "out">>
    BY HomeIsWorker DEF Workers
  <2>2. /\ AddQueue(w, m, resume[m]) /\ m \in free /\ free' = free \ {m}
        /\ UNCHANGED <<enabled, worker, resume, kept, trail, arrivals>>
    BY <1>3, <2>1 DEF WriteBackViaTap
  <2>. QED
    BY <1>0, <2>2, FreshWay
<1>4. ASSUME NEW t \in Taps, ResumePostTap(t)
      PROVE  WayInv'
  BY <1>4, ResumeWay
<1>5. CASE (\E a \in Adapters : SetFlagEnabled(a)) \/ UNCHANGED vars
  BY <1>5, QuietWay DEF SetFlagEnabled, vars
<1>. QED
  BY <1>1, <1>2, <1>3, <1>4, <1>5 DEF Next

\* Where the packets of a road stand.
LEMMA RoadPlaces ==
    ASSUME Typed, NEW a \in Adapters, NEW b \in Adapters, NEW t \in Taps \cup {NoModule},
           NEW n \in DOMAIN Road(a, b, t), NEW k \in DOMAIN Road(a, b, t)[n],
           NEW p \in Packets, Road(a, b, t)[n][k] = p
    PROVE  \E x \in Stations :
              /\ At(p, x)
              /\ n \in 1..8
              /\ Area(x) = (IF n <= 4 THEN <<b, "out">> ELSE <<a, "in">>)
              /\ Stage(x) = (IF n <= 4 THEN 5 - n ELSE 9 - n)
              /\ Stage(x) < 4 => Line(x) = Road(a, b, t)[n]
<1>1. PICK i, o \in Workers : i = <<a, "in">> /\ o = <<b, "out">>
  BY DEF Workers
<1>2. PICK Stop : /\ Stop[i] = IF t \in ToSet(Chain[i]) THEN kept[t] ELSE <<>>
                  /\ Stop[o] = IF t \in ToSet(Chain[o]) THEN kept[t] ELSE <<>>
  <2>1. PICK S : S = [w \in Workers |-> IF t \in ToSet(Chain[w]) THEN kept[t] ELSE <<>>]
    OBVIOUS
  <2>. QED
    BY <2>1
<1>3. PICK road : road = Road(a, b, t)
  OBVIOUS
<1>4. road = <<Hands(o), queue[o]["priority"], Stop[o], queue[o]["plain"],
              Hands(i), queue[i]["priority"], Stop[i], queue[i]["plain"]>>
  BY <1>1, <1>2, <1>3 DEF Road
<1>5. n \in 1..8 /\ k \in DOMAIN road[n] /\ road[n][k] = p
  BY <1>3, <1>4
<1>6. ASSUME NEW w \in Workers, NEW j \in DOMAIN Hands(w), Hands(w)[j] = p
      PROVE  \E x \in Stations : At(p, x) /\ Area(x) = w /\ Stage(x) = 4
  <2>1. worker[w].packet = p
    BY <1>6 DEF Hands
  <2>. QED
    BY <2>1, StationKinds, PlaceKinds
<1>7. ASSUME NEW w \in Workers, NEW c \in Classes, NEW j \in DOMAIN queue[w][c], queue[w][c][j] = p
      PROVE  \E x \in Stations : /\ At(p, x) /\ Area(x) = w /\ Line(x) = queue[w][c]
                                 /\ Stage(x) = IF c = "plain" THEN 1 ELSE 3
  <2>1. p \in ToSet(queue[w][c])
    BY <1>7 DEF ToSet
  <2>2. PICK x : x = <<"queue", w, c>>
    OBVIOUS
  <2>3. x \in Stations /\ At(p, x)
    BY <2>1, <2>2, StationKinds, PlaceKinds
  <2>4. Area(x) = w /\ Stage(x) = IF c = "plain" THEN 1 ELSE 3
    BY <2>2, StationKinds
  <2>5. Line(x) = queue[w][c]
    BY <2>2 DEF Line
  <2>. QED
    BY <2>3, <2>4, <2>5
<1>8. ASSUME NEW w \in Workers, NEW s,
             s = (IF t \in ToSet(Chain[w]) THEN kept[t] ELSE <<>>),
             NEW j \in DOMAIN s, s[j] = p
      PROVE  \E x \in Stations : At(p, x) /\ Area(x) = w /\ Line(x) = s /\ Stage(x) = 2
  <2>1. t \in ToSet(Chain[w]) /\ s = kept[t]
    BY <1>8
  <2>2. t \in Taps
    <3>1. t \in Modules
      BY <2>1 DEF Modules
    <3>. QED
      BY <3>1, NullAssumption
  <2>3. Home(t) = w /\ p \in ToSet(kept[t])
    BY <1>8, <2>1, HomeOfModule DEF ToSet
  <2>. QED
    BY <2>1, <2>2, <2>3, StationKinds, PlaceKinds
<1>9. "plain" \in Classes /\ "priority" \in Classes
  BY DEF Classes
<1>10. CASE n \in {1, 2, 3, 4}
  <2>1. CASE n = 1
    BY <1>1, <1>3, <1>4, <1>5, <1>6, <2>1
  <2>2. CASE n = 2
    BY <1>1, <1>3, <1>4, <1>5, <1>7, <1>9, <2>2
  <2>3. CASE n = 3
    <3>1. PICK s : s = Stop[o]
      OBVIOUS
    <3>2. k \in DOMAIN s /\ s[k] = p /\ Road(a, b, t)[n] = s
      BY <1>3, <1>4, <1>5, <2>3, <3>1
    <3>3. s = (IF t \in ToSet(Chain[o]) THEN kept[t] ELSE <<>>)
      BY <1>2, <3>1
    <3>4. \E x \in Stations : At(p, x) /\ Area(x) = o /\ Line(x) = s /\ Stage(x) = 2
      BY <1>8, <3>2, <3>3
    <3>. QED
      BY <1>1, <1>5, <2>3, <3>2, <3>4
  <2>4. CASE n = 4
    BY <1>1, <1>3, <1>4, <1>5, <1>7, <1>9, <2>4
  <2>. QED
    BY <1>10, <2>1, <2>2, <2>3, <2>4
<1>11. CASE n \in {5, 6, 7, 8}
  <2>1. CASE n = 5
    BY <1>1, <1>3, <1>4, <1>5, <1>6, <2>1
  <2>2. CASE n = 6
    BY <1>1, <1>3, <1>4, <1>5, <1>7, <1>9, <2>2
  <2>3. CASE n = 7
    <3>1. PICK s : s = Stop[i]
      OBVIOUS
    <3>2. k \in DOMAIN s /\ s[k] = p /\ Road(a, b, t)[n] = s
      BY <1>3, <1>4, <1>5, <2>3, <3>1
    <3>3. s = (IF t \in ToSet(Chain[i]) THEN kept[t] ELSE <<>>)
      BY <1>2, <3>1
    <3>4. \E x \in Stations : At(p, x) /\ Area(x) = i /\ Line(x) = s /\ Stage(x) = 2
      BY <1>8, <3>2, <3>3
    <3>. QED
      BY <1>1, <1>5, <2>3, <3>2, <3>4
  <2>4. CASE n = 8
    BY <1>1, <1>3, <1>4, <1>5, <1>7, <1>9, <2>4
  <2>. QED
    BY <1>11, <2>1, <2>2, <2>3, <2>4
<1>. QED
  BY <1>5, <1>10, <1>11

LEMMA InjectiveLines ==
    ASSUME IInv, NEW x \in Stations, Stage(x) < 4
    PROVE  IsInjective(Line(x))
<1>1. CASE \E w \in Workers, c \in Classes : x = <<"queue", w, c>>
  <2>1. PICK w \in Workers, c \in Classes : x = <<"queue", w, c>>
    BY <1>1
  <2>2. Line(x) = queue[w][c]
    BY <2>1, StationKinds
  <2>. QED
    BY <2>2 DEF IInv, PlaceInv
<1>2. CASE \E w \in Workers : x = <<"worker", w, NoModule>>
  <2>1. Stage(x) = 4
    BY <1>2, StationKinds
  <2>. QED
    BY <2>1
<1>3. CASE \E t \in Taps : x = <<"tap", t, NoModule>>
  <2>1. PICK t \in Taps : x = <<"tap", t, NoModule>>
    BY <1>3
  <2>2. Line(x) = kept[t]
    BY <2>1, StationKinds
  <2>. QED
    BY <2>2 DEF IInv, PlaceInv
<1>. QED
  BY <1>1, <1>2, <1>3, StationKinds

\* A packet that is ahead of another stands before it on every road.
LEMMA AheadOnRoad ==
    ASSUME IInv, NEW a \in Adapters, NEW b \in Adapters, NEW t \in Taps \cup {NoModule},
           NEW p \in Packets, NEW q \in Packets, p # q,
           \A x, y \in Stations : At(p, x) /\ At(q, y) => Ahead(p, x, q, y),
           NEW m \in DOMAIN Road(a, b, t), NEW k \in DOMAIN Road(a, b, t)[m],
           NEW n \in DOMAIN Road(a, b, t), NEW l \in DOMAIN Road(a, b, t)[n],
           Road(a, b, t)[m][k] = p, Road(a, b, t)[n][l] = q
    PROVE  m < n \/ (m = n /\ k < l)
<1>0. Typed
  BY DEF IInv
<1>1. PICK x \in Stations : /\ At(p, x) /\ m \in 1..8
                            /\ Area(x) = (IF m <= 4 THEN <<b, "out">> ELSE <<a, "in">>)
                            /\ Stage(x) = (IF m <= 4 THEN 5 - m ELSE 9 - m)
                            /\ Stage(x) < 4 => Line(x) = Road(a, b, t)[m]
  BY <1>0, RoadPlaces
<1>2. PICK y \in Stations : /\ At(q, y) /\ n \in 1..8
                            /\ Area(y) = (IF n <= 4 THEN <<b, "out">> ELSE <<a, "in">>)
                            /\ Stage(y) = (IF n <= 4 THEN 5 - n ELSE 9 - n)
                            /\ Stage(y) < 4 => Line(y) = Road(a, b, t)[n]
  BY <1>0, RoadPlaces
<1>3. Ahead(p, x, q, y)
  BY <1>1, <1>2
<1>4. CASE m <= 4 /\ n > 4
  BY <1>1, <1>2, <1>4
<1>5. CASE m > 4 /\ n <= 4
  <2>1. Area(x) = <<a, "in">> /\ Area(y) = <<b, "out">>
    BY <1>1, <1>2, <1>5
  <2>2. Area(x)[2] = "in" /\ Area(y)[2] = "out"
    BY <2>1
  <2>. QED
    BY <1>3, <2>2 DEF Ahead
<1>6. CASE (m <= 4) = (n <= 4)
  <2>1. Area(x) = Area(y)
    BY <1>1, <1>2, <1>6
  <2>2. Stage(x) > Stage(y) \/ (x = y /\ Before(Line(x), p, q))
    BY <1>3, <2>1 DEF Ahead
  <2>3. CASE Stage(x) > Stage(y)
    BY <1>1, <1>2, <1>6, <2>3
  <2>4. CASE x = y /\ Before(Line(x), p, q)
    <3>1. m = n
      BY <1>1, <1>2, <1>6, <2>4
    <3>2. Stage(x) < 4
      <4>1. Stage(x) # 4
        BY <1>1, <1>2, <2>4, AtStation
      <4>. QED
        BY <4>1, StationStages
    <3>3. PICK s : s = Line(x)
      OBVIOUS
    <3>4. IsInjective(s) /\ s = Road(a, b, t)[m]
      BY <1>1, <3>2, <3>3, InjectiveLines
    <3>5. PICK i, j \in DOMAIN s : i < j /\ s[i] = p /\ s[j] = q
      BY <2>4, <3>3 DEF Before
    <3>6. i = k /\ j = l
      BY <3>1, <3>4, <3>5 DEF IsInjective
    <3>. QED
      BY <3>1, <3>5, <3>6
  <2>. QED
    BY <2>2, <2>3, <2>4
<1>. QED
  BY <1>1, <1>2, <1>4, <1>5, <1>6

\* Two packets one adapter captured that stopped at the same taps never change
\* places on their way through the two chains, whatever the chains are and
\* however many packets pass: a packet that resumes after a tap waits in the
\* priority queue behind those that resumed earlier (addInputQueue,
\* addOutputQueue), and the threads look at that queue before the plain one
\* (Thread_Process, Thread_Output).
THEOREM NoPacketOvertakes == Spec => []NoOvertaking
<1>1. Init => IInv /\ OrderInv /\ WayInv
  <2>. SUFFICES ASSUME Init
                PROVE  OrderInv /\ WayInv
    BY InitInv
  <2>1. OrderInv
    BY InitOrder
  <2>2. \A p \in Packets : p \in free
    BY DEF Init
  <2>3. \A p \in Packets : \A x \in Stations : ~ At(p, x)
    BY <2>2, InitInv, AtStation
  <2>4. \A a \in Adapters : \A p, q \in Packets : <<p, q>> \notin arrivals[a]
    BY DEF Init
  <2>5. LaneInv /\ RoadInv
    <3>1. arrivals \in [Adapters -> SUBSET (Packets \X Packets)]
      BY DEF Init
    <3>. QED
      BY <2>4, <3>1 DEF LaneInv, RoadInv
  <2>6. WithinInv
    BY <2>3 DEF WithinInv
  <2>7. StopInv
    <3>1. ToSet(<<>>) = {}
      BY DEF ToSet
    <3>2. \A t \in Taps : ToSet(kept[t]) = {}
      BY <3>1 DEF Init
    <3>3. \A w \in Workers : ToSet(queue[w]["priority"]) = {}
      BY <3>1 DEF Init, Classes
    <3>. QED
      BY <3>2, <3>3 DEF StopInv
  <2>. QED
    BY <2>1, <2>5, <2>6, <2>7 DEF WayInv
<1>2. IInv /\ OrderInv /\ WayInv /\ [Next]_vars => IInv' /\ OrderInv' /\ WayInv'
  BY Inductive, OrderInductive, WayInductive
<1>3. IInv /\ WayInv => NoOvertaking
  <2>. SUFFICES ASSUME IInv, WayInv, NEW a \in Adapters, NEW b \in Adapters,
                       NEW t \in Taps \cup {NoModule}, NEW p \in Packets, NEW q \in Packets,
                       <<p, q>> \in arrivals[a], p # q, StoppedAt(p) = StoppedAt(q),
                       NEW m \in DOMAIN Road(a, b, t), NEW n \in DOMAIN Road(a, b, t),
                       NEW k \in DOMAIN Road(a, b, t)[m], NEW l \in DOMAIN Road(a, b, t)[n],
                       Road(a, b, t)[m][k] = p, Road(a, b, t)[n][l] = q
                PROVE  m < n \/ (m = n /\ k < l)
    BY DEF NoOvertaking
  <2>1. \A x, y \in Stations : At(p, x) /\ At(q, y) => Ahead(p, x, q, y)
    BY DEF WayInv, RoadInv, Precedes
  <2>. QED
    BY <2>1, AheadOnRoad
<1>. QED
  BY <1>1, <1>2, <1>3, PTL DEF Spec

=============================================================================
